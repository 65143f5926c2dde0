------------------------------- MODULE CmdRpc -------------------------------
(***************************************************************************)
(* What the command channel promises a caller: a call ends with an answer  *)
(* only if the device received this very command after the call began, and *)
(* a call may end without an answer whether or not the device received it. *)
(***************************************************************************)
CONSTANT Callers

VARIABLES
  call,    \* "idle", "called", or "executed" once the device has the command
  answer   \* the caller holds an answer

Init ==
  /\ call = [c \in Callers |-> "idle"]
  /\ answer = [c \in Callers |-> FALSE]

Call(c) ==
  /\ call[c] = "idle"
  /\ call' = [call EXCEPT ![c] = "called"]
  /\ UNCHANGED answer

Execute(c) ==
  /\ call[c] = "called"
  /\ call' = [call EXCEPT ![c] = "executed"]
  /\ UNCHANGED answer

Answer(c) ==
  /\ call[c] = "executed"
  /\ answer' = [answer EXCEPT ![c] = TRUE]
  /\ UNCHANGED call

Return(c) ==
  /\ call[c] # "idle"
  /\ call' = [call EXCEPT ![c] = "idle"]
  /\ answer' = [answer EXCEPT ![c] = FALSE]

Next == \E c \in Callers : Call(c) \/ Execute(c) \/ Answer(c) \/ Return(c)

Spec == Init /\ [][Next]_<<call, answer>>
=============================================================================
