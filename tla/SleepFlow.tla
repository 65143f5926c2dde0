----------------------------- MODULE SleepFlow ------------------------------
(***************************************************************************)
(* Who sets and who clears HGIC_BUS_FLAGS_SLEEP.                           *)
(*                                                                         *)
(* The iwpriv handler "sleep" (utils/iwpriv.c) and the power management    *)
(* callbacks (hgic_fmac/core.c) send ENTER_SLEEP commands; tx_work sets    *)
(* the flag when it has sent one, and drops everything while it is set;    *)
(* the completion of a failed frame, a failed command and a wake-up clear  *)
(* it.  The command channel is FwCtrl's, reduced to calls: an answer       *)
(* reaches the call it belongs to while that call waits, and the call may  *)
(* time out at any moment, whatever became of its command.                 *)
(***************************************************************************)
EXTENDS Naturals, Sequences

CONSTANTS
  Users,     \* writers of the iwpriv entry
  UsePm,     \* the power management callbacks are called
  Types,     \* the sleep types the users ask for, 16 bits
  TxqMax,    \* the 4 of hgic_fwctrl_send_data
  MayRefuse, \* the module may refuse to sleep
  MayFail,   \* the bus may fail
  MaxCalls   \* bound on the number of calls

ASSUME TypesAssumption  == Types \subseteq 1 .. 2^16 - 1
ASSUME FlagsAssumption  == {UsePm, MayRefuse, MayFail} \subseteq BOOLEAN
ASSUME CallsAssumption  == MaxCalls \in Nat /\ TxqMax \in Nat

Callers == Users \cup {"pm" : x \in {UsePm} \cap {TRUE}}

VARIABLES
  flag,      \* HGIC_BUS_FLAGS_SLEEP
  at,        \* where each caller is
  want,      \* the sleep type of its last command, 0 to wake up
  no,        \* the number of its last call
  ans,       \* what the module made of the command: "none" yet, "obeyed" and
             \* not yet answered, "ok" or "fail"
  txq,       \* ctrl->txq: the commands queued, [by, no, type]
  mark,      \* tx_work is between tx_packet and set_bit of this sleep_cmd
  air,       \* the commands the bus is carrying
  system,    \* the host is suspended
  calls,     \* calls so far
  sole,      \* history: the caller of the last call, if no other was open
             \* then, it has not failed, and no command was reported failed
  rest,      \* history: the callers whose last call is to sleep, was not
             \* refused and not given up before the module obeyed, and since
             \* when nobody has begun to wake the module and no command was
             \* reported failed
  leak       \* history: for such calls whose command the module had obeyed
             \* when data was sent their type and whether they were the sole
             \* one

hist == <<sole, rest, leak>>
vars == <<flag, at, want, no, ans, txq, mark, air, system, calls, hist>>

NoMark == 2^16

-----------------------------------------------------------------------------

(* hgic_is_enter_sleep returns the 16-bit type, sleep_cmd is a u8.         *)
SleepCmd(t) == t % 2^8

Begin(c, p, t) ==
  /\ at[c] = "idle" /\ calls < MaxCalls
  /\ calls' = calls + 1
  /\ at' = [at EXCEPT ![c] = p]
  /\ want' = [want EXCEPT ![c] = t]
  /\ no' = [no EXCEPT ![c] = calls + 1]
  /\ ans' = [ans EXCEPT ![c] = "none"]
  /\ leak' = leak

NowSole(c) == sole' = IF \A d \in Callers \ {c} : at[d] = "idle" THEN {c} ELSE {}

(* User space is frozen while the power management callbacks run.          *)
NotFrozen == ~system /\ ("pm" \in Callers => at["pm"] = "idle")

(* hgic_iwpriv_enter_sleep: with a type, only if the flag is clear; with   *)
(* 0, only if it is set, and then it is cleared first.                     *)
UserSleep(c, t) ==
  /\ c \in Users /\ ~flag /\ NotFrozen
  /\ Begin(c, "queue", t)
  /\ NowSole(c) /\ rest' = rest \cup {c}
  /\ UNCHANGED <<flag, txq, mark, air, system>>

UserWake(c) ==
  /\ c \in Users /\ flag /\ NotFrozen
  /\ Begin(c, "queue", 0)
  /\ flag' = FALSE
  /\ NowSole(c) /\ rest' = {}
  /\ UNCHANGED <<txq, mark, air, system>>

(* hgicf_core_suspend and hgicf_core_resume.  With the flag set, suspend   *)
(* has nothing to do.                                                      *)
PmSuspend ==
  /\ "pm" \in Callers /\ ~system /\ \A c \in Users : at[c] = "idle"
  /\ Begin("pm", IF flag THEN "done" ELSE "queue", 1)
  /\ system' = flag
  /\ IF flag THEN UNCHANGED <<sole, rest>> ELSE NowSole("pm") /\ rest' = rest \cup {"pm"}
  /\ UNCHANGED <<flag, txq, mark, air>>

PmResume ==
  /\ "pm" \in Callers /\ system
  /\ Begin("pm", "queue", 0)
  /\ flag' = FALSE
  /\ system' = FALSE
  /\ NowSole("pm") /\ rest' = {}
  /\ UNCHANGED <<txq, mark, air>>

(* hgic_fwctrl_enter_sleep: the command is queued and waited for; a full   *)
(* queue loses its first frame.                                            *)
Enqueue(c) ==
  /\ at[c] = "queue"
  /\ txq' = Append(IF Len(txq) > TxqMax THEN Tail(txq) ELSE txq,
                   [by |-> c, no |-> no[c], type |-> want[c]])
  /\ at' = [at EXCEPT ![c] = "wait"]
  /\ UNCHANGED <<flag, want, no, ans, mark, air, system, calls, hist>>

(* The call ends with the module's answer ...                              *)
Fails(c) == at' = [at EXCEPT ![c] = IF want[c] = 0 THEN "done" ELSE "clear"]

Finish(c) ==
  /\ at[c] = "wait"
  /\ \/ /\ ans[c] = "ok"
        /\ at' = [at EXCEPT ![c] = "done"]
        /\ system' = (system \/ (c = "pm" /\ want[c] # 0))
        /\ UNCHANGED <<sole, rest>>
     \/ /\ ans[c] = "fail" /\ Fails(c)
        /\ sole' = sole \ {c} /\ rest' = rest \ {c}
        /\ UNCHANGED system
  /\ UNCHANGED <<flag, want, no, ans, txq, mark, air, calls, leak>>

\* Mutant: a caller does not give up before the module has seen its command.
ExpiresIfSeen(c) == at[c] = "wait" /\ ans[c] = "obeyed"

(* ... or after the timeout: the command, or its answer, is lost or late.  *)
(* An answer that is there when the call leaves the list is still used.    *)
Expires(c) == at[c] = "wait" /\ ans[c] \in {"none", "obeyed"}

GiveUp(c) ==
  /\ Expires(c) /\ Fails(c)
  /\ sole' = sole \ {c}
  /\ rest' = IF ans[c] = "obeyed" THEN rest ELSE rest \ {c}
  /\ UNCHANGED <<flag, want, no, ans, txq, mark, air, system, calls, leak>>

(* The iwpriv handler clears the flag when the command failed; the power   *)
(* management callback only returns the error.                             *)
ClearFlag(c) ==
  /\ at[c] = "clear"
  /\ flag' = (flag /\ c = "pm")
  /\ at' = [at EXCEPT ![c] = "failed"]
  /\ UNCHANGED <<want, no, ans, txq, mark, air, system, calls, hist>>

ReturnCall(c) ==
  /\ at[c] \in {"done", "failed"}
  /\ at' = [at EXCEPT ![c] = "idle"]
  /\ UNCHANGED <<flag, want, no, ans, txq, mark, air, system, calls, hist>>

CallerStep(c) ==
  \/ \E t \in Types : UserSleep(c, t)
  \/ UserWake(c) \/ Enqueue(c) \/ Finish(c) \/ GiveUp(c) \/ ClearFlag(c) \/ ReturnCall(c)

-----------------------------------------------------------------------------
(* tx_work.  A set flag empties the queue.                                 *)
txrest == <<at, want, no, ans, system, calls, sole, rest>>

TxDrop ==
  /\ mark = NoMark /\ txq # <<>> /\ flag
  /\ txq' = <<>>
  /\ UNCHANGED <<flag, mark, air, leak, txrest>>

(* hgicf_tx_ctrl_frm: tx_packet takes the frame ...                        *)
TxSend ==
  /\ mark = NoMark /\ txq # <<>> /\ ~flag
  /\ txq' = Tail(txq)
  /\ air' = air \cup {Head(txq)}
  /\ mark' = SleepCmd(Head(txq).type)
  /\ UNCHANGED <<flag, leak, txrest>>

(* ... or fails, and hgicf_tx_complete clears the flag.                    *)
TxFail ==
  /\ MayFail /\ mark = NoMark /\ txq # <<>> /\ ~flag
  /\ txq' = Tail(txq)
  /\ flag' = FALSE
  /\ UNCHANGED <<mark, air, leak, txrest>>

\* Mutant: the flag is only set once the command was answered.
MarkOnlyAnswered == flag' = (flag \/ \E c \in Callers : ans[c] = "ok")

MarkSleep == flag' = (flag \/ mark # 0)

(* The worker may be preempted here for as long as it takes the module to  *)
(* answer and the callers to go on.                                        *)
TxMark ==
  /\ mark # NoMark
  /\ MarkSleep
  /\ mark' = NoMark
  /\ UNCHANGED <<txq, air, leak, txrest>>

(* The data half: a frame leaves while the flag is clear.                  *)
Asleep == {c \in rest : ans[c] \in {"obeyed", "ok"}}

TxData ==
  /\ mark = NoMark /\ txq = <<>> /\ ~flag
  /\ leak' = leak \cup {[type |-> want[c], alone |-> c \in sole] : c \in Asleep}
  /\ UNCHANGED <<flag, txq, mark, air, txrest>>

TxStep == TxDrop \/ TxSend \/ TxFail \/ TxMark \/ TxData

-----------------------------------------------------------------------------
(* The bus and the module.  An asynchronous bus may report the failure of  *)
(* a command later, and hgicf_tx_complete then clears the flag.            *)
BusFail(f) ==
  /\ f \in air /\ MayFail
  /\ air' = air \ {f}
  /\ flag' = FALSE
  /\ sole' = {} /\ rest' = {}
  /\ UNCHANGED <<at, want, no, ans, txq, mark, system, calls, leak>>

Awaited(f) == at[f.by] = "wait" /\ no[f.by] = f.no

ModuleObeys(f) ==
  /\ f \in air
  /\ air' = air \ {f}
  /\ ans' = IF Awaited(f) THEN [ans EXCEPT ![f.by] = "obeyed"] ELSE ans
  /\ UNCHANGED <<flag, at, want, no, txq, mark, system, calls, hist>>

(* The answer of a module that obeyed takes its time, or is lost.          *)
ModuleAnswers(c) ==
  /\ at[c] = "wait" /\ ans[c] = "obeyed"
  /\ ans' = [ans EXCEPT ![c] = "ok"]
  /\ UNCHANGED <<flag, at, want, no, txq, mark, air, system, calls, hist>>

ModuleRefuses(f) ==
  /\ f \in air /\ MayRefuse /\ f.type # 0
  /\ air' = air \ {f}
  /\ ans' = IF Awaited(f) THEN [ans EXCEPT ![f.by] = "fail"] ELSE ans
  /\ UNCHANGED <<flag, at, want, no, txq, mark, system, calls, hist>>

-----------------------------------------------------------------------------
Init ==
  /\ flag = FALSE
  /\ at = [c \in Callers |-> "idle"]
  /\ want = [c \in Callers |-> 0]
  /\ no = [c \in Callers |-> 0]
  /\ ans = [c \in Callers |-> "none"]
  /\ txq = <<>> /\ mark = NoMark /\ air = {}
  /\ system = FALSE /\ calls = 0
  /\ sole = {} /\ rest = {} /\ leak = {}

Next ==
  \/ \E c \in Callers : CallerStep(c) \/ ModuleAnswers(c)
  \/ PmSuspend \/ PmResume \/ TxStep
  \/ \E f \in air : BusFail(f) \/ ModuleObeys(f) \/ ModuleRefuses(f)

Spec == Init /\ [][Next]_vars

(* tx_work runs while something is queued, and a caller that waits in vain *)
(* times out; the bus and the module owe nothing.                          *)
FairSpec ==
  /\ Spec
  /\ \A c \in Callers :
       /\ WF_vars(Enqueue(c)) /\ WF_vars(Finish(c) \/ GiveUp(c)) /\ WF_vars(ClearFlag(c))
       /\ WF_vars(ReturnCall(c))
  /\ WF_vars(TxDrop \/ TxSend \/ TxFail \/ TxMark)

-----------------------------------------------------------------------------
(* Properties.                                                             *)

(* Every variable has its type; in particular the sleep_cmd of tx_work is  *)
(* a byte.                                                                 *)
Commands == [by : Callers, no : Nat, type : Types \cup {0, 1}]

TypeOK ==
  /\ {flag, system} \subseteq BOOLEAN
  /\ at \in [Callers -> {"idle", "queue", "wait", "clear", "done", "failed"}]
  /\ want \in [Callers -> Types \cup {0, 1}]
  /\ no \in [Callers -> Nat]
  /\ ans \in [Callers -> {"none", "obeyed", "ok", "fail"}]
  /\ txq \in Seq(Commands) /\ air \subseteq Commands
  /\ mark \in 0 .. 255 \cup {NoMark}
  /\ calls \in 0 .. MaxCalls
  /\ sole \subseteq Callers /\ rest \subseteq Callers

(* From the moment the module obeys a sleep command the driver sends it no *)
(* data until the module may be awake again or a command is reported       *)
(* failed, wherever tx_work is preempted and whatever is left over from    *)
(* calls that gave up earlier, with three exceptions, which the code       *)
(* really has: the caller gave up on the command that was obeyed and so    *)
(* cleared the flag (iwpriv.c 819), another call had got past the test of  *)
(* the flag (iwpriv.c 814), and a type without a low byte (core.c 509).    *)
SleepHolds == \A l \in leak : l.alone => SleepCmd(l.type) = 0

(* A sleep command whose answer was a failure leaves the flag clear when   *)
(* its caller returns (the changelog, 2023/08/04).                         *)
FailureClears == \A c \in Callers : at[c] = "failed" /\ ans[c] = "fail" => ~flag

(* Every call returns, whether its command was refused, lost by the bus or *)
(* dropped from the queue because another command had set the flag.        *)
CallsReturn == \A c \in Callers : at[c] = "queue" ~> at[c] = "idle"
=============================================================================
