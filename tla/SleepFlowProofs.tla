-------------------------- MODULE SleepFlowProofs ---------------------------
(***************************************************************************)
(* The promise about HGIC_BUS_FLAGS_SLEEP, for any number of users, calls, *)
(* timeouts and failures.                                                  *)
(***************************************************************************)
EXTENDS SleepFlow, SequenceTheorems, TLAPS

-----------------------------------------------------------------------------
(* A command belongs to one call of its caller, and asks for what that     *)
(* call asked for, also when it is left over from a call that gave up.     *)
Belongs(f) == f.no <= calls /\ (f.no = no[f.by] => f.type = want[f.by])

Numbered ==
  /\ \A c \in Callers : no[c] <= calls
  /\ \A f \in air : Belongs(f)
  /\ \A i \in 1 .. Len(txq) : Belongs(txq[i])

(* The flag is set, or tx_work is about to set it.                         *)
FlagSure == flag \/ mark \notin {NoMark, 0}

(* The command of the caller's last call has been sent.                    *)
Sent(c) == ans[c] \in {"obeyed", "ok"} \/ \E f \in air : f.by = c /\ f.no = no[c]

(* While a call is the sole one nobody else is on the way to clear the     *)
(* flag, and once its sleep command is sent the flag is as good as set.    *)
SoleSafe(c) ==
  /\ \A d \in Callers : d # c => at[d] \in {"idle", "done"}
  /\ at[c] \notin {"clear", "failed"}
  /\ SleepCmd(want[c]) # 0 /\ Sent(c) => FlagSure

SInv == TypeOK /\ Numbered /\ (\A c \in sole : SoleSafe(c)) /\ SleepHolds

(* sleep_cmd is a byte, NoMark is none.                                    *)
LEMMA Bytes ==
  /\ NoMark \notin 0 .. 255
  /\ \A t \in Types \cup {0, 1} : t \in Nat /\ SleepCmd(t) \in 0 .. 255
  /\ SleepCmd(1) = 1 /\ SleepCmd(0) = 0
<1>1. NoMark = 65536
  BY DEF NoMark
<1>2. 2^16 - 1 = 65535 /\ 2^8 = 256
  OBVIOUS
<1>3. \A t \in Types \cup {0, 1} : t \in Nat
  <2>1. \A n \in Nat : Types \subseteq 1 .. n => \A t \in Types : t \in Nat
    OBVIOUS
  <2>2. 2^16 - 1 \in Nat
    OBVIOUS
  <2>3. \A t \in Types : t \in Nat
    BY <2>1, <2>2, TypesAssumption, Zenon
  <2>. QED BY <2>3
<1>4. \A t \in Nat : t % 256 \in 0 .. 255
  OBVIOUS
<1>5. 1 % 256 = 1 /\ 0 % 256 = 0
  OBVIOUS
<1>6. NoMark \notin 0 .. 255
  BY <1>1, SMT
<1>7. \A t : SleepCmd(t) = t % 256
  BY <1>2, SMT DEF SleepCmd
<1>. QED BY <1>3, <1>4, <1>5, <1>6, <1>7, SMT

(* The driver starts awake and with nothing to do.                         *)
LEMMA InitSInv == Init => SInv
<1>. SUFFICES ASSUME Init PROVE SInv
  OBVIOUS
<1>1. TypeOK
  <2>1. calls \in 0 .. MaxCalls
    BY CallsAssumption DEF Init
  <2>2. {flag, system} \subseteq BOOLEAN
    BY DEF Init
  <2>3. txq \in Seq(Commands)
    BY DEF Init
  <2>. QED BY <2>1, <2>2, <2>3 DEF Init, TypeOK
<1>2. Numbered
  <2>1. Len(txq) = 0
    BY DEF Init
  <2>. QED BY <2>1 DEF Init, Numbered
<1>3. (\A c \in sole : SoleSafe(c)) /\ SleepHolds
  BY DEF Init, SleepHolds
<1>. QED BY <1>1, <1>2, <1>3 DEF SInv

(* Every step keeps the types.                                             *)
LEMMA NextTypes == TypeOK /\ [Next]_vars => TypeOK'
<1>. SUFFICES ASSUME TypeOK, [Next]_vars PROVE TypeOK'
  OBVIOUS
<1>a. flag \in BOOLEAN /\ system \in BOOLEAN
  BY DEF TypeOK
<1>b. ASSUME NEW c \in Callers, NEW p \in {"queue", "done"}, NEW t \in Types \cup {0, 1},
             Begin(c, p, t)
      PROVE  /\ calls' \in 0 .. MaxCalls
             /\ at' \in [Callers -> {"idle", "queue", "wait", "clear", "done", "failed"}]
             /\ want' \in [Callers -> Types \cup {0, 1}]
             /\ no' \in [Callers -> Nat]
             /\ ans' \in [Callers -> {"none", "obeyed", "ok", "fail"}]
  <2>1. calls' \in 0 .. MaxCalls /\ calls + 1 \in Nat
    BY <1>b, CallsAssumption DEF Begin, TypeOK
  <2>. QED BY <1>b, <2>1 DEF Begin, TypeOK
<1>c. \A c \in Callers : NowSole(c) => sole' \subseteq Callers
  BY DEF NowSole
<1>1. ASSUME NEW c \in Callers, NEW t \in Types, UserSleep(c, t) PROVE TypeOK'
  <2>1. rest' \subseteq Callers /\ sole' \subseteq Callers
    BY <1>1, <1>c DEF UserSleep, TypeOK
  <2>. QED BY <1>1, <2>1, <1>b DEF UserSleep, TypeOK
<1>2. ASSUME NEW c \in Callers, UserWake(c) PROVE TypeOK'
  <2>1. rest' \subseteq Callers /\ sole' \subseteq Callers
    BY <1>2, <1>c DEF UserWake, TypeOK
  <2>2. {flag', system'} \subseteq BOOLEAN
    BY <1>2, <1>a DEF UserWake
  <2>. QED BY <1>2, <2>1, <2>2, <1>b DEF UserWake, TypeOK
<1>3. ASSUME NEW c \in Callers, Enqueue(c) PROVE TypeOK'
  <2>1. [by |-> c, no |-> no[c], type |-> want[c]] \in Commands
    BY DEF Commands, TypeOK
  <2>. DEFINE q == IF Len(txq) > TxqMax THEN Tail(txq) ELSE txq
  <2>2. q \in Seq(Commands)
    <3>1. txq \in Seq(Commands) /\ (Len(txq) > TxqMax => txq # <<>>)
      BY CallsAssumption DEF TypeOK
    <3>. QED BY <3>1
  <2>. HIDE DEF q
  <2>3. txq' \in Seq(Commands)
    <3>1. txq' = Append(q, [by |-> c, no |-> no[c], type |-> want[c]])
      BY <1>3 DEF Enqueue, q
    <3>. QED BY <2>1, <2>2, <3>1
  <2>. QED BY <1>3, <2>3 DEF Enqueue, hist, TypeOK
<1>4. ASSUME NEW c \in Callers, Finish(c) PROVE TypeOK'
  <2>1. system' \in BOOLEAN
    BY <1>4, <1>a DEF Finish
  <2>2. at' \in [Callers -> {"idle", "queue", "wait", "clear", "done", "failed"}]
    BY <1>4 DEF Finish, Fails, TypeOK
  <2>3. rest' \subseteq Callers /\ sole' \subseteq Callers
    BY <1>4 DEF Finish, TypeOK
  <2>. QED BY <1>4, <2>1, <2>2, <2>3 DEF Finish, TypeOK
<1>5. ASSUME NEW c \in Callers, GiveUp(c) PROVE TypeOK'
  BY <1>5 DEF GiveUp, Fails, TypeOK
<1>6. ASSUME NEW c \in Callers, ClearFlag(c) PROVE TypeOK'
  <2>1. {flag', system'} \subseteq BOOLEAN
    BY <1>6, <1>a DEF ClearFlag
  <2>. QED BY <1>6, <2>1 DEF ClearFlag, hist, TypeOK
<1>7. ASSUME NEW c \in Callers, ReturnCall(c) PROVE TypeOK'
  BY <1>7 DEF ReturnCall, hist, TypeOK
<1>8. CASE PmSuspend
  <2>1. rest' \subseteq Callers /\ sole' \subseteq Callers
    BY <1>8, <1>c DEF PmSuspend, TypeOK
  <2>2. \E p \in {"queue", "done"} : Begin("pm", p, 1)
    BY <1>8 DEF PmSuspend
  <2>. QED BY <1>8, <2>1, <2>2, <1>b DEF PmSuspend, TypeOK
<1>9. CASE PmResume
  <2>1. rest' \subseteq Callers /\ sole' \subseteq Callers
    BY <1>9, <1>c DEF PmResume, TypeOK
  <2>2. {flag', system'} \subseteq BOOLEAN
    BY <1>9, <1>a DEF PmResume
  <2>. QED BY <1>9, <2>1, <2>2, <1>b DEF PmResume, TypeOK
<1>10. CASE TxDrop
  BY <1>10 DEF TxDrop, txrest, TypeOK
<1>11. CASE TxSend
  <2>1. Head(txq) \in Commands /\ txq' \in Seq(Commands)
    BY <1>11 DEF TxSend, TypeOK
  <2>2. mark' \in 0 .. 255
    <3>1. Head(txq).type \in Types \cup {0, 1}
      BY <2>1 DEF Commands
    <3>. QED BY <1>11, <3>1, Bytes, Zenon DEF TxSend
  <2>. QED BY <1>11, <2>1, <2>2 DEF TxSend, txrest, TypeOK
<1>12. CASE TxFail
  <2>1. {flag', system'} \subseteq BOOLEAN
    BY <1>12, <1>a DEF TxFail, txrest
  <2>. QED BY <1>12, <2>1 DEF TxFail, txrest, TypeOK
<1>13. CASE TxMark
  <2>1. {flag', system'} \subseteq BOOLEAN
    BY <1>13, <1>a DEF TxMark, MarkSleep, txrest
  <2>. QED BY <1>13, <2>1 DEF TxMark, txrest, TypeOK
<1>14. CASE TxData
  BY <1>14 DEF TxData, txrest, TypeOK
<1>15. ASSUME NEW f \in air, BusFail(f) PROVE TypeOK'
  <2>1. {flag', system'} \subseteq BOOLEAN
    BY <1>15, <1>a DEF BusFail
  <2>. QED BY <1>15, <2>1 DEF BusFail, TypeOK
<1>16. ASSUME NEW f \in air, ModuleObeys(f) PROVE TypeOK'
  BY <1>16 DEF ModuleObeys, hist, TypeOK
<1>17. ASSUME NEW f \in air, ModuleRefuses(f) PROVE TypeOK'
  BY <1>17 DEF ModuleRefuses, hist, TypeOK
<1>18. CASE UNCHANGED vars
  BY <1>18 DEF vars, hist, TypeOK
<1>19. ASSUME NEW c \in Callers, ModuleAnswers(c) PROVE TypeOK'
  BY <1>19 DEF ModuleAnswers, hist, TypeOK
<1>. QED
  BY <1>1, <1>2, <1>3, <1>4, <1>5, <1>6, <1>7, <1>8, <1>9, <1>10,
     <1>11, <1>12, <1>13, <1>14, <1>15, <1>16, <1>17, <1>18, <1>19
  DEF Next, CallerStep, TxStep

(* Every step keeps the numbers of the commands.                           *)
LEMMA NextNumbered == TypeOK /\ Numbered /\ [Next]_vars => Numbered'
<1>. SUFFICES ASSUME TypeOK, Numbered, [Next]_vars PROVE Numbered'
  OBVIOUS
<1>a. TypeOK'
  BY NextTypes
<1>b. /\ calls \in Nat /\ no \in [Callers -> Nat] /\ want \in [Callers -> Types \cup {0, 1}]
      /\ txq \in Seq(Commands) /\ txq' \in Seq(Commands)
      /\ \A f \in air : f \in Commands
      /\ \A i \in 1 .. Len(txq) : txq[i] \in Commands
  BY <1>a, CallsAssumption DEF TypeOK
<1>c. \A f \in Commands : f.by \in Callers /\ f.no \in Nat
  BY DEF Commands
<1>1. ASSUME NEW c \in Callers, NEW p, NEW t, Begin(c, p, t), UNCHANGED <<txq, air>>
      PROVE  Numbered'
  <2>1. /\ calls' = calls + 1 /\ no'[c] = calls + 1
        /\ \A d \in Callers : d # c => no'[d] = no[d] /\ want'[d] = want[d]
    BY <1>1, <1>b DEF Begin
  <2>2. ASSUME NEW f \in Commands, Belongs(f) PROVE Belongs(f)'
    BY <2>1, <2>2, <1>b, <1>c DEF Belongs
  <2>3. \A d \in Callers : no'[d] <= calls'
    BY <2>1, <1>b DEF Numbered
  <2>. QED BY <1>1, <1>b, <2>2, <2>3 DEF Numbered
<1>2. ASSUME UNCHANGED <<calls, no, want>>,
             \A f \in air' : Belongs(f),
             \A i \in 1 .. Len(txq') : Belongs(txq'[i])
      PROVE  Numbered'
  BY <1>2 DEF Numbered, Belongs
<1>3. ASSUME txq # <<>>
      PROVE  /\ Belongs(Head(txq)) /\ \A i \in 1 .. Len(Tail(txq)) : Belongs(Tail(txq)[i])
  <2>1. 1 \in 1 .. Len(txq) /\ Head(txq) = txq[1]
    BY <1>3, <1>b, EmptySeq
  <2>2. \A i \in 1 .. Len(Tail(txq)) : i + 1 \in 1 .. Len(txq) /\ Tail(txq)[i] = txq[i + 1]
    BY <1>3, <1>b
  <2>. QED BY <2>1, <2>2 DEF Numbered
<1>4. CASE \E c \in Callers : \E p, t : Begin(c, p, t) /\ UNCHANGED <<txq, air>>
  BY <1>1, <1>4
<1>5. ASSUME NEW c \in Callers, Enqueue(c) PROVE Numbered'
  <2>. DEFINE q == IF Len(txq) > TxqMax THEN Tail(txq) ELSE txq
              x == [by |-> c, no |-> no[c], type |-> want[c]]
  <2>1. q \in Seq(Commands) /\ \A i \in 1 .. Len(q) : Belongs(q[i])
    <3>1. Len(txq) > TxqMax => txq # <<>>
      BY CallsAssumption
    <3>2. CASE Len(txq) > TxqMax
      <4>1. q = Tail(txq) /\ txq # <<>>
        BY <3>1, <3>2
      <4>. QED BY <4>1, <1>3, <1>b
    <3>3. CASE ~(Len(txq) > TxqMax)
      <4>1. q = txq
        BY <3>3
      <4>. QED BY <4>1, <1>b DEF Numbered
    <3>. QED BY <3>2, <3>3
  <2>2. Belongs(x) /\ x \in Commands
    BY <1>b DEF Belongs, Numbered, Commands
  <2>3. txq' = Append(q, x)
    BY <1>5 DEF Enqueue
  <2>. HIDE DEF q, x
  <2>4. \A i \in 1 .. Len(txq') : txq'[i] = x \/ (i \in 1 .. Len(q) /\ txq'[i] = q[i])
    BY <2>1, <2>2, <2>3
  <2>5. \A i \in 1 .. Len(txq') : Belongs(txq'[i])
    BY <2>1, <2>2, <2>4
  <2>. QED BY <1>5, <1>2, <2>5 DEF Enqueue, Numbered
<1>6. CASE txq' = <<>> /\ UNCHANGED <<air, calls, no, want>>
  <2>1. Len(txq') = 0
    BY <1>6
  <2>. QED BY <1>6, <1>2, <2>1 DEF Numbered
<1>7. CASE TxSend \/ TxFail
  <2>1. /\ txq # <<>> /\ txq' = Tail(txq) /\ air' \subseteq air \cup {Head(txq)}
        /\ UNCHANGED <<calls, no, want>>
    BY <1>7 DEF TxSend, TxFail, txrest
  <2>. QED BY <1>2, <1>3, <2>1 DEF Numbered
<1>8. CASE air' \subseteq air /\ UNCHANGED <<txq, calls, no, want>>
  <2>1. \A i \in 1 .. Len(txq') : Belongs(txq'[i])
    BY <1>8 DEF Numbered
  <2>. QED BY <1>8, <1>2, <2>1 DEF Numbered
<1>9. /\ \A c \in Callers, t \in Types :
           UserSleep(c, t) => Begin(c, "queue", t) /\ UNCHANGED <<txq, air>>
      /\ \A c \in Callers : UserWake(c) => Begin(c, "queue", 0) /\ UNCHANGED <<txq, air>>
      /\ PmSuspend => /\ "pm" \in Callers
                      /\ Begin("pm", IF flag THEN "done" ELSE "queue", 1)
                      /\ UNCHANGED <<txq, air>>
      /\ PmResume => "pm" \in Callers /\ Begin("pm", "queue", 0) /\ UNCHANGED <<txq, air>>
  BY DEF UserSleep, UserWake, PmSuspend, PmResume
<1>10. \A c \in Callers :
         Finish(c) \/ GiveUp(c) \/ ClearFlag(c) \/ ReturnCall(c) \/ ModuleAnswers(c)
           => UNCHANGED <<air, txq, calls, no, want>>
  BY DEF Finish, GiveUp, ClearFlag, ReturnCall, ModuleAnswers
<1>11. TxDrop => txq' = <<>> /\ UNCHANGED <<air, calls, no, want>>
  BY DEF TxDrop, txrest
<1>12. TxMark \/ TxData \/ UNCHANGED vars => UNCHANGED <<air, txq, calls, no, want>>
  BY DEF TxMark, TxData, txrest, vars
<1>13. \A f \in air : BusFail(f) \/ ModuleObeys(f) \/ ModuleRefuses(f)
                      => air' \subseteq air /\ UNCHANGED <<txq, calls, no, want>>
  BY DEF BusFail, ModuleObeys, ModuleRefuses
<1>. QED
  BY <1>4, <1>5, <1>6, <1>7, <1>8, <1>9, <1>10, <1>11, <1>12, <1>13
  DEF Next, CallerStep, TxStep

(* What a step must show of the state it leads to.                         *)
Rests == (\A c \in sole : SoleSafe(c)) /\ SleepHolds

(* Every step keeps the sole caller's flag, and with it the module's rest. *)
LEMMA NextRests == SInv /\ [Next]_vars => Rests'
<1>. SUFFICES ASSUME SInv, [Next]_vars PROVE Rests'
  OBVIOUS
<1>a. TypeOK /\ Numbered /\ Rests
  BY DEF SInv, Rests
<1>b. /\ at \in [Callers -> {"idle", "queue", "wait", "clear", "done", "failed"}]
      /\ want \in [Callers -> Types \cup {0, 1}] /\ no \in [Callers -> Nat]
      /\ ans \in [Callers -> {"none", "obeyed", "ok", "fail"}]
      /\ txq \in Seq(Commands) /\ sole \subseteq Callers /\ calls \in Nat
      /\ \A f \in air : f \in Commands
  BY <1>a, CallsAssumption DEF TypeOK
<1>c. \A f \in Commands : f.by \in Callers /\ f.no \in Nat /\ f.type \in Types \cup {0, 1}
  BY DEF Commands
<1>d. ASSUME sole' = {}, leak' = leak PROVE Rests'
  BY <1>a, <1>d DEF Rests, SleepHolds
<1>e. ASSUME NEW c \in Callers, at[c] \notin {"idle", "done"} PROVE sole \subseteq {c}
  BY <1>a, <1>b, <1>e DEF Rests, SoleSafe
<1>f. ASSUME NEW c \in Callers, at[c] \in {"clear", "failed"} PROVE sole = {}
  BY <1>a, <1>b, <1>e, <1>f DEF Rests, SoleSafe
<1>g. ASSUME NEW c \in Callers, NEW p, NEW t, Begin(c, p, t), UNCHANGED air
      PROVE  /\ ~Sent(c)' /\ at'[c] = p /\ leak' = leak
             /\ \A d \in Callers : d # c => /\ at'[d] = at[d] /\ want'[d] = want[d]
                                           /\ Sent(d)' = Sent(d)
  <2>1. /\ at'[c] = p /\ no'[c] = calls + 1 /\ ans'[c] = "none" /\ leak' = leak
        /\ \A d \in Callers : d # c => /\ at'[d] = at[d] /\ want'[d] = want[d]
                                      /\ no'[d] = no[d] /\ ans'[d] = ans[d]
    BY <1>g, <1>b DEF Begin
  <2>2. \A f \in air : f.no # calls + 1
    BY <1>a, <1>b, <1>c DEF Numbered, Belongs
  <2>3. ~Sent(c)'
    BY <2>1, <2>2, <1>g DEF Sent
  <2>4. ASSUME NEW d \in Callers, d # c PROVE Sent(d)' = Sent(d)
    BY <2>1, <2>4, <1>g DEF Sent
  <2>. QED BY <2>1, <2>3, <2>4
<1>h. ASSUME NEW c \in Callers, NEW t, Begin(c, "queue", t), NowSole(c), UNCHANGED air
      PROVE  Rests'
  <2>1. ~Sent(c)' /\ at'[c] = "queue" /\ leak' = leak
    BY <1>g, <1>h
  <2>2. CASE \A d \in Callers \ {c} : at[d] = "idle"
    <3>1. sole' = {c} /\ \A d \in Callers : d # c => at'[d] = "idle"
      BY <1>g, <1>h, <2>2 DEF NowSole
    <3>2. SoleSafe(c)'
      BY <2>1, <3>1 DEF SoleSafe
    <3>. QED BY <1>a, <2>1, <3>1, <3>2 DEF Rests, SleepHolds
  <2>3. CASE ~ \A d \in Callers \ {c} : at[d] = "idle"
    BY <1>d, <1>h, <2>1, <2>3 DEF NowSole
  <2>. QED BY <2>2, <2>3
<1>i. ASSUME UNCHANGED <<want, no, sole, leak>>,
             \A c \in sole : Sent(c)' /\ SleepCmd(want[c]) # 0 => FlagSure',
             \A c \in sole : /\ at'[c] \notin {"clear", "failed"}
                             /\ \A d \in Callers : d # c => at'[d] \in {"idle", "done"}
      PROVE  Rests'
  BY <1>a, <1>i DEF Rests, SleepHolds, SoleSafe
<1>j. \A c \in sole : /\ at[c] \notin {"clear", "failed"}
                      /\ \A d \in Callers : d # c => at[d] \in {"idle", "done"}
                      /\ Sent(c) /\ SleepCmd(want[c]) # 0 => FlagSure
  BY <1>a DEF Rests, SoleSafe
<1>1. ASSUME NEW c \in Callers, NEW t \in Types, UserSleep(c, t) PROVE Rests'
  BY <1>h, <1>1 DEF UserSleep
<1>2. ASSUME NEW c \in Callers, UserWake(c) PROVE Rests'
  BY <1>h, <1>2 DEF UserWake
<1>3. ASSUME NEW c \in Callers, Enqueue(c) PROVE Rests'
  <2>1. sole \subseteq {c} /\ UNCHANGED <<want, no, sole, leak>>
    BY <1>3, <1>e DEF Enqueue, hist
  <2>2. at'[c] = "wait" /\ \A d \in Callers : d # c => at'[d] = at[d]
    BY <1>3, <1>b DEF Enqueue
  <2>3. FlagSure' = FlagSure /\ \A d : Sent(d)' = Sent(d)
    BY <1>3 DEF Enqueue, FlagSure, Sent
  <2>. QED BY <1>i, <1>j, <2>1, <2>2, <2>3
<1>4. ASSUME NEW c \in Callers, Finish(c) PROVE Rests'
  <2>1. at[c] = "wait" /\ sole \subseteq {c} /\ UNCHANGED <<want, no, leak>>
    BY <1>4, <1>e DEF Finish
  <2>2. CASE ans[c] = "ok"
    <3>1. at' = [at EXCEPT ![c] = "done"] /\ sole' = sole
      BY <1>4, <2>2 DEF Finish
    <3>2. at'[c] = "done" /\ \A d \in Callers : d # c => at'[d] = at[d]
      BY <3>1, <1>b
    <3>3. FlagSure' = FlagSure /\ \A d : Sent(d)' = Sent(d)
      BY <1>4 DEF Finish, FlagSure, Sent
    <3>. QED BY <1>i, <1>j, <2>1, <3>1, <3>2, <3>3
  <2>3. CASE ans[c] # "ok"
    <3>1. sole' = {}
      BY <1>4, <2>1, <2>3 DEF Finish
    <3>. QED BY <1>d, <2>1, <3>1
  <2>. QED BY <2>2, <2>3
<1>5. ASSUME NEW c \in Callers, GiveUp(c) PROVE Rests'
  <2>1. sole \subseteq {c} /\ sole' = sole \ {c} /\ leak' = leak
    BY <1>5, <1>e DEF GiveUp, Expires
  <2>. QED BY <1>d, <2>1
<1>6. ASSUME NEW c \in Callers, ClearFlag(c) PROVE Rests'
  BY <1>6, <1>d, <1>f DEF ClearFlag, hist
<1>7. ASSUME NEW c \in Callers, ReturnCall(c) PROVE Rests'
  <2>1. UNCHANGED <<want, no, sole, leak>>
    BY <1>7 DEF ReturnCall, hist
  <2>2. at'[c] = "idle" /\ \A d \in Callers : d # c => at'[d] = at[d]
    BY <1>7, <1>b DEF ReturnCall
  <2>3. FlagSure' = FlagSure /\ \A d : Sent(d)' = Sent(d)
    BY <1>7 DEF ReturnCall, FlagSure, Sent
  <2>4. \A d \in sole : /\ at'[d] \notin {"clear", "failed"}
                        /\ \A e \in Callers : e # d => at'[e] \in {"idle", "done"}
    BY <1>b, <1>j, <2>2
  <2>. QED BY <1>i, <1>j, <2>1, <2>3, <2>4
<1>8. CASE PmSuspend
  <2>1. CASE ~flag
    BY <1>8, <1>h, <2>1 DEF PmSuspend
  <2>2. CASE flag
    <3>1. "pm" \in Callers /\ Begin("pm", "done", 1) /\ UNCHANGED <<air, sole, flag>>
      BY <1>8, <2>2 DEF PmSuspend
    <3>2. /\ ~Sent("pm")' /\ at'["pm"] = "done" /\ leak' = leak
          /\ \A d \in Callers : d # "pm" => at'[d] = at[d] /\ want'[d] = want[d]
      BY <1>g, <3>1
    <3>3. FlagSure'
      BY <2>2, <3>1 DEF FlagSure
    <3>4. ASSUME NEW c \in sole PROVE SoleSafe(c)'
      <4>1. \A d \in Callers : d # c => at'[d] \in {"idle", "done"}
        BY <1>b, <1>j, <3>2
      <4>2. at'[c] \notin {"clear", "failed"}
        BY <1>b, <1>j, <3>2
      <4>. QED BY <3>3, <4>1, <4>2 DEF SoleSafe
    <3>. QED BY <1>a, <3>1, <3>2, <3>4 DEF Rests, SleepHolds
  <2>. QED BY <2>1, <2>2
<1>9. CASE PmResume
  BY <1>9, <1>h DEF PmResume
<1>k. ASSUME UNCHANGED <<txrest, leak, air>>, FlagSure => FlagSure' PROVE Rests'
  <2>1. UNCHANGED <<at, want, no, ans, sole, leak, air>>
    BY <1>k DEF txrest
  <2>2. \A d : Sent(d)' = Sent(d)
    BY <2>1 DEF Sent
  <2>. QED BY <1>i, <1>j, <1>k, <2>1, <2>2
<1>10. CASE TxDrop \/ TxFail
  BY <1>10, <1>k DEF TxDrop, TxFail, FlagSure
<1>11. CASE TxSend
  <2>. DEFINE h == Head(txq)
  <2>1. /\ ~FlagSure /\ txq # <<>> /\ air' = air \cup {h} /\ mark' = SleepCmd(h.type)
        /\ UNCHANGED <<at, want, no, ans, sole, leak>>
    BY <1>11 DEF TxSend, txrest, FlagSure
  <2>2. h \in Commands /\ Belongs(h)
    <3>1. 1 \in 1 .. Len(txq) /\ h = txq[1]
      BY <2>1, <1>b, EmptySeq
    <3>. QED BY <3>1, <1>a, <1>b DEF Numbered
  <2>3. SleepCmd(h.type) # NoMark
    BY <2>2, <1>c, Bytes, Zenon
  <2>. HIDE DEF h
  <2>4. ASSUME NEW c \in sole, Sent(c)', SleepCmd(want[c]) # 0 PROVE FlagSure'
    <3>1. ~Sent(c)
      BY <1>j, <2>1, <2>4
    <3>2. h.by = c /\ h.no = no[c]
      BY <2>1, <2>4, <3>1 DEF Sent
    <3>3. h.type = want[c]
      BY <2>2, <3>2 DEF Belongs
    <3>. QED BY <2>1, <2>3, <2>4, <3>3 DEF FlagSure
  <2>. QED BY <1>i, <1>j, <2>1, <2>4
<1>12. CASE TxMark
  <2>1. FlagSure => FlagSure'
    BY <1>12 DEF TxMark, MarkSleep, FlagSure
  <2>. QED BY <1>12, <1>k, <2>1 DEF TxMark
<1>13. CASE TxData
  <2>1. /\ ~FlagSure /\ UNCHANGED <<flag, mark, air, at, want, no, ans, sole>>
        /\ leak' = leak \cup {[type |-> want[c], alone |-> c \in sole] : c \in Asleep}
    BY <1>13 DEF TxData, txrest, FlagSure
  <2>2. ASSUME NEW c \in Asleep, c \in sole PROVE SleepCmd(want[c]) = 0
    BY <1>j, <2>1, <2>2 DEF Asleep, Sent
  <2>3. ASSUME NEW l \in leak', l.alone PROVE SleepCmd(l.type) = 0
    <3>1. CASE l \in leak
      BY <1>a, <2>3, <3>1 DEF SleepHolds, Rests
    <3>2. CASE l \notin leak
      <4>1. PICK c \in Asleep : l = [type |-> want[c], alone |-> c \in sole]
        BY <2>1, <3>2, Zenon
      <4>2. l.type = want[c] /\ l.alone = (c \in sole)
        BY <4>1, Zenon
      <4>. QED BY <2>2, <2>3, <4>2, Zenon
    <3>. QED BY <3>1, <3>2
  <2>4. \A c \in sole : SoleSafe(c)'
    BY <1>j, <2>1 DEF SoleSafe, Sent, FlagSure
  <2>. QED BY <2>1, <2>3, <2>4 DEF Rests, SleepHolds
<1>14. ASSUME NEW f \in air, BusFail(f) PROVE Rests'
  BY <1>14, <1>d DEF BusFail
<1>15. ASSUME NEW f \in air, ModuleObeys(f) \/ ModuleRefuses(f) PROVE Rests'
  <2>1. air' = air \ {f} /\ UNCHANGED <<flag, mark, at, want, no, sole, leak>>
    BY <1>15 DEF ModuleObeys, ModuleRefuses, hist
  <2>2. ASSUME NEW c \in sole, Sent(c)' PROVE Sent(c)
    <3>1. CASE ans'[c] = "obeyed" /\ ans[c] # "obeyed"
      <4>1. f.by = c /\ no[f.by] = f.no
        BY <1>15, <1>b, <1>c, <3>1 DEF ModuleObeys, ModuleRefuses, Awaited
      <4>. QED BY <4>1 DEF Sent
    <3>2. CASE ~(ans'[c] = "obeyed" /\ ans[c] # "obeyed")
      <4>1. ans'[c] \in {"obeyed", "ok"} => ans[c] \in {"obeyed", "ok"}
        BY <1>15, <1>b, <1>c, <3>2 DEF ModuleObeys, ModuleRefuses
      <4>. QED BY <2>1, <2>2, <4>1 DEF Sent
    <3>. QED BY <3>1, <3>2
  <2>3. FlagSure' = FlagSure
    BY <2>1 DEF FlagSure
  <2>. QED BY <1>i, <1>j, <2>1, <2>2, <2>3
<1>16. CASE UNCHANGED vars
  BY <1>16, <1>k DEF vars, hist, txrest, FlagSure
<1>17. ASSUME NEW c \in Callers, ModuleAnswers(c) PROVE Rests'
  <2>1. UNCHANGED <<flag, mark, air, at, want, no, sole, leak>>
    BY <1>17 DEF ModuleAnswers, hist
  <2>2. \A d \in Callers : ans'[d] \in {"obeyed", "ok"} => ans[d] \in {"obeyed", "ok"}
    BY <1>17, <1>b DEF ModuleAnswers
  <2>3. FlagSure' = FlagSure /\ \A d \in Callers : Sent(d)' => Sent(d)
    BY <2>1, <2>2 DEF FlagSure, Sent
  <2>. QED BY <1>b, <1>i, <1>j, <2>1, <2>3
<1>. QED
  BY <1>1, <1>2, <1>3, <1>4, <1>5, <1>6, <1>7, <1>8, <1>9, <1>10,
     <1>11, <1>12, <1>13, <1>14, <1>15, <1>16, <1>17
  DEF Next, CallerStep, TxStep

(* From the moment the module obeys a sleep command whose sleep_cmd is not *)
(* 0 the driver sends it no data until the caller of the command gives up, *)
(* another call gets past its test of the flag, or a command is reported   *)
(* failed: for any number of users, calls, timeouts, refusals and          *)
(* failures, and wherever tx_work is preempted.                            *)
THEOREM SleepStaysQuiet == Spec => []SleepHolds
<1>1. SInv /\ [Next]_vars => SInv'
  BY NextTypes, NextNumbered, NextRests DEF SInv, Rests
<1>2. SInv => SleepHolds
  BY DEF SInv
<1>. QED BY <1>1, <1>2, InitSInv, PTL DEF Spec
=============================================================================
