-------------------------- MODULE HgicfCoreProofs ---------------------------
(***************************************************************************)
(* The invariants of a device's life, for every number of retries and      *)
(* resets and every kind of bus.                                           *)
(***************************************************************************)
EXTENDS HgicfCore, SequenceTheorems, TLAPS

-----------------------------------------------------------------------------
(* What the code's control flow keeps.                                     *)

Stages ==
  InitStages \cup {"idle", "info", "again", "requeue", "ask", "judge", "mark",
                   "reload", "end", "rearm", "test", "send", "failed"}

(* A loop is only entered with a try left.                                 *)
TryLeft ==
  /\ at["delay_init"] = "enter" => tries["delay_init"] > 0
  /\ at["detect_work"] = "ask" => tries["detect_work"] > 0

(* RUNNING is cleared where the removal begins, and never set again.       *)
RunningUntilRemove == running <=> rm = 0

TInv == TypeOK /\ at \in [Works -> Stages] /\ TryLeft /\ RunningUntilRemove

(* The two passes of hgicf_core_remove, position by position.              *)
LEMMA Passes ==
  /\ Drained = 21 /\ Gone = 22
  /\ \A p \in 1 .. 20 :
       Entry(p) = IF p \in {1, 2, 11, 12} THEN "timer"
                  ELSE IF p \in {3, 4, 13, 14} THEN "delay_init"
                  ELSE IF p \in {5, 6, 15, 16} THEN "detect_work"
                  ELSE IF p \in {7, 8, 17, 18} THEN "tx_work" ELSE "test_work"
<1>. DEFINE S == {"timer", "delay_init", "detect_work", "tx_work", "test_work"}
<1>1. CancelPass \in Seq(S) /\ Len(CancelPass) = 5
  BY DEF CancelPass
<1>. HIDE DEF S
<1>2. /\ CancelPass[1] = "timer" /\ CancelPass[2] = "delay_init"
      /\ CancelPass[3] = "detect_work" /\ CancelPass[4] = "tx_work"
      /\ CancelPass[5] = "test_work"
  BY DEF CancelPass
<1>3. /\ Len(RemoveList) = 10
      /\ \A i \in 1 .. 10 :
           RemoveList[i] = IF i <= 5 THEN CancelPass[i] ELSE CancelPass[i - 5]
  <2>1. Len(CancelPass \o CancelPass) = Len(CancelPass) + Len(CancelPass)
    BY <1>1, ConcatProperties, Zenon
  <2>2. \A i \in 1 .. Len(CancelPass) + Len(CancelPass) :
          (CancelPass \o CancelPass)[i] =
            IF i <= Len(CancelPass) THEN CancelPass[i] ELSE CancelPass[i - Len(CancelPass)]
    BY <1>1, ConcatProperties, Zenon
  <2>. QED BY <2>1, <2>2, <1>1 DEF RemoveList
<1>4. Drained = 21 /\ Gone = 22
  BY <1>3 DEF Drained, Gone
<1>5. \A p \in 1 .. 20 :
        /\ (p + 1) \div 2 \in 1 .. 10
        /\ (p \in {2 * ((p + 1) \div 2) - 1, 2 * ((p + 1) \div 2)})
  OBVIOUS
<1>6. ASSUME NEW p \in 1 .. 20
      PROVE  Entry(p) = IF p \in {1, 2, 11, 12} THEN "timer"
                  ELSE IF p \in {3, 4, 13, 14} THEN "delay_init"
                  ELSE IF p \in {5, 6, 15, 16} THEN "detect_work"
                  ELSE IF p \in {7, 8, 17, 18} THEN "tx_work" ELSE "test_work"
  <2>. DEFINE k == (p + 1) \div 2
  <2>1. k \in 1 .. 10 /\ (p = 2 * k - 1 \/ p = 2 * k) /\ Entry(p) = RemoveList[k]
    BY <1>5 DEF Entry
  <2>. HIDE DEF k
  <2>2. Entry(p) = IF k \in {1, 6} THEN "timer" ELSE IF k \in {2, 7} THEN "delay_init"
                   ELSE IF k \in {3, 8} THEN "detect_work" ELSE IF k \in {4, 9} THEN "tx_work"
                   ELSE "test_work"
    BY <2>1, <1>2, <1>3
  <2>. QED BY <2>1, <2>2
<1>. QED BY <1>4, <1>6

(* Every step keeps the types, the tries and the meaning of RUNNING.       *)
LEMMA NextTInv == TInv /\ [Next]_vars => TInv'
<1>. SUFFICES ASSUME TInv, [Next]_vars PROVE TInv'
  OBVIOUS
<1>. USE DEF TInv, TypeOK, Stages, InitStages, TryLeft, RunningUntilRemove, Works,
             Senders, flags, device
<1>1. CASE InitBegin
  BY <1>1, RetryAssumption DEF InitBegin, Begin, Goto
<1>2. CASE DownloadEnter
  BY <1>2 DEF DownloadEnter, Goto
<1>3. CASE DownloadOk
  BY <1>3, RetryAssumption DEF DownloadOk, Goto
<1>4. CASE DownloadFail
  BY <1>4 DEF DownloadFail, Goto
<1>5. CASE DownloadRun
  BY <1>5 DEF DownloadRun, Goto
<1>6. CASE DownloadDone
  BY <1>6 DEF DownloadDone, Goto, Arm
<1>7. CASE InitResume
  <2>1. suspend' \in BOOLEAN /\ quiet' \in BOOLEAN
    BY <1>7 DEF InitResume, InitClearSuspend
  <2>. QED BY <1>7, <2>1 DEF InitResume, Goto
<1>8. CASE InitOk
  BY <1>8 DEF InitOk, Return, Goto, Queue
<1>9. CASE InitFail
  BY <1>9 DEF InitFail, Goto
<1>10. CASE InitRetryTest
  BY <1>10 DEF InitRetryTest, Goto, Return, InitRetryWanted
<1>11. CASE InitRetry
  BY <1>11 DEF InitRetry, Queue, Return, Goto
<1>12. CASE TimerFire
  BY <1>12 DEF TimerFire
<1>13. CASE TimerRun
  BY <1>13 DEF TimerRun, Queue
<1>14. CASE DetectBegin
  BY <1>14, RetryAssumption DEF DetectBegin, Begin, Goto, SleepFlag
<1>15. CASE DetectAsk
  BY <1>15 DEF DetectAsk, Goto
<1>16. CASE DetectJudge
  BY <1>16 DEF DetectJudge, Goto
<1>17. CASE DetectMark
  BY <1>17 DEF DetectMark, Goto
<1>18. CASE DetectReload
  BY <1>18 DEF DetectReload, Queue, Goto
<1>19. CASE DetectEnd
  BY <1>19 DEF DetectEnd, Goto, Return
<1>20. CASE DetectRearm
  BY <1>20 DEF DetectRearm, Rearm, Arm, Return, Goto
<1>21. ASSUME NEW w \in Senders, SendBegin(w) PROVE TInv'
  BY <1>21 DEF SendBegin, Begin, Goto
<1>22. ASSUME NEW w \in Senders, SendTest(w) PROVE TInv'
  BY <1>22 DEF SendTest, Goto, SleepFlag
<1>23. ASSUME NEW w \in Senders, SendOk(w) PROVE TInv'
  BY <1>23 DEF SendOk, Goto, SendDone
<1>24. ASSUME NEW w \in Senders, SendFail(w) PROVE TInv'
  BY <1>24 DEF SendFail, Goto, SendDone
<1>25. ASSUME NEW w \in Senders, TxCompleteDetect(w) PROVE TInv'
  BY <1>25 DEF TxCompleteDetect, Queue, Goto, SendDone
<1>26. CASE QueueFrame
  BY <1>26 DEF QueueFrame, Queue
<1>27. CASE Silence
  BY <1>27 DEF Silence
<1>28. CASE Heard
  BY <1>28 DEF Heard
<1>29. CASE ModuleReset
  <2>1. resets' \in 0 .. MaxResets
    BY <1>29, BoundAssumption DEF ModuleReset
  <2>. QED BY <1>29, <2>1 DEF ModuleReset
<1>30. CASE RemoveStart
  <2>1. rm' = 1 /\ running' = FALSE
    BY <1>30 DEF RemoveStart
  <2>2. rm' \in 0 .. Gone
    BY <2>1, Passes
  <2>3. {running', suspend, inited, error, quiet, started} \subseteq BOOLEAN
    BY <2>1
  <2>4. TypeOK'
    BY <1>30, <2>2, <2>3 DEF RemoveStart
  <2>. QED BY <1>30, <2>1, <2>4 DEF RemoveStart
<1>31. CASE CancelStart
  <2>1. rm' \in 0 .. Gone /\ rm' # 0 /\ rm # 0
    BY <1>31, Passes DEF CancelStart
  <2>2. tmr' \subseteq {"armed", "firing"} /\ pend' \subseteq Works
    BY <1>31 DEF CancelStart
  <2>. QED BY <1>31, <2>1, <2>2 DEF CancelStart
<1>32. CASE CancelWait
  BY <1>32, Passes DEF CancelWait
<1>33. CASE FlushTxWq
  BY <1>33, Passes DEF FlushTxWq
<1>34. CASE UNCHANGED vars
  BY <1>34 DEF vars
<1>. QED
  BY <1>1, <1>2, <1>3, <1>4, <1>5, <1>6, <1>7, <1>8, <1>9, <1>10, <1>11, <1>12,
     <1>13, <1>14, <1>15, <1>16, <1>17, <1>18, <1>19, <1>20, <1>21, <1>22, <1>23,
     <1>24, <1>25, <1>26, <1>27, <1>28, <1>29, <1>30, <1>31, <1>32, <1>33, <1>34
  DEF Next, InitStep, DetectStep, SendStep, RemoveStep

(* A device starts with its types right and its loops not begun.           *)
LEMMA InitTInv == Init => TInv
<1>. SUFFICES ASSUME Init PROVE TInv
  OBVIOUS
<1>1. rm \in 0 .. Gone
  BY Passes DEF Init
<1>2. resets \in 0 .. MaxResets
  BY BoundAssumption DEF Init
<1>. QED
  BY <1>1, <1>2 DEF Init, TInv, TypeOK, Stages, InitStages, TryLeft, RunningUntilRemove, Works, Senders

(* Type correctness: in particular no loop of delay_init or detect_work    *)
(* counts its retries below zero.                                          *)
THEOREM TypeCorrect == Spec => []TInv
<1>. QED BY InitTInv, NextTInv, PTL DEF Spec

-----------------------------------------------------------------------------
(* The device as it runs.                                                  *)

(* While the device runs, scheduling a work item takes effect.             *)
LEMMA QueueRuns ==
  ASSUME TInv, running, NEW w, Queue(w)
  PROVE  pend' = pend \cup {w}
<1>1. ~Waiting(w)
  BY DEF TInv, RunningUntilRemove, Waiting
<1>. QED BY <1>1 DEF Queue

(* Every step keeps an owner for SUSPEND and the detector alive.           *)
LEMMA NextAlive ==
  TInv /\ SuspendHasOwner /\ DetectorAlive /\ [Next]_vars =>
    SuspendHasOwner' /\ DetectorAlive'
<1>. SUFFICES ASSUME TInv, SuspendHasOwner, DetectorAlive, [Next]_vars
              PROVE  SuspendHasOwner' /\ DetectorAlive'
  OBVIOUS
<1>a. at \in [Works -> Stages] /\ (running <=> rm = 0)
  BY DEF TInv, RunningUntilRemove
<1>b. \A w : Queue(w) => (running => pend' = pend \cup {w}) /\ pend \subseteq pend'
  BY QueueRuns DEF Queue
<1>. USE DEF SuspendHasOwner, DetectorAlive, InitStages, Works, flags, Senders
<1>1. CASE InitBegin
  BY <1>1, <1>a DEF InitBegin, Begin, Goto
<1>2. CASE DownloadEnter
  BY <1>2, <1>a DEF DownloadEnter, Goto
<1>3. CASE DownloadOk
  BY <1>3, <1>a DEF DownloadOk, Goto
<1>4. CASE DownloadFail
  BY <1>4, <1>a DEF DownloadFail, Goto
<1>5. CASE DownloadRun
  BY <1>5, <1>a DEF DownloadRun, Goto
<1>6. CASE DownloadDone
  BY <1>6, <1>a DEF DownloadDone, Goto, Arm
<1>7. CASE InitResume
  BY <1>7, <1>a DEF InitResume, Goto, InitClearSuspend
<1>8. CASE InitOk
  BY <1>8, <1>a, <1>b DEF InitOk, Return, Goto
<1>9. CASE InitFail
  BY <1>9, <1>a DEF InitFail, Goto
<1>10. CASE InitRetryTest
  BY <1>10, <1>a DEF InitRetryTest, Goto, Return, InitRetryWanted
<1>11. CASE InitRetry
  BY <1>11, <1>a, <1>b DEF InitRetry, Return, Goto
<1>12. CASE TimerFire
  BY <1>12, <1>a DEF TimerFire
<1>13. CASE TimerRun
  BY <1>13, <1>a, <1>b DEF TimerRun
<1>14. CASE DetectBegin
  BY <1>14, <1>a DEF DetectBegin, Begin, Goto, SleepFlag
<1>15. CASE DetectAsk
  BY <1>15, <1>a DEF DetectAsk, Goto
<1>16. CASE DetectJudge
  BY <1>16, <1>a DEF DetectJudge, Goto
<1>17. CASE DetectMark
  BY <1>17, <1>a DEF DetectMark, Goto
<1>18. CASE DetectReload
  BY <1>18, <1>a, <1>b DEF DetectReload, Goto
<1>19. CASE DetectEnd
  BY <1>19, <1>a DEF DetectEnd, Goto, Return
<1>20. CASE DetectRearm
  BY <1>20, <1>a DEF DetectRearm, Rearm, Arm, Return, Goto
<1>21. ASSUME NEW w \in Senders, SendBegin(w) PROVE SuspendHasOwner' /\ DetectorAlive'
  BY <1>21, <1>a DEF SendBegin, Begin, Goto
<1>22. ASSUME NEW w \in Senders, SendTest(w) PROVE SuspendHasOwner' /\ DetectorAlive'
  BY <1>22, <1>a DEF SendTest, Goto, SleepFlag
<1>23. ASSUME NEW w \in Senders, SendOk(w) PROVE SuspendHasOwner' /\ DetectorAlive'
  BY <1>23, <1>a DEF SendOk, Goto, SendDone
<1>24. ASSUME NEW w \in Senders, SendFail(w) PROVE SuspendHasOwner' /\ DetectorAlive'
  BY <1>24, <1>a DEF SendFail, Goto, SendDone
<1>25. ASSUME NEW w \in Senders, TxCompleteDetect(w) PROVE SuspendHasOwner' /\ DetectorAlive'
  BY <1>25, <1>a, <1>b DEF TxCompleteDetect, Goto, SendDone
<1>26. CASE QueueFrame
  BY <1>26, <1>a, <1>b DEF QueueFrame
<1>27. CASE Silence
  BY <1>27, <1>a DEF Silence
<1>28. CASE Heard
  BY <1>28, <1>a DEF Heard
<1>29. CASE ModuleReset
  BY <1>29, <1>a DEF ModuleReset
<1>30. CASE RemoveStart
  BY <1>30, <1>a DEF RemoveStart
<1>31. CASE CancelStart
  BY <1>31, <1>a DEF CancelStart
<1>32. CASE CancelWait
  BY <1>32, <1>a DEF CancelWait
<1>33. CASE FlushTxWq
  BY <1>33, <1>a DEF FlushTxWq
<1>34. CASE UNCHANGED vars
  BY <1>34 DEF vars
<1>. QED
  BY <1>1, <1>2, <1>3, <1>4, <1>5, <1>6, <1>7, <1>8, <1>9, <1>10, <1>11, <1>12,
     <1>13, <1>14, <1>15, <1>16, <1>17, <1>18, <1>19, <1>20, <1>21, <1>22, <1>23,
     <1>24, <1>25, <1>26, <1>27, <1>28, <1>29, <1>30, <1>31, <1>32, <1>33, <1>34
  DEF Next, InitStep, DetectStep, SendStep, RemoveStep

(* While SUSPEND stops the data path, delay_init is on its way to clear    *)
(* it, on every bus and after any number of resets.                        *)
THEOREM SuspendStaysOwned == Spec => []SuspendHasOwner
<1>1. Init => SuspendHasOwner /\ DetectorAlive
  BY DEF Init, SuspendHasOwner, DetectorAlive
<1>. QED BY <1>1, NextAlive, TypeCorrect, PTL DEF Spec

(* Once hgicf_download_fw has armed the timer the detector never dies      *)
(* while the device runs.                                                  *)
THEOREM DetectorStaysAlive == Spec => []DetectorAlive
<1>1. Init => SuspendHasOwner /\ DetectorAlive
  BY DEF Init, SuspendHasOwner, DetectorAlive
<1>. QED BY <1>1, NextAlive, TypeCorrect, PTL DEF Spec

-----------------------------------------------------------------------------
(* The removal.                                                            *)

(* What the two passes of hgicf_core_remove have put an end to, by their   *)
(* position.  The first pass waits for every function that saw RUNNING     *)
(* set; what starts after it finds RUNNING clear and starts nothing more.  *)
(* Only then is the second pass final.                                     *)
Swept ==
  /\ rm >= 5 => at["delay_init"] = "idle"
  /\ rm >= 7 => at["detect_work"] \in {"idle", "end"}
  /\ rm >= 9 => at["tx_work"] \in {"idle", "test"}
  /\ rm >= 10 => "test_work" \notin pend
  /\ rm >= 11 => at["test_work"] = "idle"
  /\ rm >= 12 => "armed" \notin tmr
  /\ rm >= 13 => "firing" \notin tmr
  /\ rm >= 14 => "delay_init" \notin pend
  /\ rm >= 16 => "detect_work" \notin pend
  /\ rm >= 17 => at["detect_work"] = "idle"

(* Every step keeps what the removal has reached.                          *)
LEMMA NextSwept == TInv /\ Swept /\ [Next]_vars => Swept'
<1>. SUFFICES ASSUME TInv, Swept, [Next]_vars PROVE Swept'
  OBVIOUS
<1>a. at \in [Works -> Stages] /\ (running <=> rm = 0) /\ rm \in Nat
  BY Passes DEF TInv, TypeOK, RunningUntilRemove
<1>b. \A w : Queue(w) => pend' \subseteq pend \cup {w}
  BY DEF Queue
<1>. USE DEF Swept, Works, flags, Senders
<1>1. CASE InitBegin
  BY <1>1, <1>a DEF InitBegin, Begin, Goto
<1>2. CASE DownloadEnter
  BY <1>2, <1>a DEF DownloadEnter, Goto
<1>3. CASE DownloadOk
  BY <1>3, <1>a DEF DownloadOk, Goto
<1>4. CASE DownloadFail
  BY <1>4, <1>a DEF DownloadFail, Goto
<1>5. CASE DownloadRun
  BY <1>5, <1>a DEF DownloadRun, Goto
<1>6. CASE DownloadDone
  BY <1>6, <1>a DEF DownloadDone, Goto, Arm
<1>7. CASE InitResume
  BY <1>7, <1>a DEF InitResume, Goto, InitClearSuspend
<1>8. CASE InitOk
  BY <1>8, <1>a, <1>b DEF InitOk, Return, Goto
<1>9. CASE InitFail
  BY <1>9, <1>a DEF InitFail, Goto
<1>10. CASE InitRetryTest
  BY <1>10, <1>a DEF InitRetryTest, Goto, Return, InitRetryWanted
<1>11. CASE InitRetry
  BY <1>11, <1>a, <1>b DEF InitRetry, Return, Goto
<1>12. CASE TimerFire
  BY <1>12, <1>a DEF TimerFire
<1>13. CASE TimerRun
  BY <1>13, <1>a, <1>b DEF TimerRun
<1>14. CASE DetectBegin
  BY <1>14, <1>a DEF DetectBegin, Begin, Goto, SleepFlag
<1>15. CASE DetectAsk
  BY <1>15, <1>a DEF DetectAsk, Goto
<1>16. CASE DetectJudge
  BY <1>16, <1>a DEF DetectJudge, Goto
<1>17. CASE DetectMark
  BY <1>17, <1>a DEF DetectMark, Goto
<1>18. CASE DetectReload
  BY <1>18, <1>a, <1>b DEF DetectReload, Goto
<1>19. CASE DetectEnd
  BY <1>19, <1>a DEF DetectEnd, Goto, Return
<1>20. CASE DetectRearm
  BY <1>20, <1>a DEF DetectRearm, Rearm, Arm, Return, Goto
<1>21. ASSUME NEW w \in Senders, SendBegin(w) PROVE Swept'
  BY <1>21, <1>a DEF SendBegin, Begin, Goto
<1>22. ASSUME NEW w \in Senders, SendTest(w) PROVE Swept'
  <2>1. rm >= 9 => at' = [at EXCEPT ![w] = "idle"]
    <3>1. rm >= 9 => ~running
      BY <1>a
    <3>2. PICK sleep \in SleepFlag : Goto(w, IF MaySend(w, sleep) THEN "send" ELSE "idle")
      BY <1>22 DEF SendTest
    <3>3. ~running => Goto(w, "idle")
      BY <3>2 DEF MaySend
    <3>. QED BY <3>1, <3>3 DEF Goto
  <2>2. \A v \in Works : v # w => at'[v] = at[v]
    BY <1>22, <1>a DEF SendTest, Goto
  <2>3. w \in {"tx_work", "test_work"} /\ (rm >= 9 => at'[w] = "idle")
    BY <2>1, <1>a DEF Senders, Works
  <2>. QED BY <1>22, <2>2, <2>3, <1>a DEF SendTest, Swept, Works
<1>23. ASSUME NEW w \in Senders, SendOk(w) PROVE Swept'
  BY <1>23, <1>a DEF SendOk, Goto, SendDone
<1>24. ASSUME NEW w \in Senders, SendFail(w) PROVE Swept'
  BY <1>24, <1>a DEF SendFail, Goto, SendDone
<1>25. ASSUME NEW w \in Senders, TxCompleteDetect(w) PROVE Swept'
  BY <1>25, <1>a, <1>b DEF TxCompleteDetect, Goto, SendDone
<1>26. CASE QueueFrame
  BY <1>26, <1>a, <1>b DEF QueueFrame
<1>27. CASE Silence
  BY <1>27, <1>a DEF Silence
<1>28. CASE Heard
  BY <1>28, <1>a DEF Heard
<1>29. CASE ModuleReset
  BY <1>29, <1>a DEF ModuleReset
<1>30. CASE RemoveStart
  BY <1>30, <1>a DEF RemoveStart
<1>31. CASE CancelStart
  <2>1. rm \in 1 .. 20 /\ rm % 2 = 1 /\ rm' = rm + 1
    BY <1>31, Passes DEF CancelStart
  <2>2. rm \in {1, 3, 5, 7, 9, 11, 13, 15, 17, 19}
    BY <2>1
  <2>3. /\ (rm = 9 => Entry(rm) = "test_work") /\ (rm = 11 => Entry(rm) = "timer")
        /\ (rm = 13 => Entry(rm) = "delay_init") /\ (rm = 15 => Entry(rm) = "detect_work")
    BY <2>1, Passes
  <2>4. pend' = pend \ {Entry(rm)} /\ tmr' \subseteq tmr /\ at' = at
    BY <1>31 DEF CancelStart
  <2>5. Entry(rm) = "timer" => "armed" \notin tmr'
    BY <1>31 DEF CancelStart
  <2>. QED BY <2>1, <2>2, <2>3, <2>4, <2>5 DEF Swept
<1>32. CASE CancelWait
  <2>1. rm \in 1 .. 20 /\ rm % 2 = 0 /\ rm' = rm + 1
    BY <1>32, Passes DEF CancelWait
  <2>2. rm \in {2, 4, 6, 8, 10, 12, 14, 16, 18, 20}
    BY <2>1
  <2>3. /\ (rm \in {4, 14} => Entry(rm) = "delay_init")
        /\ (rm \in {6, 16} => Entry(rm) = "detect_work")
        /\ (rm = 8 => Entry(rm) = "tx_work") /\ (rm = 10 => Entry(rm) = "test_work")
        /\ (rm = 12 => Entry(rm) = "timer")
    BY <2>1, Passes
  <2>4. UNCHANGED <<pend, tmr, at>>
    BY <1>32 DEF CancelWait
  <2>5. IF Entry(rm) = "timer" THEN "firing" \notin tmr ELSE at[Entry(rm)] = "idle"
    BY <1>32 DEF CancelWait
  <2>. QED BY <2>1, <2>2, <2>3, <2>4, <2>5 DEF Swept
<1>33. CASE FlushTxWq
  <2>1. rm = 21 /\ rm' = 22 /\ UNCHANGED <<pend, tmr, at>>
    BY <1>33, Passes DEF FlushTxWq
  <2>. QED BY <2>1 DEF Swept
<1>34. CASE UNCHANGED vars
  BY <1>34 DEF vars
<1>. QED
  BY <1>1, <1>2, <1>3, <1>4, <1>5, <1>6, <1>7, <1>8, <1>9, <1>10, <1>11, <1>12,
     <1>13, <1>14, <1>15, <1>16, <1>17, <1>18, <1>19, <1>20, <1>21, <1>22, <1>23,
     <1>24, <1>25, <1>26, <1>27, <1>28, <1>29, <1>30, <1>31, <1>32, <1>33, <1>34
  DEF Next, InitStep, DetectStep, SendStep, RemoveStep

(* After any number of retries and resets, the two passes leave nothing    *)
(* behind that could touch what hgicf_core_remove frees.                   *)
THEOREM RemoveLeavesQuiet == Spec => []QuietAfterRemove
<1>1. Init => Swept
  BY DEF Init, Swept
<1>2. TInv /\ Swept => QuietAfterRemove
  BY Passes DEF TInv, TypeOK, Swept, QuietAfterRemove, Works
<1>. QED BY <1>1, <1>2, NextSwept, TypeCorrect, PTL DEF Spec
=============================================================================
