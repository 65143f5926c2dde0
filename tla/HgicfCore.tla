----------------------------- MODULE HgicfCore ------------------------------
(***************************************************************************)
(* The life of a device in hgic_fmac/core.c: probe, delayed initialisation *)
(* with the firmware download, the detect timer and detect_work that find  *)
(* a device that was reset, the transmit path as far as it triggers them,  *)
(* and removal.                                                            *)
(*                                                                         *)
(* Work items are not re-entrant but run concurrently with each other and  *)
(* with the removing thread.  A work item is pending, and is somewhere in  *)
(* its function; the two are independent, as in the kernel.                *)
(***************************************************************************)
EXTENDS Naturals, Sequences

CONSTANTS
  HasReinit,   \* bus->reinit # NULL: SDIO yes, USB no
  NoPoll,      \* HGIC_BUS_FLAGS_NOPOLL
  DlRetry,     \* the 10 of hgicf_download_fw
  RunRetry,    \* the 50 of hgicf_download_fw
  DetRetry,    \* the 4 of hgicf_detect_work
  NoBootdl,    \* the no_bootdl or qc_mode module parameter is set
  IfTest,      \* the if_test module parameter is set
  MaxResets,   \* bound: how often the module resets by itself
  MayRemove,   \* the device may be removed
  MayQueue,    \* frames are sent
  MaySleep,    \* HGIC_BUS_FLAGS_SLEEP may be set
  Lossy        \* commands to the device may get no answer

ASSUME RetryAssumption ==
  DlRetry \in Nat \ {0} /\ RunRetry \in Nat \ {0} /\ DetRetry \in Nat \ {0}
ASSUME FlagAssumption ==
  {HasReinit, NoPoll, NoBootdl, IfTest, MayRemove, MayQueue, MaySleep, Lossy}
    \subseteq BOOLEAN
ASSUME BoundAssumption == MaxResets \in Nat

Works == {"delay_init", "detect_work", "tx_work", "test_work"}

VARIABLES
  running,   \* HGICF_DEV_FLAGS_RUNNING
  suspend,   \* HGICF_DEV_FLAGS_SUSPEND
  inited,    \* HGICF_DEV_FLAGS_INITED
  error,     \* HGIC_BUS_FLAGS_ERROR
  fwState,   \* hg->fw_state
  quiet,     \* nothing was received for HGIC_DETECT_TIMER (last_rx)
  tmr,       \* detect_tmr: which of "armed" and "firing" it is
  pend,      \* which work items are pending
  at,        \* where each work item is in its function
  tries,     \* the retry counter of the work item's loop
  status,    \* the status variable of the work item's loop
  dv,        \* what the module runs: "boot" or "fw"
  resets,    \* how often it has reset
  started,   \* hgicf_download_fw has armed the timer once
  rm         \* position in hgicf_core_remove, 0 before it is called

flags == <<running, suspend, inited, error>>
device == <<dv, resets>>
vars == <<flags, fwState, quiet, tmr, pend, at, tries, status, device, started,
          rm>>

-----------------------------------------------------------------------------
(* Removal: del_timer_sync and cancel_work_sync, the whole list twice.     *)

CancelPass == <<"timer", "delay_init", "detect_work", "tx_work", "test_work">>

\* Mutant: one pass over the timer and the work items.
RemoveListOnce == CancelPass

RemoveList == CancelPass \o CancelPass

(* Positions 2k-1 start the k-th entry of the list, positions 2k wait for  *)
(* what is still running; Drained is past the last entry.                  *)
Entry(p)  == RemoveList[(p + 1) \div 2]
Drained   == 2 * Len(RemoveList) + 1
Gone      == Drained + 1
Waiting(w) == rm \in 1 .. Drained - 1 /\ rm % 2 = 0 /\ Entry(rm) = w

(* schedule_work and queue_work: no effect while cancel_work_sync of the   *)
(* same item is under way, which owns the pending bit.                     *)
Queue(w) == pend' = IF Waiting(w) THEN pend ELSE pend \cup {w}

(* mod_timer.                                                              *)
Arm == tmr' = tmr \cup {"armed"}

Goto(w, p) == at' = [at EXCEPT ![w] = p]

(* The function returns: its local variables are gone.                     *)
Return(w) ==
  /\ Goto(w, "idle")
  /\ tries' = [tries EXCEPT ![w] = 0]
  /\ status' = [status EXCEPT ![w] = "none"]

(* A work function starts: its pending bit is cleared first.               *)
Begin(w, p) ==
  /\ w \in pend /\ at[w] = "idle"
  /\ w \in {"tx_work", "test_work"} =>
       at["tx_work"] = "idle" /\ at["test_work"] = "idle"   \* ordered tx_wq
  /\ pend' = pend \ {w}
  /\ Goto(w, p)

(* HGIC_BUS_FLAGS_SLEEP, which other parts set and clear at any time (see  *)
(* module SleepFlow): what a test of the flag may find.                    *)
SleepFlag == IF MaySleep THEN BOOLEAN ELSE {FALSE}

(* hgic_bootdl_cmd_enter: the module says what it runs, or says nothing.   *)
Answered(s) == s = dv \/ (s = "none" /\ (Lossy \/ ~running))

-----------------------------------------------------------------------------
(* hgicf_delay_init.                                                       *)

InitBegin ==
  /\ Begin("delay_init", IF ~running THEN "idle"
                         ELSE IF NoBootdl THEN "done" ELSE "enter")
  /\ tries' = [tries EXCEPT !["delay_init"] = IF running THEN DlRetry ELSE 0]
  /\ status' = [status EXCEPT !["delay_init"] =
                  IF running /\ NoBootdl THEN "fw" ELSE "none"]
  /\ UNCHANGED <<flags, fwState, quiet, tmr, device, started, rm>>

(* hgicf_download_fw, its loop: ask, and download if the boot ROM answers. *)
DownloadEnter ==
  /\ at["delay_init"] = "enter"
  /\ tries' = [tries EXCEPT !["delay_init"] = @ - 1]
  /\ \E s \in {"fw", "boot", "none"} :
       /\ Answered(s)
       /\ status' = [status EXCEPT !["delay_init"] = s]
       /\ Goto("delay_init",
               IF s = "fw" THEN "done"
               ELSE IF s = "boot" THEN "load"
               ELSE IF tries["delay_init"] > 1 THEN "enter" ELSE "done")
  /\ UNCHANGED <<flags, fwState, quiet, tmr, pend, device, started, rm>>

(* hgic_bootdl_download: every fragment arrives and the module is started, *)
(* or something failed.                                                    *)
DownloadOk ==
  /\ at["delay_init"] = "load" /\ dv = "boot"
  /\ dv' = "fw"
  /\ tries' = [tries EXCEPT !["delay_init"] = RunRetry]
  /\ Goto("delay_init", IF HasReinit /\ NoPoll THEN "run" ELSE "done")
  /\ UNCHANGED <<flags, fwState, quiet, tmr, pend, status, resets, started, rm>>

DownloadFail ==
  /\ at["delay_init"] = "load"
  /\ Lossy \/ ~running \/ dv = "fw"
  /\ Goto("delay_init", IF tries["delay_init"] > 0 THEN "enter" ELSE "done")
  /\ UNCHANGED <<flags, fwState, quiet, tmr, pend, tries, status, device,
                 started, rm>>

(* Without polling: reinit the bus, and if that worked ask again.          *)
DownloadRun ==
  /\ at["delay_init"] = "run"
  /\ IF tries["delay_init"] > 0 /\ running /\ status["delay_init"] # "fw"
     THEN /\ tries' = [tries EXCEPT !["delay_init"] = @ - 1]
          /\ \E s \in {"fw", "boot", "none"} :
               /\ Answered(s) \/ (Lossy /\ s = status["delay_init"])
               /\ status' = [status EXCEPT !["delay_init"] = s]
          /\ UNCHANGED at
     ELSE Goto("delay_init", "done") /\ UNCHANGED <<tries, status>>
  /\ UNCHANGED <<flags, fwState, quiet, tmr, pend, device, started, rm>>

(* The end of hgicf_download_fw arms the detect timer whatever happened.   *)
DownloadDone ==
  /\ at["delay_init"] = "done"
  /\ Arm /\ started' = TRUE
  /\ fwState' = status["delay_init"]
  /\ Goto("delay_init", "resumed")
  /\ UNCHANGED <<flags, quiet, pend, tries, status, device, rm>>

\* Mutant: SUSPEND is cleared only when the firmware came up.
InitClearSuspendIfFw == suspend' = (suspend /\ status["delay_init"] # "fw")

InitClearSuspend == suspend' = FALSE

InitResume ==
  /\ at["delay_init"] = "resumed"
  /\ InitClearSuspend
  /\ IF status["delay_init"] = "fw"
     THEN quiet' = FALSE /\ Goto("delay_init", "info")
     ELSE Goto("delay_init", "again") /\ UNCHANGED quiet
  /\ UNCHANGED <<running, inited, error, fwState, tmr, pend, tries,
                 status, device, started, rm>>

(* hgic_fwctrl_get_fwinfo answers and, the first time, the net device and  *)
(* /proc are created; the answer may be lost and the creation may fail.    *)
InitOk ==
  /\ at["delay_init"] = "info" /\ dv = "fw"
  /\ inited' = TRUE
  /\ IF IfTest /\ ~inited THEN Queue("test_work") ELSE UNCHANGED pend
  /\ Return("delay_init")
  /\ UNCHANGED <<running, suspend, error, fwState, quiet, tmr, device,
                 started, rm>>

InitFail ==
  /\ at["delay_init"] = "info"
  /\ Lossy \/ ~running \/ dv = "boot"
  /\ Goto("delay_init", "again")
  /\ UNCHANGED <<flags, fwState, quiet, tmr, pend, tries, status, device,
                 started, rm>>

(* The label __reinit: RUNNING is tested, the work sleeps 100 ms and then  *)
(* schedules itself.                                                       *)
\* Mutant: a failed initialisation is not tried again.
InitNoRetry == FALSE

InitRetryWanted == HasReinit /\ running

InitRetryTest ==
  /\ at["delay_init"] = "again"
  /\ IF InitRetryWanted THEN Goto("delay_init", "requeue") /\ UNCHANGED <<tries, status>>
                        ELSE Return("delay_init")
  /\ UNCHANGED <<flags, fwState, quiet, tmr, pend, device, started, rm>>

InitRetry ==
  /\ at["delay_init"] = "requeue"
  /\ Queue("delay_init")
  /\ Return("delay_init")
  /\ UNCHANGED <<flags, fwState, quiet, tmr, device, started, rm>>

InitStep ==
  \/ InitBegin \/ DownloadEnter \/ DownloadOk \/ DownloadFail \/ DownloadRun
  \/ DownloadDone \/ InitResume \/ InitOk \/ InitFail \/ InitRetryTest
  \/ InitRetry

-----------------------------------------------------------------------------
(* hgicf_detect_timer and hgicf_detect_work.                               *)

TimerFire ==
  /\ tmr = {"armed"}
  /\ tmr' = {"firing"}
  /\ UNCHANGED <<flags, fwState, quiet, pend, at, tries, status, device,
                 started, rm>>

TimerRun ==
  /\ "firing" \in tmr
  /\ tmr' = tmr \ {"firing"}
  /\ IF running THEN Queue("detect_work") ELSE UNCHANGED pend
  /\ UNCHANGED <<flags, fwState, quiet, at, tries, status, device, started, rm>>

\* Mutant: silence of the module is no reason to ask.
DetectWantedNotQuiet == suspend \/ error

DetectWanted == suspend \/ error \/ quiet

DetectBegin ==
  /\ \E sleep \in SleepFlag :
       Begin("detect_work",
             IF ~sleep /\ running /\ DetectWanted THEN "ask" ELSE "end")
  /\ tries' = [tries EXCEPT !["detect_work"] = DetRetry]
  /\ UNCHANGED <<flags, fwState, quiet, tmr, status, device, started, rm>>

DetectAsk ==
  /\ at["detect_work"] = "ask"
  /\ tries' = [tries EXCEPT !["detect_work"] = @ - 1]
  /\ \E s \in {"fw", "boot", "none"} :
       /\ Answered(s)
       /\ status' = [status EXCEPT !["detect_work"] = s]
       /\ Goto("detect_work",
               IF s # "fw" /\ tries["detect_work"] > 1 THEN "ask" ELSE "judge")
  /\ UNCHANGED <<flags, fwState, quiet, tmr, pend, device, started, rm>>

ReloadNeeded == status["detect_work"] # "fw" \/ fwState # "fw"

(* Both queues are emptied and the bus is reset, then RUNNING is tested    *)
(* again before the reload is started.                                     *)
DetectJudge ==
  /\ at["detect_work"] = "judge"
  /\ Goto("detect_work", IF ReloadNeeded /\ running THEN "mark" ELSE "end")
  /\ UNCHANGED <<flags, fwState, quiet, tmr, pend, tries, status, device,
                 started, rm>>

DetectMark ==
  /\ at["detect_work"] = "mark"
  /\ fwState' = "none"
  /\ suspend' = TRUE
  /\ Goto("detect_work", "reload")
  /\ UNCHANGED <<running, inited, error, quiet, tmr, pend, tries, status,
                 device, started, rm>>

DetectReload ==
  /\ at["detect_work"] = "reload"
  /\ Queue("delay_init")
  /\ Goto("detect_work", "end")
  /\ UNCHANGED <<flags, fwState, quiet, tmr, tries, status, device, started, rm>>

(* The last test of RUNNING and the mod_timer it guards are two steps.     *)
DetectEnd ==
  /\ at["detect_work"] = "end"
  /\ IF running THEN Goto("detect_work", "rearm") /\ UNCHANGED <<tries, status>>
                ELSE Return("detect_work")
  /\ UNCHANGED <<flags, fwState, quiet, tmr, pend, device, started, rm>>

\* Mutant: the timer is rearmed only when a reload was started.
RearmIfReload == IF suspend THEN Arm ELSE UNCHANGED tmr

Rearm == Arm

DetectRearm ==
  /\ at["detect_work"] = "rearm"
  /\ Rearm
  /\ Return("detect_work")
  /\ UNCHANGED <<flags, fwState, quiet, pend, device, started, rm>>

DetectStep ==
  \/ DetectBegin \/ DetectAsk \/ DetectJudge \/ DetectMark \/ DetectReload
  \/ DetectEnd \/ DetectRearm

-----------------------------------------------------------------------------
(* tx_work and test_work: a frame is sent after RUNNING was seen set, and  *)
(* by tx_work only while SLEEP is clear.  hgicf_tx_complete of a failed    *)
(* frame sets ERROR, tests RUNNING again and schedules detect_work.        *)

Senders == {"tx_work", "test_work"}

SendBegin(w) ==
  /\ w \in Senders
  /\ Begin(w, "test")
  /\ UNCHANGED <<flags, fwState, quiet, tmr, tries, status, device, started, rm>>

MaySend(w, sleep) == running /\ (w = "tx_work" => ~sleep)

SendTest(w) ==
  /\ w \in Senders /\ at[w] = "test"
  /\ \E sleep \in SleepFlag : Goto(w, IF MaySend(w, sleep) THEN "send" ELSE "idle")
  /\ UNCHANGED <<flags, fwState, quiet, tmr, pend, tries, status, device,
                 started, rm>>

SendDone(w) == IF w = "test_work" THEN "test" ELSE "idle"

SendOk(w) ==
  /\ w \in Senders /\ at[w] = "send"
  /\ error' = FALSE
  /\ Goto(w, SendDone(w))
  /\ UNCHANGED <<running, suspend, inited, fwState, quiet, tmr, pend,
                 tries, status, device, started, rm>>

SendFail(w) ==
  /\ w \in Senders /\ at[w] = "send"
  /\ error' = TRUE
  /\ Goto(w, IF running THEN "failed" ELSE SendDone(w))
  /\ UNCHANGED <<running, suspend, inited, fwState, quiet, tmr, pend,
                 tries, status, device, started, rm>>

TxCompleteDetect(w) ==
  /\ w \in Senders /\ at[w] = "failed"
  /\ Queue("detect_work")
  /\ Goto(w, SendDone(w))
  /\ UNCHANGED <<flags, fwState, quiet, tmr, tries, status, device, started, rm>>

SendStep(w) ==
  SendBegin(w) \/ SendTest(w) \/ SendOk(w) \/ SendFail(w) \/ TxCompleteDetect(w)

-----------------------------------------------------------------------------
(* The surroundings: somebody queues a frame (the /proc handlers do so     *)
(* until the entries are deleted), the module falls silent, is heard and   *)
(* resets.                                                                 *)

QueueFrame ==
  /\ MayQueue /\ rm <= Drained
  /\ Queue("tx_work")
  /\ UNCHANGED <<flags, fwState, quiet, tmr, at, tries, status, device, started,
                 rm>>

Silence ==
  /\ quiet' = TRUE
  /\ UNCHANGED <<flags, fwState, tmr, pend, at, tries, status, device, started,
                 rm>>

Heard ==
  /\ dv = "fw" /\ quiet' = FALSE
  /\ UNCHANGED <<flags, fwState, tmr, pend, at, tries, status, device, started,
                 rm>>

ModuleReset ==
  /\ resets < MaxResets /\ dv = "fw"
  /\ resets' = resets + 1
  /\ dv' = "boot"
  /\ UNCHANGED <<flags, fwState, quiet, tmr, pend, at, tries, status, started,
                 rm>>

-----------------------------------------------------------------------------
(* hgicf_core_remove up to the point where nothing may run any more, and   *)
(* the flush of tx_wq that follows the removal of the /proc entries.       *)

RemoveStart ==
  /\ MayRemove /\ rm = 0
  /\ running' = FALSE
  /\ rm' = 1
  /\ UNCHANGED <<suspend, inited, error, fwState, quiet, tmr, pend, at,
                 tries, status, device, started>>

CancelStart ==
  /\ rm \in 1 .. Drained - 1 /\ rm % 2 = 1
  /\ rm' = rm + 1
  /\ pend' = pend \ {Entry(rm)}
  /\ tmr' = IF Entry(rm) = "timer" THEN tmr \ {"armed"} ELSE tmr
  /\ UNCHANGED <<flags, fwState, quiet, at, tries, status, device, started>>

CancelWait ==
  /\ rm \in 1 .. Drained - 1 /\ rm % 2 = 0
  /\ IF Entry(rm) = "timer" THEN "firing" \notin tmr ELSE at[Entry(rm)] = "idle"
  /\ rm' = rm + 1
  /\ UNCHANGED <<flags, fwState, quiet, tmr, pend, at, tries, status, device,
                 started>>

FlushTxWq ==
  /\ rm = Drained
  /\ "tx_work" \notin pend /\ at["tx_work"] = "idle"
  /\ rm' = Gone
  /\ UNCHANGED <<flags, fwState, quiet, tmr, pend, at, tries, status, device,
                 started>>

RemoveStep == CancelStart \/ CancelWait \/ FlushTxWq

-----------------------------------------------------------------------------
(* hgicf_core_probe and hgicf_probe_post.                                  *)
Init ==
  /\ running = TRUE /\ suspend = FALSE /\ inited = FALSE
  /\ error = FALSE
  /\ fwState = "none" /\ quiet \in BOOLEAN
  /\ tmr = {} /\ pend = {"delay_init"}
  /\ at = [w \in Works |-> "idle"]
  /\ tries = [w \in {"delay_init", "detect_work"} |-> 0]
  /\ status = [w \in {"delay_init", "detect_work"} |-> "none"]
  /\ dv \in {"boot", "fw"} /\ resets = 0
  /\ started = FALSE
  /\ rm = 0

Next ==
  \/ InitStep \/ TimerFire \/ TimerRun \/ DetectStep
  \/ \E w \in Senders : SendStep(w)
  \/ QueueFrame \/ Silence \/ Heard \/ ModuleReset
  \/ RemoveStart \/ RemoveStep

Spec == Init /\ [][Next]_vars

(* The kernel runs what is pending and fires an armed timer; time passes   *)
(* in silence while the module sits in its boot ROM; as long as the device *)
(* is there, a module that is asked again and again answers at last, and a *)
(* download or an information command that is repeated succeeds at last.   *)
Fairness ==
  /\ WF_vars(InitStep) /\ WF_vars(DetectStep)
  /\ WF_vars(TimerFire) /\ WF_vars(TimerRun)
  /\ \A w \in Senders : WF_vars(SendStep(w))
  /\ WF_vars(RemoveStep)
  /\ WF_vars(Silence /\ dv = "boot")
  /\ SF_vars(running /\ DownloadEnter /\ status'["delay_init"] = dv)
  /\ SF_vars(running /\ DownloadRun /\ status'["delay_init"] = dv)
  /\ SF_vars(running /\ DownloadOk) /\ SF_vars(running /\ InitOk)

FairSpec == Spec /\ Fairness

-----------------------------------------------------------------------------
(* Properties.                                                             *)

InitStages == {"enter", "load", "run", "done", "resumed"}

(* Every variable has its type.                                            *)
TypeOK ==
  /\ {running, suspend, inited, error, quiet, started} \subseteq BOOLEAN
  /\ fwState \in {"fw", "boot", "none"}
  /\ tmr \subseteq {"armed", "firing"} /\ pend \subseteq Works
  /\ DOMAIN at = Works
  /\ at["delay_init"] \in InitStages \cup {"idle", "info", "again", "requeue"}
  /\ at["detect_work"] \in {"idle", "ask", "judge", "mark", "reload", "end", "rearm"}
  /\ \A w \in Senders : at[w] \in {"idle", "test", "send", "failed"}
  /\ tries \in [{"delay_init", "detect_work"} -> Nat]
  /\ status \in [{"delay_init", "detect_work"} -> {"fw", "boot", "none"}]
  /\ dv \in {"fw", "boot"} /\ resets \in 0 .. MaxResets
  /\ rm \in 0 .. Gone

(* When hgicf_core_remove goes on to free what the work items use, the     *)
(* timer is off for good and delay_init, detect_work and test_work neither *)
(* run nor will run again: whatever was under way when RUNNING was cleared *)
(* and rearmed or rescheduled something has been caught by a second pass.  *)
QuietAfterRemove ==
  rm >= Drained =>
    /\ tmr = {}
    /\ \A w \in Works \ {"tx_work"} : w \notin pend /\ at[w] = "idle"

(* SUSPEND stops the data path, and delay_init is what clears it: while    *)
(* the flag is set a run of delay_init that will clear it is under way,    *)
(* pending, or about to be scheduled by detect_work.                       *)
SuspendHasOwner ==
  suspend /\ running =>
    \/ "delay_init" \in pend \/ at["delay_init"] \in InitStages
    \/ at["detect_work"] = "reload"

(* Once the detector was started it stays alive while the device runs: the *)
(* timer is armed or firing, or detect_work, which rearms it, is pending   *)
(* or running.  Otherwise a reset module would never be noticed again.     *)
DetectorAlive ==
  started /\ running =>
    tmr # {} \/ "detect_work" \in pend \/ at["detect_work"] # "idle"

(* A module that fell back into its boot ROM gets its firmware again and   *)
(* the driver knows it, unless the device is removed.                      *)
ReloadAfterReset ==
  (dv = "boot" /\ running) ~> ((dv = "fw" /\ fwState = "fw") \/ ~running)

(* On a bus that can be reset, initialisation ends with an interface, even *)
(* when the firmware information or the interface could not be had at once. *)
EventuallyInited == <>(inited \/ ~running)
=============================================================================
