------------------------------- MODULE FwCtrl -------------------------------
(***************************************************************************)
(* The firmware command channel: utils/fwctrl.c, with the control half of  *)
(* hgicf_tx_work (hgic_fmac/core.c) that drains its transmit queue and the *)
(* teardown of hgicf_core_remove that releases it.                         *)
(*                                                                         *)
(* A caller (a /proc or ioctl handler, a worker) allocates a cookie, links *)
(* a response record that lives on its stack into pd_list, queues a frame  *)
(* and sleeps until the record is completed or a timeout expires.  tx_work *)
(* sends the frames, the device may lose, delay, reorder or repeat its     *)
(* answers, and hgic_fwctrl_work hands every answer to the first record of *)
(* pd_list with the answer's cookie.                                       *)
(***************************************************************************)
EXTENDS Naturals, Sequences, FiniteSets

CONSTANTS
  Callers,       \* the contexts that may issue a command
  KindOf,        \* what each caller sends: "CMD", "BOOTDL", "OTA" or "HCI"
  IoctlCallers,  \* callers that enter through the net device, not /proc
  CookieMod,     \* size of the cookie space, HGIC_TX_COOKIE_MASK + 1
  TxqMax,        \* the 4 of hgic_fwctrl_send_data
  MaxCmds,       \* bound on the number of commands of a behaviour
  MaxDups,       \* bound on the number of answers the device repeats
  Env            \* which of the driver's other parts act: "sleep", "inboot",
                 \* "detect", "remove"

Kinds == {"CMD", "BOOTDL", "OTA", "HCI"}

ASSUME CallersAssumption == IsFiniteSet(Callers)
ASSUME KindAssumption    == KindOf \in [Callers -> Kinds]
ASSUME CookieAssumption  == CookieMod \in Nat \ {0}
ASSUME TxqAssumption     == TxqMax \in Nat
ASSUME BoundsAssumption  == MaxCmds \in Nat /\ MaxDups \in Nat

VARIABLES
  pc,       \* where each caller is in hgic_fwctrl_send_data
  stamp,    \* number of the caller's current command, 0 when it has none
  ck,       \* resp->cookie of the current command
  resp,     \* resp->skb
  cmpl,     \* resp->cmpl has been completed
  cookie,   \* ctrl->cookie
  allocs,   \* how many cookies were given out (numbers the commands)
  hcis,     \* how many HCI frames were started, all with number 0
  pd,       \* ctrl->pd_list, head first
  txq,      \* ctrl->txq
  txPend,   \* tx_work is pending on tx_wq
  txPc,     \* where tx_work is
  rxq,      \* ctrl->rxq
  rxPend,   \* ctrl->work is pending on ctrl->wq
  rxPc,     \* where hgic_fwctrl_work is
  isr,      \* the bus callback is between queueing an answer and queue_work
  dev,      \* commands the device holds and may still answer
  exec,     \* numbers of the commands that reached the device
  dups,     \* answers the device has repeated
  leaked,   \* an answer was overwritten in resp->skb and never freed
  running,  \* HGICF_DEV_FLAGS_RUNNING
  sleep,    \* HGIC_BUS_FLAGS_SLEEP
  inboot,   \* HGIC_BUS_FLAGS_INBOOT
  rm        \* how far hgicf_core_remove has come

callerVars == <<pc, stamp, ck, resp, cmpl>>
allocVars  == <<cookie, allocs, hcis>>
txVars     == <<txq, txPend, txPc>>
rxVars     == <<rxq, rxPend, rxPc, isr>>
devVars    == <<dev, exec, dups>>
flagVars   == <<running, sleep, inboot>>
vars == <<callerVars, allocVars, pd, txVars, rxVars, devVars, leaked,
          flagVars, rm>>

-----------------------------------------------------------------------------
(* Frames.  An answer repeats the number and the cookie of its command.    *)

Frame == [stamp : Nat, cookie : Nat, kind : Kinds]
NoSkb == [stamp |-> 0, cookie |-> 0, kind |-> "CMD"]

Synchronous(c) == KindOf[c] # "HCI"

FrameOf(c) == [stamp |-> stamp[c], cookie |-> ck[c], kind |-> KindOf[c]]

InCall(c) == pc[c] \in {"full", "enq", "sched", "wait", "del"} /\ Synchronous(c)

(* list_add puts the record at the head of the list, list_del unlinks it.  *)
ListAdd(c, l) == <<c>> \o l

\* Mutant: the record of a call that timed out stays linked.
ListDelIfCompleted(c, l) ==
  LET at == CHOOSE i \in 1 .. Len(l) : l[i] = c
  IN  IF ~cmpl[c] THEN l
      ELSE [i \in 1 .. Len(l) - 1 |-> IF i < at THEN l[i] ELSE l[i + 1]]

ListDel(c, l) ==
  LET at == CHOOSE i \in 1 .. Len(l) : l[i] = c
  IN  [i \in 1 .. Len(l) - 1 |-> IF i < at THEN l[i] ELSE l[i + 1]]

-----------------------------------------------------------------------------
(* The numbers of all commands that something still refers to: a caller in *)
(* the middle of its call, a queued frame, a command the device holds, an  *)
(* answer on its way.                                                      *)
LiveStamps ==
  {stamp[c] : c \in {d \in Callers : pc[d] # "idle" /\ Synchronous(d)}}
    \cup {txq[i].stamp : i \in {j \in 1 .. Len(txq) : txq[j].kind # "HCI"}}
    \cup {f.stamp : f \in dev}
    \cup {rxq[i].stamp : i \in 1 .. Len(rxq)}

(* Environment: CookieMod commands are never started within the lifetime   *)
(* of one command and its answers (32768 commands within some seconds).    *)
CookieWindow == \A s \in LiveStamps : allocs + 1 < s + CookieMod

(* A caller may enter as long as its door is open: /proc entries go in     *)
(* hgicf_delete_procfs, the net device goes in unregister_netdev.          *)
DoorOpen(c) == IF c \in IoctlCallers THEN rm # "gone"
                                     ELSE rm \in {"up", "stopped", "txdead"}

\* Mutant: the counter is read but not advanced.
NextCookieStuck == cookie

\* Mutant: the counter wraps one too early.
NextCookieShort == (cookie + 1) % (CookieMod - 1)

NextCookie == (cookie + 1) % CookieMod

(* hgic_ctrl_cookie.  OTA allocates a cookie as well, and then clears the  *)
(* record that holds it: its cookie is always 0.                           *)
GetCookie(c) ==
  /\ pc[c] = "idle" /\ Synchronous(c) /\ DoorOpen(c)
  /\ allocs < MaxCmds /\ CookieWindow
  /\ allocs' = allocs + 1
  /\ cookie' = NextCookie
  /\ stamp' = [stamp EXCEPT ![c] = allocs + 1]
  /\ ck' = [ck EXCEPT ![c] = IF KindOf[c] = "OTA" THEN 0 ELSE cookie]
  /\ pc' = [pc EXCEPT ![c] = "add"]
  /\ resp' = [resp EXCEPT ![c] = NoSkb]
  /\ cmpl' = [cmpl EXCEPT ![c] = FALSE]
  /\ UNCHANGED <<hcis, pd, txVars, rxVars, devVars, leaked, flagVars, rm>>

LinkResponse(c) ==
  /\ pc[c] = "add"
  /\ pd' = ListAdd(c, pd)
  /\ pc' = [pc EXCEPT ![c] = "full"]
  /\ UNCHANGED <<stamp, ck, resp, cmpl, allocVars, txVars, rxVars, devVars,
                 leaked, flagVars, rm>>

TxqRoom == IF Len(txq) > TxqMax THEN Tail(txq) ELSE txq

(* The oldest queued frame makes room, whoever waits for it.  The length   *)
(* is read without the queue's lock and the frame is queued later.         *)
CheckTxqFull(c) ==
  /\ pc[c] = "full"
  /\ txq' = TxqRoom
  /\ pc' = [pc EXCEPT ![c] = "enq"]
  /\ UNCHANGED <<stamp, ck, resp, cmpl, allocVars, pd, txPend, txPc, rxVars,
                 devVars, leaked, flagVars, rm>>

(* hgic_fwctrl_send_hci_data queues without a record and without a check.  *)
SendHciData(c) ==
  /\ pc[c] = "idle" /\ ~Synchronous(c) /\ DoorOpen(c) /\ hcis < MaxCmds
  /\ hcis' = hcis + 1
  /\ pc' = [pc EXCEPT ![c] = "enq"]
  /\ UNCHANGED <<stamp, ck, resp, cmpl, cookie, allocs, pd, txVars, rxVars, devVars, leaked,
                 flagVars, rm>>

EnqueueFrame(c) ==
  /\ pc[c] = "enq"
  /\ txq' = Append(txq, FrameOf(c))
  /\ pc' = [pc EXCEPT ![c] = "sched"]
  /\ UNCHANGED <<stamp, ck, resp, cmpl, allocVars, pd, txPend, txPc, rxVars,
                 devVars, leaked, flagVars, rm>>

\* Mutant: a work that is already running is not queued again.
QueueTxWorkIfIdle == txPend' = (txPend \/ txPc = "idle")

(* hgicf_schedule: queue_work marks tx_work pending even while it runs.    *)
QueueTxWork == txPend' = TRUE

Schedule(c) ==
  /\ pc[c] = "sched"
  /\ QueueTxWork
  /\ pc' = [pc EXCEPT ![c] = IF Synchronous(c) THEN "wait" ELSE "idle"]
  /\ UNCHANGED <<stamp, ck, resp, cmpl, allocVars, pd, txq, txPc, rxVars,
                 devVars, leaked, flagVars, rm>>

(* wait_for_completion_timeout, completed or expired.                      *)
WaitDone(c) ==
  /\ pc[c] = "wait" /\ cmpl[c]
  /\ pc' = [pc EXCEPT ![c] = "del"]
  /\ UNCHANGED <<stamp, ck, resp, cmpl, allocVars, pd, txVars, rxVars, devVars,
                 leaked, flagVars, rm>>

\* Mutant: the wait has no timeout.
WaitForever(c) ==
  /\ pc[c] = "wait" /\ cmpl[c]
  /\ pc' = [pc EXCEPT ![c] = "del"]
  /\ UNCHANGED <<stamp, ck, resp, cmpl, allocVars, pd, txVars, rxVars, devVars,
                 leaked, flagVars, rm>>

WaitTimeout(c) ==
  /\ pc[c] = "wait" /\ ~cmpl[c]
  /\ pc' = [pc EXCEPT ![c] = "del"]
  /\ UNCHANGED <<stamp, ck, resp, cmpl, allocVars, pd, txVars, rxVars, devVars,
                 leaked, flagVars, rm>>

(* The record is unlinked and its answer, if any, is used and freed.       *)
UnlinkAndReturn(c) ==
  /\ pc[c] = "del"
  /\ pd' = ListDel(c, pd)
  /\ pc' = [pc EXCEPT ![c] = "idle"]
  /\ resp' = [resp EXCEPT ![c] = NoSkb]
  /\ UNCHANGED <<stamp, ck, cmpl, allocVars, txVars, rxVars, devVars, leaked,
                 flagVars, rm>>

-----------------------------------------------------------------------------
(* tx_work, control half.                                                  *)

TxStart ==
  /\ txPend /\ txPc = "idle" /\ rm \notin {"nowq", "gone"}
  /\ txPend' = FALSE
  /\ txPc' = "loop"
  /\ UNCHANGED <<callerVars, allocVars, pd, txq, rxVars, devVars, leaked,
                 flagVars, rm>>

\* Mutant: tx_work keeps sending after RUNNING was cleared.
TxAllowedWhileStopped == ~sleep

TxAllowed == ~sleep /\ running

TxLoopTest ==
  /\ txPc = "loop"
  /\ \/ txq = <<>> /\ txPc' = "data" /\ UNCHANGED txq
     \/ txq # <<>> /\ ~TxAllowed /\ txq' = <<>> /\ UNCHANGED txPc
     \/ txq # <<>> /\ TxAllowed /\ txPc' = "frm" /\ UNCHANGED txq
  /\ UNCHANGED <<callerVars, allocVars, pd, txPend, rxVars, devVars, leaked,
                 flagVars, rm>>

(* During a firmware download only boot frames leave; the bus may fail.    *)
TxCtrlFrm ==
  /\ txPc = "frm"
  /\ txPc' = "loop"
  /\ \/ txq = <<>> /\ UNCHANGED <<txq, dev, exec>>
     \/ /\ txq # <<>>
        /\ txq' = Tail(txq)
        /\ \/ UNCHANGED <<dev, exec>>
           \/ /\ ~inboot \/ Head(txq).kind = "BOOTDL"
              /\ exec' = exec \cup {Head(txq).stamp}
              /\ dev' = IF Head(txq).kind = "HCI" THEN dev
                                                  ELSE dev \cup {Head(txq)}
  /\ UNCHANGED <<callerVars, allocVars, pd, txPend, rxVars, dups, leaked,
                 flagVars, rm>>

(* The data half returns, or turns back to the control queue: a frame was  *)
(* queued, the window is closed, the device sleeps.  It stays away from    *)
(* the control queue's state, and ends at once when RUNNING is cleared.    *)
TxDataHalf ==
  /\ txPc = "data"
  /\ \/ txPc' = "idle"
     \/ running /\ txPc' = "loop"
  /\ UNCHANGED <<callerVars, allocVars, pd, txq, txPend, rxVars, devVars, leaked,
                 flagVars, rm>>

-----------------------------------------------------------------------------
(* The device and the bus receive callback (hgic_fwctrl_rx).               *)

DevAnswer(f) ==
  /\ f \in dev /\ isr = FALSE /\ rm = "up"
  /\ rxq' = Append(rxq, f)
  /\ isr' = TRUE
  /\ \/ dev' = dev \ {f} /\ UNCHANGED dups
     \/ dups < MaxDups /\ dups' = dups + 1 /\ UNCHANGED dev
  /\ UNCHANGED <<callerVars, allocVars, pd, txVars, rxPend, rxPc, exec, leaked,
                 flagVars, rm>>

DevLose(f) ==
  /\ f \in dev
  /\ dev' = dev \ {f}
  /\ UNCHANGED <<callerVars, allocVars, pd, txVars, rxVars, exec, dups, leaked,
                 flagVars, rm>>

RxQueueWork ==
  /\ isr
  /\ isr' = FALSE
  /\ rxPend' = TRUE
  /\ UNCHANGED <<callerVars, allocVars, pd, txVars, rxq, rxPc, devVars, leaked,
                 flagVars, rm>>

-----------------------------------------------------------------------------
(* hgic_fwctrl_work.                                                       *)

RxStart ==
  /\ rxPend /\ rxPc = "idle"
  /\ rxPend' = FALSE
  /\ rxPc' = "loop"
  /\ UNCHANGED <<callerVars, allocVars, pd, txVars, rxq, isr, devVars, leaked,
                 flagVars, rm>>

\* Mutant: an answer goes to the newest record, whatever its cookie.
MatchesNewest(i, a) == a.cookie \in Nat /\ i = 1

Matches(i, a) == ck[pd[i]] = a.cookie

(* hgic_fwctrl_rx_response: the first record with the answer's cookie gets *)
(* it, whatever the type of the frames; an answer nobody waits for is      *)
(* freed.                                                                  *)
RxResponse(a) ==
  \/ \E i \in 1 .. Len(pd) :
       /\ Matches(i, a) /\ \A j \in 1 .. i - 1 : ~Matches(j, a)
       /\ resp' = [resp EXCEPT ![pd[i]] = a]
       /\ cmpl' = [cmpl EXCEPT ![pd[i]] = TRUE]
       /\ leaked' = (leaked \/ resp[pd[i]] # NoSkb)
  \/ /\ \A i \in 1 .. Len(pd) : ~Matches(i, a)
     /\ UNCHANGED <<resp, cmpl, leaked>>

RxStep ==
  /\ rxPc = "loop"
  /\ \/ /\ rxq = <<>>
        /\ rxPc' = "ret"
        /\ UNCHANGED <<rxq, resp, cmpl, leaked>>
     \/ /\ rxq # <<>>
        /\ rxq' = Tail(rxq)
        /\ RxResponse(Head(rxq))
        /\ UNCHANGED rxPc
  /\ UNCHANGED <<pc, stamp, ck, allocVars, pd, txVars, rxPend, isr, devVars,
                 flagVars, rm>>

RxReturn ==
  /\ rxPc = "ret"
  /\ rxPc' = "idle"
  /\ UNCHANGED <<callerVars, allocVars, pd, txVars, rxq, rxPend, isr, devVars,
                 leaked, flagVars, rm>>

-----------------------------------------------------------------------------
(* Flags other parts of the driver change, and detect_work's clearing of   *)
(* the queue before it reloads the firmware.                               *)

SetSleep(b) ==
  /\ "sleep" \in Env /\ rm = "up" /\ sleep' = b
  /\ UNCHANGED <<callerVars, allocVars, pd, txVars, rxVars, devVars, leaked,
                 running, inboot, rm>>

SetInBoot(b) ==
  /\ "inboot" \in Env /\ rm = "up" /\ inboot' = b
  /\ UNCHANGED <<callerVars, allocVars, pd, txVars, rxVars, devVars, leaked,
                 running, sleep, rm>>

DetectClear ==
  /\ "detect" \in Env /\ rm = "up" /\ ~sleep
  /\ txq' = <<>>
  /\ UNCHANGED <<callerVars, allocVars, pd, txPend, txPc, rxVars, devVars,
                 leaked, flagVars, rm>>

-----------------------------------------------------------------------------
(* hgicf_core_remove, as far as it concerns the command channel.  The bus  *)
(* driver stops receiving before it calls it.                              *)

RemoveStop ==
  /\ "remove" \in Env /\ rm = "up" /\ ~isr
  /\ running' = FALSE
  /\ rm' = "stopped"
  /\ UNCHANGED <<callerVars, allocVars, pd, txVars, rxVars, devVars, leaked,
                 sleep, inboot>>

(* cancel_work_sync drops a pending tx_work and waits for a running one.   *)
RemoveCancelTx ==
  /\ rm = "stopped" /\ txPc = "idle"
  /\ txPend' = FALSE
  /\ rm' = "txdead"
  /\ UNCHANGED <<callerVars, allocVars, pd, txq, txPc, rxVars, devVars, leaked,
                 flagVars>>

(* remove_proc_entry waits for the handlers that are inside.               *)
RemoveProcfs ==
  /\ rm = "txdead"
  /\ \A c \in Callers \ IoctlCallers : pc[c] = "idle"
  /\ rm' = "noproc"
  /\ UNCHANGED <<callerVars, allocVars, pd, txVars, rxVars, devVars, leaked,
                 flagVars>>

(* hgic_fwctrl_release: cancel_work_sync(&ctrl->work), ...                 *)
ReleaseCancelWork ==
  /\ rm = "noproc" /\ rxPc = "idle"
  /\ rxPend' = FALSE
  /\ rm' = "nowork"
  /\ UNCHANGED <<callerVars, allocVars, pd, txVars, rxq, rxPc, isr, devVars,
                 leaked, flagVars>>

(* ... hgic_fwctrl_clear_pdlist wakes the callers that still wait, ...     *)
ReleasePdList ==
  /\ rm = "nowork"
  /\ cmpl' = [c \in Callers |-> cmpl[c] \/ \E i \in 1 .. Len(pd) : pd[i] = c]
  /\ rm' = "nowait"
  /\ UNCHANGED <<pc, stamp, ck, resp, allocVars, pd, txVars, rxVars, devVars,
                 leaked, flagVars>>

(* ... and the queues are emptied.                                         *)
ReleaseQueues ==
  /\ rm = "nowait"
  /\ txq' = <<>> /\ rxq' = <<>>
  /\ rm' = "released"
  /\ UNCHANGED <<callerVars, allocVars, pd, txPend, txPc, rxPend, rxPc, isr,
                 devVars, leaked, flagVars>>

(* flush_workqueue and destroy_workqueue of tx_wq.                         *)
RemoveTxWq ==
  /\ rm = "released" /\ ~txPend /\ txPc = "idle"
  /\ rm' = "nowq"
  /\ UNCHANGED <<callerVars, allocVars, pd, txVars, rxVars, devVars, leaked,
                 flagVars>>

(* unregister_netdev waits for the ioctl handlers, which hold the rtnl.    *)
RemoveNetdev ==
  /\ rm = "nowq"
  /\ \A c \in Callers : pc[c] = "idle"
  /\ rm' = "gone"
  /\ UNCHANGED <<callerVars, allocVars, pd, txVars, rxVars, devVars, leaked,
                 flagVars>>

-----------------------------------------------------------------------------
Init ==
  /\ pc = [c \in Callers |-> "idle"]
  /\ stamp = [c \in Callers |-> 0]
  /\ ck = [c \in Callers |-> 0]
  /\ resp = [c \in Callers |-> NoSkb]
  /\ cmpl = [c \in Callers |-> FALSE]
  /\ cookie = 0 /\ allocs = 0 /\ hcis = 0
  /\ pd = <<>>
  /\ txq = <<>> /\ txPend = FALSE /\ txPc = "idle"
  /\ rxq = <<>> /\ rxPend = FALSE /\ rxPc = "idle" /\ isr = FALSE
  /\ dev = {} /\ exec = {} /\ dups = 0
  /\ leaked = FALSE
  /\ running = TRUE /\ sleep = FALSE /\ inboot = FALSE
  /\ rm = "up"

CallerStep(c) ==
  \/ GetCookie(c) \/ LinkResponse(c) \/ CheckTxqFull(c) \/ SendHciData(c)
  \/ EnqueueFrame(c) \/ Schedule(c) \/ WaitDone(c) \/ WaitTimeout(c)
  \/ UnlinkAndReturn(c)

TxStep == TxStart \/ TxLoopTest \/ TxCtrlFrm \/ TxDataHalf

DevStep == \E f \in dev : DevAnswer(f) \/ DevLose(f)

RxWorkStep == RxQueueWork \/ RxStart \/ RxStep \/ RxReturn

OtherStep == DetectClear \/ \E b \in BOOLEAN : SetSleep(b) \/ SetInBoot(b)

RemoveStep ==
  \/ RemoveStop \/ RemoveCancelTx \/ RemoveProcfs \/ ReleaseCancelWork
  \/ ReleasePdList \/ ReleaseQueues \/ RemoveTxWq \/ RemoveNetdev

Next ==
  \/ \E c \in Callers : CallerStep(c)
  \/ TxStep \/ DevStep \/ RxWorkStep \/ OtherStep \/ RemoveStep

Spec == Init /\ [][Next]_vars

(* Workqueues run what is pending, a caller that entered goes on, and its  *)
(* wait ends at the latest with the timeout.  A removal that began goes    *)
(* on.  Callers need not enter, and the device need not answer.            *)
CallerProgress(c) ==
  \/ LinkResponse(c) \/ CheckTxqFull(c) \/ EnqueueFrame(c) \/ Schedule(c)
  \/ WaitDone(c) \/ WaitTimeout(c) \/ UnlinkAndReturn(c)

Fairness ==
  /\ \A c \in Callers : WF_vars(CallerProgress(c))
  /\ WF_vars(TxStep) /\ WF_vars(RxWorkStep)
  /\ WF_vars(RemoveStep /\ rm # "up")

FairSpec == Spec /\ Fairness

-----------------------------------------------------------------------------
(* Properties.                                                             *)

(* Every variable has its type, and cookies stay below CookieMod.          *)
TypeOK ==
  /\ pc \in [Callers -> {"idle", "add", "full", "enq", "sched", "wait", "del"}]
  /\ stamp \in [Callers -> Nat]
  /\ ck \in [Callers -> 0 .. CookieMod - 1]
  /\ resp \in [Callers -> Frame]
  /\ cmpl \in [Callers -> BOOLEAN]
  /\ cookie \in 0 .. CookieMod - 1
  /\ allocs \in Nat /\ hcis \in Nat
  /\ pd \in Seq(Callers)
  /\ txq \in Seq(Frame) /\ txPend \in BOOLEAN /\ txPc \in {"idle", "loop", "frm", "data"}
  /\ rxq \in Seq(Frame) /\ rxPend \in BOOLEAN /\ rxPc \in {"idle", "loop", "ret"}
  /\ isr \in BOOLEAN
  /\ dev \in SUBSET Frame /\ exec \in SUBSET Nat /\ dups \in Nat
  /\ leaked \in BOOLEAN
  /\ running \in BOOLEAN /\ sleep \in BOOLEAN /\ inboot \in BOOLEAN
  /\ rm \in {"up", "stopped", "txdead", "noproc", "nowork", "nowait",
             "released", "nowq", "gone"}

OtaCallers == {c \in Callers : KindOf[c] = "OTA"}

(* A command is only ever given the answer to itself: not a late answer to *)
(* a command that timed out, not the answer to a concurrent command, not a *)
(* repeated answer (hgic_fwctrl_rx_response).  OTA frames all carry cookie *)
(* 0, so where OTA runs the promise leaves out OTA and cookie 0.           *)
AnswerIsOwn ==
  \A c \in Callers :
    (resp[c] # NoSkb /\ KindOf[c] # "OTA" /\ (ck[c] # 0 \/ OtaCallers = {}))
      => resp[c].stamp = stamp[c]

(* The response record lives on its caller's stack: pd_list holds exactly  *)
(* the records of the callers inside hgic_fwctrl_send_data, each once, so  *)
(* neither a late answer nor hgic_fwctrl_clear_pdlist reaches a dead one.  *)
PdListExact ==
  /\ \A c \in Callers : InCall(c) <=> \E i \in 1 .. Len(pd) : pd[i] = c
  /\ \A i, j \in 1 .. Len(pd) : pd[i] = pd[j] => i = j

(* hgic_fwctrl_send_data reads txq.qlen without the lock that protects the *)
(* queue: the queue may outgrow TxqMax + 1, by one frame for each caller   *)
(* at most (as long as no HCI frames are queued past the check).           *)
TxqBounded ==
  (\A c \in Callers : Synchronous(c)) => Len(txq) <= TxqMax + Cardinality(Callers)

(* A queued frame or answer always has a worker that will look at it: the  *)
(* work is pending, or has not yet found its queue empty (hgicf_tx_work,   *)
(* hgic_fwctrl_work), or the one that queued it is about to schedule it.   *)
(* (Until the teardown cancels the work.)                                  *)
NoLostWakeup ==
  rm \in {"up", "stopped"} =>
    /\ txq # <<>> => \/ txPend \/ txPc \in {"loop", "frm"}
                     \/ \E c \in Callers : pc[c] = "sched"
    /\ rxq # <<>> => rxPend \/ rxPc = "loop" \/ isr

(* An answer is lost to the allocator (overwritten in resp->skb by a       *)
(* second answer) only if the device repeated one.                         *)
LeakOnlyOnRepeat == leaked => dups > 0 \/ OtaCallers # {}

(* Once hgicf_core_remove has cancelled tx_work nothing is sent any more,  *)
(* although callers may still queue frames and schedule the work.          *)
QuietAfterCancel == [][rm \notin {"up", "stopped"} => exec' = exec]_vars

(* What a caller sees of its call: it has begun, the device has received   *)
(* this very command, an answer is there.                                  *)
CallSeen == [c \in Callers |-> IF pc[c] = "idle" \/ ~Synchronous(c) THEN "idle"
                               ELSE IF stamp[c] \in exec THEN "executed" ELSE "called"]
AnswerSeen == [c \in Callers |-> resp[c] # NoSkb]

Rpc == INSTANCE CmdRpc WITH call <- CallSeen, answer <- AnswerSeen

(* The command channel implements CmdRpc: a caller that has an answer got  *)
(* it after the device received its command (hgic_fwctrl_send_data).       *)
ImplementsRpc == Rpc!Spec

(* Removal ends: it waits for tx_work, for the /proc handlers and for the  *)
(* ioctl handlers, and all of them may be waiting for a device that no     *)
(* longer answers.                                                         *)
RemoveCompletes == rm = "stopped" ~> rm = "gone"
=============================================================================
