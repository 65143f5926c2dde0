------------------------------- MODULE TxPath -------------------------------
(***************************************************************************)
(* The data path of hgic_fmac/core.c: hgicf_netif_xmit queues frames, the  *)
(* data half of hgicf_tx_work sends them, singly or gathered into an       *)
(* aggregate, as far as the soft flow control's window allows, and the     *)
(* receive callback sets the window.  A reload of the firmware suspends    *)
(* the path, a sleeping module and a boot download empty it.               *)
(*                                                                         *)
(* The network layer calls hgicf_netif_xmit for one frame at a time, and   *)
(* tx_wq is ordered, so that tx_work is the only sender of data.           *)
(***************************************************************************)
EXTENDS Integers, Sequences

CONSTANTS
  TxqSize,    \* txq_size
  IfAgg,      \* if_agg, 0 for no aggregation
  HdrLen,     \* sizeof(struct hgic_hdr)
  FrameLens,  \* the lengths of the frames to come: a bound on their number
  Window,     \* TXWND_INIT_VAL
  Grants,     \* windows the module announces
  MaxReloads  \* bound on the number of reloads and naps of the module; one
              \* more for what a reload has to repeat

ALIGN(n, a) == ((n + a - 1) \div a) * a

ASSUME SizeAssumption  == TxqSize \in Nat /\ HdrLen \in Nat /\ FrameLens \in Seq(Nat)
ASSUME AggAssumption   == IfAgg \in Nat /\ \A i \in 1 .. Len(FrameLens) :
                            IfAgg > 0 => HdrLen + ALIGN(FrameLens[i], 4) <= IfAgg
ASSUME WindowAssumption == Window \in Nat \ {0} /\ Grants \subseteq Nat
ASSUME BoundAssumption == MaxReloads \in Nat

VARIABLES
  frames,   \* frames the network layer has handed over; the last one's number
  xmit,     \* hgicf_netif_xmit has passed its test: the frame it will queue
  kick,     \* hgicf_netif_xmit is about to queue tx_work
  dataq,    \* tx_dataq
  pend,     \* tx_work is pending
  at,       \* where tx_work is
  hand,     \* the frame tx_work has dequeued
  agg,      \* the frames of the aggregate, and ...
  agglen,   \* ... its agghdr->length
  sent,     \* numbers of the frames the bus took, in order
  wnd,      \* txwnd
  asked,    \* a window was requested and not yet announced
  softfc,   \* soft_fc
  fw,       \* fw_state = STATE_FW
  suspend,  \* HGICF_DEV_FLAGS_SUSPEND
  sleep,    \* HGIC_BUS_FLAGS_SLEEP
  inboot,   \* HGIC_BUS_FLAGS_INBOOT
  reload,   \* how far a reload has come
  reloads   \* reloads, naps and repetitions so far

xmitVars  == <<frames, xmit, kick>>
workVars  == <<at, hand, agg, agglen, sent>>
wndVars   == <<wnd, asked>>
flagVars  == <<softfc, fw, suspend, sleep, inboot, reload, reloads>>
vars == <<xmitVars, dataq, pend, workVars, wndVars, flagVars>>

NoFrame == [id |-> 0, len |-> 0]

-----------------------------------------------------------------------------
(* hgicf_netif_xmit: the length is tested without the queue's lock, the    *)
(* frame is queued later, and then tx_work.                                *)

XmitTest == Len(dataq) <= TxqSize /\ ~sleep

XmitBegin ==
  /\ xmit = NoFrame /\ ~kick /\ frames < Len(FrameLens)
  /\ frames' = frames + 1
  /\ xmit' = IF XmitTest THEN [id |-> frames + 1, len |-> FrameLens[frames + 1]] ELSE NoFrame
  /\ UNCHANGED <<kick, dataq, pend, workVars, wndVars, flagVars>>

XmitQueue ==
  /\ xmit # NoFrame
  /\ dataq' = Append(dataq, xmit)
  /\ xmit' = NoFrame
  /\ kick' = TRUE
  /\ UNCHANGED <<frames, pend, workVars, wndVars, flagVars>>

XmitKick ==
  /\ kick
  /\ kick' = FALSE
  /\ pend' = TRUE
  /\ UNCHANGED <<frames, xmit, dataq, workVars, wndVars, flagVars>>

-----------------------------------------------------------------------------
(* hgicf_tx_work.  Its control half is FwCtrl's.                           *)

TxStart ==
  /\ pend /\ at = "idle"
  /\ pend' = FALSE
  /\ at' = "test"
  /\ UNCHANGED <<xmitVars, dataq, hand, agg, agglen, sent, wndVars, flagVars>>

DataTest ==
  /\ at = "test"
  /\ at' = IF dataq # <<>> /\ fw /\ ~suspend THEN "flags" ELSE "idle"
  /\ UNCHANGED <<xmitVars, dataq, pend, hand, agg, agglen, sent, wndVars, flagVars>>

DataFlags ==
  /\ at = "flags"
  /\ IF sleep \/ inboot THEN at' = "test" /\ dataq' = <<>>
                        ELSE at' = "wnd" /\ UNCHANGED dataq
  /\ UNCHANGED <<xmitVars, pend, hand, agg, agglen, sent, wndVars, flagVars>>

(* hgicf_check_txwnd: too small a window is requested anew, and tested     *)
(* again at once; a refusal sleeps and turns back.                         *)
CheckTxwnd ==
  /\ at = "wnd"
  /\ \/ (~softfc \/ inboot) /\ at' = "take" /\ UNCHANGED asked
     \/ softfc /\ ~inboot /\ (sleep \/ suspend) /\ at' = "test" /\ UNCHANGED asked
     \/ /\ softfc /\ ~inboot /\ ~sleep /\ ~suspend
        /\ at' = "again"
        /\ asked' = (asked \/ wnd < Window)
  /\ UNCHANGED <<xmitVars, dataq, pend, hand, agg, agglen, sent, wnd, flagVars>>

WindowOpen == wnd >= Window

CheckAgain ==
  /\ at = "again"
  /\ at' = IF WindowOpen THEN "dec" ELSE "test"
  /\ UNCHANGED <<xmitVars, dataq, pend, hand, agg, agglen, sent, wndVars, flagVars>>

DecTxwnd ==
  /\ at = "dec"
  /\ wnd' = wnd - 1
  /\ at' = "take"
  /\ UNCHANGED <<xmitVars, dataq, pend, hand, agg, agglen, sent, asked, flagVars>>

AggStart == HdrLen

(* skb_dequeue, which detect_work may have left nothing for.  The frame is *)
(* sent alone if it is alone, without aggregation, or without memory.      *)
Take ==
  /\ at = "take"
  /\ \/ dataq = <<>> /\ at' = "test" /\ UNCHANGED <<dataq, hand, agglen>>
     \/ /\ dataq # <<>>
        /\ hand' = Head(dataq) /\ dataq' = Tail(dataq)
        /\ \/ at' = "single" /\ UNCHANGED agglen
           \/ /\ Tail(dataq) # <<>> /\ IfAgg > 0
              /\ at' = "gather" /\ agglen' = AggStart
  /\ UNCHANGED <<xmitVars, pend, agg, sent, wndVars, flagVars>>

(* hgicf_tx_single_frm; the bus takes the frame or fails.                  *)
TxSingle ==
  /\ at = "single"
  /\ sent' \in {sent, Append(sent, hand.id)}
  /\ hand' = NoFrame
  /\ at' = "test"
  /\ UNCHANGED <<xmitVars, dataq, pend, agg, agglen, wndVars, flagVars>>

\* Mutant: a frame that does not fit goes to the end of the queue.
PutBackTail == Append(dataq, hand)

PutBack == <<hand>> \o dataq

\* Mutant: the length of the frame is not rounded up.
FitsUnaligned == agglen + hand.len <= IfAgg

Fits == agglen + ALIGN(hand.len, 4) <= IfAgg

(* The loop of hgicf_tx_agg_frm: a frame that does not fit is put back.    *)
Gather ==
  /\ at = "gather"
  /\ \/ /\ ~Fits
        /\ dataq' = PutBack /\ hand' = NoFrame /\ at' = "aggsend"
        /\ UNCHANGED <<agg, agglen>>
     \/ /\ Fits
        /\ agg' = Append(agg, hand.id) /\ agglen' = agglen + ALIGN(hand.len, 4)
        /\ IF dataq = <<>>
           THEN at' = "aggsend" /\ hand' = NoFrame /\ UNCHANGED dataq
           ELSE hand' = Head(dataq) /\ dataq' = Tail(dataq) /\ UNCHANGED at
  /\ UNCHANGED <<xmitVars, pend, sent, wndVars, flagVars>>

(* An aggregate without frames is thrown away.                             *)
AggSend ==
  /\ at = "aggsend"
  /\ sent' \in {sent, IF agglen > HdrLen THEN sent \o agg ELSE sent}
  /\ agg' = <<>> /\ agglen' = 0
  /\ at' = "test"
  /\ UNCHANGED <<xmitVars, dataq, pend, hand, wndVars, flagVars>>

TxWork ==
  \/ TxStart \/ DataTest \/ DataFlags \/ CheckTxwnd \/ CheckAgain \/ DecTxwnd
  \/ Take \/ TxSingle \/ Gather \/ AggSend

-----------------------------------------------------------------------------
(* hgicf_rx_data, HGIC_HDR_TYPE_SOFTFC: the module announces a window, at  *)
(* any time between the tests above.                                       *)
SetTxwnd(n) ==
  /\ wnd' = n
  /\ asked' = FALSE
  /\ UNCHANGED <<xmitVars, dataq, pend, workVars, flagVars>>

(* detect_work suspends the path and empties it for a reload, ...          *)
ReloadBegin ==
  /\ reload = "no" /\ reloads < MaxReloads /\ ~sleep
  /\ reloads' = reloads + 1
  /\ dataq' = <<>>
  /\ reload' = "begin"
  /\ UNCHANGED <<xmitVars, pend, workVars, wndVars, softfc, fw, suspend, sleep, inboot>>

ReloadSuspend ==
  /\ reload = "begin"
  /\ softfc' = FALSE /\ fw' = FALSE /\ suspend' = TRUE
  /\ reload' = "queued"
  /\ UNCHANGED <<xmitVars, dataq, pend, workVars, wndVars, sleep, inboot, reloads>>

(* ... hgicf_download_fw runs in INBOOT, and may fail, ...                 *)
DownloadBegin ==
  /\ reload = "queued"
  /\ inboot' = TRUE /\ reload' = "download"
  /\ UNCHANGED <<xmitVars, dataq, pend, workVars, wndVars, softfc, fw, suspend,
                 sleep, reloads>>

Repeat == reloads <= MaxReloads /\ reloads' = reloads + 1

DownloadEnd ==
  /\ reload = "download"
  /\ inboot' = FALSE /\ reload' = "loaded"
  /\ \/ fw' = TRUE /\ UNCHANGED reloads
     \/ fw' = FALSE /\ Repeat
  /\ UNCHANGED <<xmitVars, dataq, pend, workVars, wndVars, softfc, suspend, sleep>>

(* ... delay_init ends the suspension ...                                  *)
InitResume ==
  /\ reload = "loaded"
  /\ suspend' = FALSE /\ reload' = "resumed"
  /\ UNCHANGED <<xmitVars, dataq, pend, workVars, wndVars, softfc, fw, sleep,
                 inboot, reloads>>

\* Mutant: no command follows the end of the suspension.
KickNone == UNCHANGED pend

(* ... and asks for the firmware's version: hgicf_schedule queues tx_work, *)
(* which finds what was queued during the suspension, and may send it      *)
(* before the answer turns the flow control on.                            *)
KickTxWork == pend' = TRUE

InitGetFwinfo ==
  /\ reload = "resumed" /\ fw
  /\ KickTxWork
  /\ reload' = "asked"
  /\ UNCHANGED <<xmitVars, dataq, workVars, wndVars, softfc, fw, suspend, sleep,
                 inboot, reloads>>

InitSoftFc ==
  /\ reload = "asked"
  /\ softfc' \in BOOLEAN
  /\ reload' = "no"
  /\ UNCHANGED <<xmitVars, dataq, pend, workVars, wndVars, fw, suspend, sleep,
                 inboot, reloads>>

(* A failed download, or an unanswered question, starts delay_init again,  *)
(* without the suspension and with the fw_state it has.                    *)
InitAgain ==
  /\ \/ reload = "resumed" /\ ~fw /\ UNCHANGED reloads
     \/ reload = "asked" /\ Repeat
  /\ reload' = "queued"
  /\ UNCHANGED <<xmitVars, dataq, pend, workVars, wndVars, softfc, fw, suspend,
                 sleep, inboot>>

(* The module goes to sleep and is woken up (SleepFlow).                   *)
Sleep ==
  /\ ~sleep /\ reloads < MaxReloads
  /\ reloads' = reloads + 1
  /\ sleep' = TRUE
  /\ UNCHANGED <<xmitVars, dataq, pend, workVars, wndVars, softfc, fw, suspend, inboot, reload>>

(* A command wakes it, and queues tx_work.                                 *)
Wake ==
  /\ sleep
  /\ sleep' = FALSE /\ pend' = TRUE
  /\ UNCHANGED <<xmitVars, dataq, workVars, wndVars, softfc, fw, suspend, inboot, reload, reloads>>

Reload ==
  ReloadSuspend \/ DownloadBegin \/ DownloadEnd \/ InitResume \/ InitGetFwinfo
  \/ InitSoftFc \/ InitAgain

-----------------------------------------------------------------------------
Init ==
  /\ frames = 0 /\ xmit = NoFrame /\ kick = FALSE
  /\ dataq = <<>> /\ pend = FALSE
  /\ at = "idle" /\ hand = NoFrame /\ agg = <<>> /\ agglen = 0 /\ sent = <<>>
  /\ wnd = Window /\ asked = FALSE
  /\ softfc \in BOOLEAN /\ fw = TRUE /\ suspend = FALSE /\ sleep = FALSE /\ inboot = FALSE
  /\ reload = "no" /\ reloads = 0

Next ==
  \/ XmitBegin \/ XmitQueue \/ XmitKick \/ TxWork
  \/ \E n \in Grants : SetTxwnd(n)
  \/ ReloadBegin \/ Reload \/ Sleep \/ Wake

Spec == Init /\ [][Next]_vars

(* A frame once accepted is queued, tx_work runs and a reload goes on.  A  *)
(* module that is asked again and again opens its window at last, in time  *)
(* for tx_work's second test.                                              *)
Fairness ==
  /\ WF_vars(XmitQueue \/ XmitKick)
  /\ WF_vars(TxWork)
  /\ SF_vars(at = "again" /\ asked /\ \E n \in Grants : n >= Window /\ SetTxwnd(n))
  /\ SF_vars(CheckAgain /\ at' = "dec")
  /\ WF_vars(Reload)

FairSpec == Spec /\ Fairness

-----------------------------------------------------------------------------
Frame == [id : Nat, len : Nat]

(* Every variable has its type: the window may pass below zero, and an     *)
(* aggregate is never shorter than its header.                             *)
TypeOK ==
  /\ frames \in Nat /\ xmit \in Frame /\ kick \in BOOLEAN
  /\ dataq \in Seq(Frame) /\ pend \in BOOLEAN
  /\ at \in {"idle", "test", "flags", "wnd", "again", "dec", "take", "single",
             "gather", "aggsend"}
  /\ hand \in Frame /\ agg \in Seq(Nat) /\ sent \in Seq(Nat)
  /\ agglen \in Nat /\ (agglen = 0 \/ agglen >= HdrLen)
  /\ wnd \in Int /\ asked \in BOOLEAN
  /\ softfc \in BOOLEAN /\ fw \in BOOLEAN /\ suspend \in BOOLEAN
  /\ sleep \in BOOLEAN /\ inboot \in BOOLEAN
  /\ reload \in {"no", "begin", "queued", "download", "loaded", "resumed", "asked"}
  /\ reloads \in Nat

(* Frames leave in the order in which the network layer handed them over,  *)
(* none twice, although an aggregate puts the frame that does not fit back *)
(* and other frames are dropped around it.                                 *)
SentInOrder == \A i, j \in 1 .. Len(sent) : i < j => sent[i] < sent[j]

(* tx_dataq is at most two frames longer than txq_size: the test is for    *)
(* more than txq_size, and while an aggregate is gathered the frame in     *)
(* hand is put back behind hgicf_netif_xmit's test.                        *)
DataqBounded == Len(dataq) <= TxqSize + 2

(* The aggregate never outgrows the if_agg bytes allocated for it.         *)
AggFits == agglen <= IfAgg \/ agglen = 0

(* The window is tested and decremented in two steps, between which the    *)
(* module may close it: it falls below zero, but never below -1.           *)
WindowFloor == wnd >= -1

(* The three limits that unlocked tests and roundings bring into danger.   *)
TxLimits == DataqBounded /\ AggFits /\ WindowFloor

(* No accepted frame is forgotten: once the network layer pauses, every    *)
(* frame is sent or dropped, also one accepted just before tx_dataq was    *)
(* cleared, and what was queued while the path was suspended.              *)
QueueDrains == (xmit # NoFrame \/ dataq # <<>>) ~> (xmit = NoFrame /\ dataq = <<>>)
=============================================================================
