------------------------------ MODULE UsbPool -------------------------------
(***************************************************************************)
(* The USB bus driver's pools of request blocks: utils/if_usb.c.           *)
(*                                                                         *)
(* Every buffer is on one of three lists (tx_freeq, rx_freeq, used).  The  *)
(* semaphore tx_sema counts free transmit buffers for hgic_usb_tx_packet,  *)
(* which runs on the ordered transmit workqueue and so is one thread; URB  *)
(* completions run concurrently with it.  Receive URBs resubmit themselves *)
(* until the device stops or a submission fails.                           *)
(***************************************************************************)
EXTENDS Naturals, FiniteSets

CONSTANTS
  TxBufs,    \* transmit buffers that hgic_usb_qinit could allocate
  RxBufs,    \* receive buffers that hgic_usb_qinit could allocate
  MaxSkbs    \* bound on the number of frames sent in a behaviour

ASSUME BufsAssumption ==
  /\ IsFiniteSet(TxBufs) /\ IsFiniteSet(RxBufs) /\ TxBufs \cap RxBufs = {}
  /\ "none" \notin TxBufs \cup RxBufs
ASSUME SkbsAssumption == MaxSkbs \in Nat

Bufs == TxBufs \cup RxBufs

VARIABLES
  free,      \* buffers on tx_freeq and rx_freeq
  used,      \* buffers on the used list
  flight,    \* buffers whose URB the USB core holds
  data,      \* buf->data of a transmit buffer: a frame's number, 0 for NULL
  sema,      \* tx_sema
  posting,   \* completions between hgic_usb_enq and up
  tx,        \* where hgic_usb_tx_packet is
  buf,       \* its local variable buf
  sent,      \* number of frames given to hgic_usb_tx_packet
  owed,      \* frames whose hgicf_tx_complete is still to come
  twice,     \* a frame was completed twice
  stop,      \* HGIC_USB_STATUS_STOP
  err,       \* HGIC_USB_STATUS_ERR
  life       \* "probe", "failed", "up", "dying", "stopped", "freed"

vars == <<free, used, flight, data, sema, posting, tx, buf, sent, owed, twice,
          stop, err, life>>

-----------------------------------------------------------------------------
Complete(s) ==
  /\ owed' = owed \ {s}
  /\ twice' = (twice \/ s \notin owed)

(* hgic_usb_deq and hgic_usb_enq.                                          *)
Deq(b) == free' = free \ {b} /\ used' = used \cup {b}
Enq(b) == free' = free \cup {b} /\ used' = used \ {b}

(* The end of hgic_usb_tx_packet at __fail: the frame is completed, a      *)
(* buffer goes back, but the permit of the semaphore does not.             *)
TxFail ==
  /\ Complete(sent)
  /\ tx' = "idle"
  /\ IF buf \in Bufs
     THEN Enq(buf) /\ data' = [data EXCEPT ![buf] = 0]
     ELSE UNCHANGED <<free, used, data>>
  /\ buf' = "none"

TxPacket ==
  /\ tx = "idle" /\ life \notin {"failed", "freed"} /\ sent < MaxSkbs
  /\ sent' = sent + 1
  /\ owed' = owed \cup {sent + 1}
  /\ tx' = "enter"
  /\ UNCHANGED <<free, used, flight, data, sema, posting, buf, twice, stop, err,
                 life>>

TxEnter ==
  /\ tx = "enter"
  /\ IF stop \/ err THEN TxFail
     ELSE tx' = "down" /\ UNCHANGED <<free, used, data, buf, owed, twice>>
  /\ UNCHANGED <<flight, sema, posting, sent, stop, err, life>>

TxDown ==
  /\ tx = "down" /\ sema > 0
  /\ sema' = sema - 1
  /\ tx' = "check"
  /\ UNCHANGED <<free, used, flight, data, posting, buf, sent, owed, twice, stop,
                 err, life>>

TxDownTimeout ==
  /\ tx = "down" /\ sema = 0
  /\ TxFail
  /\ UNCHANGED <<flight, sema, posting, sent, stop, err, life>>

TxCheck ==
  /\ tx = "check"
  /\ IF stop \/ err \/ free \cap TxBufs = {} THEN TxFail
     ELSE \E b \in free \cap TxBufs :
            /\ Deq(b) /\ buf' = b /\ tx' = "submit"
            /\ UNCHANGED <<data, owed, twice>>
  /\ UNCHANGED <<flight, sema, posting, sent, stop, err, life>>

(* No memory for an aligned copy: the frame is completed and the function  *)
(* returns at once; the buffer stays on the used list for good.            *)
TxNoMemory ==
  /\ tx = "submit"
  /\ Complete(sent)
  /\ tx' = "idle" /\ buf' = "none"
  /\ UNCHANGED <<free, used, flight, data, sema, posting, sent, stop, err, life>>

TxSubmitOk ==
  /\ tx = "submit" /\ life \in {"probe", "up"}
  /\ data' = [data EXCEPT ![buf] = sent]
  /\ flight' = flight \cup {buf}
  /\ tx' = "idle" /\ buf' = "none"
  /\ UNCHANGED <<free, used, sema, posting, sent, owed, twice, stop, err, life>>

TxSubmitFail ==
  /\ tx = "submit"
  /\ TxFail
  /\ UNCHANGED <<flight, sema, posting, sent, stop, err, life>>

TxStep ==
  \/ TxEnter \/ TxDown \/ TxDownTimeout \/ TxCheck \/ TxNoMemory \/ TxSubmitOk
  \/ TxSubmitFail

-----------------------------------------------------------------------------
\* Mutant: the permit is given before the buffer is back on tx_freeq.
UrbTxDoneEarly(b) ==
  /\ b \in flight \cap TxBufs
  /\ \/ /\ data[b] # 0
        /\ Complete(data[b])
        /\ data' = [data EXCEPT ![b] = 0]
        /\ sema' = sema + 1
        /\ UNCHANGED <<free, used, flight>>
     \/ /\ data[b] = 0
        /\ Enq(b) /\ flight' = flight \ {b}
        /\ UNCHANGED <<data, sema, owed, twice>>
  /\ UNCHANGED <<posting, tx, buf, sent, stop, err, life>>

(* hgic_usb_tx_complete: the frame is completed and the buffer returned,   *)
(* then the semaphore is raised.                                           *)
UrbTxDone(b) ==
  /\ b \in flight \cap TxBufs
  /\ Complete(data[b])
  /\ data' = [data EXCEPT ![b] = 0]
  /\ Enq(b)
  /\ flight' = flight \ {b}
  /\ posting' = posting + 1
  /\ UNCHANGED <<sema, tx, buf, sent, stop, err, life>>

UrbTxPost ==
  /\ posting > 0
  /\ posting' = posting - 1
  /\ sema' = sema + 1
  /\ UNCHANGED <<free, used, flight, data, tx, buf, sent, owed, twice, stop, err,
                 life>>

-----------------------------------------------------------------------------
RxMaySubmit == ~stop /\ ~err

(* hgic_usb_submit_rx_urb.  A failed submission stops the bus and unlinks  *)
(* the URBs of the used list, which complete in their own time.            *)
SubmitRxOk(b) ==
  /\ RxMaySubmit /\ life \in {"probe", "up"}
  /\ flight' = flight \cup {b}
  /\ UNCHANGED <<free, used, err>>

SubmitRxFail(b) ==
  /\ Enq(b)
  /\ flight' = flight \ {b}
  /\ err' = (err \/ RxMaySubmit)

(* hgic_usb_submit_rx_urbs, the loop of the probe: the buffers of rx_freeq *)
(* are taken and submitted one by one.                                     *)
ProbeDeq(b) ==
  /\ life = "probe" /\ b \in free \cap RxBufs
  /\ used \cap RxBufs \subseteq flight
  /\ Deq(b)
  /\ UNCHANGED <<flight, data, sema, posting, tx, buf, sent, owed, twice, stop,
                 err, life>>

ProbeSubmit(b) ==
  /\ life = "probe" /\ b \in (used \cap RxBufs) \ flight
  /\ SubmitRxOk(b)
  /\ UNCHANGED <<data, sema, posting, tx, buf, sent, owed, twice, stop, life>>

(* The first failure ends the probe.  Its cleanup, which kills the URBs    *)
(* already submitted while it holds qlock, is not modelled.                *)
ProbeFail(b) ==
  /\ life = "probe" /\ b \in (used \cap RxBufs) \ flight
  /\ SubmitRxFail(b)
  /\ life' = "failed"
  /\ UNCHANGED <<data, sema, posting, tx, buf, sent, owed, twice, stop>>

ProbeDone ==
  /\ life = "probe" /\ RxBufs \subseteq flight
  /\ life' = "up"
  /\ UNCHANGED <<free, used, flight, data, sema, posting, tx, buf, sent, owed,
                 twice, stop, err>>

(* hgic_usb_receive.                                                       *)
UrbReceive(b) ==
  /\ b \in flight \cap RxBufs /\ life # "freed"
  /\ SubmitRxOk(b) \/ SubmitRxFail(b)
  /\ UNCHANGED <<data, sema, posting, tx, buf, sent, owed, twice, stop, life>>

-----------------------------------------------------------------------------
(* The USB core disables the interface's endpoints, which completes every  *)
(* URB and refuses new ones, before it calls hgic_usb_disconnect.          *)
Unplug ==
  /\ life = "up"
  /\ life' = "dying"
  /\ UNCHANGED <<free, used, flight, data, sema, posting, tx, buf, sent, owed,
                 twice, stop, err>>

Disconnect ==
  /\ life = "dying" /\ flight = {} /\ posting = 0
  /\ stop' = TRUE
  /\ sema' = sema + 1
  /\ life' = "stopped"
  /\ UNCHANGED <<free, used, flight, data, posting, tx, buf, sent, owed, twice,
                 err>>

(* bus.remove waits for the sender, hgic_usb_free frees all three lists.   *)
FreeAll ==
  /\ life = "stopped" /\ tx = "idle"
  /\ free' = {} /\ used' = {}
  /\ life' = "freed"
  /\ UNCHANGED <<flight, data, sema, posting, tx, buf, sent, owed, twice, stop,
                 err>>

-----------------------------------------------------------------------------
Init ==
  /\ free = Bufs /\ used = {} /\ flight = {}
  /\ data = [b \in TxBufs |-> 0]
  /\ sema = Cardinality(TxBufs) /\ posting = 0
  /\ tx = "idle" /\ buf = "none" /\ sent = 0
  /\ owed = {} /\ twice = FALSE
  /\ stop = FALSE /\ err = FALSE
  /\ life = "probe"

UrbStep ==
  \/ \E b \in TxBufs : UrbTxDone(b)
  \/ UrbTxPost
  \/ \E b \in RxBufs : UrbReceive(b)

Next ==
  \/ TxPacket \/ TxStep \/ UrbStep
  \/ \E b \in RxBufs : ProbeDeq(b) \/ ProbeSubmit(b) \/ ProbeFail(b)
  \/ ProbeDone \/ Unplug \/ Disconnect \/ FreeAll

Spec == Init /\ [][Next]_vars

(* The sender goes on, and the USB core completes every transmit URB, if   *)
(* only because it was unlinked or its endpoint disabled.                  *)
UsbFairness ==
  /\ WF_vars(TxStep) /\ WF_vars(UrbTxPost)
  /\ \A b \in TxBufs : WF_vars(UrbTxDone(b))

FairSpec == Spec /\ UsbFairness

-----------------------------------------------------------------------------
(* Properties.                                                             *)

(* Every variable has its type.                                            *)
TypeOK ==
  /\ free \subseteq Bufs /\ used \subseteq Bufs /\ flight \subseteq Bufs
  /\ data \in [TxBufs -> 0 .. MaxSkbs]
  /\ sema \in Nat /\ posting \in Nat
  /\ tx \in {"idle", "enter", "down", "check", "submit"}
  /\ buf \in TxBufs \cup {"none"}
  /\ sent \in 0 .. MaxSkbs /\ owed \subseteq 1 .. MaxSkbs
  /\ twice \in BOOLEAN /\ stop \in BOOLEAN /\ err \in BOOLEAN
  /\ life \in {"probe", "failed", "up", "dying", "stopped", "freed"}

(* hgicf_tx_complete frees the frame and counts it: it is called once and  *)
(* no more for each frame, whichever of hgic_usb_tx_packet's exits or the  *)
(* URB's completion takes it, and a buffer on tx_freeq holds no frame      *)
(* ("skb is not free??" in hgic_usb_free).                                 *)
SkbCompletedOnce ==
  /\ ~twice
  /\ \A b \in TxBufs : b \in free => data[b] = 0
  /\ owed = {sent : x \in {tx} \ {"idle"}} \cup {data[b] : b \in flight \cap TxBufs}

(* Until the device stops, whoever took a permit of tx_sema finds a buffer *)
(* on tx_freeq: hgic_usb_tx_complete returns the buffer before it raises   *)
(* the semaphore.                                                          *)
PermitBacked ==
  ~stop => sema + posting + (IF tx = "check" THEN 1 ELSE 0)
             <= Cardinality(free \cap TxBufs)

(* Every buffer is on one list, and whatever the USB core holds is on the  *)
(* used list, where hgic_usb_cancle and hgic_usb_free find it.             *)
ListsPartition ==
  life # "freed" =>
    /\ free \cap used = {} /\ free \cup used = Bufs
    /\ flight \subseteq used

(* The semaphore and the two lists never disagree.                         *)
PoolsSound == PermitBacked /\ ListsPartition

(* Every frame given to hgic_usb_tx_packet is completed in the end.        *)
FramesComplete == \A s \in 1 .. MaxSkbs : s \in owed ~> s \notin owed
=============================================================================
