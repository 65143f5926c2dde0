--------------------------- MODULE HgicBusProofs ----------------------------
(***************************************************************************)
(* The invariants of both bus drivers, for any number of buffers, frames,  *)
(* errors and restarts.                                                    *)
(***************************************************************************)
EXTENDS HgicBus, FiniteSetTheorems, SequenceTheorems, TLAPS

-----------------------------------------------------------------------------
(* USB.                                                                    *)

(* The buffer hgic_usb_tx_packet has taken is on the used list and the USB *)
(* core does not hold it.                                                  *)
BufTaken ==
  /\ tx = "submit" <=> buf \in TxBufs
  /\ buf \in TxBufs => life # "freed" /\ buf \in used /\ buf \notin flight

(* A frame is in one buffer, which the USB core holds, and no longer in    *)
(* the hands of hgic_usb_tx_packet.                                        *)
FramesHeld ==
  /\ \A b \in TxBufs : b \notin flight => data[b] = 0
  /\ \A b \in flight \cap TxBufs :
       data[b] \in 1 .. sent /\ (tx # "idle" => data[b] # sent)
  /\ \A b, c \in flight \cap TxBufs : data[b] = data[c] => b = c
  /\ tx # "idle" => sent > 0

(* What FreeAll relies on.                                                 *)
Ended ==
  /\ life \in {"stopped", "freed"} => stop /\ flight = {}
  /\ life = "freed" => tx = "idle" /\ free = {} /\ used = {}

(* The frames whose completion is still to come.                           *)
OwedExact ==
  \A s \in Nat : s \in owed <=> (tx # "idle" /\ s = sent) \/ \E b \in flight \cap TxBufs : data[b] = s

UsbInv ==
  TypeOK /\ PermitBacked /\ ListsPartition /\ ~twice /\ OwedExact /\ BufTaken /\ FramesHeld /\ Ended

(* UsbInv says all that is said about the pools and the frames.            *)
LEMMA UsbInvMeans == UsbInv => PoolsSound /\ SkbCompletedOnce
<1>. SUFFICES ASSUME UsbInv PROVE PoolsSound /\ SkbCompletedOnce
  OBVIOUS
<1>1. owed \subseteq Nat /\ sent \in Nat /\ \A b \in flight \cap TxBufs : data[b] \in Nat
  BY SkbsAssumption DEF UsbInv, TypeOK
<1>2. {sent : x \in {tx} \ {"idle"}} = IF tx = "idle" THEN {} ELSE {sent}
  OBVIOUS
<1>3. owed = (IF tx = "idle" THEN {} ELSE {sent}) \cup {data[b] : b \in flight \cap TxBufs}
  BY <1>1 DEF UsbInv, OwedExact
<1>4. \A b \in TxBufs : b \in free => data[b] = 0
  BY DEF UsbInv, ListsPartition, FramesHeld, Ended
<1>. QED BY <1>2, <1>3, <1>4 DEF UsbInv, PoolsSound, SkbCompletedOnce

(* A buffer more or less on tx_freeq.                                      *)
LEMMA FreeCount ==
  ASSUME NEW F \in SUBSET Bufs, NEW b \in TxBufs
  PROVE  /\ Cardinality(F \cap TxBufs) \in Nat
         /\ b \in F => Cardinality((F \ {b}) \cap TxBufs) = Cardinality(F \cap TxBufs) - 1
         /\ b \notin F => Cardinality((F \cup {b}) \cap TxBufs) = Cardinality(F \cap TxBufs) + 1
<1>1. IsFiniteSet(F \cap TxBufs)
  BY BufsAssumption, FS_Subset, F \cap TxBufs \subseteq TxBufs
<1>2. (F \ {b}) \cap TxBufs = (F \cap TxBufs) \ {b}
  OBVIOUS
<1>3. (F \cup {b}) \cap TxBufs = (F \cap TxBufs) \cup {b}
  OBVIOUS
<1>4. Cardinality(F \cap TxBufs) \in Nat
  BY <1>1, FS_CardinalityType
<1>5. ASSUME b \in F PROVE Cardinality((F \cap TxBufs) \ {b}) = Cardinality(F \cap TxBufs) - 1
  <2>1. b \in F \cap TxBufs
    BY <1>5
  <2>. QED BY <1>1, <2>1, FS_RemoveElement
<1>6. ASSUME b \notin F PROVE Cardinality((F \cap TxBufs) \cup {b}) = Cardinality(F \cap TxBufs) + 1
  <2>1. b \notin F \cap TxBufs
    BY <1>6
  <2>. QED BY <1>1, <2>1, FS_AddElement
<1>. QED BY <1>2, <1>3, <1>4, <1>5, <1>6

(* The pools as hgic_usb_qinit leaves them.                                *)
LEMMA InitUsbInv == Init => UsbInv
<1>. SUFFICES ASSUME Init PROVE UsbInv
  OBVIOUS
<1>1. Bufs \cap TxBufs = TxBufs /\ Cardinality(TxBufs) \in Nat
  BY BufsAssumption, FS_CardinalityType DEF Bufs
<1>2. TypeOK
  <2>1. data \in [TxBufs -> 0 .. MaxSkbs] /\ sent \in 0 .. MaxSkbs /\ owed \subseteq 1 .. MaxSkbs
    BY SkbsAssumption DEF Init
  <2>2. free \subseteq Bufs /\ used \subseteq Bufs /\ flight \subseteq Bufs
    BY DEF Init
  <2>3. sema \in Nat /\ posting \in Nat
    BY <1>1 DEF Init
  <2>4. twice \in BOOLEAN /\ stop \in BOOLEAN /\ err \in BOOLEAN
    BY DEF Init
  <2>. QED BY <2>1, <2>2, <2>3, <2>4 DEF Init, TypeOK
<1>3. PermitBacked /\ ListsPartition
  <2>1. ListsPartition
    BY DEF Init, ListsPartition
  <2>2. sema + posting + (IF tx = "check" THEN 1 ELSE 0) <= Cardinality(free \cap TxBufs)
    <3>1. free \cap TxBufs = TxBufs /\ sema = Cardinality(TxBufs) /\ posting = 0 /\ tx # "check"
      BY <1>1 DEF Init
    <3>. QED BY <1>1, <3>1
  <2>. QED BY <2>1, <2>2 DEF PermitBacked
<1>4. ~twice /\ OwedExact
  BY DEF Init, OwedExact
<1>5. BufTaken /\ FramesHeld /\ Ended
  BY BufsAssumption DEF Init, BufTaken, FramesHeld, Ended
<1>. QED BY <1>2, <1>3, <1>4, <1>5 DEF UsbInv

(* hgic_usb_tx_packet at __fail.                                           *)
LEMMA TxFailStep ==
  ASSUME UsbInv, tx # "idle", TxFail,
         UNCHANGED <<flight, sema, posting, sent, stop, err, life>>
  PROVE  UsbInv'
<1>1. /\ TypeOK /\ PermitBacked /\ ListsPartition /\ OwedExact
      /\ BufTaken /\ FramesHeld /\ Ended /\ ~twice
  BY DEF UsbInv
<1>3. /\ sent \in Nat /\ sent > 0 /\ sent \in owed /\ ~twice' /\ owed' = owed \ {sent}
      /\ tx' = "idle" /\ buf' = "none" /\ "none" \notin TxBufs
  BY <1>1, SkbsAssumption, BufsAssumption DEF TxFail, Complete, OwedExact, FramesHeld, TypeOK
<1>4. data' = data
  <2>1. CASE buf \in TxBufs
    <3>1. data[buf] = 0
      BY <1>1, <2>1 DEF BufTaken, FramesHeld
    <3>. QED BY <1>1, <2>1, <3>1 DEF TxFail, TypeOK, Bufs
  <2>2. CASE buf \notin TxBufs
    BY <1>1, <2>2, BufsAssumption DEF TxFail, TypeOK, Bufs
  <2>. QED BY <2>1, <2>2
<1>11. \/ buf \in TxBufs /\ free' = free \cup {buf} /\ used' = used \ {buf}
       \/ buf \notin TxBufs /\ free' = free /\ used' = used
  BY <1>1, BufsAssumption DEF TxFail, Enq, TypeOK, Bufs
<1>5. TypeOK'
  <2>1. free' \subseteq Bufs /\ used' \subseteq Bufs /\ owed' \subseteq 1 .. MaxSkbs
    BY <1>1, <1>3, <1>11 DEF TypeOK, Bufs
  <2>2. twice' \in BOOLEAN
    BY DEF TxFail, Complete
  <2>. QED BY <1>1, <1>3, <1>4, <2>1, <2>2 DEF TypeOK
<1>6. ListsPartition'
  BY <1>1, <1>11 DEF ListsPartition, BufTaken, TypeOK, Bufs
<1>7. PermitBacked'
  <2>1. CASE buf \in TxBufs
    <3>1. free' = free \cup {buf} /\ buf \notin free /\ free \in SUBSET Bufs
      BY <1>1, <2>1 DEF TxFail, Enq, BufTaken, ListsPartition, TypeOK, Bufs
    <3>2. Cardinality(free' \cap TxBufs) = Cardinality(free \cap TxBufs) + 1
          /\ Cardinality(free \cap TxBufs) \in Nat
      BY <2>1, <3>1, FreeCount
    <3>. QED BY <1>1, <1>3, <3>2 DEF PermitBacked, TypeOK
  <2>2. CASE buf \notin TxBufs
    <3>1. free' = free
      BY <1>1, <2>2, BufsAssumption DEF TxFail, TypeOK, Bufs
    <3>2. Cardinality(free \cap TxBufs) \in Nat
      BY <1>1, FS_Subset, FS_CardinalityType, BufsAssumption, free \cap TxBufs \subseteq TxBufs
    <3>. QED BY <1>1, <1>3, <3>1, <3>2 DEF PermitBacked, TypeOK
  <2>. QED BY <2>1, <2>2
<1>8. BufTaken' /\ FramesHeld' /\ Ended'
  BY <1>1, <1>3, <1>4, SkbsAssumption DEF BufTaken, FramesHeld, Ended, TypeOK, TxFail
<1>9. OwedExact'
  BY <1>1, <1>3, <1>4 DEF OwedExact, FramesHeld
<1>. QED BY <1>3, <1>5, <1>6, <1>7, <1>8, <1>9 DEF UsbInv

(* The sender's other steps, and the completion of its URBs.               *)
LEMMA TxUsbInv ==
  ASSUME UsbInv, TxPacket \/ TxStep \/ (\E b \in TxBufs : UrbTxDone(b)) \/ UrbTxPost
  PROVE  UsbInv'
<1>. USE SkbsAssumption, BufsAssumption
<1>0. /\ TypeOK /\ PermitBacked /\ ListsPartition /\ OwedExact
      /\ BufTaken /\ FramesHeld /\ Ended /\ ~twice
      /\ free \in SUBSET Bufs /\ Cardinality(free \cap TxBufs) \in Nat
  BY FS_Subset, FS_CardinalityType, free \cap TxBufs \subseteq TxBufs DEF UsbInv, TypeOK
<1>1. CASE TxPacket
  <2>1. TypeOK' /\ PermitBacked' /\ ListsPartition'
    BY <1>0, <1>1 DEF TxPacket, TypeOK, PermitBacked, ListsPartition
  <2>2. ~twice' /\ OwedExact'
    BY <1>0, <1>1 DEF TxPacket, TypeOK, OwedExact
  <2>3. BufTaken' /\ FramesHeld' /\ Ended'
    BY <1>0, <1>1 DEF TxPacket, TypeOK, BufTaken, FramesHeld, Ended
  <2>. QED BY <2>1, <2>2, <2>3 DEF UsbInv
<1>2. CASE TxEnter
  <2>1. CASE stop \/ err
    BY <1>2, <2>1, TxFailStep DEF TxEnter
  <2>2. CASE ~(stop \/ err)
    <3>1. TypeOK' /\ PermitBacked' /\ ListsPartition'
      BY <1>0, <1>2, <2>2 DEF TxEnter, TypeOK, PermitBacked, ListsPartition
    <3>2. ~twice' /\ OwedExact' /\ BufTaken' /\ FramesHeld' /\ Ended'
      BY <1>0, <1>2, <2>2 DEF TxEnter, TypeOK, OwedExact, BufTaken, FramesHeld, Ended
    <3>. QED BY <3>1, <3>2 DEF UsbInv
  <2>. QED BY <2>1, <2>2
<1>3. CASE TxDown
  <2>1. TypeOK' /\ PermitBacked' /\ ListsPartition'
    BY <1>0, <1>3 DEF TxDown, TypeOK, PermitBacked, ListsPartition
  <2>2. ~twice' /\ OwedExact' /\ BufTaken' /\ FramesHeld' /\ Ended'
    BY <1>0, <1>3 DEF TxDown, TypeOK, OwedExact, BufTaken, FramesHeld, Ended
  <2>. QED BY <2>1, <2>2 DEF UsbInv
<1>4. CASE TxDownTimeout
  BY <1>4, TxFailStep DEF TxDownTimeout
<1>5. CASE TxCheck
  <2>1. CASE stop \/ err \/ free \cap TxBufs = {}
    BY <1>5, <2>1, TxFailStep DEF TxCheck
  <2>2. CASE ~(stop \/ err \/ free \cap TxBufs = {})
    <3>1. PICK b \in free \cap TxBufs :
            Deq(b) /\ buf' = b /\ tx' = "submit" /\ UNCHANGED <<data, owed, twice>>
      BY <1>5, <2>2 DEF TxCheck
    <3>2. Cardinality(free' \cap TxBufs) = Cardinality(free \cap TxBufs) - 1
      BY <1>0, <3>1, FreeCount DEF Deq
    <3>3. TypeOK' /\ ListsPartition'
      BY <1>0, <1>5, <3>1 DEF TxCheck, TypeOK, ListsPartition, Deq, Bufs
    <3>4. PermitBacked'
      BY <1>0, <1>5, <3>1, <3>2 DEF TxCheck, TypeOK, PermitBacked
    <3>5. b \notin flight /\ life # "freed"
      BY <1>0, <1>5, <3>1 DEF TxCheck, ListsPartition, Ended
    <3>6. ~twice' /\ OwedExact' /\ BufTaken' /\ FramesHeld' /\ Ended'
      BY <1>0, <1>5, <3>1, <3>5 DEF TxCheck, TypeOK, OwedExact, BufTaken, FramesHeld, Ended, Deq
    <3>. QED BY <3>3, <3>4, <3>6 DEF UsbInv
  <2>. QED BY <2>1, <2>2
<1>6. CASE TxNoMemory
  <2>1. ~twice' /\ twice' \in BOOLEAN /\ owed' = owed \ {sent} /\ sent > 0
    BY <1>0, <1>6 DEF TxNoMemory, Complete, OwedExact, TypeOK, FramesHeld
  <2>2. TypeOK' /\ PermitBacked' /\ ListsPartition'
    BY <1>0, <1>6, <2>1 DEF TxNoMemory, TypeOK, PermitBacked, ListsPartition
  <2>3. OwedExact' /\ BufTaken' /\ FramesHeld' /\ Ended'
    BY <1>0, <1>6, <2>1 DEF TxNoMemory, TypeOK, OwedExact, BufTaken, FramesHeld, Ended
  <2>. QED BY <2>1, <2>2, <2>3 DEF UsbInv
<1>7. CASE TxSubmitOk
  <2>1. /\ buf \in TxBufs /\ buf \in used /\ buf \notin flight /\ sent \in 1 .. MaxSkbs
        /\ data' = [data EXCEPT ![buf] = sent] /\ flight' = flight \cup {buf}
    BY <1>0, <1>7 DEF TxSubmitOk, BufTaken, FramesHeld, TypeOK
  <2>2. data' \in [TxBufs -> 0 .. MaxSkbs] /\ flight' \subseteq Bufs
    BY <1>0, <2>1 DEF TypeOK, Bufs
  <2>3. TypeOK' /\ PermitBacked' /\ ListsPartition'
    BY <1>0, <1>7, <2>1, <2>2 DEF TxSubmitOk, TypeOK, PermitBacked, ListsPartition
  <2>4. ~twice' /\ OwedExact'
    BY <1>0, <1>7, <2>1 DEF TxSubmitOk, TypeOK, OwedExact, FramesHeld
  <2>5. BufTaken' /\ FramesHeld' /\ Ended'
    BY <1>0, <1>7, <2>1 DEF TxSubmitOk, TypeOK, BufTaken, FramesHeld, Ended
  <2>. QED BY <2>3, <2>4, <2>5 DEF UsbInv
<1>8. CASE TxSubmitFail
  BY <1>8, TxFailStep DEF TxSubmitFail
<1>9. ASSUME NEW b \in TxBufs, UrbTxDone(b) PROVE UsbInv'
  <2>1. /\ b \in flight /\ b \in used /\ b \notin free /\ life # "freed" /\ b # buf
        /\ data[b] \in 1 .. sent
    BY <1>0, <1>9 DEF UrbTxDone, ListsPartition, Ended, FramesHeld, BufTaken, TypeOK
  <2>2. data[b] \in owed
    BY <1>0, <1>9, <2>1 DEF UrbTxDone, OwedExact, TypeOK
  <2>3. ~twice' /\ twice' \in BOOLEAN /\ owed' = owed \ {data[b]}
    BY <1>0, <1>9, <2>2 DEF UrbTxDone, Complete
  <2>4. Cardinality(free' \cap TxBufs) = Cardinality(free \cap TxBufs) + 1
    BY <1>0, <1>9, <2>1, FreeCount DEF UrbTxDone, Enq
  <2>5. TypeOK' /\ ListsPartition'
    <3>1. data' \in [TxBufs -> 0 .. MaxSkbs]
      <4>1. data \in [TxBufs -> 0 .. MaxSkbs] /\ data' = [data EXCEPT ![b] = 0] /\ 0 \in 0 .. MaxSkbs
        BY <1>0, <1>9 DEF UrbTxDone, TypeOK
      <4>. QED BY <4>1
    <3>3. posting' \in Nat
      <4>1. posting \in Nat /\ posting' = posting + 1
        BY <1>0, <1>9 DEF UrbTxDone, TypeOK
      <4>. QED BY <4>1
    <3>4. owed' \subseteq 1 .. MaxSkbs
      BY <1>0, <2>3 DEF TypeOK
    <3>2. free' \subseteq Bufs /\ used' \subseteq Bufs /\ flight' \subseteq Bufs /\ ListsPartition'
      BY <1>0, <1>9, <2>1 DEF UrbTxDone, TypeOK, ListsPartition, Enq, Bufs
    <3>. QED BY <1>0, <1>9, <2>3, <3>1, <3>2, <3>3, <3>4 DEF UrbTxDone, TypeOK
  <2>6. PermitBacked'
    BY <1>0, <1>9, <2>4 DEF UrbTxDone, TypeOK, PermitBacked
  <2>7. OwedExact'
    BY <1>0, <1>9, <2>1, <2>3 DEF UrbTxDone, TypeOK, OwedExact, FramesHeld
  <2>8. BufTaken' /\ FramesHeld' /\ Ended'
    BY <1>0, <1>9, <2>1 DEF UrbTxDone, TypeOK, BufTaken, FramesHeld, Ended, Enq
  <2>. QED BY <2>3, <2>5, <2>6, <2>7, <2>8 DEF UsbInv
<1>10. CASE UrbTxPost
  <2>1. TypeOK' /\ PermitBacked' /\ ListsPartition'
    BY <1>0, <1>10 DEF UrbTxPost, TypeOK, PermitBacked, ListsPartition
  <2>2. ~twice' /\ OwedExact' /\ BufTaken' /\ FramesHeld' /\ Ended'
    BY <1>0, <1>10 DEF UrbTxPost, TypeOK, OwedExact, BufTaken, FramesHeld, Ended
  <2>. QED BY <2>1, <2>2 DEF UsbInv
<1>. QED BY <1>1, <1>2, <1>3, <1>4, <1>5, <1>6, <1>7, <1>8, <1>9, <1>10 DEF TxStep

(* The receive side: the probe's loop, the completions, and the end.       *)
LEMMA RxUsbInv ==
  ASSUME UsbInv,
         \/ \E b \in RxBufs : UrbReceive(b) \/ ProbeDeq(b) \/ ProbeSubmit(b) \/ ProbeFail(b)
         \/ ProbeDone \/ Unplug \/ Disconnect \/ FreeAll
  PROVE  UsbInv'
<1>. USE SkbsAssumption, BufsAssumption
<1>0. /\ TypeOK /\ PermitBacked /\ ListsPartition /\ OwedExact
      /\ BufTaken /\ FramesHeld /\ Ended /\ ~twice
      /\ free \in SUBSET Bufs /\ Cardinality(free \cap TxBufs) \in Nat
  BY FS_Subset, FS_CardinalityType, free \cap TxBufs \subseteq TxBufs DEF UsbInv, TypeOK
<1>1. ASSUME NEW b \in RxBufs, SubmitRxOk(b), b \in used,
             UNCHANGED <<data, sema, posting, tx, buf, sent, owed, twice, stop, life>>
      PROVE  UsbInv'
  <2>1. flight' \cap TxBufs = flight \cap TxBufs /\ b \notin TxBufs /\ flight' = flight \cup {b}
    BY <1>1 DEF SubmitRxOk
  <2>2. TypeOK' /\ PermitBacked' /\ ListsPartition'
    BY <1>0, <1>1, <2>1 DEF SubmitRxOk, TypeOK, PermitBacked, ListsPartition, Bufs
  <2>3. ~twice' /\ OwedExact' /\ BufTaken' /\ FramesHeld' /\ Ended'
    BY <1>0, <1>1, <2>1 DEF SubmitRxOk, TypeOK, OwedExact, BufTaken, FramesHeld, Ended
  <2>. QED BY <2>2, <2>3 DEF UsbInv
<1>2. ASSUME NEW b \in RxBufs, SubmitRxFail(b), b \in used, life # "freed", life' \in {life, "failed"},
             UNCHANGED <<data, sema, posting, tx, buf, sent, owed, twice, stop>>
      PROVE  UsbInv'
  <2>1. /\ flight' \cap TxBufs = flight \cap TxBufs /\ b \notin TxBufs /\ flight' = flight \ {b}
        /\ free' = free \cup {b} /\ used' = used \ {b}
        /\ free' \cap TxBufs = free \cap TxBufs
    BY <1>2 DEF SubmitRxFail, Enq
  <2>2. err' \in BOOLEAN
    BY <1>2 DEF SubmitRxFail
  <2>3. TypeOK' /\ PermitBacked' /\ ListsPartition'
    <3>1. TypeOK'
      BY <1>0, <1>2, <2>1, <2>2 DEF TypeOK, Bufs
    <3>2. PermitBacked'
      BY <1>0, <1>2, <2>1 DEF PermitBacked
    <3>3. ListsPartition'
      BY <1>0, <1>2, <2>1 DEF ListsPartition, Bufs
    <3>. QED BY <3>1, <3>2, <3>3
  <2>4. ~twice' /\ OwedExact' /\ BufTaken' /\ FramesHeld' /\ Ended'
    BY <1>0, <1>2, <2>1 DEF TypeOK, OwedExact, BufTaken, FramesHeld, Ended
  <2>. QED BY <2>3, <2>4 DEF UsbInv
<1>3. ASSUME NEW b \in RxBufs, UrbReceive(b) PROVE UsbInv'
  <2>1. b \in used /\ life # "freed"
    BY <1>0, <1>3 DEF UrbReceive, ListsPartition
  <2>. QED BY <1>1, <1>2, <1>3, <2>1 DEF UrbReceive
<1>4. ASSUME NEW b \in RxBufs, ProbeSubmit(b) PROVE UsbInv'
  BY <1>1, <1>4 DEF ProbeSubmit
<1>5. ASSUME NEW b \in RxBufs, ProbeFail(b) PROVE UsbInv'
  BY <1>2, <1>5 DEF ProbeFail
<1>6. ASSUME NEW b \in RxBufs, ProbeDeq(b) PROVE UsbInv'
  <2>1. /\ free' = free \ {b} /\ used' = used \cup {b} /\ b \notin TxBufs /\ b \in free
        /\ free' \cap TxBufs = free \cap TxBufs /\ life = "probe"
    BY <1>6 DEF ProbeDeq, Deq
  <2>2. TypeOK' /\ PermitBacked' /\ ListsPartition'
    BY <1>0, <1>6, <2>1 DEF ProbeDeq, TypeOK, PermitBacked, ListsPartition, Bufs
  <2>3. ~twice' /\ OwedExact' /\ BufTaken' /\ FramesHeld' /\ Ended'
    BY <1>0, <1>6, <2>1 DEF ProbeDeq, TypeOK, OwedExact, BufTaken, FramesHeld, Ended
  <2>. QED BY <2>2, <2>3 DEF UsbInv
<1>7. CASE ProbeDone \/ Unplug
  <2>1. TypeOK' /\ PermitBacked' /\ ListsPartition'
    BY <1>0, <1>7 DEF ProbeDone, Unplug, TypeOK, PermitBacked, ListsPartition
  <2>2. ~twice' /\ OwedExact' /\ BufTaken' /\ FramesHeld' /\ Ended'
    BY <1>0, <1>7 DEF ProbeDone, Unplug, TypeOK, OwedExact, BufTaken, FramesHeld, Ended
  <2>. QED BY <2>1, <2>2 DEF UsbInv
<1>8. CASE Disconnect
  <2>1. TypeOK' /\ PermitBacked' /\ ListsPartition'
    BY <1>0, <1>8 DEF Disconnect, TypeOK, PermitBacked, ListsPartition
  <2>2. ~twice' /\ OwedExact' /\ BufTaken' /\ FramesHeld' /\ Ended'
    BY <1>0, <1>8 DEF Disconnect, TypeOK, OwedExact, BufTaken, FramesHeld, Ended
  <2>. QED BY <2>1, <2>2 DEF UsbInv
<1>9. CASE FreeAll
  <2>1. TypeOK' /\ PermitBacked' /\ ListsPartition'
    BY <1>0, <1>9 DEF FreeAll, TypeOK, PermitBacked, ListsPartition, Ended
  <2>2. ~twice' /\ OwedExact' /\ BufTaken' /\ FramesHeld' /\ Ended'
    BY <1>0, <1>9 DEF FreeAll, TypeOK, OwedExact, BufTaken, FramesHeld, Ended
  <2>. QED BY <2>1, <2>2 DEF UsbInv
<1>. QED BY <1>3, <1>4, <1>5, <1>6, <1>7, <1>8, <1>9

(* Every step of the USB driver keeps its invariant.                       *)
LEMMA NextUsbInv == UsbInv /\ [Next]_vars => UsbInv'
<1>. SUFFICES ASSUME UsbInv, [Next]_vars PROVE UsbInv'
  OBVIOUS
<1>1. CASE Next
  BY <1>1, TxUsbInv, RxUsbInv DEF Next, UrbStep
<1>2. CASE UNCHANGED vars
  BY <1>2 DEF vars, UsbInv, TypeOK, PermitBacked, ListsPartition, OwedExact, BufTaken, FramesHeld, Ended
<1>. QED BY <1>1, <1>2

-----------------------------------------------------------------------------
(* SDIO.                                                                   *)

(* The types the argument needs.                                           *)
Cards == [hs : BOOLEAN, width : {1, 4}, ien : BOOLEAN, en : BOOLEAN, busy : BOOLEAN]
Hosts == [hs : BOOLEAN, width : {1, 4}, can : SUBSET {"fast", "wide"}]
Txps == [pc : {"idle", "claim", "busy", "wait", "reclaim", "copy", "again", "reinit"},
         frame : 0 .. Frames, loop : Int]
Irqs == [pc : {"idle", "status", "read", "loop", "reinit"}, st : SUBSET {"data", "busy"}, more : Int]
Reins == [by : {"", "busy", "copy", "irq", "core"}, step : 0 .. Len(Steps), retry : Int, whole : BOOLEAN]
SdioTypes ==
  /\ txp \in Txps /\ irq \in Irqs /\ core \in {"idle", "claim", "run"} /\ rein \in Reins
  /\ hostcfg \in Hosts /\ card \in Cards
  /\ done \in [1 .. Frames -> Seq(BOOLEAN)]
  /\ hsmissed \in BOOLEAN /\ synced \in BOOLEAN
  /\ pending \subseteq {"data", "busy"}

(* Which thread a reinit belongs to, and that its caller waits for it.     *)
ReinitOwned ==
  /\ txp.pc = "reinit" <=> rein.by \in {"busy", "copy"}
  /\ irq.pc = "reinit" <=> rein.by = "irq"
  /\ core = "run" <=> rein.by = "core"

(* Only one thread is in a section that needs the host.                    *)
TxIn == txp.pc \in {"busy", "copy", "again", "reinit"}
IrqIn == irq.pc # "idle"
OneInside ==
  /\ host = "tx" <=> TxIn
  /\ host = "irq" <=> IrqIn
  /\ host = "core" <=> core = "run"
  /\ host \in {"none", "tx", "irq", "core"}

(* A bus that cannot be wide never is.                                     *)
Narrow == "wide" \notin hostcfg.can => card.width = 1 /\ hostcfg.width = 1

(* What a successful reinit leaves.                                        *)
Agree ==
  /\ card.width = hostcfg.width /\ card.en /\ card.ien
  /\ hostcfg.hs /\ (card.hs \/ hsmissed \/ "fast" \notin hostcfg.can)

(* What a reinit has reached when it is about to do its step, if the card  *)
(* has not restarted since the attempt began.                              *)
Reached(k) == rein.step > Len(Steps) - k
Progress ==
  /\ rein.step > 0 => ~synced /\ rein.by # ""
  /\ rein.step > 0 /\ rein.whole =>
       /\ Reached(4) => hostcfg.hs /\ (card.hs \/ hsmissed \/ "fast" \notin hostcfg.can)
       /\ Reached(3) => card.width = hostcfg.width
       /\ Reached(1) => card.ien
  /\ synced => Agree
  /\ Narrow

FrameInHand == txp.pc # "idle" => txp.frame > 0

SdioInv == SdioTypes /\ ReinitOwned /\ OneInside /\ Progress /\ FrameInHand /\ CompletedOnce

(* The places of the last five of a sequence.                              *)
LEMMA LastFive ==
  ASSUME NEW T, NEW X \in SUBSET T, NEW s \in Seq(X), NEW t \in Seq(T), Len(t) = 5
  PROVE  /\ Len(s \o t) = Len(s) + 5 /\ Len(s) \in Nat
         /\ \A i \in 1 .. 5 : (s \o t)[Len(s) + i] = t[i]
         /\ \A i \in 1 .. Len(s) : (s \o t)[i] \in X
<1>0. \A i \in 1 .. Len(s) : s[i] \in X
  OBVIOUS
<1>1. s \in Seq(T) /\ Len(s) \in Nat
  OBVIOUS
<1>2. Len(s \o t) = Len(s) + 5
  <2>1. Len(s \o t) = Len(s) + Len(t)
    BY <1>1, ConcatProperties, Zenon
  <2>. QED BY <2>1
<1>3. \A i \in 1 .. 5 : (s \o t)[Len(s) + i] = t[i]
  <2>. TAKE i \in 1 .. 5
  <2>1. Len(s) + i \in 1 .. Len(s) + 5 /\ Len(s) + i > Len(s) /\ Len(s) + i - Len(s) = i
    BY <1>1
  <2>2. \A j \in 1 .. Len(s) + 5 : j > Len(s) => (s \o t)[j] = t[j - Len(s)]
    BY <1>1, <1>2
  <2>. QED BY <1>1, <1>2, <2>1, <2>2
<1>4. \A i \in 1 .. Len(s) : (s \o t)[i] = s[i]
  BY <1>1, <1>2
<1>. QED BY <1>0, <1>1, <1>2, <1>3, <1>4

(* The order of the steps of hgic_sdio_reinit_card.                        *)
LEMMA StepsOrder ==
  /\ Len(Steps) \in Nat /\ Len(Steps) > 4
  /\ Steps[Len(Steps) - 4] = "highspeed" /\ Steps[Len(Steps) - 3] = "wire_width"
  /\ Steps[Len(Steps) - 2] = "block_size" /\ Steps[Len(Steps) - 1] = "int_enable"
  /\ Steps[Len(Steps)] = "enable_func"
  /\ \A k \in 1 .. Len(Steps) : k < Len(Steps) - 4 =>
        Steps[k] \notin {"highspeed", "wire_width", "int_enable", "enable_func"}
<1>. DEFINE First == {"probe_ocr", "wait_ocr", "spi_crc", "card_addr", "select", "disable_cd"}
            Last == {"highspeed", "wire_width", "block_size", "int_enable", "enable_func"}
            A == <<"probe_ocr", "wait_ocr">>
            M == IF IsSpi THEN <<"spi_crc">> ELSE <<"card_addr", "select", "disable_cd">>
            B == <<"highspeed", "wire_width", "block_size", "int_enable", "enable_func">>
<1>1. A \in Seq(First)
  OBVIOUS
<1>2. M \in Seq(First)
  <2>1. <<"spi_crc">> \in Seq(First) /\ <<"card_addr", "select", "disable_cd">> \in Seq(First)
    OBVIOUS
  <2>. HIDE DEF First
  <2>2. CASE IsSpi
    BY <2>1, <2>2
  <2>3. CASE ~IsSpi
    BY <2>1, <2>3
  <2>. QED BY <2>2, <2>3
<1>3. B \in Seq(First \cup Last) /\ Len(B) = 5
  <2>1. B \in Seq(Last) /\ Len(B) = 5
    OBVIOUS
  <2>. HIDE DEF First, Last, B
  <2>. QED BY <2>1
<1>4. /\ B[1] = "highspeed" /\ B[2] = "wire_width"
      /\ B[3] = "block_size" /\ B[4] = "int_enable" /\ B[5] = "enable_func"
  OBVIOUS
<1>5. Steps = (A \o M) \o B
  BY DEF Steps
<1>6. A \o M \in Seq(First)
  <2>. HIDE DEF A, M, First
  <2>. QED BY <1>1, <1>2
<1>7. PICK s \in Seq(First) : Steps = s \o B
  BY <1>5, <1>6
<1>8. /\ Len(Steps) = Len(s) + 5 /\ Len(s) \in Nat
      /\ \A i \in 1 .. 5 : Steps[Len(s) + i] = B[i]
      /\ \A i \in 1 .. Len(s) : Steps[i] \in First
  <2>. HIDE DEF First, Last, B
  <2>. QED BY <1>3, <1>7, LastFive
<1>. HIDE DEF A, M, B
<1>9. \A k \in 1 .. Len(Steps) : k < Len(Steps) - 4 => k \in 1 .. Len(s)
  BY <1>8
<1>10. /\ Len(Steps) - 4 = Len(s) + 1 /\ Len(Steps) - 3 = Len(s) + 2 /\ Len(Steps) - 2 = Len(s) + 3
       /\ Len(Steps) - 1 = Len(s) + 4 /\ Len(Steps) = Len(s) + 5
  BY <1>8
<1>. QED BY <1>4, <1>8, <1>9, <1>10

(* SdioInv says all that is said about the host, the frames and the card.  *)
LEMMA SdioInvMeans == SdioInv => HostOwned /\ CompletedOnce /\ BusAgrees
  BY DEF SdioInv, OneInside, TxIn, IrqIn, HostOwned, Progress, Agree, BusAgrees

(* A call of hgic_sdio_reinit_card starts before its first attempt.        *)
LEMMA CalledAfresh ==
  ASSUME NEW by \in {"busy", "copy", "irq", "core"}
  PROVE  /\ [NoReinit EXCEPT !.by = by] \in Reins
         /\ [NoReinit EXCEPT !.by = by].step = 0 /\ [NoReinit EXCEPT !.by = by].by = by
         /\ NoReinit \in Reins /\ NoReinit.step = 0 /\ NoReinit.by = ""
<1>. DEFINE N == 0 .. Len(Steps)
<1>1. 0 \in N
  BY StepsOrder
<1>2. Reins = [by : {"", "busy", "copy", "irq", "core"}, step : N, retry : Int, whole : BOOLEAN]
  BY DEF Reins
<1>. HIDE DEF N
<1>3. NoReinit \in [by : {"", "busy", "copy", "irq", "core"}, step : N, retry : Int, whole : BOOLEAN]
  BY <1>1 DEF NoReinit
<1>. QED BY <1>2, <1>3 DEF NoReinit

(* The mmc core has set up what host and card are able to do.              *)
LEMMA Born == SdioInit => hostcfg \in Hosts /\ card \in Cards /\ Narrow
<1>. SUFFICES ASSUME SdioInit PROVE hostcfg \in Hosts /\ card \in Cards /\ Narrow
  OBVIOUS
<1>1. PICK c \in Caps :
        LET w == IF "wide" \in c THEN 4 ELSE 1
        IN  /\ hostcfg = [hs |-> "fast" \in c, width |-> w, can |-> c]
            /\ card = [hs |-> "fast" \in c, width |-> w, ien |-> FALSE, en |-> FALSE, busy |-> FALSE]
  BY DEF SdioInit
<1>. DEFINE w == IF "wide" \in c THEN 4 ELSE 1
            f == "fast" \in c
<1>2. /\ hostcfg = [hs |-> f, width |-> w, can |-> c]
      /\ card = [hs |-> f, width |-> w, ien |-> FALSE, en |-> FALSE, busy |-> FALSE]
  BY <1>1
<1>4. w \in {1, 4} /\ ("wide" \notin c => w = 1)
  OBVIOUS
<1>5. f \in BOOLEAN
  OBVIOUS
<1>. HIDE DEF w, f
<1>3. c \in SUBSET {"fast", "wide"}
  BY SdioAssumption
<1>. QED BY <1>2, <1>3, <1>4, <1>5 DEF Hosts, Cards, Narrow

LEMMA InitSdioInv == SdioInit => SdioInv
<1>. SUFFICES ASSUME SdioInit PROVE SdioInv
  OBVIOUS
<1>1. SdioTypes
  <2>1. txp \in Txps
    BY SdioAssumption DEF SdioInit, Txps
  <2>2. rein \in Reins
    BY CalledAfresh DEF SdioInit
  <2>3. done \in [1 .. Frames -> Seq(BOOLEAN)]
    BY DEF SdioInit
  <2>4. irq \in Irqs
    BY DEF SdioInit, Irqs
  <2>5. hostcfg \in Hosts /\ card \in Cards
    BY Born, Zenon
  <2>. QED BY <2>1, <2>2, <2>3, <2>4, <2>5 DEF SdioInit, SdioTypes
<1>2. ReinitOwned /\ OneInside /\ FrameInHand
  BY DEF SdioInit, ReinitOwned, OneInside, TxIn, IrqIn, FrameInHand, NoReinit
<1>3. Progress
  <2>1. rein.step = 0 /\ ~synced
    BY DEF SdioInit, NoReinit
  <2>2. Narrow
    BY Born, Zenon
  <2>. QED BY <2>1, <2>2 DEF Progress
<1>4. CompletedOnce
  <2>1. txp.frame = 0
    BY DEF SdioInit
  <2>2. \A f \in 1 .. Frames : done[f] = <<>> /\ Len(done[f]) = 0
    BY DEF SdioInit
  <2>3. <<>> # <<TRUE>>
    OBVIOUS
  <2>4. \A f \in 1 .. Frames : ~(f < 0) /\ f # 0
    BY SdioAssumption
  <2>. QED BY <2>1, <2>2, <2>3, <2>4 DEF CompletedOnce
<1>. QED BY <1>1, <1>2, <1>3, <1>4 DEF SdioInv


(* Whatever neither takes nor leaves a section, nor touches the card, keeps *)
(* the invariant.                                                          *)
LEMMA SdioAside ==
  ASSUME SdioInv, UNCHANGED <<host, txp, irq, core, rein, hostcfg, card, done, copied, hsmissed, synced>>,
         pending' \subseteq {"data", "busy"}
  PROVE  SdioInv'
<1>1. SdioTypes'
  BY DEF SdioInv, SdioTypes
<1>2. ReinitOwned' /\ OneInside' /\ FrameInHand'
  BY DEF SdioInv, ReinitOwned, OneInside, TxIn, IrqIn, FrameInHand
<1>3. Progress'
  BY DEF SdioInv, Progress, Reached, Agree, Narrow
<1>4. CompletedOnce'
  BY DEF SdioInv, CompletedOnce
<1>. QED BY <1>1, <1>2, <1>3, <1>4 DEF SdioInv

(* Where a reinit is: not in an attempt, or at its first step.             *)
LEMMA NoStep == \A k : k = 0 => ~(k > 0)
  OBVIOUS
LEMMA FirstStep ==
  \A k, n : k = 1 /\ n \in Nat /\ n > 4 => k > 0 /\ ~(k > n - 4) /\ ~(k > n - 3) /\ ~(k > n - 1)
  OBVIOUS

(* Between attempts, and while the card and the host stay as they are.     *)
LEMMA StillProgress ==
  ASSUME Progress, rein' = rein \/ rein'.step = 0, UNCHANGED <<hostcfg, card, hsmissed, synced>>
  PROVE  Progress'
<1>1. CASE rein' = rein
  BY <1>1 DEF Progress, Reached, Agree, Narrow
<1>2. CASE rein'.step = 0
  <2>1. ~(rein'.step > 0)
    BY <1>2
  <2>. QED BY <2>1 DEF Progress, Agree, Narrow
<1>. QED BY <1>1, <1>2

(* tx_packet goes on with its frame.                                       *)
LEMMA FrameGoesOn ==
  ASSUME CompletedOnce, txp.pc # "idle", txp'.pc # "idle", txp'.frame = txp.frame, UNCHANGED <<done, copied>>
  PROVE  CompletedOnce'
  BY DEF CompletedOnce

(* tx_packet completes its frame and returns.                              *)
LEMMA FrameDone ==
  ASSUME SdioInv, txp.pc # "idle", txp' = [txp EXCEPT !.pc = "idle"],
         NEW ok \in BOOLEAN, tx_complete(txp.frame, ok),
         copied \subseteq copied', ok => txp.frame \in copied'
  PROVE  CompletedOnce' /\ FrameInHand' /\ done' \in [1 .. Frames -> Seq(BOOLEAN)]
<1>0. txp.frame \in 0 .. Frames /\ txp'.pc = "idle" /\ txp'.frame = txp.frame
  BY DEF SdioInv, SdioTypes, Txps
<1>1. txp.frame \in 1 .. Frames /\ txp'.pc = "idle" /\ txp'.frame = txp.frame
  BY <1>0, SdioAssumption DEF SdioInv, FrameInHand
<1>2. done \in [1 .. Frames -> Seq(BOOLEAN)] /\ done' = [done EXCEPT ![txp.frame] = Append(@, ok)]
  BY DEF SdioInv, SdioTypes, tx_complete
<1>3. \A f \in 1 .. Frames : done[f] \in Seq(BOOLEAN)
  BY <1>2
<1>4. done[txp.frame] \in Seq(BOOLEAN) /\ Len(done[txp.frame]) = 0
  <2>1. ~(txp.frame < txp.frame)
    BY <1>1
  <2>. QED BY <1>1, <1>3, <2>1 DEF SdioInv, CompletedOnce
<1>5. /\ Append(done[txp.frame], ok) \in Seq(BOOLEAN) /\ Len(Append(done[txp.frame], ok)) = 1
      /\ Append(done[txp.frame], ok)[1] = ok
  BY <1>4
<1>6. done' \in [1 .. Frames -> Seq(BOOLEAN)]
  BY <1>1, <1>2, <1>5
<1>7. done'[txp.frame] = Append(done[txp.frame], ok)
  BY <1>1, <1>2
<1>8. \A f \in 1 .. Frames : f # txp.frame => done'[f] = done[f]
  BY <1>1, <1>2
<1>9. <<TRUE>>[1] = TRUE
  OBVIOUS
<1>10. ASSUME NEW f \in 1 .. Frames
       PROVE  /\ Len(done'[f]) = IF f < txp'.frame \/ (f = txp'.frame /\ txp'.pc = "idle") THEN 1 ELSE 0
              /\ done'[f] = <<TRUE>> => f \in copied'
  <2>1. CASE f = txp.frame
    <3>1. Len(done'[f]) = 1
      BY <1>5, <1>7, <2>1
    <3>2. done'[f] = <<TRUE>> => f \in copied'
      BY <1>5, <1>7, <1>9, <2>1
    <3>. QED BY <1>1, <2>1, <3>1, <3>2
  <2>2. CASE f # txp.frame
    <3>1. /\ Len(done[f]) = IF f < txp.frame \/ (f = txp.frame /\ txp.pc = "idle") THEN 1 ELSE 0
          /\ done[f] = <<TRUE>> => f \in copied
      BY DEF SdioInv, CompletedOnce
    <3>. QED BY <1>1, <1>8, <2>2, <3>1
  <2>. QED BY <2>1, <2>2
<1>11. CompletedOnce'
  BY <1>10 DEF CompletedOnce
<1>. QED BY <1>1, <1>6, <1>11 DEF FrameInHand

(* One more turn of tx_packet's busy loop, or the wait.                    *)
LEMMA BusyAgainMeans ==
  ASSUME txp \in Txps, BusyAgain
  PROVE  /\ txp' \in Txps /\ txp'.frame = txp.frame /\ txp'.pc \in {"wait", "busy"}
         /\ txp'.pc = "wait" => host' = "none"
         /\ txp'.pc = "busy" => host' = host
<1>. DEFINE P == {"idle", "claim", "busy", "wait", "reclaim", "copy", "again", "reinit"}
<1>1. /\ Txps = [pc : P, frame : 0 .. Frames, loop : Int] /\ "wait" \in P /\ "busy" \in P
      /\ txp.loop + 1 \in Int
  BY DEF Txps
<1>2. PICK z \in Int : z = 0
  OBVIOUS
<1>. HIDE DEF P
<1>3. \A p \in P, l \in Int : [txp EXCEPT !.pc = p, !.loop = l] \in Txps
  BY <1>1
<1>4. /\ [txp EXCEPT !.pc = "busy", !.loop = @ + 1] = [txp EXCEPT !.pc = "busy", !.loop = txp.loop + 1]
      /\ [txp EXCEPT !.pc = "wait", !.loop = z] \in Txps
      /\ [txp EXCEPT !.pc = "busy", !.loop = txp.loop + 1] \in Txps
  BY <1>1, <1>3
<1>5. [txp EXCEPT !.pc = "wait", !.loop = 0] \in Txps
  BY <1>2, <1>4, Zenon
<1>6. /\ [txp EXCEPT !.pc = "wait", !.loop = 0].pc = "wait"
      /\ [txp EXCEPT !.pc = "wait", !.loop = 0].frame = txp.frame
      /\ [txp EXCEPT !.pc = "busy", !.loop = @ + 1].pc = "busy"
      /\ [txp EXCEPT !.pc = "busy", !.loop = @ + 1].frame = txp.frame
  BY <1>1
<1>. QED BY <1>4, <1>5, <1>6 DEF BusyAgain

(* hgic_sdio_tx_packet up to the copy.                                     *)
LEMMA TxSdioInv ==
  ASSUME SdioInv, TxCall \/ TxClaim \/ TxBusy \/ TxWake
  PROVE  SdioInv'
<1>0. /\ SdioTypes /\ ReinitOwned /\ OneInside /\ Progress /\ FrameInHand /\ CompletedOnce
      /\ txp \in Txps /\ rein \in Reins
  BY DEF SdioInv, SdioTypes
<1>2. CASE TxCall
  <2>1. txp' \in Txps /\ txp'.pc = "claim" /\ txp'.frame = txp.frame + 1
    BY <1>0, <1>2, SdioAssumption DEF TxCall, Txps
  <2>2. SdioTypes'
    BY <1>0, <1>2, <2>1 DEF TxCall, txrest, SdioTypes
  <2>3. ReinitOwned' /\ OneInside' /\ FrameInHand'
    BY <1>0, <1>2, <2>1 DEF TxCall, txrest, ReinitOwned, OneInside, TxIn, IrqIn, FrameInHand, Txps
  <2>4. Progress'
    BY <1>0, <1>2 DEF TxCall, txrest, Progress, Reached, Agree, Narrow
  <2>5. CompletedOnce'
    <3>1. txp.pc = "idle" /\ txp.frame \in Nat /\ done' = done /\ copied' = copied
      BY <1>0, <1>2, SdioAssumption DEF TxCall, Txps
    <3>2. \A f \in 1 .. Frames :
            (f < txp'.frame \/ (f = txp'.frame /\ txp'.pc = "idle"))
              <=> (f < txp.frame \/ (f = txp.frame /\ txp.pc = "idle"))
      BY <2>1, <3>1
    <3>. QED BY <1>0, <3>1, <3>2 DEF CompletedOnce
  <2>. QED BY <2>2, <2>3, <2>4, <2>5 DEF SdioInv
<1>3. CASE TxClaim
  <2>1. CASE Stopped
    <3>1. txp' = [txp EXCEPT !.pc = "idle"] /\ txp' \in Txps /\ txp'.pc = "idle" /\ txp.pc # "idle"
      BY <1>0, <1>3, <2>1 DEF TxClaim, Txps
    <3>2. CompletedOnce' /\ FrameInHand' /\ done' \in [1 .. Frames -> Seq(BOOLEAN)]
      <4>1. tx_complete(txp.frame, FALSE) /\ FALSE \in BOOLEAN /\ copied \subseteq copied'
        BY <1>3, <2>1 DEF TxClaim
      <4>. QED BY <3>1, <4>1, FrameDone
    <3>3. SdioTypes'
      BY <1>0, <1>3, <2>1, <3>1, <3>2 DEF TxClaim, txrest, SdioTypes
    <3>4. ReinitOwned' /\ OneInside'
      BY <1>0, <1>3, <2>1, <3>1 DEF TxClaim, txrest, ReinitOwned, OneInside, TxIn, IrqIn
    <3>5. Progress'
      BY <1>0, <1>3 DEF TxClaim, txrest, Progress, Reached, Agree, Narrow
    <3>. QED BY <3>2, <3>3, <3>4, <3>5 DEF SdioInv
  <2>2. CASE ~Stopped
    <3>1. txp' \in Txps /\ txp'.pc \in {"copy", "busy"} /\ txp'.frame = txp.frame
      BY <1>0, <1>3, <2>2 DEF TxClaim, Txps
    <3>2. SdioTypes'
      BY <1>0, <1>3, <2>2, <3>1 DEF TxClaim, txrest, SdioTypes
    <3>3. ReinitOwned' /\ OneInside' /\ FrameInHand'
      BY <1>0, <1>3, <2>2, <3>1 DEF TxClaim, txrest, ReinitOwned, OneInside, TxIn, IrqIn, FrameInHand
    <3>4. Progress'
      BY <1>0, <1>3 DEF TxClaim, txrest, Progress, Reached, Agree, Narrow
    <3>5. CompletedOnce'
      BY <1>0, <1>3, <2>2, <3>1, FrameGoesOn DEF TxClaim
    <3>. QED BY <3>2, <3>3, <3>4, <3>5 DEF SdioInv
  <2>. QED BY <2>1, <2>2
<1>4. CASE TxBusy
  <2>2. /\ txp' \in Txps /\ txp'.frame = txp.frame /\ txp'.pc \in {"copy", "wait", "busy", "reinit"}
        /\ txp'.pc = "wait" => host' = "none" /\ rein' = rein
        /\ txp'.pc \in {"copy", "busy"} => host' = host /\ rein' = rein
        /\ txp'.pc = "reinit" => host' = host /\ rein' = [NoReinit EXCEPT !.by = "busy"]
    <3>1. CASE BusyAgain /\ UNCHANGED rein
      BY <1>0, <3>1, BusyAgainMeans
    <3>2. CASE txp' = [txp EXCEPT !.pc = "copy"] /\ UNCHANGED <<rein, host>>
      BY <1>0, <3>2 DEF Txps
    <3>3. CASE Call("busy") /\ txp' = [txp EXCEPT !.pc = "reinit"] /\ UNCHANGED host
      BY <1>0, <3>3 DEF Call, Txps
    <3>. QED BY <1>4, <3>1, <3>2, <3>3 DEF TxBusy
  <2>3. ReinitOwned' /\ OneInside' /\ FrameInHand'
    BY <1>0, <1>4, <2>2 DEF TxBusy, txrest, ReinitOwned, OneInside, TxIn, IrqIn, FrameInHand, NoReinit
  <2>4. rein' \in Reins /\ Progress'
    <3>1. rein' = rein \/ rein' = [NoReinit EXCEPT !.by = "busy"]
      BY <2>2
    <3>2. rein' \in Reins /\ (rein' = rein \/ rein'.step = 0)
      BY <1>0, <3>1, CalledAfresh
    <3>. QED BY <1>0, <1>4, <3>2, StillProgress DEF TxBusy, txrest
  <2>5. SdioTypes'
    BY <1>0, <1>4, <2>2, <2>4 DEF TxBusy, txrest, SdioTypes
  <2>6. CompletedOnce'
    BY <1>0, <1>4, <2>2, FrameGoesOn DEF TxBusy
  <2>. QED BY <2>3, <2>4, <2>5, <2>6 DEF SdioInv
<1>5. CASE TxWake
  <2>1. txp' \in Txps /\ txp'.pc = "reclaim" /\ txp'.frame = txp.frame
    BY <1>0, <1>5 DEF TxWake, Txps
  <2>2. SdioTypes'
    BY <1>0, <1>5, <2>1 DEF TxWake, txrest, SdioTypes
  <2>3. ReinitOwned' /\ OneInside' /\ FrameInHand'
    BY <1>0, <1>5, <2>1 DEF TxWake, txrest, ReinitOwned, OneInside, TxIn, IrqIn, FrameInHand
  <2>4. Progress'
    BY <1>0, <1>5 DEF TxWake, txrest, Progress, Reached, Agree, Narrow
  <2>5. CompletedOnce'
    BY <1>0, <1>5, <2>1, FrameGoesOn DEF TxWake
  <2>. QED BY <2>2, <2>3, <2>4, <2>5 DEF SdioInv
<1>. QED BY <1>2, <1>3, <1>4, <1>5

(* hgic_sdio_copy_toio.                                                    *)
LEMMA CopySdioInv ==
  ASSUME SdioInv, TxCopy
  PROVE  SdioInv'
<1>0. /\ SdioTypes /\ ReinitOwned /\ OneInside /\ Progress /\ FrameInHand /\ CompletedOnce
      /\ txp \in Txps /\ rein \in Reins
  BY DEF SdioInv, SdioTypes
<1>1. \/ /\ host' = "none" /\ txp' = [txp EXCEPT !.pc = "idle"] /\ rein' = rein
         /\ \E ok \in BOOLEAN : /\ tx_complete(txp.frame, ok)
                                /\ copied \subseteq copied' /\ (ok => txp.frame \in copied')
      \/ /\ txp' = [txp EXCEPT !.pc = "reinit"] /\ UNCHANGED <<host, done, copied>>
         /\ rein' = [NoReinit EXCEPT !.by = "copy"]
  BY DEF TxCopy, Call
<1>2. ASSUME host' = "none", txp' = [txp EXCEPT !.pc = "idle"], rein' = rein, NEW ok \in BOOLEAN,
             tx_complete(txp.frame, ok), copied \subseteq copied', ok => txp.frame \in copied'
      PROVE  SdioInv'
  <2>1. txp' \in Txps /\ txp'.pc = "idle" /\ txp.pc # "idle" /\ TxIn
    BY <1>0, <1>2 DEF TxCopy, Txps, TxIn
  <2>2. CompletedOnce' /\ FrameInHand' /\ done' \in [1 .. Frames -> Seq(BOOLEAN)]
    BY <1>2, <2>1, FrameDone
  <2>3. SdioTypes'
    BY <1>0, <1>2, <2>1, <2>2 DEF TxCopy, txrest, SdioTypes
  <2>4. ReinitOwned' /\ OneInside'
    BY <1>0, <1>2, <2>1 DEF TxCopy, txrest, ReinitOwned, OneInside, TxIn, IrqIn
  <2>5. Progress'
    BY <1>0, <1>2 DEF TxCopy, txrest, Progress, Reached, Agree, Narrow
  <2>. QED BY <2>2, <2>3, <2>4, <2>5 DEF SdioInv
<1>3. ASSUME txp' = [txp EXCEPT !.pc = "reinit"], UNCHANGED <<host, done, copied>>,
             rein' = [NoReinit EXCEPT !.by = "copy"]
      PROVE  SdioInv'
  <2>1. txp' \in Txps /\ txp'.pc = "reinit" /\ txp.pc # "idle" /\ TxIn /\ txp'.frame = txp.frame
    BY <1>0, <1>3 DEF TxCopy, Txps, TxIn
  <2>2. ReinitOwned' /\ OneInside' /\ FrameInHand'
    BY <1>0, <1>3, <2>1 DEF TxCopy, txrest, ReinitOwned, OneInside, TxIn, IrqIn, FrameInHand, NoReinit
  <2>3. rein' \in Reins /\ Progress'
    <3>1. rein' \in Reins /\ rein'.step = 0
      BY <1>3, CalledAfresh
    <3>. QED BY <1>0, <3>1, StillProgress DEF TxCopy, txrest
  <2>4. SdioTypes'
    BY <1>0, <1>3, <2>1, <2>3 DEF TxCopy, txrest, SdioTypes
  <2>5. CompletedOnce'
    BY <1>0, <1>3, <2>1, FrameGoesOn
  <2>. QED BY <2>2, <2>3, <2>4, <2>5 DEF SdioInv
<1>4. CASE /\ host' = "none" /\ txp' = [txp EXCEPT !.pc = "idle"] /\ rein' = rein
           /\ \E ok \in BOOLEAN : /\ tx_complete(txp.frame, ok)
                                  /\ copied \subseteq copied' /\ (ok => txp.frame \in copied')
  <2>1. PICK ok \in BOOLEAN : /\ tx_complete(txp.frame, ok)
                             /\ copied \subseteq copied' /\ (ok => txp.frame \in copied')
    BY <1>4
  <2>2. host' = "none" /\ txp' = [txp EXCEPT !.pc = "idle"] /\ rein' = rein
    BY <1>4
  <2>. QED BY <1>2, <2>1, <2>2
<1>5. CASE /\ txp' = [txp EXCEPT !.pc = "reinit"] /\ UNCHANGED <<host, done, copied>>
           /\ rein' = [NoReinit EXCEPT !.by = "copy"]
  <2>1. txp' = [txp EXCEPT !.pc = "reinit"] /\ rein' = [NoReinit EXCEPT !.by = "copy"]
    BY <1>5
  <2>2. UNCHANGED <<host, done, copied>>
    BY <1>5
  <2>. QED BY <1>3, <2>1, <2>2
<1>. QED BY <1>1, <1>4, <1>5

(* hgic_sdio_interrupt.                                                    *)
LEMMA IrqSdioInv ==
  ASSUME SdioInv, IrqEnter \/ IrqStatus \/ IrqRead \/ IrqLoop
  PROVE  SdioInv'
<1>0. /\ SdioTypes /\ ReinitOwned /\ OneInside /\ Progress /\ FrameInHand /\ CompletedOnce
      /\ irq \in Irqs /\ rein \in Reins
  BY DEF SdioInv, SdioTypes
<1>1. irq' \in Irqs
  <2>1. CASE IrqEnter
    BY <2>1, SdioAssumption DEF IrqEnter, Irqs
  <2>2. CASE IrqStatus
    <3>1. PICK st \in {pending, {}} :
            irq' = [pc   |-> IF "data" \in st THEN "read" ELSE "loop", st |-> st,
                    more |-> IF "data" \in st THEN RxRetry ELSE irq.more]
      BY <2>2 DEF IrqStatus
    <3>2. st \in SUBSET {"data", "busy"} /\ irq.more \in Int /\ RxRetry \in Int
      BY <1>0, SdioAssumption DEF SdioTypes, Irqs
    <3>. QED BY <3>1, <3>2 DEF Irqs
  <2>3. CASE IrqRead
    BY <1>0, <2>3 DEF IrqRead, Irqs
  <2>4. CASE IrqLoop
    <3>. DEFINE P == {"idle", "status", "read", "loop", "reinit"}
                S == SUBSET {"data", "busy"}
    <3>1. Irqs = [pc : P, st : S, more : Int] /\ "idle" \in P /\ "status" \in P /\ {} \in S /\ irq.more - 1 \in Int
      BY <1>0 DEF Irqs
    <3>2. PICK z \in Int : z = 0
      OBVIOUS
    <3>. HIDE DEF P, S
    <3>3. \A q \in P, t \in S, m \in Int : [irq EXCEPT !.pc = q, !.st = t, !.more = m] \in Irqs
      BY <1>0, <3>1
    <3>4. /\ [irq EXCEPT !.pc = "status", !.st = {}, !.more = @ - 1]
              = [irq EXCEPT !.pc = "status", !.st = {}, !.more = irq.more - 1]
          /\ [irq EXCEPT !.pc = "idle", !.st = {}, !.more = z] \in Irqs
          /\ [irq EXCEPT !.pc = "status", !.st = {}, !.more = irq.more - 1] \in Irqs
      BY <1>0, <3>1, <3>3
    <3>5. [irq EXCEPT !.pc = "idle", !.st = {}, !.more = 0] \in Irqs
      BY <3>2, <3>4, Zenon
    <3>. QED BY <2>4, <3>4, <3>5 DEF IrqLoop
  <2>. QED BY <2>1, <2>2, <2>3, <2>4
<1>2. pending' \subseteq {"data", "busy"}
  BY <1>0 DEF IrqEnter, IrqStatus, IrqRead, IrqLoop, SdioTypes
<1>3. UNCHANGED <<txp, core, hostcfg, card, done, copied, hsmissed, synced>>
  BY DEF IrqEnter, IrqStatus, IrqRead, IrqLoop, irqrest
<1>4. \/ irq.pc = "idle" /\ host = "none" /\ host' = "irq" /\ irq'.pc = "status" /\ rein' = rein
      \/ irq.pc \in {"status", "read", "loop"} /\ host' = host /\ irq'.pc \in {"status", "read", "loop"} /\ rein' = rein
      \/ irq.pc \in {"read", "loop"} /\ host' = "none" /\ irq'.pc = "idle" /\ rein' = rein
      \/ irq.pc = "read" /\ host' = host /\ irq'.pc = "reinit" /\ rein' = [NoReinit EXCEPT !.by = "irq"]
  <2>1. CASE IrqEnter
    BY <2>1 DEF IrqEnter
  <2>2. CASE IrqStatus
    BY <2>2 DEF IrqStatus
  <2>3. CASE IrqRead
    BY <1>0, <2>3 DEF IrqRead, Irqs, Call
  <2>4. CASE IrqLoop
    BY <1>0, <2>4 DEF IrqLoop, Irqs
  <2>. QED BY <2>1, <2>2, <2>3, <2>4
<1>5. rein' \in Reins /\ (rein' = rein \/ rein'.step = 0)
  BY <1>0, <1>4, CalledAfresh
<1>6. SdioTypes'
  BY <1>0, <1>1, <1>2, <1>3, <1>5 DEF SdioTypes
<1>7. ReinitOwned' /\ OneInside' /\ FrameInHand'
  BY <1>0, <1>3, <1>4, CalledAfresh DEF ReinitOwned, OneInside, TxIn, IrqIn, FrameInHand
<1>8. Progress'
  BY <1>0, <1>3, <1>5, StillProgress
<1>9. CompletedOnce'
  BY <1>0, <1>3 DEF CompletedOnce
<1>. QED BY <1>6, <1>7, <1>8, <1>9 DEF SdioInv

(* The core, the device model and the card.                                *)
LEMMA CoreSdioInv ==
  ASSUME SdioInv,
         \/ CoreReinit \/ CoreClaim \/ CoreSleep \/ Probe \/ Remove \/ RemoveIrq \/ RemoveCore \/ RemoveFree
         \/ CardInterrupt \/ CardBusy \/ CardRestart
  PROVE  SdioInv'
<1>0. /\ SdioTypes /\ ReinitOwned /\ OneInside /\ Progress /\ FrameInHand /\ CompletedOnce
      /\ card \in Cards /\ rein \in Reins
  BY DEF SdioInv, SdioTypes
<1>1. CASE CardInterrupt \/ CoreSleep \/ Remove \/ RemoveIrq \/ RemoveCore \/ RemoveFree
  <2>1. UNCHANGED <<host, txp, irq, core, rein, hostcfg, card, done, copied, hsmissed, synced>>
    BY <1>1 DEF CardInterrupt, CoreSleep, Remove, RemoveIrq, RemoveCore, RemoveFree, corerest, rmrest
  <2>2. pending' \subseteq {"data", "busy"}
    BY <1>0, <1>1 DEF CardInterrupt, CoreSleep, Remove, RemoveIrq, RemoveCore, RemoveFree, corerest, rmrest,
      SdioTypes
  <2>. QED BY <2>1, <2>2, SdioAside
<1>2. CASE CoreReinit \/ CoreClaim
  <2>1. \/ core = "idle" /\ core' = "claim" /\ UNCHANGED <<host, rein>>
        \/ /\ core = "claim" /\ core' = "run" /\ host = "none" /\ host' = "core"
           /\ rein' = [NoReinit EXCEPT !.by = "core"]
    BY <1>2 DEF CoreReinit, CoreClaim, Call
  <2>2. UNCHANGED <<txp, irq, hostcfg, card, done, copied, hsmissed, synced, pending>>
    BY <1>2 DEF CoreReinit, CoreClaim, corerest
  <2>3. rein' \in Reins /\ (rein' = rein \/ rein'.step = 0)
    BY <1>0, <2>1, CalledAfresh
  <2>4. SdioTypes'
    BY <1>0, <2>1, <2>2, <2>3 DEF SdioTypes
  <2>5. ReinitOwned' /\ OneInside' /\ FrameInHand'
    BY <1>0, <2>1, <2>2, CalledAfresh DEF ReinitOwned, OneInside, TxIn, IrqIn, FrameInHand
  <2>6. Progress'
    BY <1>0, <2>2, <2>3, StillProgress
  <2>7. CompletedOnce'
    BY <1>0, <2>2 DEF CompletedOnce
  <2>. QED BY <2>4, <2>5, <2>6, <2>7 DEF SdioInv
<1>3. ASSUME UNCHANGED <<host, txp, irq, core, hostcfg, done, copied, hsmissed>>,
             pending' \subseteq {"data", "busy"}, card' \in Cards, rein' \in Reins, rein'.by = rein.by, synced' \in BOOLEAN,
             Progress'
      PROVE  SdioInv'
  <2>1. SdioTypes'
    BY <1>0, <1>3 DEF SdioTypes
  <2>2. ReinitOwned' /\ OneInside' /\ FrameInHand'
    BY <1>0, <1>3 DEF ReinitOwned, OneInside, TxIn, IrqIn, FrameInHand
  <2>3. CompletedOnce'
    BY <1>0, <1>3 DEF CompletedOnce
  <2>. QED BY <1>3, <2>1, <2>2, <2>3 DEF SdioInv
<1>4. CASE Probe \/ CardBusy
  <2>1. /\ card' \in Cards /\ card'.hs = card.hs /\ card'.width = card.width
        /\ (card.ien => card'.ien) /\ (card.en => card'.en)
    BY <1>0, <1>4 DEF Probe, CardBusy, Cards
  <2>2. UNCHANGED <<host, txp, irq, core, rein, hostcfg, pending, done, copied, hsmissed, synced>>
    BY <1>4 DEF Probe, CardBusy, rmrest
  <2>3. Progress'
    BY <1>0, <2>1, <2>2 DEF Progress, Reached, Agree, Narrow
  <2>. QED BY <1>0, <1>3, <2>1, <2>2, <2>3 DEF SdioTypes
<1>5. CASE CardRestart
  <2>1. card' \in Cards
    BY <1>5 DEF CardRestart, CardReset, Cards
  <2>2. rein' \in Reins /\ rein'.by = rein.by /\ rein'.step = rein.step /\ ~rein'.whole
    BY <1>0, <1>5 DEF CardRestart, Reins
  <2>3. UNCHANGED <<host, txp, irq, core, hostcfg, done, copied, hsmissed>> /\ synced' = FALSE /\ pending' = {}
    BY <1>5 DEF CardRestart
  <2>4. Progress'
    <3>1. card'.width = 1
      BY <1>5 DEF CardRestart, CardReset
    <3>. QED BY <1>0, <2>2, <2>3, <3>1 DEF Progress, Narrow
  <2>. QED BY <1>3, <2>1, <2>2, <2>3, <2>4
<1>. QED BY <1>1, <1>2, <1>4, <1>5

(* hgic_sdio_reinit_card returns: its caller goes on and lets the host go   *)
(* when it is done.                                                        *)
LEMMA ReturnSdioInv ==
  ASSUME SdioInv, NEW ok, Return(ok), rein.by # "", UNCHANGED <<copied, pending>>,
         hostcfg' \in Hosts, card' \in Cards, hsmissed' \in BOOLEAN, synced' \in BOOLEAN,
         synced' => Agree', Narrow'
  PROVE  SdioInv'
<1>0. /\ SdioTypes /\ ReinitOwned /\ OneInside /\ Progress /\ FrameInHand /\ CompletedOnce
      /\ txp \in Txps /\ irq \in Irqs /\ rein \in Reins
  BY DEF SdioInv, SdioTypes
<1>1. rein' = NoReinit /\ rein' \in Reins /\ rein'.step = 0 /\ rein'.by = ""
  BY CalledAfresh DEF Return
<1>2. Progress'
  <2>1. rein'.step = 0
    BY <1>1
  <2>2. ~(rein'.step > 0)
    BY <2>1, NoStep, Zenon
  <2>. QED BY <2>2 DEF Progress
<1>3. CASE rein.by = "busy" /\ BusyAgain /\ UNCHANGED <<irq, core, done>>
  <2>1. /\ txp' \in Txps /\ txp'.frame = txp.frame /\ txp'.pc \in {"wait", "busy"}
        /\ txp'.pc = "wait" => host' = "none"
        /\ txp'.pc = "busy" => host' = host
    BY <1>0, <1>3, BusyAgainMeans
  <2>2. SdioTypes'
    BY <1>0, <1>1, <1>3, <2>1 DEF SdioTypes
  <2>3. ReinitOwned' /\ OneInside' /\ FrameInHand'
    BY <1>0, <1>1, <1>3, <2>1 DEF ReinitOwned, OneInside, TxIn, IrqIn, FrameInHand
  <2>4. CompletedOnce'
    BY <1>0, <1>3, <2>1, FrameGoesOn DEF ReinitOwned
  <2>. QED BY <1>2, <2>2, <2>3, <2>4 DEF SdioInv
<1>4. CASE rein.by = "copy" /\ txp' = [txp EXCEPT !.pc = "again"] /\ UNCHANGED <<host, irq, core, done, busypd>>
  <2>1. txp' \in Txps /\ txp'.frame = txp.frame /\ txp'.pc = "again"
    BY <1>0, <1>4 DEF Txps
  <2>2. SdioTypes'
    BY <1>0, <1>1, <1>4, <2>1 DEF SdioTypes
  <2>3. ReinitOwned' /\ OneInside' /\ FrameInHand'
    BY <1>0, <1>1, <1>4, <2>1 DEF ReinitOwned, OneInside, TxIn, IrqIn, FrameInHand
  <2>4. CompletedOnce'
    BY <1>0, <1>4, <2>1, FrameGoesOn DEF ReinitOwned
  <2>. QED BY <1>2, <2>2, <2>3, <2>4 DEF SdioInv
<1>5. CASE /\ rein.by = "copy" /\ txp' = [txp EXCEPT !.pc = "idle"] /\ host' = "none"
           /\ tx_complete(txp.frame, FALSE) /\ UNCHANGED <<irq, core, busypd>>
  <2>1. txp' \in Txps /\ txp'.pc = "idle" /\ txp.pc = "reinit"
    BY <1>0, <1>5 DEF Txps, ReinitOwned
  <2>2. CompletedOnce' /\ FrameInHand' /\ done' \in [1 .. Frames -> Seq(BOOLEAN)]
    <3>1. FALSE \in BOOLEAN /\ copied \subseteq copied' /\ txp.pc # "idle"
      BY <2>1
    <3>. QED BY <1>5, <3>1, FrameDone
  <2>3. SdioTypes'
    BY <1>0, <1>1, <1>5, <2>1, <2>2 DEF SdioTypes
  <2>4. ReinitOwned' /\ OneInside'
    BY <1>0, <1>1, <1>5, <2>1 DEF ReinitOwned, OneInside, TxIn, IrqIn
  <2>. QED BY <1>2, <2>2, <2>3, <2>4 DEF SdioInv
<1>6. CASE /\ host' = "none" /\ UNCHANGED <<txp, done>>
           /\ \/ rein.by = "irq" /\ irq' = [irq EXCEPT !.pc = "idle"] /\ core' = core
              \/ rein.by = "core" /\ core' = "idle" /\ irq' = irq
  <2>1. irq' \in Irqs /\ (rein.by = "irq" => irq'.pc = "idle")
    BY <1>0, <1>6 DEF Irqs
  <2>2. SdioTypes'
    BY <1>0, <1>1, <1>6, <2>1 DEF SdioTypes
  <2>3. ReinitOwned' /\ OneInside' /\ FrameInHand'
    BY <1>0, <1>1, <1>6, <2>1 DEF ReinitOwned, OneInside, TxIn, IrqIn, FrameInHand
  <2>4. CompletedOnce'
    BY <1>0, <1>6 DEF CompletedOnce
  <2>. QED BY <1>2, <2>2, <2>3, <2>4 DEF SdioInv
<1>. QED BY <1>3, <1>4, <1>5, <1>6 DEF Return

(* An attempt of hgic_sdio_reinit_card goes on: nobody else moves.         *)
LEMMA AttemptSdioInv ==
  ASSUME SdioInv, rein' \in Reins, rein'.by = rein.by,
         UNCHANGED <<host, txp, irq, core, done, copied, pending>>,
         hostcfg' \in Hosts, card' \in Cards, hsmissed' \in BOOLEAN, synced' \in BOOLEAN, Progress'
  PROVE  SdioInv'
<1>1. SdioTypes'
  BY DEF SdioInv, SdioTypes
<1>2. ReinitOwned' /\ OneInside' /\ FrameInHand'
  BY DEF SdioInv, ReinitOwned, OneInside, TxIn, IrqIn, FrameInHand
<1>3. CompletedOnce'
  BY DEF SdioInv, CompletedOnce
<1>. QED BY <1>1, <1>2, <1>3 DEF SdioInv

(* The start of an attempt.                                                *)
LEMMA RetrySdioInv ==
  ASSUME SdioInv, ReinitRetry
  PROVE  SdioInv'
<1>0. SdioTypes /\ Progress /\ rein \in Reins /\ card \in Cards /\ hostcfg \in Hosts
  BY DEF SdioInv, SdioTypes
<1>1. CASE CanReinit
  <2>1. rein' \in Reins /\ rein'.by = rein.by /\ rein'.step = 1
    <3>1. 1 \in 0 .. Len(Steps)
      BY StepsOrder
    <3>2. rein' = [rein EXCEPT !.retry = @ + 1, !.step = 1, !.whole = TRUE]
      BY <1>1 DEF ReinitRetry
    <3>. DEFINE N == 0 .. Len(Steps)
    <3>3. Reins = [by : {"", "busy", "copy", "irq", "core"}, step : N, retry : Int, whole : BOOLEAN] /\ 1 \in N
      BY <3>1 DEF Reins
    <3>. HIDE DEF N
    <3>4. \A r \in Int, k \in N, w \in BOOLEAN :
            /\ [rein EXCEPT !.retry = r, !.step = k, !.whole = w] \in Reins
            /\ [rein EXCEPT !.retry = r, !.step = k, !.whole = w].by = rein.by
            /\ [rein EXCEPT !.retry = r, !.step = k, !.whole = w].step = k
      BY <1>0, <3>3
    <3>5. PICK k \in N : k = 1
      BY <3>3
    <3>6. rein.retry + 1 \in Int /\ rein' = [rein EXCEPT !.retry = rein.retry + 1, !.step = k, !.whole = TRUE]
      <4>1. rein.retry \in Int
        BY <1>0 DEF Reins
      <4>. QED BY <3>2, <3>5, <4>1
    <3>. QED BY <3>4, <3>5, <3>6
  <2>2. card' \in Cards /\ hostcfg' \in Hosts /\ synced' = FALSE /\ hsmissed' = FALSE
    <3>1. card.busy \in BOOLEAN
      BY <1>0 DEF Cards
    <3>2. [CardReset EXCEPT !.busy = card.busy] \in Cards
      BY <3>1 DEF CardReset, Cards
    <3>3. Legacy \in Hosts
      BY <1>0 DEF Legacy, Hosts
    <3>. QED BY <1>0, <1>1, <3>2, <3>3 DEF ReinitRetry
  <2>0. Narrow'
    <3>1. hostcfg'.width = 1 /\ hostcfg'.can = hostcfg.can
      BY <1>0, <1>1 DEF ReinitRetry, Legacy, Hosts
    <3>2. card'.width = 1 \/ card'.width = card.width
      BY <1>0, <1>1 DEF ReinitRetry, CardReset, Cards
    <3>. QED BY <1>0, <3>1, <3>2 DEF Progress, Narrow
  <2>3. Progress'
    <3>1. /\ ~(rein'.step > Len(Steps) - 4) /\ ~(rein'.step > Len(Steps) - 3) /\ ~(rein'.step > Len(Steps) - 1)
          /\ rein.by # ""
      <4>1. Len(Steps) \in Nat /\ Len(Steps) > 4
        BY StepsOrder
      <4>2. rein'.step = 1 /\ rein.by # ""
        BY <2>1 DEF ReinitRetry
      <4>. QED BY <4>1, <4>2, FirstStep, Zenon
    <3>. QED BY <2>0, <2>1, <2>2, <3>1 DEF Progress, Reached
  <2>4. UNCHANGED <<host, txp, irq, core, done, copied, pending>>
    BY <1>1 DEF ReinitRetry
  <2>. QED BY <2>1, <2>2, <2>3, <2>4, AttemptSdioInv
<1>2. CASE ~CanReinit
  <2>1. Return(FALSE) /\ UNCHANGED <<hostcfg, card, hsmissed, synced, copied, pending>> /\ rein.by # ""
    BY <1>2 DEF ReinitRetry
  <2>2. (synced' => Agree') /\ Narrow'
    BY <1>0, <2>1 DEF Progress, Agree, Narrow
  <2>. QED BY <1>0, <2>1, <2>2, ReturnSdioInv DEF SdioTypes
<1>. QED BY <1>1, <1>2

(* A step switches something on, or leaves the card and the host alone.    *)
LEMMA StepSwitches ==
  ASSUME card \in Cards, hostcfg \in Hosts, Narrow, NEW st,
         NEW c \in {card, CardAfter(st)}, NEW h \in {hostcfg, HostAfter(st)}
  PROVE  /\ c \in Cards /\ h \in Hosts /\ h.can = hostcfg.can
         /\ "wide" \notin h.can => c.width = 1 /\ h.width = 1
         /\ (card.hs => c.hs) /\ (card.ien => c.ien) /\ (card.en => c.en) /\ (hostcfg.hs => h.hs)
         /\ st # "wire_width" => c.width = card.width /\ h.width = hostcfg.width
         /\ st = "highspeed" /\ c = CardAfter(st) => c.hs \/ "fast" \notin h.can
         /\ st = "highspeed" /\ h = HostAfter(st) => h.hs
         /\ st = "wire_width" /\ c = CardAfter(st) /\ h = HostAfter(st) => c.width = h.width
         /\ (st = "int_enable" /\ c = CardAfter(st) => c.ien) /\ (st = "enable_func" /\ c = CardAfter(st) => c.en)
<1>1. CASE st = "highspeed"
  <2>1. /\ HostAfter(st) = [hostcfg EXCEPT !.hs = TRUE]
        /\ "fast" \in hostcfg.can => CardAfter(st) = [card EXCEPT !.hs = TRUE]
        /\ "fast" \notin hostcfg.can => CardAfter(st) = card
    BY <1>1 DEF CardAfter, HostAfter, Skipped
  <2>2. /\ c \in Cards /\ (card.hs => c.hs) /\ c.ien = card.ien /\ c.en = card.en /\ c.width = card.width
        /\ c = CardAfter(st) => c.hs \/ "fast" \notin hostcfg.can
    <3>1. \/ c = card /\ (c = CardAfter(st) => c.hs \/ "fast" \notin hostcfg.can)
          \/ c = [card EXCEPT !.hs = TRUE]
      <4>1. card.hs \in BOOLEAN /\ [card EXCEPT !.hs = TRUE].hs = TRUE
        BY DEF Cards
      <4>. QED BY <2>1, <4>1
    <3>. QED BY <3>1 DEF Cards
  <2>3. /\ h \in Hosts /\ h.can = hostcfg.can /\ h.width = hostcfg.width /\ (hostcfg.hs => h.hs)
        /\ h = HostAfter(st) => h.hs
    BY <2>1 DEF Hosts
  <2>. QED BY <1>1, <2>2, <2>3 DEF Narrow
<1>2. CASE st = "wire_width"
  <2>1. CASE "wide" \in hostcfg.can
    <3>1. CardAfter(st) = [card EXCEPT !.width = 4] /\ HostAfter(st) = [hostcfg EXCEPT !.width = 4]
      BY <1>2, <2>1 DEF CardAfter, HostAfter, Skipped
    <3>. QED BY <1>2, <2>1, <3>1 DEF Cards, Hosts
  <2>2. CASE "wide" \notin hostcfg.can
    <3>1. CardAfter(st) = card /\ HostAfter(st) = hostcfg
      BY <1>2, <2>2 DEF CardAfter, HostAfter, Skipped
    <3>. QED BY <1>2, <2>2, <3>1 DEF Narrow
  <2>. QED BY <2>1, <2>2
<1>3. CASE st = "int_enable"
  <2>1. CardAfter(st) = [card EXCEPT !.ien = TRUE] /\ HostAfter(st) = hostcfg
    BY <1>3 DEF CardAfter, HostAfter, Skipped
  <2>. QED BY <1>3, <2>1 DEF Cards, Hosts, Narrow
<1>4. CASE st = "enable_func"
  <2>1. CardAfter(st) = [card EXCEPT !.en = TRUE] /\ HostAfter(st) = hostcfg
    BY <1>4 DEF CardAfter, HostAfter, Skipped
  <2>. QED BY <1>4, <2>1 DEF Cards, Hosts, Narrow
<1>5. CASE st \notin {"highspeed", "wire_width", "int_enable", "enable_func"}
  <2>1. CardAfter(st) = card /\ HostAfter(st) = hostcfg
    BY <1>5 DEF CardAfter, HostAfter, Skipped
  <2>. QED BY <1>5, <2>1 DEF Narrow
<1>. QED BY <1>1, <1>2, <1>3, <1>4, <1>5

(* What a step adds to what the attempt has reached.                       *)
LEMMA StepReaches ==
  ASSUME NEW k \in 1 .. Len(Steps)
  PROVE  /\ k + 1 > Len(Steps) - 4 => k > Len(Steps) - 4 \/ Steps[k] = "highspeed"
         /\ k + 1 > Len(Steps) - 3 => k > Len(Steps) - 3 \/ Steps[k] = "wire_width"
         /\ k + 1 > Len(Steps) - 1 => k > Len(Steps) - 1 \/ Steps[k] = "int_enable"
         /\ k = Len(Steps) =>
              Steps[k] = "enable_func" /\ k > Len(Steps) - 4 /\ k > Len(Steps) - 3 /\ k > Len(Steps) - 1
         /\ k # Len(Steps) => k + 1 \in 1 .. Len(Steps)
<1>1. Len(Steps) \in Nat /\ Len(Steps) > 4
  BY StepsOrder
<1>2. /\ k = Len(Steps) - 4 \/ ~(k + 1 > Len(Steps) - 4) \/ k > Len(Steps) - 4
      /\ k = Len(Steps) - 3 \/ ~(k + 1 > Len(Steps) - 3) \/ k > Len(Steps) - 3
      /\ k = Len(Steps) - 1 \/ ~(k + 1 > Len(Steps) - 1) \/ k > Len(Steps) - 1
      /\ k = Len(Steps) => k > Len(Steps) - 4 /\ k > Len(Steps) - 3 /\ k > Len(Steps) - 1
      /\ k # Len(Steps) => k + 1 \in 1 .. Len(Steps)
  BY <1>1
<1>. QED BY <1>2, StepsOrder, Zenon

(* A step of an attempt.                                                   *)
LEMMA StepSdioInv ==
  ASSUME SdioInv, ReinitStep
  PROVE  SdioInv'
<1>. DEFINE k == rein.step
            st == Steps[rein.step]
<1>0. SdioTypes /\ Progress /\ rein \in Reins /\ card \in Cards /\ hostcfg \in Hosts
  BY DEF SdioInv, SdioTypes
<1>1. /\ k \in 1 .. Len(Steps) /\ rein.by # "" /\ k > 0 /\ ~synced
      /\ UNCHANGED <<copied, pending>> /\ hsmissed \in BOOLEAN /\ rein.whole \in BOOLEAN
  <2>1. k \in 0 .. Len(Steps) /\ Len(Steps) \in Nat /\ rein.whole \in BOOLEAN
    <3>1. Len(Steps) \in Nat
      BY StepsOrder
    <3>2. k \in 0 .. Len(Steps) /\ rein.whole \in BOOLEAN
      BY <1>0 DEF Reins
    <3>. QED BY <3>1, <3>2
  <2>2. k > 0 /\ rein.by # "" /\ UNCHANGED <<copied, pending>>
    BY DEF ReinitStep
  <2>3. k \in 1 .. Len(Steps)
    <3>1. k \in 0 .. Len(Steps) /\ Len(Steps) \in Nat /\ k > 0
      BY <2>1, <2>2
    <3>. HIDE DEF k
    <3>. QED BY <3>1
  <2>. QED BY <1>0, <2>1, <2>2, <2>3 DEF Progress, SdioTypes
<1>2. CASE /\ card' = CardAfter(st) /\ hostcfg' = HostAfter(st) /\ UNCHANGED hsmissed
           /\ k = Len(Steps) /\ Return(TRUE) /\ synced' = rein.whole
  <2>1. st = "enable_func" /\ Reached(4) /\ Reached(3) /\ Reached(1)
    BY <1>1, <1>2, StepReaches DEF Reached
  <2>2. /\ card' \in Cards /\ hostcfg' \in Hosts /\ card'.en /\ hostcfg'.can = hostcfg.can /\ Narrow'
        /\ (card.hs => card'.hs) /\ (card.ien => card'.ien) /\ (hostcfg.hs => hostcfg'.hs)
        /\ card'.width = card.width /\ hostcfg'.width = hostcfg.width
    <3>1. Narrow /\ st # "wire_width"
      BY <1>0, <2>1 DEF Progress
    <3>2. card' \in {card, CardAfter(st)} /\ hostcfg' \in {hostcfg, HostAfter(st)}
      BY <1>2
    <3>3. st = "enable_func" /\ card' = CardAfter(st)
      BY <1>2, <2>1
    <3>. HIDE DEF st
    <3>4. /\ card' \in Cards /\ hostcfg' \in Hosts /\ card'.en /\ hostcfg'.can = hostcfg.can
          /\ "wide" \notin hostcfg'.can => card'.width = 1 /\ hostcfg'.width = 1
          /\ (card.hs => card'.hs) /\ (card.ien => card'.ien) /\ (hostcfg.hs => hostcfg'.hs)
          /\ card'.width = card.width /\ hostcfg'.width = hostcfg.width
      BY <1>0, <3>1, <3>2, <3>3, StepSwitches
    <3>. QED BY <3>4 DEF Narrow
  <2>3. synced' => Agree'
    BY <1>0, <1>1, <1>2, <2>1, <2>2 DEF Progress, Agree
  <2>. QED BY <1>1, <1>2, <2>2, <2>3, ReturnSdioInv
<1>3. ASSUME NEW c \in {card, CardAfter(st)}, NEW h \in {hostcfg, HostAfter(st)}, NEW m \in BOOLEAN,
             card' = c, hostcfg' = h, hsmissed' = m,
             UNCHANGED <<host, txp, irq, core, done, synced>>,
             \/ /\ c = CardAfter(st) /\ h = HostAfter(st) /\ m = hsmissed /\ k # Len(Steps)
                /\ rein' = [rein EXCEPT !.step = @ + 1]
             \/ /\ st = "highspeed" /\ h = HostAfter(st) /\ m = TRUE
                /\ rein' = [rein EXCEPT !.step = @ + 1]
             \/ rein' = [rein EXCEPT !.step = 0] /\ m = hsmissed
      PROVE  SdioInv'
  <2>0. Narrow /\ Narrow'
    <3>1. Narrow
      BY <1>0 DEF Progress
    <3>2. c \in {card, CardAfter(st)} /\ h \in {hostcfg, HostAfter(st)}
      BY <1>3
    <3>. HIDE DEF st
    <3>3. "wide" \notin h.can => c.width = 1 /\ h.width = 1
      BY <1>0, <3>1, <3>2, StepSwitches
    <3>. QED BY <1>3, <3>1, <3>3 DEF Narrow
  <2>1. k # Len(Steps) \/ st # "highspeed"
    BY <1>1, StepReaches
  <2>2. /\ rein' \in Reins /\ rein'.by = rein.by /\ rein'.whole = rein.whole
        /\ rein'.step = 0 \/ rein'.step = k + 1
    <3>. DEFINE N == 0 .. Len(Steps)
    <3>1. /\ Reins = [by : {"", "busy", "copy", "irq", "core"}, step : N, retry : Int, whole : BOOLEAN]
          /\ 0 \in N /\ (k # Len(Steps) => k + 1 \in N)
      <4>1. Len(Steps) \in Nat
        BY StepsOrder
      <4>2. 0 \in N
        BY <4>1
      <4>3. k # Len(Steps) => k + 1 \in N
        <5>1. k \in 1 .. Len(Steps)
          BY <1>1
        <5>. HIDE DEF k
        <5>. QED BY <4>1, <5>1
      <4>. QED BY <4>2, <4>3 DEF Reins
    <3>2. PICK z \in N : z = 0
      BY <3>1
    <3>. HIDE DEF N
    <3>3. \A j \in N : /\ [rein EXCEPT !.step = j] \in Reins /\ [rein EXCEPT !.step = j].step = j
                       /\ [rein EXCEPT !.step = j].by = rein.by /\ [rein EXCEPT !.step = j].whole = rein.whole
      BY <1>0, <3>1
    <3>4. rein' = [rein EXCEPT !.step = z] \/ (k # Len(Steps) /\ rein' = [rein EXCEPT !.step = k + 1])
      BY <1>3, <2>1, <3>2
    <3>. QED BY <3>1, <3>2, <3>3, <3>4
  <2>3. Progress'
    <3>1. CASE rein'.step = 0
      <4>1. ~(rein'.step > 0) /\ ~synced'
        BY <1>1, <1>3, <3>1, NoStep, Zenon
      <4>. QED BY <2>0, <4>1 DEF Progress
    <3>2. CASE rein'.step = k + 1
      <4>1. /\ Reached(4)' => Reached(4) \/ st = "highspeed"
            /\ Reached(3)' => Reached(3) \/ st = "wire_width"
            /\ Reached(1)' => Reached(1) \/ st = "int_enable"
        BY <1>1, <3>2, StepReaches DEF Reached
      <4>0. \/ c = CardAfter(st) /\ h = HostAfter(st) /\ m = hsmissed
            \/ st = "highspeed" /\ h = HostAfter(st) /\ m = TRUE
        <5>1. rein' # [rein EXCEPT !.step = 0]
          <6>1. [rein EXCEPT !.step = 0].step = 0
            BY <1>0 DEF Reins
          <6>2. k + 1 # 0
            <7>1. k \in 1 .. Len(Steps)
              BY <1>1
            <7>. HIDE DEF k
            <7>. QED BY <7>1
          <6>. QED BY <3>2, <6>1, <6>2
        <5>. QED BY <1>3, <5>1
      <4>2. /\ (card.hs => c.hs) /\ (card.ien => c.ien) /\ (hostcfg.hs => h.hs) /\ h.can = hostcfg.can
            /\ (st # "wire_width" => c.width = card.width /\ h.width = hostcfg.width)
            /\ (st = "highspeed" => (c.hs \/ m \/ "fast" \notin h.can) /\ h.hs)
            /\ (st = "wire_width" => c.width = h.width)
            /\ (st = "int_enable" => c.ien)
        BY <1>0, <2>0, <4>0, StepSwitches
      <4>. QED BY <1>0, <1>1, <1>3, <2>0, <2>2, <4>0, <4>1, <4>2 DEF Progress
    <3>. QED BY <2>2, <3>1, <3>2
  <2>4. c \in Cards /\ h \in Hosts
    BY <1>0, StepSwitches DEF Progress
  <2>5. synced' \in BOOLEAN /\ hsmissed' \in BOOLEAN /\ card' \in Cards /\ hostcfg' \in Hosts
    BY <1>0, <1>3, <2>4 DEF SdioTypes
  <2>6. UNCHANGED <<host, txp, irq, core, done, copied, pending>>
    BY <1>1, <1>3
  <2>. QED BY <2>2, <2>3, <2>5, <2>6, AttemptSdioInv
<1>. QED BY <1>1, <1>2, <1>3 DEF ReinitStep, Ignored

(* Every step of the SDIO driver and of its card keeps its invariant.      *)
LEMMA NextSdioInv == SdioInv /\ [SdioNext]_sdiovars => SdioInv'
<1>. SUFFICES ASSUME SdioInv, [SdioNext]_sdiovars PROVE SdioInv'
  OBVIOUS
<1>1. CASE TxCall \/ TxClaim \/ TxBusy \/ TxWake
  BY <1>1, TxSdioInv
<1>2. CASE TxCopy
  BY <1>2, CopySdioInv
<1>3. CASE IrqEnter \/ IrqStatus \/ IrqRead \/ IrqLoop
  BY <1>3, IrqSdioInv
<1>4. CASE \/ CoreReinit \/ CoreClaim \/ CoreSleep \/ Probe \/ Remove \/ RemoveIrq \/ RemoveCore \/ RemoveFree
           \/ CardInterrupt \/ CardBusy \/ CardRestart
  BY <1>4, CoreSdioInv
<1>5. CASE ReinitRetry
  BY <1>5, RetrySdioInv
<1>6. CASE ReinitStep
  BY <1>6, StepSdioInv
<1>7. CASE UNCHANGED sdiovars
  <2>1. UNCHANGED <<host, txp, irq, core, rein, hostcfg, card, done, copied, hsmissed, synced>>
    BY <1>7 DEF sdiovars
  <2>2. pending' \subseteq {"data", "busy"}
    BY <1>7 DEF sdiovars, SdioInv, SdioTypes
  <2>. QED BY <2>1, <2>2, SdioAside
<1>. QED BY <1>1, <1>2, <1>3, <1>4, <1>5, <1>6, <1>7 DEF SdioNext, Thread

-----------------------------------------------------------------------------
(* Both buses.                                                             *)

BusInv == UsbInv /\ SdioInv

(* Only one of the two drivers moves, and it keeps its invariant.          *)
LEMMA BusInvariant == BusSpec => []BusInv
<1>1. BusInit => BusInv
  BY InitUsbInv, InitSdioInv DEF BusInit, BusInv
<1>2. BusInv /\ [BusNext]_busvars => BusInv'
  <2>. SUFFICES ASSUME BusInv, [BusNext]_busvars PROVE BusInv'
    OBVIOUS
  <2>1. [Next]_vars /\ [SdioNext]_sdiovars
    BY DEF BusNext, OnUsb, OnSdio, busvars, vars, sdiovars
  <2>. QED BY <2>1, NextUsbInv, NextSdioInv DEF BusInv
<1>. QED BY <1>1, <1>2, PTL DEF BusSpec

(* However the sender, the completions and the end of the device are       *)
(* interleaved, and for any pools hgic_usb_qinit could allocate, a permit  *)
(* of tx_sema stands for a buffer on tx_freeq and every buffer is on one   *)
(* list, a submitted one on the used list.                                 *)
THEOREM PoolsStaySound == BusSpec => []PoolsSound
<1>1. BusInv => PoolsSound
  BY UsbInvMeans DEF BusInv
<1>. QED BY <1>1, BusInvariant, PTL

(* On either bus, a frame the core hands to bus->tx_packet is completed    *)
(* once: no exit of tx_packet, no URB completion and no reinitialisation   *)
(* in the middle of it completes a frame again or forgets it.              *)
THEOREM FramesCompletedOnce == BusSpec => []FrameCompletedOnce
<1>1. BusInv => FrameCompletedOnce
  BY UsbInvMeans, SdioInvMeans DEF BusInv, FrameCompletedOnce
<1>. QED BY <1>1, BusInvariant, PTL

(* The SDIO host is claimed by the thread that is in a section that needs  *)
(* it, and by none when it has left, through every early return of         *)
(* hgic_sdio_tx_packet, hgic_sdio_interrupt and hgic_sdio_reinit.          *)
THEOREM HostStaysOwned == BusSpec => []HostOwned
<1>1. BusInv => HostOwned
  BY SdioInvMeans DEF BusInv
<1>. QED BY <1>1, BusInvariant, PTL

(* Whatever failed on the way and however often, a reinitialisation that   *)
(* reported success leaves host and card with the same bus width and the   *)
(* card's function and interrupt on, until the card restarts.              *)
THEOREM ReinitAgrees == BusSpec => []BusAgrees
<1>1. BusInv => BusAgrees
  BY SdioInvMeans DEF BusInv
<1>. QED BY <1>1, BusInvariant, PTL
=============================================================================
