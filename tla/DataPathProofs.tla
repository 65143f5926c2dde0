--------------------------- MODULE DataPathProofs ---------------------------
(***************************************************************************)
(* The transmit direction of the data path, for every queue size, frame    *)
(* length, window and number of reloads, and the receive direction, for    *)
(* every set of buffers.                                                   *)
(***************************************************************************)
EXTENDS DataPath, SequenceTheorems, TLAPS

-----------------------------------------------------------------------------
(* The frames between the network layer and the bus stand in one line: s   *)
(* has left, a is in the aggregate, h in hand (0 for none), q is queued,   *)
(* and m is the last number queued so far.                                 *)
Rising(s) == \A i, j \in 1 .. Len(s) : i < j => s[i] < s[j]
Line(s, a, h, q, m) ==
  /\ Rising(s) /\ Rising(a)
  /\ \A i, j \in 1 .. Len(q) : i < j => q[i].id < q[j].id
  /\ \A i \in 1 .. Len(s), j \in 1 .. Len(a) : s[i] < a[j]
  /\ h > 0 => /\ \A i \in 1 .. Len(s) : s[i] < h
              /\ \A i \in 1 .. Len(a) : a[i] < h
              /\ \A i \in 1 .. Len(q) : h < q[i].id
              /\ h <= m
  /\ \A i \in 1 .. Len(s), j \in 1 .. Len(q) : s[i] < q[j].id
  /\ \A i \in 1 .. Len(a), j \in 1 .. Len(q) : a[i] < q[j].id
  /\ \A i \in 1 .. Len(s) : s[i] <= m
  /\ \A i \in 1 .. Len(a) : a[i] <= m
  /\ \A i \in 1 .. Len(q) : q[i].id > 0 /\ q[i].id <= m

Queued == IF xmit = NoFrame THEN frames ELSE frames - 1
InLine == Line(sent, agg, hand.id, dataq, Queued)

(* Where a frame is in hand, and when there is an aggregate.               *)
Holding ==
  /\ hand.id > 0 <=> at \in {"single", "gather"}
  /\ at \notin {"gather", "aggsend"} => agg = <<>>
  /\ xmit = NoFrame \/ (xmit.id = frames /\ frames > 0)
  /\ frames <= Len(FrameLens)

(* The room hgicf_netif_xmit's test leaves: for the frame it is about to   *)
(* queue, and for the one that may be put back.                            *)
Gathering == IF at = "gather" THEN 1 ELSE 0
Xmitting == IF xmit = NoFrame THEN 0 ELSE 1
Room == Len(dataq) + Gathering + Xmitting <= TxqSize + 2

(* The window between the test and the decrement.                          *)
WindowHeld == wnd >= -1 /\ (at = "dec" => wnd >= 0)

(* The types the argument needs.                                           *)
DataTypes ==
  /\ frames \in Nat /\ xmit \in Frame /\ dataq \in Seq(Frame) /\ hand \in Frame
  /\ agg \in Seq(Nat) /\ sent \in Seq(Nat) /\ agglen \in Nat /\ wnd \in Int

TxInv == DataTypes /\ InLine /\ Holding /\ Room /\ AggFits /\ WindowHeld

-----------------------------------------------------------------------------
(* What the steps of tx_work do to the line.                               *)

(* skb_dequeue.                                                            *)
LEMMA LineTake ==
  ASSUME NEW s \in Seq(Nat), NEW a \in Seq(Nat), NEW q \in Seq(Frame), q # <<>>, NEW m \in Nat,
         Line(s, a, 0, q, m)
  PROVE  Line(s, a, Head(q).id, Tail(q), m) /\ Head(q).id > 0
<1>1. /\ Head(q) = q[1] /\ 1 \in 1 .. Len(q) /\ Len(Tail(q)) = Len(q) - 1 /\ Len(q) \in Nat
      /\ \A i \in 1 .. Len(Tail(q)) : Tail(q)[i] = q[i + 1]
  OBVIOUS
<1>2. \A i \in 1 .. Len(Tail(q)) : i + 1 \in 1 .. Len(q) /\ 1 < i + 1
  BY <1>1
<1>3. \A i, j \in 1 .. Len(Tail(q)) : i < j => i + 1 < j + 1
  BY <1>1
<1>. DEFINE T == Tail(q)
            H == Head(q)
<1>. HIDE DEF T, H
<1>4. /\ H = q[1] /\ 1 \in 1 .. Len(q)
      /\ \A i \in 1 .. Len(T) : T[i] = q[i + 1] /\ i + 1 \in 1 .. Len(q) /\ 1 < i + 1
      /\ \A i, j \in 1 .. Len(T) : i < j => i + 1 < j + 1
  BY <1>1, <1>2, <1>3 DEF T, H
<1>5. Line(s, a, H.id, T, m) /\ H.id > 0
  <2>1. Rising(s) /\ Rising(a)
    BY DEF Line
  <2>2. \A i, j \in 1 .. Len(T) : i < j => T[i].id < T[j].id
    BY <1>4 DEF Line
  <2>3. H.id > 0 /\ H.id <= m /\ \A i \in 1 .. Len(T) : H.id < T[i].id
    BY <1>4 DEF Line
  <2>4. (\A i \in 1 .. Len(s) : s[i] < H.id) /\ (\A i \in 1 .. Len(a) : a[i] < H.id)
    BY <1>4 DEF Line
  <2>5. /\ \A i \in 1 .. Len(s), j \in 1 .. Len(T) : s[i] < T[j].id
        /\ \A i \in 1 .. Len(a), j \in 1 .. Len(T) : a[i] < T[j].id
    BY <1>4 DEF Line
  <2>6. \A i \in 1 .. Len(T) : T[i].id > 0 /\ T[i].id <= m
    BY <1>4 DEF Line
  <2>. QED BY <2>1, <2>2, <2>3, <2>4, <2>5, <2>6 DEF Line
<1>. QED BY <1>5 DEF T, H

(* The queue is cleared.                                                   *)
LEMMA LineClear ==
  ASSUME NEW s, NEW a, NEW h, NEW q, NEW m, Line(s, a, h, q, m)
  PROVE  Line(s, a, h, <<>>, m)
<1>1. Len(<<>>) = 0 /\ \A i \in 1 .. 0 : FALSE
  OBVIOUS
<1>. QED BY <1>1 DEF Line

(* The frame in hand goes back to the head of the queue.                   *)
LEMMA LinePutBack ==
  ASSUME NEW s \in Seq(Nat), NEW a \in Seq(Nat), NEW h \in Frame, NEW q \in Seq(Frame), NEW m \in Nat,
         Line(s, a, h.id, q, m), h.id > 0
  PROVE  Line(s, a, 0, <<h>> \o q, m)
<1>. DEFINE p == <<h>> \o q
<1>1. /\ p \in Seq(Frame) /\ Len(p) = Len(q) + 1 /\ Len(q) \in Nat
      /\ p[1] = h /\ \A i \in 1 .. Len(p) : i # 1 => p[i] = q[i - 1]
  <2>1. <<h>> \in Seq(Frame) /\ Len(<<h>>) = 1 /\ <<h>>[1] = h
    OBVIOUS
  <2>. QED BY <2>1
<1>2. /\ \A i \in 1 .. Len(p) : i # 1 => i - 1 \in 1 .. Len(q) /\ i > 1
      /\ \A i, j \in 1 .. Len(p) : i < j => j # 1 /\ (i # 1 => i - 1 < j - 1)
  BY <1>1
<1>. HIDE DEF p
<1>3. \A i \in 1 .. Len(p) : p[i].id > 0 /\ p[i].id <= m
  BY <1>1, <1>2 DEF Line
<1>4. \A i, j \in 1 .. Len(p) : i < j => p[i].id < p[j].id
  BY <1>1, <1>2 DEF Line
<1>5. /\ \A i \in 1 .. Len(s), j \in 1 .. Len(p) : s[i] < p[j].id
      /\ \A i \in 1 .. Len(a), j \in 1 .. Len(p) : a[i] < p[j].id
  BY <1>1, <1>2 DEF Line
<1>6. Line(s, a, 0, p, m)
  BY <1>3, <1>4, <1>5 DEF Line
<1>. QED BY <1>6 DEF p

(* A new frame at the end of the queue.                                    *)
LEMMA LineAppend ==
  ASSUME NEW s \in Seq(Nat), NEW a \in Seq(Nat), NEW h \in Nat, NEW q \in Seq(Frame), NEW x \in Frame, NEW m \in Nat,
         x.id = m + 1, Line(s, a, h, q, m)
  PROVE  Line(s, a, h, Append(q, x), m + 1)
<1>. DEFINE p == Append(q, x)
<1>1. /\ p \in Seq(Frame) /\ Len(p) = Len(q) + 1 /\ Len(q) \in Nat
      /\ p[Len(p)] = x /\ \A i \in 1 .. Len(p) : i # Len(p) => p[i] = q[i]
  OBVIOUS
<1>2. /\ \A i \in 1 .. Len(p) : i # Len(p) => i \in 1 .. Len(q)
      /\ \A i, j \in 1 .. Len(p) : i < j => i # Len(p)
  BY <1>1
<1>3. /\ \A i \in 1 .. Len(s) : s[i] \in Nat
      /\ \A i \in 1 .. Len(a) : a[i] \in Nat
  OBVIOUS
<1>4. \A i \in 1 .. Len(q) : q[i].id \in Nat
  <2>1. \A i \in 1 .. Len(q) : q[i] \in Frame
    OBVIOUS
  <2>. QED BY <2>1 DEF Frame
<1>5. x.id > 0 /\ \A v \in Nat : v <= m => v < x.id /\ v <= x.id
  OBVIOUS
<1>6. /\ \A i \in 1 .. Len(s) : s[i] < x.id /\ s[i] <= x.id
      /\ \A i \in 1 .. Len(a) : a[i] < x.id /\ a[i] <= x.id
      /\ \A i \in 1 .. Len(q) : q[i].id < x.id /\ q[i].id <= x.id
      /\ h > 0 => h < x.id /\ h <= x.id
  <2>1. /\ \A i \in 1 .. Len(s) : s[i] <= m
        /\ \A i \in 1 .. Len(a) : a[i] <= m
        /\ \A i \in 1 .. Len(q) : q[i].id <= m
        /\ h > 0 => h <= m
    BY DEF Line
  <2>. QED BY <1>3, <1>4, <1>5, <2>1
<1>. HIDE DEF p
<1>7. \A i \in 1 .. Len(p) : p[i].id > 0 /\ p[i].id <= x.id
  <2>. TAKE i \in 1 .. Len(p)
  <2>1. CASE i = Len(p)
    <3>1. p[i] = x /\ x.id > 0
      BY <1>1, <1>5, <2>1
    <3>. QED BY <3>1
  <2>2. CASE i # Len(p)
    <3>1. p[i] = q[i] /\ i \in 1 .. Len(q)
      BY <1>1, <1>2, <2>2
    <3>. QED BY <1>6, <3>1 DEF Line
  <2>. QED BY <2>1, <2>2
<1>8. \A i, j \in 1 .. Len(p) : i < j => p[i].id < p[j].id
  <2>. SUFFICES ASSUME NEW i \in 1 .. Len(p), NEW j \in 1 .. Len(p), i < j PROVE p[i].id < p[j].id
    OBVIOUS
  <2>1. i \in 1 .. Len(q) /\ p[i] = q[i]
    BY <1>1, <1>2
  <2>2. CASE j = Len(p)
    BY <1>1, <1>6, <2>1, <2>2
  <2>3. CASE j # Len(p)
    BY <1>1, <1>2, <2>1, <2>3 DEF Line
  <2>. QED BY <2>2, <2>3
<1>9. /\ \A i \in 1 .. Len(s), j \in 1 .. Len(p) : s[i] < p[j].id
      /\ \A i \in 1 .. Len(a), j \in 1 .. Len(p) : a[i] < p[j].id
  BY <1>1, <1>2, <1>6 DEF Line
<1>10. h > 0 => \A i \in 1 .. Len(p) : h < p[i].id
  BY <1>1, <1>2, <1>6 DEF Line
<1>11. Line(s, a, h, p, x.id)
  BY <1>6, <1>7, <1>8, <1>9, <1>10 DEF Line
<1>. QED BY <1>11 DEF p

(* The next frame has a number, but is not queued.                         *)
LEMMA LineLonger ==
  ASSUME NEW s \in Seq(Nat), NEW a \in Seq(Nat), NEW h \in Frame, NEW q \in Seq(Frame), NEW m \in Nat,
         NEW n \in {m, m + 1}, Line(s, a, h.id, q, m)
  PROVE  Line(s, a, h.id, q, n)
<1>1. \A v \in Nat : v <= m => v <= n
  OBVIOUS
<1>2. /\ \A i \in 1 .. Len(s) : s[i] \in Nat
      /\ \A i \in 1 .. Len(a) : a[i] \in Nat
  OBVIOUS
<1>3. h.id \in Nat /\ \A i \in 1 .. Len(q) : q[i].id \in Nat
  <2>1. \A i \in 1 .. Len(q) : q[i] \in Frame
    OBVIOUS
  <2>. QED BY <2>1 DEF Frame
<1>. QED BY <1>1, <1>2, <1>3, Zenon DEF Line

(* The frame in hand joins the aggregate, ...                              *)
LEMMA LineGather ==
  ASSUME NEW s \in Seq(Nat), NEW a \in Seq(Nat), NEW h \in Nat, NEW q \in Seq(Frame), NEW m \in Nat,
         Line(s, a, h, q, m), h > 0
  PROVE  Line(s, Append(a, h), 0, q, m)
<1>. DEFINE b == Append(a, h)
<1>1. /\ b \in Seq(Nat) /\ Len(b) = Len(a) + 1 /\ Len(a) \in Nat
      /\ b[Len(b)] = h /\ \A i \in 1 .. Len(b) : i # Len(b) => b[i] = a[i]
  OBVIOUS
<1>2. /\ \A i \in 1 .. Len(b) : i # Len(b) => i \in 1 .. Len(a)
      /\ \A i, j \in 1 .. Len(b) : i < j => i # Len(b)
  BY <1>1
<1>. HIDE DEF b
<1>3. Rising(b)
  BY <1>1, <1>2 DEF Line, Rising
<1>4. /\ \A i \in 1 .. Len(s), j \in 1 .. Len(b) : s[i] < b[j]
      /\ \A i \in 1 .. Len(b), j \in 1 .. Len(q) : b[i] < q[j].id
      /\ \A i \in 1 .. Len(b) : b[i] <= m
  BY <1>1, <1>2 DEF Line
<1>5. Line(s, b, 0, q, m)
  BY <1>3, <1>4 DEF Line
<1>. QED BY <1>5 DEF b

(* ... or leaves alone, when there is no aggregate; the bus may refuse it. *)
LEMMA LineSingle ==
  ASSUME NEW s \in Seq(Nat), NEW h \in Nat, NEW q \in Seq(Frame), NEW m \in Nat, Line(s, <<>>, h, q, m), h > 0
  PROVE  Line(Append(s, h), <<>>, 0, q, m) /\ Line(s, <<>>, 0, q, m)
<1>. DEFINE b == Append(s, h)
<1>1. /\ b \in Seq(Nat) /\ Len(b) = Len(s) + 1 /\ Len(s) \in Nat
      /\ b[Len(b)] = h /\ \A i \in 1 .. Len(b) : i # Len(b) => b[i] = s[i]
  OBVIOUS
<1>2. /\ \A i \in 1 .. Len(b) : i # Len(b) => i \in 1 .. Len(s)
      /\ \A i, j \in 1 .. Len(b) : i < j => i # Len(b)
  BY <1>1
<1>3. Len(<<>>) = 0 /\ \A i \in 1 .. 0 : FALSE
  OBVIOUS
<1>. HIDE DEF b
<1>4. Rising(b)
  <2>. SUFFICES ASSUME NEW i \in 1 .. Len(b), NEW j \in 1 .. Len(b), i < j
                PROVE  b[i] < b[j]
    BY DEF Rising
  <2>1. i \in 1 .. Len(s) /\ b[i] = s[i]
    BY <1>1, <1>2
  <2>2. CASE j = Len(b)
    BY <1>1, <2>1, <2>2 DEF Line
  <2>3. CASE j # Len(b)
    <3>1. j \in 1 .. Len(s) /\ b[j] = s[j]
      BY <1>1, <1>2, <2>3
    <3>. QED BY <2>1, <3>1 DEF Line, Rising
  <2>. QED BY <2>2, <2>3
<1>5. /\ \A i \in 1 .. Len(b), j \in 1 .. Len(q) : b[i] < q[j].id
      /\ \A i \in 1 .. Len(b) : b[i] <= m
  BY <1>1, <1>2 DEF Line
<1>6. Line(b, <<>>, 0, q, m) /\ Line(s, <<>>, 0, q, m)
  BY <1>3, <1>4, <1>5 DEF Line
<1>. QED BY <1>6 DEF b

(* The aggregate leaves, or is lost.                                       *)
LEMMA LineSend ==
  ASSUME NEW s \in Seq(Nat), NEW a \in Seq(Nat), NEW q \in Seq(Frame), NEW m \in Nat, Line(s, a, 0, q, m)
  PROVE  Line(s \o a, <<>>, 0, q, m) /\ Line(s, <<>>, 0, q, m)
<1>. DEFINE b == s \o a
<1>1. /\ b \in Seq(Nat) /\ Len(b) = Len(s) + Len(a) /\ Len(s) \in Nat /\ Len(a) \in Nat
      /\ \A i \in 1 .. Len(b) : i <= Len(s) => b[i] = s[i]
      /\ \A i \in 1 .. Len(b) : ~(i <= Len(s)) => b[i] = a[i - Len(s)]
  OBVIOUS
<1>2. /\ \A i \in 1 .. Len(b) : i <= Len(s) => i \in 1 .. Len(s)
      /\ \A i \in 1 .. Len(b) : ~(i <= Len(s)) => i - Len(s) \in 1 .. Len(a)
      /\ \A i, j \in 1 .. Len(b) : i < j /\ ~(i <= Len(s)) => ~(j <= Len(s)) /\ i - Len(s) < j - Len(s)
  BY <1>1
<1>3. Len(<<>>) = 0 /\ \A i \in 1 .. 0 : FALSE
  OBVIOUS
<1>. HIDE DEF b
<1>4. Rising(b)
  <2>. SUFFICES ASSUME NEW i \in 1 .. Len(b), NEW j \in 1 .. Len(b), i < j
                PROVE  b[i] < b[j]
    BY DEF Rising
  <2>1. CASE j <= Len(s)
    <3>1. i \in 1 .. Len(s) /\ j \in 1 .. Len(s) /\ b[i] = s[i] /\ b[j] = s[j]
      BY <1>1, <1>2, <2>1
    <3>. QED BY <3>1 DEF Line, Rising
  <2>2. CASE i <= Len(s) /\ ~(j <= Len(s))
    <3>1. i \in 1 .. Len(s) /\ j - Len(s) \in 1 .. Len(a) /\ b[i] = s[i] /\ b[j] = a[j - Len(s)]
      BY <1>1, <1>2, <2>2
    <3>. QED BY <3>1 DEF Line
  <2>3. CASE ~(i <= Len(s))
    <3>1. /\ i - Len(s) \in 1 .. Len(a) /\ j - Len(s) \in 1 .. Len(a) /\ i - Len(s) < j - Len(s)
          /\ b[i] = a[i - Len(s)] /\ b[j] = a[j - Len(s)]
      BY <1>1, <1>2, <2>3
    <3>. QED BY <3>1 DEF Line, Rising
  <2>. QED BY <2>1, <2>2, <2>3
<1>5. /\ \A i \in 1 .. Len(b), j \in 1 .. Len(q) : b[i] < q[j].id
      /\ \A i \in 1 .. Len(b) : b[i] <= m
  BY <1>1, <1>2 DEF Line
<1>6. Line(b, <<>>, 0, q, m) /\ Line(s, <<>>, 0, q, m)
  BY <1>3, <1>4, <1>5 DEF Line, Rising
<1>. QED BY <1>6 DEF b

-----------------------------------------------------------------------------
(* The parts of the invariant that a step of tx_work or of the network     *)
(* layer disturbs; everything else is one of the flags.                    *)

LEMMA NoFrameId == NoFrame \in Frame /\ NoFrame.id = 0
  BY DEF NoFrame, Frame

(* A step that moves no frame and leaves the window alone.                 *)
LEMMA TxAside ==
  ASSUME TxInv, UNCHANGED <<frames, xmit, dataq, hand, agg, agglen, sent, wnd>>,
         \/ at' = at
         \/ /\ at \notin {"single", "gather", "aggsend"}
            /\ at' \notin {"single", "gather", "aggsend", "dec"}
  PROVE  TxInv'
<1>1. InLine' /\ AggFits' /\ DataTypes'
  BY DEF TxInv, InLine, Queued, AggFits, DataTypes
<1>2. Holding' /\ WindowHeld'
  BY DEF TxInv, Holding, WindowHeld
<1>3. Room'
  BY DEF TxInv, Room, Gathering, Xmitting
<1>. QED BY <1>1, <1>2, <1>3 DEF TxInv

(* Nothing has been handed over.                                           *)
LEMMA InitTxInv == Init => TxInv
<1>. SUFFICES ASSUME Init PROVE TxInv
  OBVIOUS
<1>1. DataTypes
  <2>1. xmit \in Frame /\ hand \in Frame /\ dataq \in Seq(Frame) /\ agg \in Seq(Nat) /\ sent \in Seq(Nat)
    BY NoFrameId DEF Init
  <2>2. frames \in Nat /\ agglen \in Nat /\ wnd \in Int
    BY WindowAssumption DEF Init
  <2>. QED BY <2>1, <2>2 DEF DataTypes
<1>2. InLine
  <2>1. Len(<<>>) = 0 /\ \A i \in 1 .. 0 : FALSE
    OBVIOUS
  <2>2. sent = <<>> /\ agg = <<>> /\ dataq = <<>> /\ hand.id = 0
    BY NoFrameId DEF Init
  <2>3. ~(hand.id > 0)
    BY <2>2
  <2>. QED BY <2>1, <2>2, <2>3 DEF InLine, Line, Rising
<1>3. Holding
  <2>1. frames <= Len(FrameLens)
    BY SizeAssumption DEF Init
  <2>2. hand.id = 0
    BY NoFrameId DEF Init
  <2>. QED BY <2>1, <2>2 DEF Init, Holding
<1>4. Room
  <2>1. Len(dataq) = 0
    BY DEF Init
  <2>. QED BY <2>1, SizeAssumption DEF Init, Room, Gathering, Xmitting
<1>5. AggFits /\ WindowHeld
  BY WindowAssumption DEF Init, AggFits, WindowHeld
<1>. QED BY <1>1, <1>2, <1>3, <1>4, <1>5 DEF TxInv

(* hgicf_netif_xmit.                                                       *)
LEMMA XmitTxInv ==
  ASSUME TxInv, XmitBegin \/ XmitQueue \/ XmitKick
  PROVE  TxInv'
<1>0. DataTypes /\ InLine /\ Holding /\ Room /\ AggFits /\ WindowHeld
  BY DEF TxInv
<1>1. CASE XmitBegin
  <2>. DEFINE n == frames + 1
  <2>1. frames \in Nat /\ frames < Len(FrameLens) /\ Len(FrameLens) \in Nat /\ Len(dataq) \in Nat
    BY <1>0, <1>1, SizeAssumption DEF DataTypes, XmitBegin
  <2>2. n \in 1 .. Len(FrameLens) /\ n \in Nat /\ n > 0 /\ n <= Len(FrameLens) /\ FrameLens[n] \in Nat
    BY <2>1, SizeAssumption
  <2>. HIDE DEF n
  <2>3. [id |-> n, len |-> FrameLens[n]] \in Frame /\ [id |-> n, len |-> FrameLens[n]].id = n
    BY <2>2 DEF Frame
  <2>4. frames' = n /\ xmit = NoFrame /\ xmit' = IF XmitTest THEN [id |-> n, len |-> FrameLens[n]] ELSE NoFrame
    BY <1>1 DEF XmitBegin, n
  <2>5. xmit' = NoFrame <=> ~XmitTest
    <3>1. [id |-> n, len |-> FrameLens[n]] # NoFrame
      BY <2>2, <2>3, NoFrameId
    <3>. QED BY <2>4, <3>1
  <2>6. xmit' \in Frame /\ (XmitTest => xmit'.id = n)
    BY <2>3, <2>4, NoFrameId
  <2>7. DataTypes'
    BY <1>0, <1>1, <2>2, <2>4, <2>6 DEF XmitBegin, workVars, wndVars, DataTypes
  <2>8. InLine'
    <3>1. Queued = frames /\ Queued' \in {frames, frames + 1} /\ UNCHANGED <<sent, agg, hand, dataq>>
      BY <1>1, <2>1, <2>4 DEF Queued, XmitBegin, workVars, n
    <3>. QED BY <1>0, <2>1, <3>1, LineLonger DEF InLine, DataTypes
  <2>9. Holding'
    BY <1>0, <1>1, <2>2, <2>4, <2>5, <2>6 DEF Holding, XmitBegin, workVars
  <2>10. Room'
    <3>1. dataq' = dataq /\ at' = at /\ Len(dataq) \in Nat /\ TxqSize \in Nat
      BY <1>1, <2>1, SizeAssumption DEF XmitBegin, workVars
    <3>2. CASE XmitTest
      <4>1. Len(dataq') <= TxqSize /\ Len(dataq') \in Nat
        BY <3>1, <3>2 DEF XmitTest
      <4>2. Gathering' \in {0, 1} /\ Xmitting' \in {0, 1}
        BY DEF Gathering, Xmitting
      <4>. QED BY <3>1, <4>1, <4>2 DEF Room
    <3>3. CASE ~XmitTest
      BY <1>0, <2>4, <2>5, <3>1, <3>3 DEF Room, Gathering, Xmitting
    <3>. QED BY <3>2, <3>3
  <2>11. AggFits' /\ WindowHeld'
    BY <1>0, <1>1 DEF AggFits, WindowHeld, XmitBegin, workVars, wndVars
  <2>. QED BY <2>7, <2>8, <2>9, <2>10, <2>11 DEF TxInv
<1>2. CASE XmitQueue
  <2>1. /\ xmit # NoFrame /\ xmit.id = frames /\ frames > 0 /\ frames \in Nat /\ xmit \in Frame
        /\ dataq \in Seq(Frame) /\ dataq' = Append(dataq, xmit) /\ xmit' = NoFrame
    BY <1>0, <1>2 DEF XmitQueue, Holding, DataTypes
  <2>2. dataq' \in Seq(Frame) /\ Len(dataq') = Len(dataq) + 1 /\ Len(dataq) \in Nat
    BY <2>1
  <2>3. DataTypes'
    BY <1>0, <1>2, <2>2, NoFrameId DEF XmitQueue, workVars, wndVars, DataTypes
  <2>4. InLine'
    <3>1. frames - 1 \in Nat /\ (frames - 1) + 1 = frames
      BY <2>1
    <3>2. Line(sent, agg, hand.id, dataq, frames - 1)
      BY <1>0, <2>1 DEF InLine, Queued
    <3>3. sent \in Seq(Nat) /\ agg \in Seq(Nat) /\ hand.id \in Nat
      BY <1>0 DEF DataTypes, Frame
    <3>4. Line(sent, agg, hand.id, Append(dataq, xmit), (frames - 1) + 1)
      BY <2>1, <3>1, <3>2, <3>3, LineAppend
    <3>. QED BY <1>2, <2>1, <3>1, <3>4 DEF InLine, Queued, XmitQueue, workVars
  <2>5. Holding'
    BY <1>0, <1>2, <2>1 DEF Holding, XmitQueue, workVars
  <2>6. Room'
    BY <1>0, <1>2, <2>1, <2>2, SizeAssumption DEF Room, Gathering, Xmitting, XmitQueue, workVars
  <2>7. AggFits' /\ WindowHeld'
    BY <1>0, <1>2 DEF AggFits, WindowHeld, XmitQueue, workVars, wndVars
  <2>. QED BY <2>3, <2>4, <2>5, <2>6, <2>7 DEF TxInv
<1>3. CASE XmitKick
  <2>1. UNCHANGED <<frames, xmit, dataq, hand, agg, agglen, sent, wnd>> /\ at' = at
    BY <1>3 DEF XmitKick, workVars, wndVars
  <2>. QED BY <2>1, TxAside
<1>. QED BY <1>1, <1>2, <1>3

(* The steps of tx_work that move no frame, and everything that only sets  *)
(* flags.                                                                  *)
LEMMA FlagTxInv ==
  ASSUME TxInv, TxStart \/ DataTest \/ CheckTxwnd \/ Reload \/ Sleep \/ Wake
  PROVE  TxInv'
<1>1. CASE TxStart \/ DataTest \/ CheckTxwnd
  <2>1. /\ UNCHANGED <<frames, xmit, dataq, hand, agg, agglen, sent, wnd>>
        /\ at \notin {"single", "gather", "aggsend"} /\ at' \notin {"single", "gather", "aggsend", "dec"}
    BY <1>1 DEF TxStart, DataTest, CheckTxwnd, xmitVars, wndVars
  <2>. QED BY <2>1, TxAside
<1>2. CASE Reload \/ Sleep \/ Wake
  <2>1. UNCHANGED <<frames, xmit, dataq, hand, agg, agglen, sent, wnd>> /\ at' = at
    BY <1>2 DEF Reload, ReloadSuspend, DownloadBegin, DownloadEnd, InitResume, InitGetFwinfo, InitSoftFc, InitAgain,
      Sleep, Wake, xmitVars, workVars, wndVars
  <2>. QED BY <2>1, TxAside
<1>. QED BY <1>1, <1>2

(* tx_dataq is cleared, for a module that sleeps or is loaded.             *)
LEMMA ClearTxInv ==
  ASSUME TxInv, DataFlags \/ ReloadBegin
  PROVE  TxInv'
<1>0. DataTypes /\ InLine /\ Holding /\ Room /\ AggFits /\ WindowHeld
  BY DEF TxInv
<1>1. /\ UNCHANGED <<frames, xmit, hand, agg, agglen, sent, wnd>> /\ dataq' \in {dataq, <<>>}
      /\ \/ at' = at
         \/ at \notin {"single", "gather", "aggsend"} /\ at' \notin {"single", "gather", "aggsend", "dec"}
  BY DEF DataFlags, ReloadBegin, xmitVars, workVars, wndVars
<1>2. DataTypes'
  <2>1. dataq' \in Seq(Frame)
    <3>1. CASE dataq' = dataq
      BY <1>0, <3>1 DEF DataTypes
    <3>2. CASE dataq' = <<>>
      BY <3>2
    <3>. QED BY <1>1, <3>1, <3>2
  <2>. QED BY <1>0, <1>1, <2>1 DEF DataTypes
<1>3. CASE dataq' = dataq
  BY <1>1, <1>3, TxAside
<1>4. CASE dataq' = <<>>
  <2>1. InLine'
    <3>1. Queued' = Queued
      BY <1>1 DEF Queued
    <3>. QED BY <1>0, <1>1, <1>4, <3>1, LineClear DEF InLine
  <2>2. Holding' /\ WindowHeld' /\ AggFits'
    BY <1>0, <1>1 DEF Holding, WindowHeld, AggFits
  <2>3. Room'
    <3>1. Len(dataq') = 0 /\ TxqSize \in Nat
      BY <1>4, SizeAssumption
    <3>. QED BY <3>1 DEF Room, Gathering, Xmitting
  <2>. QED BY <1>2, <2>1, <2>2, <2>3 DEF TxInv
<1>. QED BY <1>1, <1>3, <1>4

(* The window: tested, decremented, and announced in between.              *)
LEMMA WindowTxInv ==
  ASSUME TxInv, CheckAgain \/ DecTxwnd \/ \E n \in Grants : SetTxwnd(n)
  PROVE  TxInv'
<1>0. DataTypes /\ InLine /\ Holding /\ Room /\ AggFits /\ WindowHeld
  BY DEF TxInv
<1>1. /\ UNCHANGED <<frames, xmit, dataq, hand, agg, agglen, sent>>
      /\ \/ at' = at
         \/ at \notin {"single", "gather", "aggsend"} /\ at' \notin {"single", "gather", "aggsend"}
  BY DEF CheckAgain, DecTxwnd, SetTxwnd, xmitVars, workVars
<1>2. wnd \in Int /\ wnd' \in Int /\ WindowHeld'
  <2>0. wnd \in Int /\ Window \in Nat \ {0} /\ Grants \subseteq Nat
    BY <1>0, WindowAssumption DEF DataTypes
  <2>1. CASE CheckAgain
    <3>1. wnd' = wnd /\ (at' = "dec" => wnd >= Window)
      BY <2>1 DEF CheckAgain, WindowOpen, wndVars
    <3>. QED BY <1>0, <2>0, <3>1 DEF WindowHeld
  <2>2. CASE DecTxwnd
    BY <1>0, <2>0, <2>2 DEF DecTxwnd, WindowHeld
  <2>3. CASE \E n \in Grants : SetTxwnd(n)
    BY <2>0, <2>3 DEF SetTxwnd, WindowHeld
  <2>. QED BY <2>1, <2>2, <2>3
<1>3. DataTypes'
  BY <1>0, <1>1, <1>2 DEF DataTypes
<1>4. InLine' /\ AggFits' /\ Holding'
  BY <1>0, <1>1 DEF InLine, Queued, AggFits, Holding
<1>5. Room'
  BY <1>0, <1>1 DEF Room, Gathering, Xmitting
<1>. QED BY <1>2, <1>3, <1>4, <1>5 DEF TxInv

(* Rounding up to a multiple of 4.                                         *)
LEMMA AlignUp == \A n \in Nat : ALIGN(n, 4) \in Nat /\ ALIGN(n, 4) >= n
  BY DEF ALIGN

(* skb_dequeue.  There is a frame, so an aggregate's header fits.          *)
LEMMA TakeTxInv ==
  ASSUME TxInv, Take
  PROVE  TxInv'
<1>0. /\ DataTypes /\ InLine /\ Holding /\ Room /\ AggFits /\ WindowHeld
      /\ at = "take" /\ agg = <<>> /\ ~(hand.id > 0) /\ hand.id = 0
      /\ dataq \in Seq(Frame) /\ sent \in Seq(Nat) /\ agg \in Seq(Nat) /\ frames \in Nat
  <2>1. at = "take" /\ DataTypes /\ Holding
    BY DEF TxInv, Take
  <2>2. ~(hand.id > 0) /\ agg = <<>>
    BY <2>1 DEF Holding
  <2>3. hand.id \in Nat
    BY <2>1 DEF DataTypes, Frame
  <2>4. hand.id = 0
    BY <2>2, <2>3
  <2>. QED BY <2>1, <2>2, <2>4 DEF TxInv, DataTypes
<1>1. UNCHANGED <<frames, xmit, agg, sent, wnd>> /\ Queued' = Queued
  BY DEF Take, xmitVars, wndVars, Queued
<1>2. CASE dataq = <<>>
  <2>1. UNCHANGED <<frames, xmit, dataq, hand, agg, agglen, sent, wnd>> /\ at' = "test"
    BY <1>1, <1>2 DEF Take
  <2>. QED BY <1>0, <2>1, TxAside
<1>3. CASE dataq # <<>>
  <2>1. /\ hand' = Head(dataq) /\ dataq' = Tail(dataq)
        /\ \/ at' = "single" /\ agglen' = agglen
           \/ at' = "gather" /\ agglen' = HdrLen /\ IfAgg > 0
    BY <1>3 DEF Take, AggStart
  <2>2. /\ hand' \in Frame /\ dataq' \in Seq(Frame) /\ Len(dataq') = Len(dataq) - 1 /\ Len(dataq) \in Nat
        /\ dataq[1] \in Frame /\ Head(dataq) = dataq[1] /\ 1 \in 1 .. Len(dataq)
    BY <1>0, <1>3, <2>1
  <2>3. Queued \in Nat /\ Queued <= frames
    <3>1. xmit # NoFrame => frames > 0
      BY <1>0 DEF Holding
    <3>. QED BY <1>0, <3>1 DEF Queued
  <2>4. Line(sent, agg, hand'.id, dataq', Queued) /\ hand'.id > 0
    <3>1. Line(sent, agg, 0, dataq, Queued)
      BY <1>0 DEF InLine
    <3>. QED BY <1>0, <1>3, <2>1, <2>3, <3>1, LineTake
  <2>5. InLine'
    BY <1>1, <2>4 DEF InLine
  <2>6. HdrLen \in Nat /\ (IfAgg > 0 => HdrLen <= IfAgg)
    <3>1. dataq[1].id > 0 /\ dataq[1].id <= frames /\ frames <= Len(FrameLens)
      <4>1. dataq[1].id > 0 /\ dataq[1].id <= Queued /\ frames <= Len(FrameLens)
        BY <1>0, <2>2 DEF InLine, Line, Holding
      <4>2. dataq[1].id \in Nat
        BY <2>2 DEF Frame
      <4>. QED BY <1>0, <2>3, <4>1, <4>2
    <3>2. 1 \in 1 .. Len(FrameLens) /\ FrameLens[1] \in Nat
      <4>1. dataq[1].id \in Nat /\ Len(FrameLens) \in Nat
        BY <2>2, SizeAssumption DEF Frame
      <4>2. 1 \in 1 .. Len(FrameLens)
        BY <1>0, <3>1, <4>1
      <4>. QED BY <4>2, SizeAssumption
    <3>3. IfAgg > 0 => HdrLen + ALIGN(FrameLens[1], 4) <= IfAgg
      BY <3>2, AggAssumption
    <3>4. ALIGN(FrameLens[1], 4) \in Nat
      BY <3>2, AlignUp
    <3>5. HdrLen \in Nat /\ IfAgg \in Nat
      BY SizeAssumption, AggAssumption
    <3>. QED BY <3>3, <3>4, <3>5
  <2>7. AggFits' /\ DataTypes'
    BY <1>0, <1>1, <2>1, <2>2, <2>6 DEF AggFits, DataTypes
  <2>8. Holding' /\ WindowHeld'
    BY <1>0, <1>1, <2>1, <2>4 DEF Holding, WindowHeld
  <2>9. Room'
    <3>1. at # "gather" /\ xmit' = xmit /\ TxqSize \in Nat
      BY <1>0, <1>1, SizeAssumption
    <3>2. Gathering' \in {0, 1} /\ Gathering = 0 /\ Xmitting' = Xmitting /\ Xmitting \in {0, 1}
      BY <3>1 DEF Gathering, Xmitting
    <3>3. Room
      BY <1>0
    <3>. QED BY <2>2, <3>1, <3>2, <3>3 DEF Room
  <2>. QED BY <2>5, <2>7, <2>8, <2>9 DEF TxInv
<1>. QED BY <1>2, <1>3

(* A single frame leaves, or the bus fails.                                *)
LEMMA SingleTxInv ==
  ASSUME TxInv, TxSingle
  PROVE  TxInv'
<1>0. /\ DataTypes /\ InLine /\ Holding /\ Room /\ AggFits /\ WindowHeld
      /\ at = "single" /\ agg = <<>> /\ hand.id > 0
      /\ dataq \in Seq(Frame) /\ sent \in Seq(Nat) /\ frames \in Nat
  BY DEF TxInv, TxSingle, Holding, DataTypes
<1>1. UNCHANGED <<frames, xmit, dataq, agg, agglen, wnd>> /\ Queued' = Queued /\ hand' = NoFrame /\ at' = "test"
  BY DEF TxSingle, xmitVars, wndVars, Queued
<1>2. hand.id \in Nat /\ sent' \in {sent, Append(sent, hand.id)} /\ sent' \in Seq(Nat)
  <2>1. hand.id \in Nat
    BY <1>0 DEF DataTypes, Frame
  <2>2. Append(sent, hand.id) \in Seq(Nat)
    BY <1>0, <2>1
  <2>3. sent' \in {sent, Append(sent, hand.id)}
    BY DEF TxSingle
  <2>4. sent' \in Seq(Nat)
    BY <1>0, <2>2, <2>3
  <2>. QED BY <2>1, <2>3, <2>4
<1>3. InLine'
  <2>1. Queued \in Nat
    <3>1. xmit # NoFrame => frames > 0
      BY <1>0 DEF Holding
    <3>. QED BY <1>0, <3>1 DEF Queued
  <2>2. Line(Append(sent, hand.id), <<>>, 0, dataq, Queued) /\ Line(sent, <<>>, 0, dataq, Queued)
    BY <1>0, <1>2, <2>1, LineSingle DEF InLine
  <2>. QED BY <1>0, <1>1, <1>2, <2>2, NoFrameId DEF InLine
<1>4. DataTypes' /\ AggFits'
  BY <1>0, <1>1, <1>2, NoFrameId DEF DataTypes, AggFits
<1>5. Holding' /\ WindowHeld'
  <2>1. ~(hand'.id > 0)
    BY <1>1, NoFrameId
  <2>. QED BY <1>0, <1>1, <2>1 DEF Holding, WindowHeld
<1>6. Room'
  BY <1>0, <1>1 DEF Room, Gathering, Xmitting
<1>. QED BY <1>3, <1>4, <1>5, <1>6 DEF TxInv

(* hgicf_tx_agg_frm gathers.                                               *)
LEMMA GatherTxInv ==
  ASSUME TxInv, Gather
  PROVE  TxInv'
<1>0. /\ DataTypes /\ InLine /\ Holding /\ Room /\ AggFits /\ WindowHeld
      /\ at = "gather" /\ hand.id > 0 /\ hand \in Frame
      /\ dataq \in Seq(Frame) /\ sent \in Seq(Nat) /\ agg \in Seq(Nat) /\ frames \in Nat /\ agglen \in Nat
  BY DEF TxInv, Gather, Holding, DataTypes
<1>1. UNCHANGED <<frames, xmit, sent, wnd>> /\ Queued' = Queued
  BY DEF Gather, xmitVars, wndVars, Queued
<1>2. Queued \in Nat /\ hand.id \in Nat /\ hand.len \in Nat
  <2>1. xmit # NoFrame => frames > 0
    BY <1>0 DEF Holding
  <2>2. hand.id \in Nat /\ hand.len \in Nat
    BY <1>0 DEF Frame
  <2>. QED BY <1>0, <2>1, <2>2 DEF Queued
<1>3. CASE ~Fits
  <2>1. dataq' = <<hand>> \o dataq /\ hand' = NoFrame /\ at' = "aggsend" /\ UNCHANGED <<agg, agglen>>
    BY <1>3 DEF Gather, PutBack
  <2>2. dataq' \in Seq(Frame) /\ Len(dataq') = Len(dataq) + 1 /\ Len(dataq) \in Nat
    <3>1. <<hand>> \in Seq(Frame) /\ Len(<<hand>>) = 1
      BY <1>0
    <3>. QED BY <1>0, <2>1, <3>1
  <2>3. InLine'
    <3>1. Line(sent, agg, 0, <<hand>> \o dataq, Queued)
      BY <1>0, <1>2, LinePutBack DEF InLine
    <3>. QED BY <1>1, <2>1, <3>1, NoFrameId DEF InLine
  <2>4. DataTypes' /\ AggFits'
    BY <1>0, <1>1, <2>1, <2>2, NoFrameId DEF DataTypes, AggFits
  <2>5. Holding' /\ WindowHeld'
    <3>1. ~(hand'.id > 0)
      BY <2>1, NoFrameId
    <3>. QED BY <1>0, <1>1, <2>1, <3>1 DEF Holding, WindowHeld
  <2>6. Room'
    BY <1>0, <1>1, <2>1, <2>2, SizeAssumption DEF Room, Gathering, Xmitting
  <2>. QED BY <2>3, <2>4, <2>5, <2>6 DEF TxInv
<1>4. CASE Fits
  <2>1. agg' = Append(agg, hand.id) /\ agglen' = agglen + ALIGN(hand.len, 4)
    BY <1>3, <1>4 DEF Gather
  <2>2. agglen' \in Nat /\ agglen' <= IfAgg /\ agg' \in Seq(Nat)
    <3>1. ALIGN(hand.len, 4) \in Nat
      BY <1>2, AlignUp
    <3>2. agglen + ALIGN(hand.len, 4) <= IfAgg
      BY <1>4 DEF Fits
    <3>3. agg' \in Seq(Nat)
      BY <1>0, <1>2, <2>1
    <3>. QED BY <1>0, <2>1, <3>1, <3>2, <3>3
  <2>3. Line(sent, agg', 0, dataq, Queued)
    BY <1>0, <1>2, <2>1, LineGather DEF InLine
  <2>4. CASE dataq = <<>>
    <3>1. at' = "aggsend" /\ hand' = NoFrame /\ dataq' = dataq
      BY <1>3, <1>4, <2>4 DEF Gather
    <3>2. InLine'
      BY <1>1, <2>3, <3>1, NoFrameId DEF InLine
    <3>3. DataTypes' /\ AggFits'
      BY <1>0, <1>1, <2>2, <3>1, NoFrameId DEF DataTypes, AggFits
    <3>4. Holding' /\ WindowHeld'
      <4>1. ~(hand'.id > 0)
        BY <3>1, NoFrameId
      <4>. QED BY <1>0, <1>1, <3>1, <4>1 DEF Holding, WindowHeld
    <3>5. Room'
      <4>1. Len(dataq) \in Nat
        BY <1>0
      <4>. QED BY <1>0, <1>1, <3>1, <4>1, SizeAssumption DEF Room, Gathering, Xmitting
    <3>. QED BY <3>2, <3>3, <3>4, <3>5 DEF TxInv
  <2>5. CASE dataq # <<>>
    <3>1. hand' = Head(dataq) /\ dataq' = Tail(dataq) /\ at' = at
      BY <1>3, <1>4, <2>5 DEF Gather
    <3>2. hand' \in Frame /\ dataq' \in Seq(Frame) /\ Len(dataq') = Len(dataq) - 1 /\ Len(dataq) \in Nat
      BY <1>0, <2>5, <3>1
    <3>3. Line(sent, agg', hand'.id, dataq', Queued) /\ hand'.id > 0
      BY <1>0, <1>2, <2>2, <2>3, <2>5, <3>1, LineTake
    <3>4. InLine'
      BY <1>1, <3>3 DEF InLine
    <3>5. DataTypes' /\ AggFits'
      BY <1>0, <1>1, <2>2, <3>2 DEF DataTypes, AggFits
    <3>6. Holding' /\ WindowHeld'
      BY <1>0, <1>1, <3>1, <3>3 DEF Holding, WindowHeld
    <3>7. Room'
      BY <1>0, <1>1, <3>1, <3>2, SizeAssumption DEF Room, Gathering, Xmitting
    <3>. QED BY <3>4, <3>5, <3>6, <3>7 DEF TxInv
  <2>. QED BY <2>4, <2>5
<1>. QED BY <1>3, <1>4

(* The aggregate leaves, or the bus fails.                                 *)
LEMMA AggSendTxInv ==
  ASSUME TxInv, AggSend
  PROVE  TxInv'
<1>0. /\ DataTypes /\ InLine /\ Holding /\ Room /\ AggFits /\ WindowHeld
      /\ at = "aggsend" /\ ~(hand.id > 0) /\ hand.id \in Nat
      /\ dataq \in Seq(Frame) /\ sent \in Seq(Nat) /\ agg \in Seq(Nat) /\ frames \in Nat
  BY DEF TxInv, AggSend, Holding, DataTypes, Frame
<1>1. /\ UNCHANGED <<frames, xmit, dataq, hand, wnd>> /\ Queued' = Queued /\ at' = "test"
      /\ agg' = <<>> /\ agglen' = 0 /\ sent' \in {sent, sent \o agg}
  BY DEF AggSend, xmitVars, wndVars, Queued
<1>2. InLine'
  <2>1. Queued \in Nat
    <3>1. xmit # NoFrame => frames > 0
      BY <1>0 DEF Holding
    <3>. QED BY <1>0, <3>1 DEF Queued
  <2>2. hand.id = 0
    BY <1>0
  <2>3. Line(sent \o agg, <<>>, 0, dataq, Queued) /\ Line(sent, <<>>, 0, dataq, Queued)
    BY <1>0, <2>1, <2>2, LineSend DEF InLine
  <2>. QED BY <1>1, <2>2, <2>3 DEF InLine
<1>3. DataTypes' /\ AggFits'
  <2>1. sent' \in Seq(Nat) /\ agg' \in Seq(Nat)
    <3>1. sent \o agg \in Seq(Nat) /\ <<>> \in Seq(Nat)
      BY <1>0
    <3>. QED BY <1>0, <1>1, <3>1
  <2>. QED BY <1>0, <1>1, <2>1 DEF DataTypes, AggFits
<1>4. Holding' /\ WindowHeld'
  BY <1>0, <1>1 DEF Holding, WindowHeld
<1>5. Room'
  BY <1>0, <1>1 DEF Room, Gathering, Xmitting
<1>. QED BY <1>2, <1>3, <1>4, <1>5 DEF TxInv

-----------------------------------------------------------------------------
(* Every step of the transmit direction keeps the invariant; the receive   *)
(* direction does not touch it.                                            *)
LEMMA TxInvariant == DpSpec => []TxInv
<1>1. DpInit => TxInv
  BY InitTxInv DEF DpInit
<1>2. TxInv /\ [DpNext]_dpvars => TxInv'
  <2>. SUFFICES ASSUME TxInv, [DpNext]_dpvars PROVE TxInv'
    OBVIOUS
  <2>1. CASE Next
    BY <2>1, XmitTxInv, FlagTxInv, ClearTxInv, WindowTxInv, TakeTxInv, SingleTxInv, GatherTxInv, AggSendTxInv
      DEF Next, TxWork
  <2>2. CASE UNCHANGED vars
    <3>1. UNCHANGED <<frames, xmit, dataq, hand, agg, agglen, sent, wnd>> /\ at' = at
      BY <2>2 DEF vars, xmitVars, workVars, wndVars
    <3>. QED BY <3>1, TxAside
  <2>. QED BY <2>1, <2>2 DEF DpNext, Inward, dpvars
<1>. QED BY <1>1, <1>2, PTL DEF DpSpec

(* Frames leave in the order the network layer handed them over and none   *)
(* leaves twice, whatever hgicf_tx_agg_frm puts back, the bus refuses or a *)
(* reload throws away.                                                     *)
THEOREM FramesStayInOrder == DpSpec => []SentInOrder
<1>1. TxInv => SentInOrder
  BY DEF TxInv, InLine, Line, Rising, SentInOrder
<1>. QED BY <1>1, TxInvariant, PTL

(* For every txq_size, if_agg and window: the queue is at most two frames  *)
(* longer than txq_size, the aggregate stays within its buffer, and the    *)
(* window never falls below -1.                                            *)
THEOREM LimitsKept == DpSpec => []TxLimits
<1>1. TxInv => TxLimits
  <2>. SUFFICES ASSUME TxInv PROVE TxLimits
    OBVIOUS
  <2>1. Len(dataq) \in Nat /\ TxqSize \in Nat
    BY SizeAssumption DEF TxInv, DataTypes
  <2>2. Gathering \in {0, 1} /\ Xmitting \in {0, 1}
    BY DEF Gathering, Xmitting
  <2>3. DataqBounded
    BY <2>1, <2>2 DEF TxInv, Room, DataqBounded
  <2>. QED BY <2>3 DEF TxInv, WindowHeld, TxLimits, WindowFloor
<1>. QED BY <1>1, TxInvariant, PTL

-----------------------------------------------------------------------------
(* The receive direction, for every set of buffers: where hgicf_rx_agg_frm *)
(* stands in the buffer it takes apart, and how far what was delivered or  *)
(* lost is what the buffers hold.                                          *)
RxFrame == [rx : Nat, sub : Nat, len : Int]
RxTypes == rxs \in Nat /\ got \in Seq(RxFrame) /\ want \subseteq RxFrame

Start(b, k) == IF k = 1 THEN 0 ELSE b.subs[k - 1].end
Cursor ==
  rxbuf # NoBuf =>
    /\ rxbuf \in Buffers /\ vif = "set" /\ next \in Nat /\ next > 0 /\ next <= Len(rxbuf.subs) + 1
    /\ left = rxbuf.length - RxHdr - Start(rxbuf, next)
    /\ \A j \in 1 .. next - 1 : rxbuf.subs[j].ok /\ rxbuf.subs[j].end <= rxbuf.length - RxHdr

Passed(f) == rxbuf = NoBuf \/ f.rx < rxs \/ f.sub < next
Handed ==
  /\ \A f \in Range(got) : f \in want /\ f \notin lost /\ Passed(f)
  /\ \A f \in lost : f \in want /\ Passed(f)
  /\ \A f \in want : f.rx <= rxs /\ (Passed(f) => f \in Range(got) \/ f \in lost)
Opened ==
  rxbuf # NoBuf => /\ Holds(rxbuf, rxs) \subseteq want
                   /\ \A f \in want : f.rx = rxs => f \in Holds(rxbuf, rxs)
Ordered(s) == \A i, j \in DOMAIN s : i < j => Before(s[i], s[j])

RxInv == RxTypes /\ Cursor /\ Handed /\ Opened /\ Ordered(got)

(* netif_rx is given one more frame, after all the others.                 *)
LEMMA OrderedAppend ==
  ASSUME NEW s \in Seq(RxFrame), NEW f \in RxFrame, Ordered(s), \A g \in Range(s) : Before(g, f)
  PROVE  /\ Append(s, f) \in Seq(RxFrame) /\ Ordered(Append(s, f))
         /\ Range(Append(s, f)) = Range(s) \cup {f}
<1>. DEFINE t == Append(s, f)
<1>1. /\ t \in Seq(RxFrame) /\ DOMAIN s = 1 .. Len(s) /\ DOMAIN t = 1 .. Len(s) + 1 /\ Len(s) \in Nat
      /\ t[Len(s) + 1] = f /\ \A i \in 1 .. Len(s) : t[i] = s[i]
  OBVIOUS
<1>. HIDE DEF t
<1>2. Range(t) = Range(s) \cup {f}
  <2>1. \A x \in Range(t) : x \in Range(s) \/ x = f
    <3>. SUFFICES ASSUME NEW i \in DOMAIN t PROVE t[i] \in Range(s) \/ t[i] = f
      BY DEF Range
    <3>1. i \in 1 .. Len(s) \/ i = Len(s) + 1
      BY <1>1
    <3>. QED BY <1>1, <3>1 DEF Range
  <2>2. \A x \in Range(s) : x \in Range(t)
    <3>. SUFFICES ASSUME NEW i \in DOMAIN s PROVE s[i] \in Range(t)
      BY DEF Range
    <3>1. i \in DOMAIN t /\ t[i] = s[i]
      BY <1>1
    <3>. QED BY <3>1 DEF Range
  <2>3. f \in Range(t)
    <3>1. Len(s) + 1 \in DOMAIN t
      BY <1>1
    <3>. QED BY <1>1, <3>1 DEF Range
  <2>. QED BY <2>1, <2>2, <2>3
<1>3. Ordered(t)
  <2>. SUFFICES ASSUME NEW i \in DOMAIN t, NEW j \in DOMAIN t, i < j PROVE Before(t[i], t[j])
    BY DEF Ordered
  <2>1. i \in DOMAIN s /\ i \in 1 .. Len(s) /\ (j \in DOMAIN s \/ j = Len(s) + 1)
    BY <1>1
  <2>2. CASE j \in DOMAIN s
    BY <1>1, <2>1, <2>2 DEF Ordered
  <2>3. CASE j = Len(s) + 1
    <3>1. s[i] \in Range(s) /\ t[i] = s[i] /\ t[j] = f
      BY <1>1, <2>1, <2>3 DEF Range
    <3>. QED BY <3>1
  <2>. QED BY <2>1, <2>2, <2>3
<1>. QED BY <1>1, <1>2, <1>3 DEF t

(* What the layout of a buffer gives.                                      *)
LEMMA Layout ==
  ASSUME NEW b \in Buffers
  PROVE  /\ b.length \in Nat /\ b.flags \in Nat /\ RxHdr \in Nat /\ RxHdr > 0
         /\ DOMAIN b.subs = 1 .. Len(b.subs) /\ Len(b.subs) \in Nat
         /\ \A k \in 1 .. Len(b.subs) :
              /\ b.subs[k].length \in Nat /\ b.subs[k].flags \in Nat /\ b.subs[k].end \in Nat
              /\ b.subs[k].length >= RxHdr
              /\ b.subs[k].end = b.subs[k].length + Start(b, k)
<1>1. /\ b.length \in Nat /\ b.flags \in Nat /\ RxHdr \in Nat /\ RxHdr > 0
      /\ DOMAIN b.subs = 1 .. Len(b.subs) /\ Len(b.subs) \in Nat
  BY RxAssumption
<1>2. ASSUME NEW k \in 1 .. Len(b.subs)
      PROVE  /\ b.subs[k].length \in Nat /\ b.subs[k].flags \in Nat /\ b.subs[k].end \in Nat
             /\ b.subs[k].length >= RxHdr + b.subs[k].flags
             /\ b.subs[k].end = b.subs[k].length + Start(b, k)
  BY <1>1, RxAssumption DEF Start
<1>3. ASSUME NEW k \in 1 .. Len(b.subs) PROVE b.subs[k].length >= RxHdr
  BY <1>1, <1>2
<1>. QED BY <1>1, <1>2, <1>3

(* A frame of n bytes that begins s bytes behind the header of h bytes of  *)
(* an aggregate of b bytes.                                                *)
LEMMA Placed ==
  ASSUME NEW b \in Nat, NEW h \in Nat, NEW s \in Int, NEW n \in Nat
  PROVE  /\ n + s <= b - h <=> b - h - s >= n
         /\ b - h - s - n = b - h - (n + s)
OBVIOUS

LEMMA FrmType ==
  ASSUME NEW n \in Nat, NEW k \in Nat, NEW s, s.length \in Nat, s.flags \in Nat
  PROVE  Frm(n, k, s) \in RxFrame /\ Frm(n, k, s).rx = n /\ Frm(n, k, s).sub = k
<1>1. RxHdr \in Nat
  BY RxAssumption
<1>. QED BY <1>1 DEF Frm, RxFrame

LEMMA HoldsType ==
  ASSUME NEW b \in Buffers, NEW n \in Nat
  PROVE  /\ Holds(b, n) \subseteq RxFrame
         /\ \A f \in Holds(b, n) : /\ f.rx = n /\ f.sub \in 1 .. Len(b.subs) /\ Whole(b, f.sub)
                                   /\ f = Frm(n, f.sub, b.subs[f.sub])
         /\ \A k \in 1 .. Len(b.subs) : Whole(b, k) => Frm(n, k, b.subs[k]) \in Holds(b, n)
<1>1. /\ DOMAIN b.subs = 1 .. Len(b.subs) /\ Len(b.subs) \in Nat
      /\ \A k \in 1 .. Len(b.subs) : b.subs[k].length \in Nat /\ b.subs[k].flags \in Nat
  BY Layout
<1>2. \A k \in 1 .. Len(b.subs) : /\ Frm(n, k, b.subs[k]) \in RxFrame
                                  /\ Frm(n, k, b.subs[k]).rx = n /\ Frm(n, k, b.subs[k]).sub = k
  BY <1>1, FrmType
<1>3. \A k \in 1 .. Len(b.subs) : Whole(b, k) => Frm(n, k, b.subs[k]) \in Holds(b, n)
  BY <1>1 DEF Holds
<1>4. ASSUME NEW f \in Holds(b, n)
      PROVE  /\ f \in RxFrame /\ f.rx = n /\ f.sub \in 1 .. Len(b.subs) /\ Whole(b, f.sub)
             /\ f = Frm(n, f.sub, b.subs[f.sub])
  <2>1. PICK k \in 1 .. Len(b.subs) : Whole(b, k) /\ f = Frm(n, k, b.subs[k])
    BY <1>1, <1>4 DEF Holds
  <2>2. f.sub = k
    BY <1>2, <2>1
  <2>. QED BY <1>2, <2>1, <2>2
<1>. QED BY <1>3, <1>4

(* No frame behind the place where hgicf_rx_agg_frm stops is held.         *)
LEMMA StopsRightly ==
  ASSUME NEW b \in Buffers, NEW k \in Nat, k > 0, k <= Len(b.subs) + 1, NEW l \in Int,
         l = b.length - RxHdr - Start(b, k),
         ~(l > RxHdr /\ k <= Len(b.subs) /\ b.subs[k].ok /\ l >= b.subs[k].length),
         NEW m \in 1 .. Len(b.subs), m >= k
  PROVE  ~Whole(b, m)
<1>. SUFFICES ASSUME Whole(b, m) PROVE FALSE
  OBVIOUS
<1>1. /\ b.length \in Nat /\ RxHdr \in Nat /\ RxHdr > 0 /\ Len(b.subs) \in Nat
      /\ \A i \in 1 .. Len(b.subs) : /\ b.subs[i].length \in Nat /\ b.subs[i].length >= RxHdr
                                     /\ b.subs[i].end = b.subs[i].length + Start(b, i)
  BY Layout
<1>2. k \in 1 .. Len(b.subs) /\ k \in 1 .. m
  BY <1>1
<1>3. b.subs[k].ok /\ b.subs[k].end <= b.length - RxHdr /\ b.subs[m].length > RxHdr
  BY <1>2 DEF Whole
<1>4. /\ b.subs[k].length \in Nat /\ b.subs[k].length >= RxHdr
      /\ b.subs[k].end = b.subs[k].length + Start(b, k)
  BY <1>1, <1>2
<1>5. Start(b, k) \in Int /\ b.subs[k].end \in Int
  <2>1. b.subs[k].end \in Nat
    BY <1>2, Layout
  <2>2. Start(b, k) \in Nat
    <3>1. k # 1 => k - 1 \in 1 .. Len(b.subs)
      BY <1>1, <1>2
    <3>. QED BY <3>1, Layout DEF Start
  <2>. QED BY <2>1, <2>2
<1>6. l >= b.subs[k].length
  <2>. DEFINE len == b.length
              sub == b.subs[k].length
              start == Start(b, k)
  <2>1. len \in Nat /\ RxHdr \in Nat /\ sub \in Nat /\ start \in Int
    BY <1>1, <1>4, <1>5
  <2>2. sub + start <= len - RxHdr /\ l = len - RxHdr - start
    BY <1>3, <1>4
  <2>. HIDE DEF len, sub, start
  <2>3. l >= sub
    BY <2>1, <2>2, Placed
  <2>. QED BY <2>3 DEF sub
<1>7. l = RxHdr /\ b.subs[k].length = RxHdr
  BY <1>1, <1>2, <1>3, <1>4, <1>6
<1>8. m # k
  BY <1>3, <1>7
<1>9. k + 1 \in 1 .. m /\ k + 1 \in 1 .. Len(b.subs) /\ k + 1 # 1
  BY <1>2, <1>8
<1>10. /\ b.subs[k + 1].end <= b.length - RxHdr
       /\ b.subs[k + 1].end = b.subs[k + 1].length + b.subs[k].end
       /\ b.subs[k + 1].length \in Nat /\ b.subs[k + 1].length >= RxHdr
  BY <1>1, <1>9 DEF Whole, Start
<1>. DEFINE e == b.subs[k].end
            n == b.subs[k + 1].length
            len == b.length
            start == Start(b, k)
<1>11. e \in Nat /\ n \in Nat /\ n >= RxHdr /\ n + e <= len - RxHdr
  BY <1>2, <1>10, Layout
<1>12. RxHdr = len - RxHdr - start /\ e = RxHdr + start
  BY <1>4, <1>7
<1>13. len \in Nat /\ RxHdr \in Nat /\ RxHdr > 0 /\ start \in Int
  BY <1>1, <1>5
<1>. HIDE DEF e, n, len, start
<1>. QED BY <1>11, <1>12, <1>13

(* The steps that leave the buffer, what was delivered and what was lost   *)
(* alone: a buffer that is refused, ignored or a control frame, and        *)
(* delay_init.                                                             *)
LEMMA RxAside ==
  ASSUME RxInv, UNCHANGED <<rxbuf, left, next, got, want, lost>>,
         \/ rxs' = rxs /\ (vif = "set" => vif' = "set")
         \/ rxs' = rxs + 1 /\ rxbuf = NoBuf
  PROVE  RxInv'
<1>0. RxTypes /\ Cursor /\ Handed /\ Opened /\ Ordered(got)
  BY DEF RxInv
<1>1. RxTypes'
  BY <1>0 DEF RxTypes
<1>2. Cursor' /\ Opened'
  BY <1>0 DEF Cursor, Opened
<1>3. Handed'
  <2>1. CASE rxs' = rxs
    BY <1>0, <2>1 DEF Handed, Passed
  <2>2. CASE rxs' = rxs + 1 /\ rxbuf = NoBuf
    <3>1. \A f \in want : f.rx \in Nat
      BY <1>0 DEF RxTypes, RxFrame
    <3>2. rxs \in Nat /\ rxs' = rxs + 1
      BY <1>0, <2>2 DEF RxTypes
    <3>3. \A f \in want : f.rx <= rxs'
      BY <1>0, <3>1, <3>2 DEF Handed
    <3>4. \A f : Passed(f) /\ Passed(f)'
      BY <2>2 DEF Passed
    <3>. QED BY <1>0, <3>3, <3>4 DEF Handed
  <2>. QED BY <2>1, <2>2
<1>4. Ordered(got)'
  BY <1>0 DEF Ordered
<1>. QED BY <1>1, <1>2, <1>3, <1>4 DEF RxInv

(* hgicf_rx_data opens an aggregate.                                       *)
LEMMA OpenRxInv ==
  ASSUME RxInv, rxbuf = NoBuf, vif = "set", vif' = vif, rxs' = rxs + 1, UNCHANGED <<got, lost>>,
         NEW b \in Buffers, b.type = "AGGFRM",
         rxbuf' = b, left' = b.length - RxHdr, next' = 1, want' = want \union Holds(b, rxs + 1)
  PROVE  RxInv'
<1>0. RxTypes /\ Handed /\ Ordered(got) /\ rxs \in Nat /\ want \subseteq RxFrame
  BY DEF RxInv, RxTypes
<1>1. /\ b.length \in Nat /\ RxHdr \in Nat /\ Len(b.subs) \in Nat
  BY Layout
<1>2. rxs + 1 \in Nat /\ Holds(b, rxs + 1) \subseteq RxFrame
      /\ \A f \in Holds(b, rxs + 1) : f.rx = rxs + 1 /\ f.sub \in 1 .. Len(b.subs)
  BY <1>0, HoldsType
<1>3. rxbuf' # NoBuf
  BY DEF NoBuf
<1>4. RxTypes'
  BY <1>0, <1>2 DEF RxTypes
<1>5. Cursor'
  <2>1. 1 \in Nat /\ 1 > 0 /\ 1 <= Len(b.subs) + 1 /\ 1 .. 1 - 1 = {}
    BY <1>1
  <2>2. left' = b.length - RxHdr - Start(b, 1)
    BY <1>1 DEF Start
  <2>. QED BY <2>1, <2>2 DEF Cursor
<1>6. \A f \in want : f.rx \in Nat /\ f.rx <= rxs /\ f.rx < rxs'
  <2>1. \A f \in want : f.rx \in Nat /\ f.rx <= rxs
    BY <1>0 DEF RxFrame, Handed
  <2>. QED BY <1>0, <2>1
<1>7. Handed'
  <2>1. \A f \in want : Passed(f) /\ Passed(f)'
    BY <1>6 DEF Passed
  <2>2. \A f \in Holds(b, rxs + 1) : ~Passed(f)' /\ f.rx <= rxs' /\ f \notin want
    <3>. SUFFICES ASSUME NEW f \in Holds(b, rxs + 1) PROVE ~Passed(f)' /\ f.rx <= rxs' /\ f \notin want
      OBVIOUS
    <3>1. f.rx = rxs + 1 /\ f.sub \in 1 .. Len(b.subs)
      BY <1>2
    <3>2. ~(f.rx < rxs') /\ ~(f.sub < next') /\ f.rx <= rxs'
      BY <1>0, <1>1, <3>1
    <3>3. f \notin want
      BY <1>0, <1>6, <3>2
    <3>. QED BY <1>3, <3>2, <3>3 DEF Passed
  <2>3. \A f \in lost' : f \in want' /\ Passed(f)'
    BY <1>0, <2>1 DEF Handed
  <2>4. \A f \in Range(got') : f \in want' /\ f \notin lost' /\ Passed(f)'
    BY <1>0, <2>1 DEF Handed
  <2>5. \A f \in want' : f.rx <= rxs' /\ (Passed(f)' => f \in Range(got') \/ f \in lost')
    BY <1>0, <1>6, <2>1, <2>2 DEF Handed
  <2>. QED BY <2>3, <2>4, <2>5 DEF Handed
<1>8. Opened'
  BY <1>0, <1>2, <1>6 DEF Opened
<1>9. Ordered(got)'
  BY <1>0 DEF Ordered
<1>. QED BY <1>4, <1>5, <1>7, <1>8, <1>9 DEF RxInv

(* hgicf_rx_data is given a single frame.                                  *)
LEMMA SingleRxInv ==
  ASSUME RxInv, rxbuf = NoBuf, vif = "set", vif' = vif, rxs' = rxs + 1, UNCHANGED <<rxbuf, left, next>>,
         NEW b \in Buffers, hgicf_rx_single_frm(rxs + 1, 0, b),
         want' = IF b.length > RxHdr THEN want \union {Frm(rxs + 1, 0, b)} ELSE want
  PROVE  RxInv'
<1>0. RxTypes /\ Handed /\ Ordered(got) /\ rxs \in Nat /\ want \subseteq RxFrame /\ got \in Seq(RxFrame)
  BY DEF RxInv, RxTypes
<1>1. CASE ~(b.length > RxHdr)
  BY <1>1, RxAside DEF hgicf_rx_single_frm
<1>2. CASE b.length > RxHdr
  <2>. DEFINE f == Frm(rxs + 1, 0, b)
  <2>1. f \in RxFrame /\ f.rx = rxs + 1
    BY <1>0, Layout, FrmType
  <2>2. want' = want \cup {f} /\ \/ got' = Append(got, f) /\ lost' = lost
                                 \/ got' = got /\ lost' = lost \cup {f}
    BY <1>2 DEF hgicf_rx_single_frm
  <2>. HIDE DEF f
  <2>3. \A g \in want : g.rx \in Nat /\ g.rx <= rxs /\ g.rx < f.rx /\ g.rx <= rxs'
    <3>1. \A g \in want : g.rx \in Nat /\ g.rx <= rxs
      BY <1>0 DEF RxFrame, Handed
    <3>. QED BY <1>0, <2>1, <3>1
  <2>4. f \notin want /\ f \notin lost /\ f \notin Range(got)
    <3>1. f \notin want
      BY <1>0, <2>1, <2>3
    <3>. QED BY <1>0, <3>1 DEF Handed
  <2>5. /\ Append(got, f) \in Seq(RxFrame) /\ Ordered(Append(got, f))
        /\ Range(Append(got, f)) = Range(got) \cup {f}
    <3>1. \A g \in Range(got) : Before(g, f)
      BY <1>0, <2>3 DEF Handed, Before
    <3>. QED BY <1>0, <2>1, <3>1, OrderedAppend
  <2>6. RxTypes' /\ Ordered(got)'
    <3>1. got' \in Seq(RxFrame) /\ Ordered(got')
      BY <1>0, <2>2, <2>5
    <3>2. want' \subseteq RxFrame /\ rxs' \in Nat
      BY <1>0, <2>1, <2>2
    <3>. QED BY <3>1, <3>2 DEF RxTypes
  <2>7. Cursor' /\ Opened'
    BY DEF Cursor, Opened
  <2>8. Handed'
    <3>1. \A g : Passed(g) /\ Passed(g)'
      BY DEF Passed
    <3>2. f.rx <= rxs'
      BY <1>0, <2>1
    <3>3. CASE got' = Append(got, f) /\ lost' = lost
      <4>1. Range(got') = Range(got) \cup {f}
        BY <2>5, <3>3
      <4>. QED BY <1>0, <2>2, <2>3, <2>4, <3>1, <3>2, <3>3, <4>1 DEF Handed
    <3>4. CASE got' = got /\ lost' = lost \cup {f}
      <4>1. Range(got') = Range(got)
        BY <3>4
      <4>. QED BY <1>0, <2>2, <2>3, <2>4, <3>1, <3>2, <3>4, <4>1 DEF Handed
    <3>. QED BY <2>2, <3>3, <3>4
  <2>. QED BY <2>6, <2>7, <2>8 DEF RxInv
<1>. QED BY <1>1, <1>2

(* One turn of hgicf_rx_agg_frm's loop.                                    *)
LEMMA AggRxInv ==
  ASSUME RxInv, RxAgg
  PROVE  RxInv'
<1>0. RxTypes /\ Cursor /\ Handed /\ Opened /\ Ordered(got) /\ rxbuf # NoBuf
      /\ rxs \in Nat /\ want \subseteq RxFrame /\ got \in Seq(RxFrame) /\ UNCHANGED <<vif, rxs, want>>
  BY DEF RxInv, RxTypes, RxAgg
<1>1. /\ rxbuf \in Buffers /\ vif = "set" /\ next \in Nat /\ next > 0 /\ next <= Len(rxbuf.subs) + 1
      /\ left = rxbuf.length - RxHdr - Start(rxbuf, next)
      /\ \A j \in 1 .. next - 1 : rxbuf.subs[j].ok /\ rxbuf.subs[j].end <= rxbuf.length - RxHdr
      /\ Holds(rxbuf, rxs) \subseteq want
      /\ \A f \in want : f.rx = rxs => f \in Holds(rxbuf, rxs)
  BY <1>0 DEF Cursor, Opened
<1>2. /\ rxbuf.length \in Nat /\ RxHdr \in Nat /\ Len(rxbuf.subs) \in Nat
      /\ \A k \in 1 .. Len(rxbuf.subs) : /\ rxbuf.subs[k].length \in Nat /\ rxbuf.subs[k].length >= RxHdr
                                         /\ rxbuf.subs[k].flags \in Nat /\ rxbuf.subs[k].end \in Nat
                                         /\ rxbuf.subs[k].end = rxbuf.subs[k].length + Start(rxbuf, k)
  BY <1>1, Layout
<1>3. Start(rxbuf, next) \in Nat /\ left \in Int
  <2>1. next # 1 => next - 1 \in 1 .. Len(rxbuf.subs)
    BY <1>1, <1>2
  <2>2. Start(rxbuf, next) \in Nat
    BY <1>2, <2>1 DEF Start
  <2>. QED BY <1>1, <1>2, <2>2
<1>4. \A f \in Holds(rxbuf, rxs) : /\ f.rx = rxs /\ f.sub \in 1 .. Len(rxbuf.subs) /\ Whole(rxbuf, f.sub)
                                   /\ f = Frm(rxs, f.sub, rxbuf.subs[f.sub])
  BY <1>0, <1>1, HoldsType
<1>5. \A f \in want : f.rx \in Nat /\ f.sub \in Nat /\ f.rx <= rxs
  BY <1>0 DEF RxFrame, Handed
<1>. DEFINE Go == /\ left > RxHdr /\ next <= Len(rxbuf.subs)
                  /\ rxbuf.subs[next].ok /\ SubFits(rxbuf.subs[next])
<1>6. CASE ~Go
  <2>1. rxbuf' = NoBuf /\ UNCHANGED <<got, lost>>
    BY <1>6 DEF RxAgg
  <2>2. \A m \in 1 .. Len(rxbuf.subs) : m >= next => ~Whole(rxbuf, m)
    BY <1>1, <1>3, <1>6, StopsRightly DEF SubFits
  <2>3. \A f \in want : Passed(f)
    <3>. SUFFICES ASSUME NEW f \in want PROVE f.rx < rxs \/ f.sub < next
      BY DEF Passed
    <3>1. CASE f.rx = rxs
      <4>1. f.sub \in 1 .. Len(rxbuf.subs) /\ Whole(rxbuf, f.sub)
        BY <1>1, <1>4, <3>1
      <4>. QED BY <1>1, <2>2, <4>1
    <3>2. CASE f.rx # rxs
      BY <1>0, <1>5, <3>2
    <3>. QED BY <3>1, <3>2
  <2>4. \A f : Passed(f)'
    BY <2>1 DEF Passed
  <2>5. Handed'
    BY <1>0, <2>1, <2>3, <2>4 DEF Handed
  <2>6. RxTypes' /\ Cursor' /\ Opened' /\ Ordered(got)'
    BY <1>0, <2>1 DEF RxTypes, Cursor, Opened, Ordered
  <2>. QED BY <2>5, <2>6 DEF RxInv
<1>7. CASE Go
  <2>. DEFINE s == rxbuf.subs[next]
              f == Frm(rxs, next, s)
  <2>1. /\ hgicf_rx_single_frm(rxs, next, s) /\ left' = left - s.length /\ next' = next + 1 /\ rxbuf' = rxbuf
        /\ next \in 1 .. Len(rxbuf.subs) /\ s.ok /\ left >= s.length
    BY <1>1, <1>2, <1>7 DEF RxAgg, SubFits
  <2>2. s.length \in Nat /\ s.length >= RxHdr /\ s.flags \in Nat /\ s.end \in Nat
        /\ s.end = s.length + Start(rxbuf, next)
    BY <1>2, <2>1
  <2>3. Start(rxbuf, next') = s.end /\ s.end <= rxbuf.length - RxHdr
        /\ left' = rxbuf.length - RxHdr - s.end
    <3>1. Start(rxbuf, next + 1) = s.end
      BY <1>1 DEF Start
    <3>. HIDE DEF s
    <3>2. s.end <= rxbuf.length - RxHdr
      <4>1. rxbuf.length - RxHdr - Start(rxbuf, next) >= s.length
        BY <1>1, <2>1
      <4>. QED BY <1>2, <1>3, <2>2, <4>1, Placed
    <3>3. left' = rxbuf.length - RxHdr - s.end
      <4>1. left' = rxbuf.length - RxHdr - Start(rxbuf, next) - s.length
        BY <1>1, <2>1
      <4>. QED BY <1>2, <1>3, <2>2, <4>1, Placed
    <3>. QED BY <2>1, <3>1, <3>2, <3>3
  <2>4. Cursor'
    <3>1. \A j \in 1 .. next' - 1 : j \in 1 .. next - 1 \/ j = next
      BY <1>1, <2>1
    <3>2. \A j \in 1 .. next' - 1 : rxbuf.subs[j].ok /\ rxbuf.subs[j].end <= rxbuf.length - RxHdr
      BY <1>1, <2>1, <2>3, <3>1
    <3>3. next' \in Nat /\ next' > 0 /\ next' <= Len(rxbuf.subs) + 1
      BY <1>1, <1>2, <2>1
    <3>. QED BY <1>0, <1>1, <2>1, <2>3, <3>2, <3>3 DEF Cursor
  <2>5. Whole(rxbuf, next) <=> s.length > RxHdr
    <3>1. \A j \in 1 .. next : j \in 1 .. next - 1 \/ j = next
      BY <1>1
    <3>. QED BY <1>1, <2>1, <2>3, <3>1 DEF Whole
  <2>6. \A g \in want : Passed(g)' <=> Passed(g) \/ (g.rx = rxs /\ g.sub = next)
    <3>. SUFFICES ASSUME NEW g \in want
                  PROVE (g.rx < rxs \/ g.sub < next + 1)
                          <=> (g.rx < rxs \/ g.sub < next \/ (g.rx = rxs /\ g.sub = next))
      BY <1>0, <2>1 DEF Passed
    <3>. QED BY <1>0, <1>1, <1>5
  <2>7. \A g \in want : g.rx = rxs /\ g.sub = next => s.length > RxHdr /\ g = f
    BY <1>1, <1>4, <2>5
  <2>8. \A g \in want : Passed(g) => Passed(g)'
    BY <2>6
  <2>9. Opened'
    BY <1>0, <1>1, <2>1 DEF Opened
  <2>10. CASE ~(s.length > RxHdr)
    <3>1. UNCHANGED <<got, lost>>
      BY <2>1, <2>10 DEF hgicf_rx_single_frm
    <3>2. \A g \in want : Passed(g)' <=> Passed(g)
      BY <2>6, <2>7, <2>10
    <3>3. Handed'
      BY <1>0, <3>1, <3>2 DEF Handed
    <3>4. RxTypes' /\ Ordered(got)'
      BY <1>0, <3>1 DEF RxTypes, Ordered
    <3>. QED BY <2>4, <2>9, <3>3, <3>4 DEF RxInv
  <2>11. CASE s.length > RxHdr
    <3>1. \/ got' = Append(got, f) /\ lost' = lost
          \/ got' = got /\ lost' = lost \cup {f}
      BY <1>1, <2>1, <2>11 DEF hgicf_rx_single_frm
    <3>2. f \in RxFrame /\ f.rx = rxs /\ f.sub = next
      BY <1>0, <1>1, <2>2, FrmType
    <3>3. f \in want
      <4>1. f \in Holds(rxbuf, rxs)
        BY <1>0, <1>1, <2>1, <2>5, <2>11, HoldsType
      <4>. QED BY <1>1, <4>1
    <3>. HIDE DEF f, s
    <3>4. ~Passed(f)
      <4>1. ~(f.rx < rxs) /\ ~(f.sub < next)
        BY <1>0, <1>1, <3>2
      <4>. QED BY <1>0, <4>1 DEF Passed
    <3>5. f \notin Range(got) /\ f \notin lost
      BY <1>0, <3>4 DEF Handed
    <3>6. /\ Append(got, f) \in Seq(RxFrame) /\ Ordered(Append(got, f))
          /\ Range(Append(got, f)) = Range(got) \cup {f}
      <4>1. \A g \in Range(got) : Before(g, f)
        <5>. SUFFICES ASSUME NEW g \in Range(got) PROVE Before(g, f)
          OBVIOUS
        <5>1. g \in want /\ (g.rx < rxs \/ g.sub < next)
          BY <1>0 DEF Handed, Passed
        <5>2. g.rx \in Nat /\ g.sub \in Nat /\ g.rx <= rxs
          BY <1>5, <5>1
        <5>. QED BY <1>0, <1>1, <3>2, <5>1, <5>2 DEF Before
      <4>. QED BY <1>0, <3>2, <4>1, OrderedAppend
    <3>7. RxTypes' /\ Ordered(got)'
      <4>1. got' \in Seq(RxFrame) /\ Ordered(got')
        BY <1>0, <3>1, <3>6
      <4>. QED BY <1>0, <4>1 DEF RxTypes
    <3>8. Handed'
      <4>1. \A g \in want : Passed(g)' <=> Passed(g) \/ g = f
        BY <2>6, <2>7, <3>2, <3>3
      <4>2. CASE got' = Append(got, f) /\ lost' = lost
        <5>1. Range(got') = Range(got) \cup {f}
          BY <3>6, <4>2
        <5>. QED BY <1>0, <3>3, <3>5, <4>1, <4>2, <5>1 DEF Handed
      <4>3. CASE got' = got /\ lost' = lost \cup {f}
        <5>1. Range(got') = Range(got)
          BY <4>3
        <5>. QED BY <1>0, <3>3, <3>5, <4>1, <4>3, <5>1 DEF Handed
      <4>. QED BY <3>1, <4>2, <4>3
    <3>. QED BY <2>4, <2>9, <3>7, <3>8 DEF RxInv
  <2>. QED BY <2>10, <2>11
<1>. QED BY <1>6, <1>7

(* The network layer is given what the buffers hold, in order and once,    *)
(* whatever the module sends and wherever memory runs out.                 *)
THEOREM ReceivedInOrder == DpSpec => []RxDelivers
<1>1. DpInit => RxInv
  <2>. SUFFICES ASSUME RxInit PROVE RxInv
    BY DEF DpInit
  <2>1. rxs \in Nat /\ got \in Seq(RxFrame) /\ Range(got) = {} /\ DOMAIN got = {}
    BY DEF RxInit, Range
  <2>. QED BY <2>1 DEF RxInit, RxInv, RxTypes, Cursor, Handed, Opened, Ordered
<1>2. RxInv /\ [DpNext]_dpvars => RxInv'
  <2>. SUFFICES ASSUME RxInv, [DpNext]_dpvars PROVE RxInv'
    OBVIOUS
  <2>1. CASE UNCHANGED rxvars
    BY <2>1, RxAside DEF rxvars
  <2>2. ASSUME NEW b \in Buffers, RxData(b) PROVE RxInv'
    <3>1. rxbuf = NoBuf /\ rxs' = rxs + 1 /\ vif' = vif
      BY <2>2 DEF RxData
    <3>2. CASE RxRefused(b) \/ RxCtrl(b) \/ RxIgnored(b)
      BY <3>1, <3>2, RxAside DEF RxRefused, RxCtrl, RxIgnored
    <3>3. CASE RxFrames(b)
      BY <3>1, <3>3, OpenRxInv, SingleRxInv DEF RxFrames
    <3>. QED BY <2>2, <3>2, <3>3 DEF RxData
  <2>3. CASE CreateIface \/ SetVif
    BY <2>3, RxAside DEF CreateIface, SetVif
  <2>. QED BY <2>1, <2>2, <2>3, AggRxInv DEF DpNext, RxNext, Outward, dpvars
<1>3. RxInv => RxDelivers
  <2>. SUFFICES ASSUME RxInv, rxbuf = NoBuf PROVE Range(got) = want \ lost /\ Ordered(got)
    BY DEF RxDelivers, Ordered
  <2>. QED BY DEF RxInv, Handed, Passed
<1>. QED BY <1>1, <1>2, <1>3, PTL DEF DpSpec
=============================================================================
