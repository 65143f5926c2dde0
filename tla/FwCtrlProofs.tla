---------------------------- MODULE FwCtrlProofs ----------------------------
(***************************************************************************)
(* The invariants of FwCtrl for any callers, queue limit, cookie space and *)
(* environment.                                                            *)
(***************************************************************************)
EXTENDS FwCtrl, Integers, FiniteSetTheorems, TLAPS

-----------------------------------------------------------------------------
(* Cookies are remainders.                                                 *)

(* Quotient and remainder.                                                 *)
LEMMA DivMod ==
  ASSUME NEW m \in Nat \ {0}, NEW a \in Nat
  PROVE  /\ a \div m \in Nat /\ a % m \in 0 .. m - 1
         /\ a = m * (a \div m) + (a % m)
OBVIOUS

(* ... are unique.                                                         *)
LEMMA Unique ==
  ASSUME NEW m \in Nat \ {0}, NEW p \in Int, NEW q \in Int,
         NEW r \in 0 .. m - 1, NEW s \in 0 .. m - 1,
         m * p + r = m * q + s
  PROVE  p = q /\ r = s
<1>1. m * (p - q) = s - r
  OBVIOUS
<1>2. CASE p - q >= 1
  <2>1. m * (p - q) >= m
    BY <1>2
  <2>. QED BY <1>1, <2>1
<1>3. CASE p - q <= -1
  <2>1. m * (p - q) <= -m
    BY <1>3
  <2>. QED BY <1>1, <2>1
<1>4. CASE p = q
  BY <1>4
<1>. QED BY <1>2, <1>3, <1>4

(* Two numbers less than m apart have different remainders.                *)
LEMMA ModWindow ==
  ASSUME NEW m \in Nat \ {0}, NEW a \in Nat, NEW b \in Nat,
         a < b, b < a + m
  PROVE  a % m # b % m
<1>. SUFFICES ASSUME a % m = b % m PROVE FALSE
  OBVIOUS
<1>. DEFINE p == a \div m
            q == b \div m
<1>1. /\ p \in Nat /\ q \in Nat
      /\ a = m * p + (a % m) /\ b = m * q + (b % m)
  BY DivMod
<1>. HIDE DEF p, q
<1>2. b - a = m * (q - p)
  BY <1>1, DivMod
<1>3. CASE q - p <= 0
  <2>1. m * (q - p) <= 0
    BY <1>1, <1>3
  <2>. QED BY <1>2, <2>1
<1>4. CASE q - p >= 1
  <2>1. m * (q - p) >= m
    BY <1>1, <1>4
  <2>. QED BY <1>2, <2>1
<1>. QED BY <1>1, <1>3, <1>4

(* Advancing a remainder is taking the remainder of the successor.         *)
LEMMA ModNext ==
  ASSUME NEW m \in Nat \ {0}, NEW a \in Nat
  PROVE  ((a % m) + 1) % m = (a + 1) % m
<1>1. PICK k \in Nat, x \in Nat : x = (a % m) + 1 /\ a + 1 = m * k + x
  <2>1. PICK k \in Nat, r \in 0 .. m - 1 : r = a % m /\ a = m * k + r
    BY DivMod
  <2>2. r + 1 \in Nat /\ a + 1 = m * k + (r + 1)
    BY <2>1
  <2>. QED BY <2>1, <2>2
<1>2. PICK t \in Nat, r \in 0 .. m - 1 : r = x % m /\ x = m * t + r
  BY DivMod
<1>3. PICK q \in Nat, s \in 0 .. m - 1 : s = (a + 1) % m /\ a + 1 = m * q + s
  <2>. DEFINE b == a + 1
  <2>1. b \in Nat
    OBVIOUS
  <2>. HIDE DEF b
  <2>2. \E q \in Nat, s \in 0 .. m - 1 : s = b % m /\ b = m * q + s
    BY <2>1, DivMod
  <2>. QED BY <2>2 DEF b
<1>4. m * (k + t) + r = m * q + s
  BY <1>1, <1>2, <1>3
<1>5. r = s
  <2>1. k + t \in Int /\ q \in Int
    OBVIOUS
  <2>. QED BY <1>4, <2>1, Unique
<1>. QED BY <1>1, <1>2, <1>3, <1>5
-----------------------------------------------------------------------------
(* What list_add and list_del do to a list without repetitions.            *)

Members(l) == {l[i] : i \in 1 .. Len(l)}

Injective(l) == \A i, j \in 1 .. Len(l) : l[i] = l[j] => i = j

(* list_add: one more member, at the head.                                 *)
LEMMA ListAddFacts ==
  ASSUME NEW c \in Callers, NEW l \in Seq(Callers)
  PROVE  /\ ListAdd(c, l) \in Seq(Callers)
         /\ Members(ListAdd(c, l)) = Members(l) \cup {c}
         /\ Injective(l) /\ c \notin Members(l) => Injective(ListAdd(c, l))
<1>1. /\ ListAdd(c, l) \in Seq(Callers) /\ Len(ListAdd(c, l)) = Len(l) + 1
      /\ ListAdd(c, l)[1] = c
      /\ \A i \in 1 .. Len(l) : ListAdd(c, l)[i + 1] = l[i]
  BY DEF ListAdd
<1>2. \A i \in 1 .. Len(l) + 1 : i = 1 \/ i - 1 \in 1 .. Len(l)
  OBVIOUS
<1>3. \A i \in 2 .. Len(l) + 1 : i - 1 \in 1 .. Len(l) /\ ListAdd(c, l)[i] = l[i - 1]
  BY <1>1
<1>. HIDE DEF ListAdd
<1>4. Members(ListAdd(c, l)) \subseteq Members(l) \cup {c}
  BY <1>1, <1>2, <1>3 DEF Members
<1>5. Members(l) \cup {c} \subseteq Members(ListAdd(c, l))
  BY <1>1 DEF Members
<1>6. ASSUME Injective(l), c \notin Members(l) PROVE Injective(ListAdd(c, l))
  <2>. DEFINE n == ListAdd(c, l)
  <2>. SUFFICES ASSUME NEW i \in 1 .. Len(l) + 1, NEW j \in 1 .. Len(l) + 1,
                       n[i] = n[j]
                PROVE  i = j
    BY <1>1 DEF Injective
  <2>1. \A k \in 2 .. Len(l) + 1 : n[k] \in Members(l)
    BY <1>3 DEF Members
  <2>2. n[1] = c
    BY <1>1
  <2>3. CASE i = 1 \/ j = 1
    BY <2>1, <2>2, <2>3, <1>6
  <2>4. CASE i # 1 /\ j # 1
    <3>1. i - 1 \in 1 .. Len(l) /\ j - 1 \in 1 .. Len(l) /\ l[i - 1] = l[j - 1]
      BY <1>3, <2>4
    <3>2. i - 1 = j - 1
      BY <3>1, <1>6 DEF Injective
    <3>. QED BY <3>2
  <2>. QED BY <2>3, <2>4
<1>. QED BY <1>1, <1>4, <1>5, <1>6

(* list_del: the member is gone, the others stay.                          *)
LEMMA ListDelFacts ==
  ASSUME NEW c \in Callers, NEW l \in Seq(Callers), c \in Members(l), Injective(l)
  PROVE  /\ ListDel(c, l) \in Seq(Callers)
         /\ Members(ListDel(c, l)) = Members(l) \ {c}
         /\ Injective(ListDel(c, l))
<1>. DEFINE at == CHOOSE i \in 1 .. Len(l) : l[i] = c
            d == ListDel(c, l)
<1>1. at \in 1 .. Len(l) /\ l[at] = c
  BY DEF Members
<1>2. d = [i \in 1 .. Len(l) - 1 |-> IF i < at THEN l[i] ELSE l[i + 1]]
  BY DEF ListDel
<1>. HIDE DEF at, d
<1>3. Len(l) - 1 \in Nat
  BY <1>1
<1>4. \A i \in 1 .. Len(l) - 1 :
        /\ i < at => d[i] = l[i]
        /\ ~(i < at) => d[i] = l[i + 1]
        /\ i \in 1 .. Len(l) /\ i + 1 \in 1 .. Len(l)
        /\ d[i] \in Callers
  BY <1>1, <1>2
<1>5. d \in Seq(Callers) /\ Len(d) = Len(l) - 1
  BY <1>2, <1>3, <1>4
<1>6. Injective(d)
  BY <1>1, <1>4, <1>5 DEF Injective
<1>7. Members(d) \subseteq Members(l) \ {c}
  BY <1>1, <1>4, <1>5 DEF Injective, Members
<1>8. ASSUME NEW x \in Members(l), x # c PROVE x \in Members(d)
  <2>1. PICK k \in 1 .. Len(l) : l[k] = x
    BY DEF Members
  <2>2. CASE k < at
    BY <1>1, <1>4, <1>5, <2>1, <2>2 DEF Members
  <2>3. CASE k > at
    <3>1. k - 1 \in 1 .. Len(l) - 1 /\ ~(k - 1 < at) /\ (k - 1) + 1 = k
      BY <1>1, <2>3
    <3>2. d[k - 1] = l[(k - 1) + 1]
      BY <1>4, <3>1
    <3>. QED BY <1>5, <2>1, <3>1, <3>2 DEF Members
  <2>. QED BY <1>1, <2>1, <2>2, <2>3, <1>8
<1>. QED BY <1>5, <1>6, <1>7, <1>8 DEF d

-----------------------------------------------------------------------------
(* Types, and pd_list.                                                     *)

(* The caller's stages: one that links no record never waits for an answer. *)
HciPath == \A c \in Callers : ~Synchronous(c) => pc[c] \in {"idle", "enq", "sched"}

(* PdListExact in terms of sets, with what makes it inductive.             *)
PdInv ==
  /\ HciPath
  /\ Members(pd) = {c \in Callers : InCall(c)}
  /\ Injective(pd)

TInv == TypeOK /\ PdInv

(* The frame of a caller, and the empty resp->skb, are frames.             *)
LEMMA FrameFacts ==
  ASSUME TypeOK
  PROVE  /\ NoSkb \in Frame
         /\ \A c \in Callers : FrameOf(c) \in Frame
         /\ cookie % CookieMod \in 0 .. CookieMod - 1
         /\ (cookie + 1) % CookieMod \in 0 .. CookieMod - 1
<1>1. NoSkb \in Frame
  BY DEF NoSkb, Frame, Kinds
<1>2. ASSUME NEW c \in Callers PROVE FrameOf(c) \in Frame
  <2>1. KindOf[c] \in Kinds /\ stamp[c] \in Nat /\ ck[c] \in Nat
    BY KindAssumption, CookieAssumption DEF TypeOK
  <2>. QED BY <2>1 DEF FrameOf, Frame
<1>3. cookie \in Nat /\ cookie + 1 \in Nat
  BY CookieAssumption DEF TypeOK
<1>. QED BY <1>1, <1>2, <1>3, CookieAssumption, DivMod

(* Init establishes the types and pd_list's exactness.                     *)
LEMMA InitTInv == Init => TInv
<1>. SUFFICES ASSUME Init PROVE TInv
  OBVIOUS
<1>1. NoSkb \in Frame
  BY DEF NoSkb, Frame, Kinds
<1>2. txq \in Seq(Frame) /\ rxq \in Seq(Frame) /\ pd \in Seq(Callers)
  BY DEF Init
<1>3. TypeOK
  <2>1. 0 \in 0 .. CookieMod - 1
    BY CookieAssumption
  <2>2. /\ pc \in [Callers -> {"idle", "add", "full", "enq", "sched", "wait", "del"}]
        /\ stamp \in [Callers -> Nat] /\ ck \in [Callers -> 0 .. CookieMod - 1]
        /\ resp \in [Callers -> Frame] /\ cmpl \in [Callers -> BOOLEAN]
    BY <1>1, <2>1 DEF Init
  <2>3. dev \in SUBSET Frame /\ exec \in SUBSET Nat
    BY DEF Init
  <2>. QED BY <1>2, <2>1, <2>2, <2>3 DEF Init, TypeOK
<1>4. PdInv
  BY DEF Init, PdInv, HciPath, Members, Injective, InCall
<1>. QED BY <1>3, <1>4 DEF TInv

(* Steps that leave the callers' stages and pd_list alone.                 *)
LEMMA PdUnchanged == PdInv /\ UNCHANGED <<pc, pd>> => PdInv'
  BY DEF PdInv, HciPath, Members, Injective, InCall, Synchronous

(* A caller that stays inside its call, or outside, keeps PdInv.           *)
LEMMA PdSameStage ==
  ASSUME TypeOK, PdInv, NEW c \in Callers,
         NEW p \in {"idle", "add", "full", "enq", "sched", "wait", "del"},
         pc' = [pc EXCEPT ![c] = p], pd' = pd,
         Synchronous(c) => (InCall(c) <=> p \notin {"idle", "add"}),
         ~Synchronous(c) => p \in {"idle", "enq", "sched"}
  PROVE  PdInv'
<1>1. \A d \in Callers : InCall(d)' <=> InCall(d)
  BY DEF TypeOK, InCall, Synchronous
<1>2. HciPath'
  BY DEF TypeOK, PdInv, HciPath, Synchronous
<1>. QED BY <1>1, <1>2 DEF PdInv, Members, Injective

(* A step of a caller preserves the types and pd_list's exactness.         *)
LEMMA CallerTInv ==
  ASSUME TInv, NEW c \in Callers, CallerStep(c)
  PROVE  TInv'
<1>. USE CookieAssumption, FrameFacts
<1>0. TypeOK /\ PdInv
  BY DEF TInv
<1>1. CASE GetCookie(c)
  <2>0. cookie' \in 0 .. CookieMod - 1 /\ 0 \in 0 .. CookieMod - 1
    BY <1>0, <1>1 DEF GetCookie, NextCookie
  <2>3. /\ ck' \in [Callers -> 0 .. CookieMod - 1]
        /\ pc' \in [Callers -> {"idle", "add", "full", "enq", "sched", "wait", "del"}]
    BY <1>0, <1>1, <2>0 DEF GetCookie, TypeOK
  <2>4. resp' \in [Callers -> Frame] /\ cmpl' \in [Callers -> BOOLEAN]
    BY <1>0, <1>1 DEF GetCookie, TypeOK
  <2>5. stamp' \in [Callers -> Nat] /\ allocs' \in Nat
    BY <1>0, <1>1 DEF GetCookie, TypeOK
  <2>1. TypeOK'
    BY <1>0, <1>1, <2>0, <2>3, <2>4, <2>5 DEF GetCookie, TypeOK, callerVars, allocVars, txVars, rxVars, devVars, flagVars
  <2>2. PdInv'
    BY <1>0, <1>1, PdSameStage DEF GetCookie, NextCookie, InCall, HciPath, PdInv
  <2>. QED BY <2>1, <2>2 DEF TInv
<1>2. CASE CheckTxqFull(c)
  <2>0. txq' \in Seq(Frame)
    <3>1. Len(txq) > TxqMax => txq # <<>>
      BY <1>0, TxqAssumption DEF TypeOK
    <3>. QED BY <1>0, <1>2, <3>1 DEF CheckTxqFull, TxqRoom, TypeOK
  <2>1. TypeOK'
    BY <1>0, <1>2, <2>0 DEF CheckTxqFull, TypeOK, callerVars, allocVars, txVars, rxVars, devVars, flagVars
  <2>2. PdInv'
    BY <1>0, <1>2, PdSameStage DEF CheckTxqFull, TxqRoom, InCall, HciPath, PdInv
  <2>. QED BY <2>1, <2>2 DEF TInv
<1>3. CASE SendHciData(c)
  <2>1. TypeOK'
    BY <1>0, <1>3 DEF SendHciData, TypeOK, callerVars, allocVars, txVars, rxVars, devVars, flagVars
  <2>2. PdInv'
    BY <1>0, <1>3, PdSameStage DEF SendHciData, InCall, HciPath, PdInv
  <2>. QED BY <2>1, <2>2 DEF TInv
<1>4. CASE EnqueueFrame(c)
  <2>1. TypeOK'
    BY <1>0, <1>4 DEF EnqueueFrame, TypeOK, callerVars, allocVars, txVars, rxVars, devVars, flagVars
  <2>2. PdInv'
    BY <1>0, <1>4, PdSameStage DEF EnqueueFrame, InCall, HciPath, PdInv
  <2>. QED BY <2>1, <2>2 DEF TInv
<1>5. CASE Schedule(c)
  <2>1. TypeOK'
    BY <1>0, <1>5 DEF Schedule, QueueTxWork, TypeOK, callerVars, allocVars, txVars, rxVars, devVars, flagVars
  <2>2. PdInv'
    BY <1>0, <1>5, PdSameStage DEF Schedule, QueueTxWork, InCall, HciPath, PdInv
  <2>. QED BY <2>1, <2>2 DEF TInv
<1>6. CASE WaitDone(c)
  <2>1. TypeOK'
    BY <1>0, <1>6 DEF WaitDone, TypeOK, callerVars, allocVars, txVars, rxVars, devVars, flagVars
  <2>2. PdInv'
    BY <1>0, <1>6, PdSameStage DEF WaitDone, InCall, HciPath, PdInv
  <2>. QED BY <2>1, <2>2 DEF TInv
<1>7. CASE WaitTimeout(c)
  <2>1. TypeOK'
    BY <1>0, <1>7 DEF WaitTimeout, TypeOK, callerVars, allocVars, txVars, rxVars, devVars, flagVars
  <2>2. PdInv'
    BY <1>0, <1>7, PdSameStage DEF WaitTimeout, InCall, HciPath, PdInv
  <2>. QED BY <2>1, <2>2 DEF TInv
<1>8. CASE LinkResponse(c)
  <2>0. pd \in Seq(Callers) /\ pd' = ListAdd(c, pd) /\ ~InCall(c) /\ Synchronous(c)
        /\ pc' = [pc EXCEPT ![c] = "full"]
    BY <1>0, <1>8 DEF LinkResponse, TypeOK, InCall, PdInv, HciPath
  <2>1. pd' \in Seq(Callers) /\ Members(pd)' = Members(pd) \cup {c}
    BY <2>0, ListAddFacts
  <2>2. Injective(pd)'
    BY <1>0, <2>0, ListAddFacts DEF PdInv, Injective
  <2>3. TypeOK'
    BY <1>0, <1>8, <2>1 DEF LinkResponse, TypeOK, callerVars, allocVars, txVars, rxVars, devVars, flagVars
  <2>4. \A d \in Callers : InCall(d)' <=> InCall(d) \/ d = c
    BY <1>0, <2>0 DEF InCall, TypeOK, Synchronous
  <2>5. HciPath'
    BY <1>0, <2>0 DEF HciPath, TypeOK, PdInv, Synchronous
  <2>. QED BY <1>0, <2>1, <2>2, <2>3, <2>4, <2>5 DEF PdInv, TInv
<1>9. CASE UnlinkAndReturn(c)
  <2>0. pd \in Seq(Callers) /\ pd' = ListDel(c, pd)
        /\ pc[c] = "del" /\ pc' = [pc EXCEPT ![c] = "idle"]
    BY <1>0, <1>9 DEF UnlinkAndReturn, TypeOK
  <2>1. c \in Members(pd) /\ Injective(pd)
    BY <1>0, <2>0 DEF PdInv, HciPath, InCall
  <2>2. pd' \in Seq(Callers) /\ Members(pd)' = Members(pd) \ {c}
    BY <2>0, <2>1, ListDelFacts
  <2>3. Injective(pd)'
    BY <2>0, <2>1, ListDelFacts DEF Injective
  <2>4. TypeOK'
    BY <1>0, <1>9, <2>2 DEF UnlinkAndReturn, TypeOK, callerVars, allocVars, txVars, rxVars, devVars, flagVars
  <2>5. \A d \in Callers : InCall(d)' <=> InCall(d) /\ d # c
    BY <1>0, <2>0 DEF InCall, TypeOK, Synchronous
  <2>6. HciPath'
    BY <1>0, <2>0 DEF HciPath, TypeOK, PdInv, Synchronous
  <2>. QED BY <1>0, <2>2, <2>3, <2>4, <2>5, <2>6 DEF PdInv, TInv
<1>. QED BY <1>1, <1>2, <1>3, <1>4, <1>5, <1>6, <1>7, <1>8, <1>9 DEF CallerStep

(* Every other step does, too.                                             *)
LEMMA NextTInv == TInv /\ [Next]_vars => TInv'
<1>. SUFFICES ASSUME TInv, [Next]_vars PROVE TInv'
  OBVIOUS
<1>0. TypeOK /\ PdInv
  BY DEF TInv
<1>1. ASSUME NEW c \in Callers, CallerStep(c) PROVE TInv'
  BY <1>1, CallerTInv
<1>2. CASE TxStart
  <2>0. txPend' \in BOOLEAN /\ txPc' \in {"idle", "loop", "frm", "data"}
    BY <1>2, Zenon DEF TxStart
  <2>1. TypeOK'
    BY <1>0, <1>2, <2>0 DEF TxStart, TypeOK, callerVars, allocVars, txVars, rxVars, devVars, flagVars
  <2>2. PdInv'
    BY <1>0, <1>2, PdUnchanged DEF TxStart, callerVars, allocVars, txVars, rxVars, devVars, flagVars
  <2>. QED BY <2>1, <2>2 DEF TInv
<1>3. CASE TxLoopTest
  <2>0. txq' \in Seq(Frame) /\ txPc' \in {"loop", "frm", "data"}
    <3>1. <<>> \in Seq(Frame)
      OBVIOUS
    <3>2. txq' = txq \/ txq' = <<>>
      BY <1>3 DEF TxLoopTest
    <3>. QED BY <1>0, <1>3, <3>1, <3>2 DEF TxLoopTest, TypeOK
  <2>1. TypeOK'
    BY <1>0, <1>3, <2>0 DEF TxLoopTest, TypeOK, callerVars, allocVars, txVars, rxVars, devVars, flagVars
  <2>2. PdInv'
    BY <1>0, <1>3, PdUnchanged DEF TxLoopTest, callerVars, allocVars, txVars, rxVars, devVars, flagVars
  <2>. QED BY <2>1, <2>2 DEF TInv
<1>4. CASE TxCtrlFrm
  <2>0. txq' \in Seq(Frame) /\ dev' \in SUBSET Frame /\ exec' \in SUBSET Nat
    <3>1. txq # <<>> => Head(txq) \in Frame /\ Tail(txq) \in Seq(Frame)
      BY <1>0 DEF TypeOK
    <3>2. \A f \in Frame : f.stamp \in Nat
      BY DEF Frame
    <3>. QED BY <1>0, <1>4, <3>1, <3>2 DEF TxCtrlFrm, TypeOK
  <2>1. TypeOK'
    BY <1>0, <1>4, <2>0 DEF TxCtrlFrm, TypeOK, callerVars, allocVars, txVars, rxVars, devVars, flagVars
  <2>2. PdInv'
    BY <1>0, <1>4, PdUnchanged DEF TxCtrlFrm, callerVars, allocVars, txVars, rxVars, devVars, flagVars
  <2>. QED BY <2>1, <2>2 DEF TInv
<1>5. CASE \E f \in dev : DevAnswer(f)
  <2>1. TypeOK'
    BY <1>0, <1>5 DEF DevAnswer, TypeOK, callerVars, allocVars, txVars, rxVars, devVars, flagVars
  <2>2. PdInv'
    BY <1>0, <1>5, PdUnchanged DEF DevAnswer, callerVars, allocVars, txVars, rxVars, devVars, flagVars
  <2>. QED BY <2>1, <2>2 DEF TInv
<1>6. CASE \E f \in dev : DevLose(f)
  <2>1. TypeOK'
    BY <1>0, <1>6 DEF DevLose, TypeOK, callerVars, allocVars, txVars, rxVars, devVars, flagVars
  <2>2. PdInv'
    BY <1>0, <1>6, PdUnchanged DEF DevLose, callerVars, allocVars, txVars, rxVars, devVars, flagVars
  <2>. QED BY <2>1, <2>2 DEF TInv
<1>7. CASE RxQueueWork
  <2>0. isr' \in BOOLEAN /\ rxPend' \in BOOLEAN
    BY <1>7, Zenon DEF RxQueueWork
  <2>1. TypeOK'
    BY <1>0, <1>7, <2>0 DEF RxQueueWork, TypeOK, callerVars, allocVars, txVars, rxVars, devVars, flagVars
  <2>2. PdInv'
    BY <1>0, <1>7, PdUnchanged DEF RxQueueWork, callerVars, allocVars, txVars, rxVars, devVars, flagVars
  <2>. QED BY <2>1, <2>2 DEF TInv
<1>8. CASE RxStart
  <2>0. rxPend' \in BOOLEAN /\ rxPc' \in {"idle", "loop", "ret"}
    BY <1>8, Zenon DEF RxStart
  <2>1. TypeOK'
    BY <1>0, <1>8, <2>0 DEF RxStart, TypeOK, callerVars, allocVars, txVars, rxVars, devVars, flagVars
  <2>2. PdInv'
    BY <1>0, <1>8, PdUnchanged DEF RxStart, callerVars, allocVars, txVars, rxVars, devVars, flagVars
  <2>. QED BY <2>1, <2>2 DEF TInv
<1>9. CASE RxStep
  <2>0. rxq # <<>> => Head(rxq) \in Frame /\ Tail(rxq) \in Seq(Frame)
    BY <1>0 DEF TypeOK
  <2>3. ASSUME rxq # <<>>, RxResponse(Head(rxq))
        PROVE  resp' \in [Callers -> Frame] /\ cmpl' \in [Callers -> BOOLEAN]
               /\ leaked' \in BOOLEAN
    BY <1>0, <2>0, <2>3 DEF RxResponse, TypeOK
  <2>4. /\ rxq' \in Seq(Frame) /\ rxPc' \in {"loop", "ret"}
        /\ resp' \in [Callers -> Frame] /\ cmpl' \in [Callers -> BOOLEAN]
        /\ leaked' \in BOOLEAN
    BY <1>0, <1>9, <2>0, <2>3 DEF RxStep, TypeOK
  <2>1. TypeOK'
    BY <1>0, <1>9, <2>4 DEF RxStep, TypeOK, callerVars, allocVars, txVars, rxVars, devVars, flagVars
  <2>2. PdInv'
    BY <1>0, <1>9, PdUnchanged DEF RxStep, callerVars, allocVars, txVars, rxVars, devVars, flagVars
  <2>. QED BY <2>1, <2>2 DEF TInv
<1>10. CASE DetectClear
  <2>1. TypeOK'
    BY <1>0, <1>10 DEF DetectClear, TypeOK, callerVars, allocVars, txVars, rxVars, devVars, flagVars
  <2>2. PdInv'
    BY <1>0, <1>10, PdUnchanged DEF DetectClear, callerVars, allocVars, txVars, rxVars, devVars, flagVars
  <2>. QED BY <2>1, <2>2 DEF TInv
<1>11. CASE \E b \in BOOLEAN : SetSleep(b)
  <2>1. TypeOK'
    BY <1>0, <1>11 DEF SetSleep, TypeOK, callerVars, allocVars, txVars, rxVars, devVars, flagVars
  <2>2. PdInv'
    BY <1>0, <1>11, PdUnchanged DEF SetSleep, callerVars, allocVars, txVars, rxVars, devVars, flagVars
  <2>. QED BY <2>1, <2>2 DEF TInv
<1>12. CASE \E b \in BOOLEAN : SetInBoot(b)
  <2>1. TypeOK'
    BY <1>0, <1>12 DEF SetInBoot, TypeOK, callerVars, allocVars, txVars, rxVars, devVars, flagVars
  <2>2. PdInv'
    BY <1>0, <1>12, PdUnchanged DEF SetInBoot, callerVars, allocVars, txVars, rxVars, devVars, flagVars
  <2>. QED BY <2>1, <2>2 DEF TInv
<1>13. CASE RemoveStop
  <2>0. running' \in BOOLEAN
    BY <1>13, Zenon DEF RemoveStop
  <2>1. TypeOK'
    BY <1>0, <1>13, <2>0 DEF RemoveStop, TypeOK, callerVars, allocVars, txVars, rxVars, devVars, flagVars
  <2>2. PdInv'
    BY <1>0, <1>13, PdUnchanged DEF RemoveStop, callerVars, allocVars, txVars, rxVars, devVars, flagVars
  <2>. QED BY <2>1, <2>2 DEF TInv
<1>14. CASE RemoveCancelTx
  <2>0. txPend' \in BOOLEAN
    BY <1>14, Zenon DEF RemoveCancelTx
  <2>1. TypeOK'
    BY <1>0, <1>14, <2>0 DEF RemoveCancelTx, TypeOK, callerVars, allocVars, txVars, rxVars, devVars, flagVars
  <2>2. PdInv'
    BY <1>0, <1>14, PdUnchanged DEF RemoveCancelTx, callerVars, allocVars, txVars, rxVars, devVars, flagVars
  <2>. QED BY <2>1, <2>2 DEF TInv
<1>15. CASE RemoveProcfs
  <2>1. TypeOK'
    BY <1>0, <1>15 DEF RemoveProcfs, TypeOK, callerVars, allocVars, txVars, rxVars, devVars, flagVars
  <2>2. PdInv'
    BY <1>0, <1>15, PdUnchanged DEF RemoveProcfs, callerVars, allocVars, txVars, rxVars, devVars, flagVars
  <2>. QED BY <2>1, <2>2 DEF TInv
<1>16. CASE ReleaseCancelWork
  <2>0. rxPend' \in BOOLEAN
    BY <1>16, Zenon DEF ReleaseCancelWork
  <2>1. TypeOK'
    BY <1>0, <1>16, <2>0 DEF ReleaseCancelWork, TypeOK, callerVars, allocVars, txVars, rxVars, devVars, flagVars
  <2>2. PdInv'
    BY <1>0, <1>16, PdUnchanged DEF ReleaseCancelWork, callerVars, allocVars, txVars, rxVars, devVars, flagVars
  <2>. QED BY <2>1, <2>2 DEF TInv
<1>17. CASE ReleasePdList
  <2>1. TypeOK'
    BY <1>0, <1>17 DEF ReleasePdList, TypeOK, callerVars, allocVars, txVars, rxVars, devVars, flagVars
  <2>2. PdInv'
    BY <1>0, <1>17, PdUnchanged DEF ReleasePdList, callerVars, allocVars, txVars, rxVars, devVars, flagVars
  <2>. QED BY <2>1, <2>2 DEF TInv
<1>18. CASE ReleaseQueues
  <2>1. TypeOK'
    BY <1>0, <1>18 DEF ReleaseQueues, TypeOK, callerVars, allocVars, txVars, rxVars, devVars, flagVars
  <2>2. PdInv'
    BY <1>0, <1>18, PdUnchanged DEF ReleaseQueues, callerVars, allocVars, txVars, rxVars, devVars, flagVars
  <2>. QED BY <2>1, <2>2 DEF TInv
<1>19. CASE RemoveTxWq
  <2>1. TypeOK'
    BY <1>0, <1>19 DEF RemoveTxWq, TypeOK, callerVars, allocVars, txVars, rxVars, devVars, flagVars
  <2>2. PdInv'
    BY <1>0, <1>19, PdUnchanged DEF RemoveTxWq, callerVars, allocVars, txVars, rxVars, devVars, flagVars
  <2>. QED BY <2>1, <2>2 DEF TInv
<1>20. CASE RemoveNetdev
  <2>1. TypeOK'
    BY <1>0, <1>20 DEF RemoveNetdev, TypeOK, callerVars, allocVars, txVars, rxVars, devVars, flagVars
  <2>2. PdInv'
    BY <1>0, <1>20, PdUnchanged DEF RemoveNetdev, callerVars, allocVars, txVars, rxVars, devVars, flagVars
  <2>. QED BY <2>1, <2>2 DEF TInv
<1>21. CASE UNCHANGED vars
  <2>1. TypeOK'
    BY <1>0, <1>21 DEF vars, TypeOK, callerVars, allocVars, txVars, rxVars, devVars, flagVars
  <2>2. PdInv'
    BY <1>0, <1>21, PdUnchanged DEF vars, callerVars, allocVars, txVars, rxVars, devVars, flagVars
  <2>. QED BY <2>1, <2>2 DEF TInv
<1>22. CASE TxDataHalf
  <2>1. TypeOK'
    BY <1>0, <1>22 DEF TxDataHalf, TypeOK, callerVars, allocVars, txVars, rxVars, devVars, flagVars
  <2>2. PdInv'
    BY <1>0, <1>22, PdUnchanged DEF TxDataHalf, callerVars, allocVars, txVars, rxVars, devVars, flagVars
  <2>. QED BY <2>1, <2>2 DEF TInv
<1>23. CASE RxReturn
  <2>1. TypeOK'
    BY <1>0, <1>23 DEF RxReturn, TypeOK, callerVars, allocVars, txVars, rxVars, devVars, flagVars
  <2>2. PdInv'
    BY <1>0, <1>23, PdUnchanged DEF RxReturn, callerVars, allocVars, txVars, rxVars, devVars, flagVars
  <2>. QED BY <2>1, <2>2 DEF TInv
<1>. QED
  BY <1>1, <1>2, <1>3, <1>4, <1>5, <1>6, <1>7, <1>8, <1>9, <1>10, <1>11, <1>12,
     <1>13, <1>14, <1>15, <1>16, <1>17, <1>18, <1>19, <1>20, <1>21, <1>22, <1>23
  DEF Next, TxStep, DevStep, RxWorkStep, OtherStep, RemoveStep

(* Types and pd_list's exactness always hold.                              *)
LEMMA AlwaysTInv == Spec => []TInv
<1>. QED BY InitTInv, NextTInv, PTL DEF Spec

(* The command channel's variables keep their types, and every cookie is   *)
(* below CookieMod.                                                        *)
THEOREM TypeCorrect == Spec => []TypeOK
<1>1. TInv => TypeOK
  BY DEF TInv
<1>. QED BY <1>1, AlwaysTInv, PTL

(* pd_list holds exactly the records of the callers that are inside        *)
(* hgic_fwctrl_send_data, each once: no answer, and no teardown, touches   *)
(* the stack of a caller that has returned.                                *)
THEOREM PdListIsExact == Spec => []PdListExact
<1>1. TInv => PdListExact
  BY DEF TInv, PdInv, PdListExact, Members, Injective
<1>. QED BY <1>1, AlwaysTInv, PTL

-----------------------------------------------------------------------------
(* No frame and no answer is forgotten by the workqueues.                  *)

(* No step makes a frame or an answer that no worker will look at.         *)
LEMMA NextWakeup == TypeOK /\ NoLostWakeup /\ [Next]_vars => NoLostWakeup'
<1>. SUFFICES ASSUME TypeOK, NoLostWakeup, [Next]_vars PROVE NoLostWakeup'
  OBVIOUS
<1>. USE DEF callerVars, allocVars, txVars, rxVars, devVars, flagVars
<1>1. ASSUME NEW c \in Callers, CallerStep(c) PROVE NoLostWakeup'
  <2>1. UNCHANGED <<rm, rxq, rxPend, rxPc, isr>>
    BY <1>1 DEF CallerStep, GetCookie, LinkResponse, CheckTxqFull, SendHciData,
       EnqueueFrame, Schedule, WaitDone, WaitTimeout, UnlinkAndReturn
  <2>2. CASE EnqueueFrame(c)
    <3>1. pc'[c] = "sched"
      BY <2>2 DEF EnqueueFrame, TypeOK
    <3>. QED BY <2>1, <3>1 DEF NoLostWakeup
  <2>3. CASE Schedule(c)
    BY <2>1, <2>3 DEF Schedule, QueueTxWork, NoLostWakeup
  <2>4. CASE CheckTxqFull(c)
    <3>1. txq' # <<>> => txq # <<>>
      BY <2>4, TxqAssumption DEF CheckTxqFull, TxqRoom, TypeOK
    <3>2. \A d \in Callers : pc[d] = "sched" => pc'[d] = "sched"
      BY <2>4 DEF CheckTxqFull, TypeOK
    <3>. QED BY <2>1, <2>4, <3>1, <3>2 DEF CheckTxqFull, NoLostWakeup
  <2>5. CASE \/ GetCookie(c) \/ LinkResponse(c) \/ SendHciData(c) \/ WaitDone(c)
             \/ WaitTimeout(c) \/ UnlinkAndReturn(c)
    <3>1. UNCHANGED <<txq, txPend, txPc>>
      BY <2>5 DEF GetCookie, LinkResponse, SendHciData, WaitDone, WaitTimeout,
         UnlinkAndReturn
    <3>2. pc[c] # "sched"
      BY <2>5 DEF GetCookie, LinkResponse, SendHciData, WaitDone, WaitTimeout,
         UnlinkAndReturn
    <3>3. \E p : pc' = [pc EXCEPT ![c] = p]
      BY <2>5 DEF GetCookie, LinkResponse, SendHciData, WaitDone, WaitTimeout,
         UnlinkAndReturn
    <3>4. \A d \in Callers : pc[d] = "sched" => pc'[d] = "sched"
      BY <3>2, <3>3 DEF TypeOK
    <3>. QED BY <2>1, <3>1, <3>4 DEF NoLostWakeup
  <2>. QED BY <1>1, <2>2, <2>3, <2>4, <2>5 DEF CallerStep
<1>2. CASE TxStep
  BY <1>2 DEF TxStep, TxStart, TxLoopTest, TxCtrlFrm, TxDataHalf, NoLostWakeup
<1>3. CASE DevStep
  BY <1>3 DEF DevStep, DevAnswer, DevLose, NoLostWakeup
<1>4. CASE RxWorkStep
  BY <1>4 DEF RxWorkStep, RxQueueWork, RxStart, RxStep, RxReturn, NoLostWakeup
<1>5. CASE OtherStep
  BY <1>5 DEF OtherStep, DetectClear, SetSleep, SetInBoot, NoLostWakeup
<1>6. CASE RemoveStep
  BY <1>6 DEF RemoveStep, RemoveStop, RemoveCancelTx, RemoveProcfs,
     ReleaseCancelWork, ReleasePdList, ReleaseQueues, RemoveTxWq, RemoveNetdev,
     NoLostWakeup
<1>7. CASE UNCHANGED vars
  BY <1>7 DEF vars, NoLostWakeup
<1>. QED BY <1>1, <1>2, <1>3, <1>4, <1>5, <1>6, <1>7 DEF Next

(* Until the teardown cancels the works, a queued command and a queued     *)
(* answer always have a work that is pending or running, or somebody who   *)
(* is about to queue it.                                                   *)
THEOREM WakeupsKept == Spec => []NoLostWakeup
<1>1. Init => NoLostWakeup
  BY DEF Init, NoLostWakeup
<1>. QED BY <1>1, NextWakeup, TypeCorrect, PTL DEF Spec

-----------------------------------------------------------------------------
(* The length of the transmit queue.                                       *)

(* Callers that have passed the unlocked test of the length and have not   *)
(* queued their frame yet.                                                 *)
Enqueuing == {c \in Callers : pc[c] = "enq"}

(* What makes TxqBounded inductive: such callers count like queued frames. *)
QInv ==
  (\A c \in Callers : Synchronous(c)) =>
    Len(txq) + Cardinality(Enqueuing) <= TxqMax + Cardinality(Callers)

(* Every step preserves QInv.                                              *)
LEMMA NextQInv == TypeOK /\ QInv /\ [Next]_vars => QInv'
<1>. SUFFICES ASSUME TypeOK, QInv, [Next]_vars,
                     (\A c \in Callers : Synchronous(c))'
              PROVE  (Len(txq) + Cardinality(Enqueuing)
                        <= TxqMax + Cardinality(Callers))'
  BY DEF QInv
<1>. USE TxqAssumption DEF callerVars, allocVars, txVars, rxVars, devVars, flagVars
<1>0. /\ \A c \in Callers : Synchronous(c)
      /\ Len(txq) + Cardinality(Enqueuing) <= TxqMax + Cardinality(Callers)
  BY DEF QInv, Synchronous
<1>a. /\ IsFiniteSet(Enqueuing) /\ Cardinality(Enqueuing) \in Nat
      /\ Cardinality(Callers) \in Nat /\ Len(txq) \in Nat
      /\ Cardinality(Enqueuing) <= Cardinality(Callers)
  <2>1. Enqueuing \subseteq Callers
    BY DEF Enqueuing
  <2>. QED BY <2>1, CallersAssumption, FS_Subset, FS_CardinalityType DEF TypeOK
<1>b. ASSUME Enqueuing' = Enqueuing, Len(txq') <= Len(txq), Len(txq') \in Nat
      PROVE  Len(txq') + Cardinality(Enqueuing') <= TxqMax + Cardinality(Callers)
  BY <1>0, <1>a, <1>b
<1>1. ASSUME NEW c \in Callers, CheckTxqFull(c)
      PROVE  Len(txq') + Cardinality(Enqueuing') <= TxqMax + Cardinality(Callers)
  <2>1. Enqueuing' = Enqueuing \cup {c} /\ c \notin Enqueuing
    BY <1>1 DEF CheckTxqFull, Enqueuing, TypeOK
  <2>2. Cardinality(Enqueuing') = Cardinality(Enqueuing) + 1
    BY <1>a, <2>1, FS_AddElement
  <2>3. Enqueuing' \subseteq Callers /\ Cardinality(Enqueuing') <= Cardinality(Callers)
    <3>1. Enqueuing' \subseteq Callers
      BY <2>1 DEF Enqueuing
    <3>. QED BY <3>1, CallersAssumption, FS_Subset
  <2>4. CASE Len(txq) > TxqMax
    <3>1. Len(txq') = Len(txq) - 1
      BY <1>1, <2>4 DEF CheckTxqFull, TxqRoom, TypeOK
    <3>. QED BY <1>0, <1>a, <2>2, <3>1
  <2>5. CASE ~(Len(txq) > TxqMax)
    <3>1. txq' = txq
      BY <1>1, <2>5 DEF CheckTxqFull, TxqRoom
    <3>. QED BY <1>a, <2>2, <2>3, <2>5, <3>1
  <2>. QED BY <2>4, <2>5
<1>2. ASSUME NEW c \in Callers, EnqueueFrame(c)
      PROVE  Len(txq') + Cardinality(Enqueuing') <= TxqMax + Cardinality(Callers)
  <2>1. Enqueuing' = Enqueuing \ {c} /\ c \in Enqueuing
    BY <1>2 DEF EnqueueFrame, Enqueuing, TypeOK
  <2>2. Cardinality(Enqueuing') = Cardinality(Enqueuing) - 1
    BY <1>a, <2>1, FS_RemoveElement
  <2>3. Len(txq') = Len(txq) + 1
    BY <1>2, FrameFacts DEF EnqueueFrame, TypeOK
  <2>. QED BY <1>0, <1>a, <2>2, <2>3
<1>3. ASSUME NEW c \in Callers,
             \/ GetCookie(c) \/ LinkResponse(c) \/ Schedule(c)
             \/ WaitDone(c) \/ WaitTimeout(c) \/ UnlinkAndReturn(c)
      PROVE  Len(txq') + Cardinality(Enqueuing') <= TxqMax + Cardinality(Callers)
  <2>1. txq' = txq /\ pc[c] # "enq"
    BY <1>3 DEF GetCookie, LinkResponse, Schedule, WaitDone, WaitTimeout,
       UnlinkAndReturn
  <2>2. \E p : p # "enq" /\ pc' = [pc EXCEPT ![c] = p]
    BY <1>3 DEF GetCookie, LinkResponse, Schedule, WaitDone, WaitTimeout,
       UnlinkAndReturn
  <2>3. Enqueuing' = Enqueuing
    BY <2>1, <2>2 DEF Enqueuing, TypeOK
  <2>. QED BY <1>a, <1>b, <2>1, <2>3
<1>4. ASSUME NEW c \in Callers, SendHciData(c) PROVE FALSE
  BY <1>0, <1>4 DEF SendHciData
<1>5. CASE TxStep \/ DevStep \/ RxWorkStep \/ OtherStep \/ RemoveStep
  <2>1. pc' = pc
    BY <1>5 DEF TxStep, TxStart, TxLoopTest, TxCtrlFrm, TxDataHalf, DevStep, DevAnswer, DevLose,
       RxWorkStep, RxQueueWork, RxStart, RxStep, RxReturn, OtherStep, DetectClear, SetSleep,
       SetInBoot, RemoveStep, RemoveStop, RemoveCancelTx, RemoveProcfs,
       ReleaseCancelWork, ReleasePdList, ReleaseQueues, RemoveTxWq, RemoveNetdev
  <2>2. txq' = txq \/ txq' = <<>> \/ (txq # <<>> /\ txq' = Tail(txq))
    BY <1>5 DEF TxStep, TxStart, TxLoopTest, TxCtrlFrm, TxDataHalf, DevStep, DevAnswer, DevLose,
       RxWorkStep, RxQueueWork, RxStart, RxStep, RxReturn, OtherStep, DetectClear, SetSleep,
       SetInBoot, RemoveStep, RemoveStop, RemoveCancelTx, RemoveProcfs,
       ReleaseCancelWork, ReleasePdList, ReleaseQueues, RemoveTxWq, RemoveNetdev
  <2>3. Len(txq') <= Len(txq) /\ Len(txq') \in Nat
    BY <1>a, <2>2 DEF TypeOK
  <2>. QED BY <1>b, <2>1, <2>3 DEF Enqueuing
<1>6. CASE UNCHANGED vars
  BY <1>6, <1>a, <1>b DEF vars, Enqueuing
<1>. QED BY <1>1, <1>2, <1>3, <1>4, <1>5, <1>6 DEF Next, CallerStep

(* ctrl->txq outgrows the limit that hgic_fwctrl_send_data tests without   *)
(* the queue's lock by at most one frame for each concurrent caller.       *)
THEOREM TxqIsBounded == Spec => []TxqBounded
<1>1. Init => QInv
  <2>. SUFFICES ASSUME Init PROVE QInv
    OBVIOUS
  <2>1. Enqueuing = {} /\ Len(txq) = 0
    BY DEF Init, Enqueuing
  <2>2. Cardinality({}) = 0 /\ Cardinality(Callers) \in Nat
    BY FS_EmptySet, CallersAssumption, FS_CardinalityType
  <2>. QED BY <2>1, <2>2, TxqAssumption DEF QInv
<1>2. TypeOK /\ QInv => TxqBounded
  <2>. SUFFICES ASSUME TypeOK, QInv PROVE TxqBounded
    OBVIOUS
  <2>1. Cardinality(Enqueuing) \in Nat /\ Cardinality(Callers) \in Nat
    BY CallersAssumption, FS_Subset, FS_CardinalityType DEF Enqueuing
  <2>. QED BY <2>1, TxqAssumption DEF QInv, TxqBounded, TypeOK
<1>. QED BY <1>1, <1>2, NextQInv, TypeCorrect, PTL DEF Spec

-----------------------------------------------------------------------------
(* An answer goes to the command it answers.                               *)

(* The cookie of command number n.                                         *)
CookieOf(k, n) == IF k = "OTA" THEN 0 ELSE (n - 1) % CookieMod

(* Number n is one of the last CookieMod that were given out, so that no   *)
(* other of these has its cookie.                                          *)
Recent(n) == n \in 1 .. allocs /\ allocs < n + CookieMod

FrameOK(f) ==
  f.kind # "HCI" =>
    /\ Recent(f.stamp) /\ f.cookie = CookieOf(f.kind, f.stamp)
    /\ f.kind = "OTA" => OtaCallers # {}

(* What makes AnswerIsOwn inductive: whatever carries a cookie, a caller   *)
(* in its call, a queued frame, a command or an answer on its way, carries *)
(* the cookie of its number, and its number is recent.                     *)
OwnInv ==
  /\ cookie = allocs % CookieMod
  /\ \A f \in Members(txq) : FrameOK(f)
  /\ \A f \in dev \cup Members(rxq) : f.kind # "HCI" /\ FrameOK(f)
  /\ \A c \in Callers : pc[c] # "idle" /\ Synchronous(c) =>
       Recent(stamp[c]) /\ ck[c] = CookieOf(KindOf[c], stamp[c])
  /\ AnswerIsOwn

(* The members of a tail and of an extended sequence.                      *)
LEMMA SeqMembers ==
  ASSUME NEW S, NEW q \in Seq(S)
  PROVE  /\ \A x \in S : Members(Append(q, x)) = Members(q) \cup {x}
         /\ q # <<>> => Members(Tail(q)) \subseteq Members(q) /\ Head(q) \in Members(q)
         /\ Members(<<>>) = {}
         /\ Members(q) \subseteq S
<1>1. ASSUME NEW x \in S PROVE Members(Append(q, x)) = Members(q) \cup {x}
  <2>1. /\ Len(Append(q, x)) = Len(q) + 1 /\ Append(q, x)[Len(q) + 1] = x
        /\ \A i \in 1 .. Len(q) : Append(q, x)[i] = q[i]
    OBVIOUS
  <2>2. Len(q) \in Nat
    OBVIOUS
  <2>3. \A i \in 1 .. Len(q) + 1 : i \in 1 .. Len(q) \/ i = Len(q) + 1
    BY <2>2
  <2>4. 1 .. Len(q) \subseteq 1 .. Len(q) + 1 /\ Len(q) + 1 \in 1 .. Len(q) + 1
    BY <2>2
  <2>. QED BY <2>1, <2>3, <2>4 DEF Members
<1>2. ASSUME q # <<>>
      PROVE  Members(Tail(q)) \subseteq Members(q) /\ Head(q) \in Members(q)
  <2>1. /\ \A i \in 1 .. Len(Tail(q)) : i + 1 \in 1 .. Len(q) /\ Tail(q)[i] = q[i + 1]
        /\ 1 \in 1 .. Len(q) /\ Head(q) = q[1]
    BY <1>2
  <2>. QED BY <2>1 DEF Members
<1>3. Members(<<>>) = {}
  BY DEF Members
<1>4. Members(q) \subseteq S
  BY DEF Members
<1>. QED BY <1>1, <1>2, <1>3, <1>4

(* Recent numbers with the same cookie are the same number.                *)
LEMMA RecentUnique ==
  ASSUME TypeOK, NEW m, NEW n, Recent(m), Recent(n),
         (m - 1) % CookieMod = (n - 1) % CookieMod
  PROVE  m = n
<1>. DEFINE a == m - 1
            b == n - 1
<1>1. a \in Nat /\ b \in Nat /\ a < b + CookieMod /\ b < a + CookieMod
  BY CookieAssumption DEF Recent, TypeOK
<1>2. a % CookieMod = b % CookieMod
  OBVIOUS
<1>3. m = a + 1 /\ n = b + 1
  BY DEF Recent, TypeOK
<1>. HIDE DEF a, b
<1>4. ~(a < b)
  BY <1>1, <1>2, ModWindow, CookieAssumption
<1>5. ~(b < a)
  BY <1>1, <1>2, ModWindow, CookieAssumption
<1>. QED BY <1>1, <1>3, <1>4, <1>5

(* A step that gives out no cookie, and makes no frame but of old ones.    *)
LEMMA OwnUnchanged ==
  ASSUME OwnInv, AnswerIsOwn',
         UNCHANGED <<cookie, allocs, stamp, ck>>,
         Members(txq') \subseteq Members(txq),
         dev' \cup Members(rxq') \subseteq
           dev \cup Members(rxq) \cup {f \in Members(txq) : f.kind # "HCI"},
         \A c \in Callers : Synchronous(c) /\ pc'[c] # "idle" => pc[c] # "idle"
  PROVE  OwnInv'
BY DEF OwnInv, FrameOK, Recent, CookieOf, Synchronous

(* GetCookie gives the new command the cookie of its number, and nothing   *)
(* in sight becomes too old.                                               *)
LEMMA GetCookieOwn ==
  ASSUME TypeOK, OwnInv, NEW c \in Callers, GetCookie(c)
  PROVE  OwnInv'
<1>1. /\ allocs \in Nat /\ allocs' = allocs + 1 /\ cookie' = (cookie + 1) % CookieMod
      /\ stamp' = [stamp EXCEPT ![c] = allocs + 1]
      /\ ck' = [ck EXCEPT ![c] = IF KindOf[c] = "OTA" THEN 0 ELSE cookie]
      /\ resp' = [resp EXCEPT ![c] = NoSkb]
      /\ pc' = [pc EXCEPT ![c] = "add"]
      /\ UNCHANGED <<txq, dev, rxq>> /\ CookieWindow
  BY DEF GetCookie, NextCookie, TypeOK, txVars, rxVars, devVars
<1>2. cookie' = allocs' % CookieMod
  BY <1>1, ModNext, CookieAssumption DEF OwnInv
<1>3. \A n \in LiveStamps : Recent(n) => Recent(n)'
  BY <1>1, CookieAssumption DEF CookieWindow, Recent
<1>4. ASSUME NEW f \in Members(txq) \cup dev \cup Members(rxq), FrameOK(f),
             f.kind # "HCI"
      PROVE  FrameOK(f)'
  <2>1. f.stamp \in LiveStamps
    BY <1>4 DEF LiveStamps, Members
  <2>. QED BY <1>3, <1>4, <2>1 DEF FrameOK, CookieOf
<1>5. \A f \in Members(txq') : FrameOK(f)'
  BY <1>1, <1>4 DEF OwnInv, FrameOK
<1>6. \A f \in dev' \cup Members(rxq') : f.kind # "HCI" /\ FrameOK(f)'
  BY <1>1, <1>4 DEF OwnInv
<1>7. ASSUME NEW d \in Callers, pc'[d] # "idle", Synchronous(d)
      PROVE  Recent(stamp[d])' /\ ck'[d] = CookieOf(KindOf[d], stamp'[d])
  <2>1. CASE d = c
    <3>1. stamp'[d] = allocs + 1 /\ ck'[d] = IF KindOf[d] = "OTA" THEN 0 ELSE cookie
      BY <1>1, <2>1 DEF TypeOK
    <3>2. Recent(stamp[d])'
      BY <1>1, <3>1, CookieAssumption DEF Recent
    <3>3. (allocs + 1) - 1 = allocs
      BY <1>1
    <3>. QED BY <3>1, <3>2, <3>3 DEF OwnInv, CookieOf
  <2>2. CASE d # c
    <3>1. stamp'[d] = stamp[d] /\ ck'[d] = ck[d] /\ pc'[d] = pc[d]
      BY <1>1, <2>2 DEF TypeOK
    <3>2. stamp[d] \in LiveStamps
      BY <1>7, <3>1 DEF LiveStamps
    <3>. QED BY <1>3, <1>7, <3>1, <3>2 DEF OwnInv, Recent
  <2>. QED BY <2>1, <2>2
<1>8. AnswerIsOwn'
  <2>1. \A d \in Callers : d # c =>
          stamp'[d] = stamp[d] /\ ck'[d] = ck[d] /\ resp'[d] = resp[d]
    BY <1>1 DEF TypeOK
  <2>2. resp'[c] = NoSkb
    BY <1>1 DEF TypeOK
  <2>. QED BY <2>1, <2>2 DEF OwnInv, AnswerIsOwn, OtaCallers
<1>. QED BY <1>2, <1>5, <1>6, <1>7, <1>8 DEF OwnInv, Synchronous

(* hgic_fwctrl_rx_response gives an answer to the command it answers.      *)
LEMMA RxStepOwn ==
  ASSUME TInv, OwnInv, RxStep
  PROVE  OwnInv'
<1>0. TypeOK /\ PdInv /\ rxq \in Seq(Frame) /\ txq \in Seq(Frame)
  BY DEF TInv, TypeOK
<1>1. UNCHANGED <<pc, stamp, ck, cookie, allocs, txq, dev>>
  BY DEF RxStep, allocVars, txVars, devVars
<1>2. CASE rxq = <<>>
  <2>1. UNCHANGED <<rxq, resp>>
    BY <1>2 DEF RxStep
  <2>. QED BY <1>1, <2>1, OwnUnchanged DEF OwnInv, AnswerIsOwn, OtaCallers
<1>3. CASE rxq # <<>>
  <2>. DEFINE a == Head(rxq)
  <2>1. /\ Members(rxq') \subseteq Members(rxq) /\ a \in Members(rxq)
        /\ RxResponse(a)
    BY <1>0, <1>3, SeqMembers DEF RxStep
  <2>2. a.kind # "HCI" /\ FrameOK(a)
    BY <2>1 DEF OwnInv
  <2>. HIDE DEF a
  <2>3. CASE UNCHANGED resp
    BY <1>1, <2>1, <2>3, OwnUnchanged DEF OwnInv, AnswerIsOwn, OtaCallers
  <2>4. ASSUME NEW i \in 1 .. Len(pd), Matches(i, a),
               resp' = [resp EXCEPT ![pd[i]] = a]
        PROVE  OwnInv'
    <3>. DEFINE c == pd[i]
    <3>1. c \in Callers /\ InCall(c) /\ ck[c] = a.cookie
      BY <1>0, <2>4 DEF PdInv, Members, Matches
    <3>2. Recent(stamp[c]) /\ ck[c] = CookieOf(KindOf[c], stamp[c])
      BY <3>1 DEF OwnInv, InCall
    <3>3. /\ resp'[c] = a
          /\ \A d \in Callers : d # c => resp'[d] = resp[d]
      BY <1>0, <2>4, <3>1 DEF TypeOK
    <3>. HIDE DEF c
    <3>4. ASSUME KindOf[c] # "OTA", ck[c] # 0 \/ OtaCallers = {}
          PROVE  a.stamp = stamp[c]
      <4>1. a.kind # "OTA"
        BY <2>2, <3>1, <3>4 DEF FrameOK, CookieOf
      <4>. QED
        BY <1>0, <2>2, <3>1, <3>2, <3>4, <4>1, RecentUnique DEF FrameOK, CookieOf
    <3>5. AnswerIsOwn'
      BY <1>1, <3>1, <3>3, <3>4 DEF OwnInv, AnswerIsOwn, OtaCallers
    <3>. QED BY <1>1, <2>1, <3>5, OwnUnchanged
  <2>. QED BY <2>1, <2>3, <2>4 DEF RxResponse
<1>. QED BY <1>2, <1>3

(* Every step preserves OwnInv.                                            *)
LEMMA NextOwn == TInv /\ OwnInv /\ [Next]_vars => OwnInv'
<1>. SUFFICES ASSUME TInv, OwnInv, [Next]_vars PROVE OwnInv'
  OBVIOUS
<1>. USE DEF callerVars, allocVars, txVars, rxVars, devVars, flagVars
<1>0. TypeOK /\ txq \in Seq(Frame) /\ rxq \in Seq(Frame)
  BY DEF TInv, TypeOK
<1>a. /\ Members(<<>>) = {}
      /\ txq # <<>> => Members(Tail(txq)) \subseteq Members(txq)
                        /\ Head(txq) \in Members(txq)
      /\ rxq # <<>> => Members(Tail(rxq)) \subseteq Members(rxq)
  BY <1>0, SeqMembers
<1>b. ASSUME UNCHANGED <<cookie, allocs, stamp, ck, resp>> PROVE AnswerIsOwn'
  BY <1>b DEF OwnInv, AnswerIsOwn, OtaCallers
<1>1. ASSUME NEW c \in Callers, CallerStep(c) PROVE OwnInv'
  <2>1. CASE GetCookie(c)
    BY <1>0, <2>1, GetCookieOwn
  <2>2. CASE LinkResponse(c) \/ Schedule(c) \/ WaitDone(c) \/ WaitTimeout(c)
    <3>1. UNCHANGED <<cookie, allocs, stamp, ck, resp, txq, dev, rxq>> /\ pc[c] # "idle"
      BY <2>2 DEF LinkResponse, Schedule, WaitDone, WaitTimeout
    <3>2. \E p : pc' = [pc EXCEPT ![c] = p]
      BY <2>2 DEF LinkResponse, Schedule, WaitDone, WaitTimeout
    <3>3. \A d \in Callers : pc'[d] # "idle" => pc[d] # "idle"
      BY <1>0, <3>1, <3>2 DEF TypeOK
    <3>. QED BY <1>b, <3>1, <3>3, OwnUnchanged
  <2>3. CASE CheckTxqFull(c)
    <3>1. UNCHANGED <<cookie, allocs, stamp, ck, resp, dev, rxq>>
      BY <2>3 DEF CheckTxqFull
    <3>2. \A d \in Callers : pc'[d] # "idle" => pc[d] # "idle"
      BY <1>0, <2>3 DEF CheckTxqFull, TypeOK
    <3>3. Members(txq') \subseteq Members(txq)
      <4>1. Len(txq) > TxqMax => txq # <<>>
        BY <1>0, TxqAssumption
      <4>. QED BY <1>a, <2>3, <4>1 DEF CheckTxqFull, TxqRoom
    <3>. QED BY <1>b, <3>1, <3>2, <3>3, OwnUnchanged
  <2>4. CASE SendHciData(c)
    <3>1. UNCHANGED <<cookie, allocs, stamp, ck, resp, txq, dev, rxq>> /\ ~Synchronous(c)
      BY <2>4 DEF SendHciData
    <3>2. \A d \in Callers : Synchronous(d) /\ pc'[d] # "idle" => pc[d] # "idle"
      BY <1>0, <2>4, <3>1 DEF SendHciData, TypeOK
    <3>. QED BY <1>b, <3>1, <3>2, OwnUnchanged
  <2>5. CASE EnqueueFrame(c)
    <3>1. UNCHANGED <<cookie, allocs, stamp, ck, resp, dev, rxq>>
          /\ txq' = Append(txq, FrameOf(c)) /\ pc[c] = "enq"
      BY <2>5 DEF EnqueueFrame
    <3>2. Members(txq') = Members(txq) \cup {FrameOf(c)}
      BY <1>0, <3>1, FrameFacts, SeqMembers
    <3>3. FrameOK(FrameOf(c))
      BY <3>1 DEF FrameOK, FrameOf, OwnInv, Synchronous, OtaCallers, CookieOf
    <3>4. \A f : FrameOK(f) => FrameOK(f)'
      BY <3>1 DEF FrameOK, Recent, CookieOf
    <3>5. \A d \in Callers : pc'[d] # "idle" => pc[d] # "idle"
      BY <1>0, <2>5 DEF EnqueueFrame, TypeOK
    <3>. QED BY <1>b, <3>1, <3>2, <3>3, <3>4, <3>5
         DEF OwnInv, Recent, CookieOf, Synchronous
  <2>6. CASE UnlinkAndReturn(c)
    <3>1. UNCHANGED <<cookie, allocs, stamp, ck, txq, dev, rxq>>
      BY <2>6 DEF UnlinkAndReturn
    <3>2. \A d \in Callers : pc'[d] # "idle" => pc[d] # "idle"
      BY <1>0, <2>6 DEF UnlinkAndReturn, TypeOK
    <3>3. \A d \in Callers : resp'[d] = resp[d] \/ resp'[d] = NoSkb
      BY <1>0, <2>6 DEF UnlinkAndReturn, TypeOK
    <3>4. AnswerIsOwn'
      BY <3>1, <3>3 DEF OwnInv, AnswerIsOwn, OtaCallers
    <3>. QED BY <3>1, <3>2, <3>4, OwnUnchanged
  <2>. QED BY <1>1, <2>1, <2>2, <2>3, <2>4, <2>5, <2>6 DEF CallerStep
<1>2. CASE TxStart \/ TxLoopTest \/ DetectClear
  <2>1. UNCHANGED <<cookie, allocs, stamp, ck, resp, dev, rxq, pc>>
        /\ (txq' = txq \/ txq' = <<>>)
    BY <1>2 DEF TxStart, TxLoopTest, DetectClear
  <2>. QED BY <1>a, <1>b, <2>1, OwnUnchanged
<1>3. CASE TxCtrlFrm
  <2>1. UNCHANGED <<cookie, allocs, stamp, ck, resp, rxq, pc>>
        /\ Members(txq') \subseteq Members(txq)
        /\ dev' \subseteq dev \cup {f \in Members(txq) : f.kind # "HCI"}
    BY <1>a, <1>3 DEF TxCtrlFrm
  <2>. QED BY <1>b, <2>1, OwnUnchanged
<1>4. CASE DevStep
  <2>1. PICK f \in dev : DevAnswer(f) \/ DevLose(f)
    BY <1>4 DEF DevStep
  <2>2. UNCHANGED <<cookie, allocs, stamp, ck, resp, txq, pc>>
        /\ dev' \subseteq dev /\ (rxq' = rxq \/ rxq' = Append(rxq, f))
    BY <2>1 DEF DevAnswer, DevLose
  <2>3. Members(Append(rxq, f)) = Members(rxq) \cup {f}
    BY <1>0, SeqMembers DEF TypeOK
  <2>4. dev' \cup Members(rxq') \subseteq dev \cup Members(rxq)
    BY <2>2, <2>3
  <2>. QED BY <1>b, <2>2, <2>4, OwnUnchanged
<1>5. CASE RxStep
  BY <1>5, RxStepOwn
<1>6. CASE \/ TxDataHalf \/ RxQueueWork \/ RxStart \/ RxReturn
           \/ (\E b \in BOOLEAN : SetSleep(b) \/ SetInBoot(b))
           \/ RemoveStop \/ RemoveCancelTx \/ RemoveProcfs \/ ReleaseCancelWork
           \/ ReleasePdList \/ RemoveTxWq \/ RemoveNetdev
  <2>1. UNCHANGED <<cookie, allocs, stamp, ck, resp, txq, dev, rxq, pc>>
    BY <1>6 DEF TxDataHalf, RxQueueWork, RxStart, RxReturn, SetSleep, SetInBoot, RemoveStop,
       RemoveCancelTx, RemoveProcfs, ReleaseCancelWork, ReleasePdList, RemoveTxWq,
       RemoveNetdev
  <2>. QED BY <1>b, <2>1, OwnUnchanged
<1>7. CASE ReleaseQueues
  <2>1. UNCHANGED <<cookie, allocs, stamp, ck, resp, dev, pc>>
        /\ txq' = <<>> /\ rxq' = <<>>
    BY <1>7 DEF ReleaseQueues
  <2>. QED BY <1>a, <1>b, <2>1, OwnUnchanged
<1>8. CASE UNCHANGED vars
  <2>1. UNCHANGED <<cookie, allocs, stamp, ck, resp, txq, dev, rxq, pc>>
    BY <1>8 DEF vars
  <2>. QED BY <1>b, <2>1, OwnUnchanged
<1>. QED BY <1>1, <1>2, <1>3, <1>4, <1>5, <1>6, <1>7, <1>8
     DEF Next, TxStep, RxWorkStep, OtherStep, RemoveStep

(* A command is only ever given its own answer, for any number of callers  *)
(* and any size of the cookie space, as long as CookieMod commands are not *)
(* started within the life of one (the guard CookieWindow of GetCookie).   *)
THEOREM AnswersAreOwn == Spec => []AnswerIsOwn
<1>1. Init => OwnInv
  <2>. SUFFICES ASSUME Init PROVE OwnInv
    OBVIOUS
  <2>1. Members(txq) = {} /\ Members(rxq) = {}
    BY DEF Init, Members
  <2>2. cookie = allocs % CookieMod
    BY CookieAssumption DEF Init
  <2>3. AnswerIsOwn
    BY DEF Init, AnswerIsOwn
  <2>. QED BY <2>1, <2>2, <2>3 DEF Init, OwnInv
<1>2. OwnInv => AnswerIsOwn
  BY DEF OwnInv
<1>. QED BY <1>1, <1>2, NextOwn, AlwaysTInv, PTL DEF Spec

-----------------------------------------------------------------------------
(* Nothing is sent after hgicf_core_remove has cancelled tx_work.          *)

(* What it rests on: RUNNING is clear since the removal began, and a       *)
(* tx_work that starts after the cancellation never gets past its test.    *)
StopInv ==
  /\ rm # "up" => ~running
  /\ rm \notin {"up", "stopped"} => txPc # "frm"

(* Every step preserves StopInv.                                           *)
LEMMA NextStop == StopInv /\ [Next]_vars => StopInv'
<1>. SUFFICES ASSUME StopInv, [Next]_vars PROVE StopInv'
  OBVIOUS
<1>. USE DEF callerVars, allocVars, txVars, rxVars, devVars, flagVars
<1>1. ASSUME NEW c \in Callers, CallerStep(c) PROVE StopInv'
  BY <1>1 DEF CallerStep, GetCookie, LinkResponse, CheckTxqFull, SendHciData,
     EnqueueFrame, Schedule, WaitDone, WaitTimeout, UnlinkAndReturn, StopInv
<1>2. CASE TxStep
  BY <1>2 DEF TxStep, TxStart, TxLoopTest, TxAllowed, TxCtrlFrm, TxDataHalf, StopInv
<1>3. CASE DevStep \/ RxWorkStep \/ OtherStep
  BY <1>3 DEF DevStep, DevAnswer, DevLose, RxWorkStep, RxQueueWork, RxStart, RxStep, RxReturn,
     OtherStep, DetectClear, SetSleep, SetInBoot, StopInv
<1>4. CASE RemoveStep
  BY <1>4 DEF RemoveStep, RemoveStop, RemoveCancelTx, RemoveProcfs,
     ReleaseCancelWork, ReleasePdList, ReleaseQueues, RemoveTxWq, RemoveNetdev,
     StopInv
<1>5. CASE UNCHANGED vars
  BY <1>5 DEF vars, StopInv
<1>. QED BY <1>1, <1>2, <1>3, <1>4, <1>5 DEF Next

(* Once tx_work was cancelled no command reaches the device, whatever the  *)
(* callers that are still inside queue and schedule.                       *)
THEOREM QuietOnceCancelled == Spec => QuietAfterCancel
<1>1. Init => StopInv
  BY DEF Init, StopInv
<1>2. StopInv /\ [Next]_vars => [rm \notin {"up", "stopped"} => exec' = exec]_vars
  <2>. SUFFICES ASSUME StopInv, Next, rm \notin {"up", "stopped"} PROVE exec' = exec
    OBVIOUS
  <2>. USE DEF callerVars, allocVars, txVars, rxVars, devVars, flagVars
  <2>1. ASSUME NEW c \in Callers, CallerStep(c) PROVE exec' = exec
    BY <2>1 DEF CallerStep, GetCookie, LinkResponse, CheckTxqFull, SendHciData,
       EnqueueFrame, Schedule, WaitDone, WaitTimeout, UnlinkAndReturn
  <2>2. CASE TxStep
    BY <2>2 DEF TxStep, TxStart, TxLoopTest, TxCtrlFrm, TxDataHalf, StopInv
  <2>3. CASE DevStep \/ RxWorkStep \/ OtherStep
    BY <2>3 DEF DevStep, DevAnswer, DevLose, RxWorkStep, RxQueueWork, RxStart,
       RxStep, RxReturn, OtherStep, DetectClear, SetSleep, SetInBoot
  <2>4. CASE RemoveStep
    BY <2>4 DEF RemoveStep, RemoveStop, RemoveCancelTx, RemoveProcfs,
       ReleaseCancelWork, ReleasePdList, ReleaseQueues, RemoveTxWq, RemoveNetdev
  <2>. QED BY <2>1, <2>2, <2>3, <2>4 DEF Next
<1>. QED BY <1>1, <1>2, NextStop, PTL DEF Spec, QuietAfterCancel

-----------------------------------------------------------------------------
(* Where a command is: with its caller, queued, at the device, answered.   *)

Active(c) == pc[c] # "idle" /\ Synchronous(c)

(* The steps that move no command further, as far as the following         *)
(* invariants can tell.                                                    *)
Quiet ==
  /\ UNCHANGED <<allocs, stamp, resp, exec, dups, leaked>>
  /\ txq' = txq \/ txq' = <<>> \/ (txq # <<>> /\ txq' = Tail(txq))
  /\ dev' \subseteq dev /\ (rxq' = rxq \/ rxq' = <<>>)
  /\ \A c \in Callers : Synchronous(c) =>
       \/ pc'[c] = pc[c]
       \/ /\ pc[c] # "idle" /\ pc'[c] \notin {"idle", "add"}
          /\ pc'[c] \in {"full", "enq"} => pc[c] \in {"add", "full"}

(* Every step is one of these.                                             *)
LEMMA Steps ==
  ASSUME TInv, [Next]_vars
  PROVE  \/ \E c \in Callers : GetCookie(c) \/ EnqueueFrame(c) \/ UnlinkAndReturn(c)
         \/ TxCtrlFrm \/ (\E f \in dev : DevAnswer(f)) \/ RxStep
         \/ Quiet
<1>. USE DEF callerVars, allocVars, txVars, rxVars, devVars, flagVars
<1>0. TypeOK /\ txq \in Seq(Frame) /\ HciPath
  BY DEF TInv, TypeOK, PdInv
<1>1. ASSUME NEW c \in Callers, CallerStep(c), ~GetCookie(c), ~EnqueueFrame(c), ~UnlinkAndReturn(c)
      PROVE  Quiet
  <2>1. UNCHANGED <<allocs, stamp, resp, exec, dups, leaked, dev, rxq>>
    BY <1>1 DEF CallerStep, LinkResponse, CheckTxqFull, SendHciData, Schedule, WaitDone, WaitTimeout
  <2>2. txq' = txq \/ (txq # <<>> /\ txq' = Tail(txq))
    <3>1. Len(txq) > TxqMax => txq # <<>>
      BY <1>0, TxqAssumption
    <3>. QED BY <1>1, <3>1 DEF CallerStep, LinkResponse, CheckTxqFull, TxqRoom, SendHciData, Schedule, WaitDone,
                WaitTimeout
  <2>. DEFINE To(p) == /\ pc' = [pc EXCEPT ![c] = p]
                       /\ Synchronous(c) => /\ pc[c] # "idle" /\ p \notin {"idle", "add"}
                                            /\ p \in {"full", "enq"} => pc[c] \in {"add", "full"}
  <2>3. PICK p : To(p)
    <3>1. \/ To("full") \/ To("enq") \/ To("wait") \/ To("idle") \/ To("del")
      BY <1>1 DEF CallerStep, LinkResponse, CheckTxqFull, SendHciData, Schedule, WaitDone, WaitTimeout
    <3>. HIDE DEF To
    <3>. QED BY <3>1
  <2>4. \A d \in Callers : pc'[d] = IF d = c THEN p ELSE pc[d]
    BY <1>0, <2>3 DEF TypeOK
  <2>. QED BY <2>1, <2>2, <2>3, <2>4 DEF Quiet
<1>2. CASE TxStart \/ TxLoopTest \/ TxDataHalf \/ OtherStep
  BY <1>2 DEF TxStart, TxLoopTest, TxDataHalf, OtherStep, DetectClear, SetSleep, SetInBoot, Quiet
<1>3. ASSUME NEW f \in dev, DevLose(f) PROVE Quiet
  BY <1>3 DEF DevLose, Quiet
<1>4. CASE RxQueueWork \/ RxStart \/ RxReturn
  BY <1>4 DEF RxQueueWork, RxStart, RxReturn, Quiet
<1>5. CASE RemoveStep
  BY <1>5 DEF RemoveStep, RemoveStop, RemoveCancelTx, RemoveProcfs, ReleaseCancelWork, ReleasePdList, ReleaseQueues,
     RemoveTxWq, RemoveNetdev, Quiet
<1>6. CASE UNCHANGED vars
  BY <1>6 DEF vars, Quiet
<1>. QED BY <1>1, <1>2, <1>3, <1>4, <1>5, <1>6 DEF Next, TxStep, DevStep, RxWorkStep

(* Commands have numbers of their own, those the device has received were  *)
(* given out, and all that it holds or has answered it has received.       *)
CallInv ==
  /\ exec \subseteq 0 .. allocs
  /\ \A f \in Members(txq) : f.kind = "HCI" => f.stamp = 0
  /\ \A c \in Callers : ~Synchronous(c) => stamp[c] = 0 /\ resp[c] = NoSkb
  /\ \A f \in dev \cup Members(rxq) : f.stamp \in exec
  /\ \A c, d \in Callers : Active(c) /\ Active(d) /\ stamp[c] = stamp[d] => c = d
  /\ \A c \in Callers : pc[c] \in {"idle", "add"} => resp[c] = NoSkb

(* Every step preserves CallInv.                                           *)
LEMMA NextCall == TInv /\ OwnInv /\ CallInv /\ [Next]_vars => CallInv'
<1>. SUFFICES ASSUME TInv, OwnInv, CallInv, [Next]_vars PROVE CallInv'
  OBVIOUS
<1>. USE DEF callerVars, allocVars, txVars, rxVars, devVars
<1>0. TypeOK /\ txq \in Seq(Frame) /\ rxq \in Seq(Frame) /\ allocs \in Nat /\ PdInv
  BY DEF TInv, TypeOK
<1>a. /\ Members(<<>>) = {}
      /\ txq # <<>> => Members(Tail(txq)) \subseteq Members(txq) /\ Head(txq) \in Members(txq)
      /\ rxq # <<>> => Members(Tail(rxq)) \subseteq Members(rxq) /\ Head(rxq) \in Members(rxq)
  BY <1>0, SeqMembers
<1>b. \A f \in Members(txq) : f.kind # "HCI" => f.stamp \in 1 .. allocs
  BY DEF OwnInv, FrameOK, Recent
<1>c. \A c \in Callers : Active(c) => stamp[c] \in 1 .. allocs
  BY DEF OwnInv, Active, Recent
<1>1. ASSUME NEW c \in Callers, GetCookie(c) PROVE CallInv'
  <2>1. /\ allocs' = allocs + 1 /\ stamp' = [stamp EXCEPT ![c] = allocs + 1] /\ resp' = [resp EXCEPT ![c] = NoSkb]
        /\ pc' = [pc EXCEPT ![c] = "add"] /\ UNCHANGED <<txq, dev, rxq, exec>> /\ Synchronous(c)
    BY <1>1 DEF GetCookie
  <2>2. /\ \A d \in Callers \ {c} : stamp'[d] = stamp[d] /\ resp'[d] = resp[d] /\ pc'[d] = pc[d]
        /\ stamp'[c] = allocs + 1 /\ resp'[c] = NoSkb
    BY <1>0, <2>1 DEF TypeOK
  <2>3. exec' \subseteq 0 .. allocs'
    BY <1>0, <2>1 DEF CallInv
  <2>4. \A d, e \in Callers : Active(d)' /\ Active(e)' /\ stamp'[d] = stamp'[e] => d = e
    <3>1. \A d \in Callers \ {c} : Active(d)' => Active(d) /\ stamp'[d] = stamp[d] /\ stamp[d] # allocs + 1
      BY <1>0, <1>c, <2>2 DEF Active
    <3>. QED BY <2>2, <3>1 DEF CallInv
  <2>. QED BY <2>1, <2>2, <2>3, <2>4 DEF CallInv
<1>2. ASSUME NEW c \in Callers, EnqueueFrame(c) PROVE CallInv'
  <2>1. /\ txq' = Append(txq, FrameOf(c)) /\ UNCHANGED <<allocs, stamp, resp, exec, dev, rxq>>
        /\ pc[c] = "enq" /\ pc' = [pc EXCEPT ![c] = "sched"]
    BY <1>2 DEF EnqueueFrame
  <2>2. Members(txq') = Members(txq) \cup {FrameOf(c)}
    BY <1>0, <2>1, FrameFacts, SeqMembers
  <2>3. FrameOf(c).kind = "HCI" => FrameOf(c).stamp = 0
    BY DEF FrameOf, CallInv, Synchronous
  <2>4. \A d \in Callers : (pc'[d] # "idle" => pc[d] # "idle") /\ (pc'[d] \in {"idle", "add"} => pc'[d] = pc[d])
    BY <1>0, <2>1 DEF TypeOK
  <2>. QED BY <2>1, <2>2, <2>3, <2>4 DEF CallInv, Active
<1>3. ASSUME NEW c \in Callers, UnlinkAndReturn(c) PROVE CallInv'
  <2>1. /\ resp' = [resp EXCEPT ![c] = NoSkb] /\ pc' = [pc EXCEPT ![c] = "idle"]
        /\ UNCHANGED <<allocs, stamp, exec, dev, rxq, txq>>
    BY <1>3 DEF UnlinkAndReturn
  <2>2. /\ \A d \in Callers \ {c} : resp'[d] = resp[d] /\ pc'[d] = pc[d]
        /\ resp'[c] = NoSkb /\ pc'[c] = "idle"
    BY <1>0, <2>1 DEF TypeOK
  <2>. QED BY <2>1, <2>2 DEF CallInv, Active
<1>4. CASE TxCtrlFrm
  <2>1. /\ UNCHANGED <<allocs, stamp, resp, pc, rxq>> /\ Members(txq') \subseteq Members(txq)
        /\ \/ UNCHANGED <<dev, exec>>
           \/ \E f \in Members(txq) : exec' = exec \cup {f.stamp} /\ dev' \subseteq dev \cup {f}
    BY <1>a, <1>4 DEF TxCtrlFrm
  <2>2. \A f \in Members(txq) : f.stamp \in 0 .. allocs
    <3>1. \A f \in Members(txq) : f.stamp = 0 \/ f.stamp \in 1 .. allocs
      BY <1>b DEF CallInv
    <3>. QED BY <1>0, <3>1
  <2>3. exec' \subseteq 0 .. allocs /\ \A f \in dev' \cup Members(rxq') : f.stamp \in exec'
    BY <2>1, <2>2 DEF CallInv
  <2>. QED BY <2>1, <2>3 DEF CallInv, Active
<1>5. ASSUME NEW f \in dev, DevAnswer(f) PROVE CallInv'
  <2>1. /\ UNCHANGED <<allocs, stamp, resp, pc, txq, exec>> /\ rxq' = Append(rxq, f) /\ dev' \subseteq dev
    BY <1>5 DEF DevAnswer
  <2>2. Members(rxq') = Members(rxq) \cup {f}
    BY <1>0, <2>1, SeqMembers DEF TypeOK
  <2>. QED BY <2>1, <2>2 DEF CallInv, Active
<1>6. CASE RxStep
  <2>1. UNCHANGED <<allocs, stamp, pc, txq, exec, dev>> /\ Members(rxq') \subseteq Members(rxq)
    BY <1>a, <1>6 DEF RxStep
  <2>2. \A c \in Callers : resp'[c] = resp[c] \/ InCall(c)
    <3>1. CASE UNCHANGED resp
      BY <3>1
    <3>2. ASSUME NEW i \in 1 .. Len(pd), NEW a, resp' = [resp EXCEPT ![pd[i]] = a]
          PROVE  \A c \in Callers : resp'[c] = resp[c] \/ InCall(c)
      <4>1. pd[i] \in Members(pd) /\ \A c \in Members(pd) : InCall(c)
        BY <1>0 DEF Members, PdInv
      <4>2. \A c \in Callers \ {pd[i]} : resp'[c] = resp[c]
        BY <1>0, <3>2 DEF TypeOK
      <4>. QED BY <4>1, <4>2
    <3>. QED BY <1>6, <3>1, <3>2 DEF RxStep, RxResponse
  <2>3. \A c \in Callers : InCall(c) => Synchronous(c) /\ pc[c] \notin {"idle", "add"}
    BY DEF InCall
  <2>. QED BY <2>1, <2>2, <2>3 DEF CallInv, Active
<1>7. CASE Quiet
  <2>1. Members(txq') \subseteq Members(txq) /\ Members(rxq') \subseteq Members(rxq)
    BY <1>a, <1>7 DEF Quiet
  <2>2. \A c \in Callers : Active(c)' => Active(c)
    BY <1>7 DEF Quiet, Active, Synchronous
  <2>3. \A c \in Callers : pc'[c] \in {"idle", "add"} => resp'[c] = NoSkb
    BY <1>7 DEF Quiet, CallInv
  <2>. QED BY <1>7, <2>1, <2>2, <2>3 DEF Quiet, CallInv, Synchronous
<1>. QED BY <1>1, <1>2, <1>3, <1>4, <1>5, <1>6, <1>7, Steps

(* The invariants so far, together.                                        *)
LEMMA AlwaysCallInv == Spec => [](TInv /\ OwnInv /\ CallInv)
<1>1. Init => OwnInv /\ CallInv
  <2>. SUFFICES ASSUME Init PROVE OwnInv /\ CallInv
    OBVIOUS
  <2>1. Members(txq) = {} /\ Members(rxq) = {}
    BY DEF Init, Members
  <2>2. cookie = allocs % CookieMod
    BY CookieAssumption DEF Init
  <2>3. AnswerIsOwn
    BY DEF Init, AnswerIsOwn
  <2>. QED BY <2>1, <2>2, <2>3 DEF Init, OwnInv, CallInv, Active
<1>. QED BY <1>1, NextOwn, NextCall, AlwaysTInv, PTL DEF Spec

-----------------------------------------------------------------------------
(* An answer is overwritten only if the device repeated one.               *)

(* The commands of a queue have different numbers, so have the commands of *)
(* two places, and none of these has number n.                             *)
Differ(q)   == \A i, j \in 1 .. Len(q) :
                 q[i].kind # "HCI" /\ q[j].kind # "HCI" /\ q[i].stamp = q[j].stamp => i = j
Apart(F, G) == \A f \in F, g \in G : f.kind # "HCI" /\ g.kind # "HCI" => f.stamp # g.stamp
Clear(n, F) == \A f \in F : f.kind # "HCI" => f.stamp # n

Abroad == Members(txq) \cup dev \cup Members(rxq)

(* As long as the device repeats nothing, a command is in one place at a   *)
(* time: not yet queued, queued, at the device, on its way back, answered. *)
Once ==
  /\ ~leaked
  /\ Differ(txq) /\ Differ(rxq)
  /\ Apart(Members(txq), dev \cup Members(rxq)) /\ Apart(dev, Members(rxq))
  /\ \A f, g \in dev : f.stamp = g.stamp => f = g
  /\ \A c \in Callers : Synchronous(c) /\ pc[c] \in {"add", "full", "enq"} =>
       resp[c] = NoSkb /\ Clear(stamp[c], Abroad)
  /\ \A c \in Callers : resp[c] # NoSkb => Clear(stamp[c], Abroad)

OnceInv == dups = 0 /\ OtaCallers = {} => Once

(* The head leaves a queue, a frame is appended.                           *)
LEMMA DifferFacts ==
  ASSUME NEW S, NEW q \in Seq(S), Differ(q)
  PROVE  /\ q # <<>> => Differ(Tail(q)) /\ Apart({Head(q)}, Members(Tail(q)))
         /\ \A x \in S : Apart(Members(q), {x}) => Differ(Append(q, x))
<1>1. ASSUME q # <<>> PROVE Differ(Tail(q)) /\ Apart({Head(q)}, Members(Tail(q)))
  <2>1. /\ \A i \in 1 .. Len(Tail(q)) : i + 1 \in 1 .. Len(q) /\ Tail(q)[i] = q[i + 1]
        /\ 1 \in 1 .. Len(q) /\ Head(q) = q[1]
    BY <1>1
  <2>2. \A i \in 1 .. Len(Tail(q)) : i + 1 # 1
    BY <1>1
  <2>3. \A i, j \in 1 .. Len(Tail(q)) : i + 1 = j + 1 => i = j
    BY <1>1
  <2>4. Differ(Tail(q))
    BY <2>1, <2>3 DEF Differ
  <2>5. Apart({Head(q)}, Members(Tail(q)))
    BY <2>1, <2>2 DEF Differ, Apart, Members
  <2>. QED BY <2>4, <2>5
<1>2. ASSUME NEW x \in S, Apart(Members(q), {x}) PROVE Differ(Append(q, x))
  <2>. DEFINE r == Append(q, x)
  <2>1. Len(r) = Len(q) + 1 /\ r[Len(q) + 1] = x /\ \A i \in 1 .. Len(q) : r[i] = q[i]
    OBVIOUS
  <2>2. \A i \in 1 .. Len(r) : i \in 1 .. Len(q) \/ i = Len(q) + 1
    BY <2>1
  <2>. HIDE DEF r
  <2>3. \A i \in 1 .. Len(q) : r[i].kind # "HCI" /\ x.kind # "HCI" => r[i].stamp # x.stamp
    BY <1>2, <2>1 DEF Apart, Members
  <2>4. Differ(r)
    BY <2>1, <2>2, <2>3 DEF Differ
  <2>. QED BY <2>4 DEF r
<1>. QED BY <1>1, <1>2

(* An answer goes to a caller in its call, with the answer's number.       *)
LEMMA OwnAnswer ==
  ASSUME TInv, OwnInv, OtaCallers = {}, NEW a \in Members(rxq), NEW i \in 1 .. Len(pd), Matches(i, a)
  PROVE  pd[i] \in Callers /\ InCall(pd[i]) /\ stamp[pd[i]] = a.stamp /\ a.stamp > 0
<1>. DEFINE c == pd[i]
<1>1. c \in Callers /\ InCall(c) /\ ck[c] = a.cookie
  BY DEF TInv, PdInv, Members, Matches
<1>2. Recent(stamp[c]) /\ ck[c] = CookieOf(KindOf[c], stamp[c])
  BY <1>1 DEF OwnInv, InCall
<1>3. a.kind # "HCI" /\ FrameOK(a)
  BY DEF OwnInv
<1>. HIDE DEF c
<1>4. KindOf[c] # "OTA" /\ a.kind # "OTA"
  BY <1>1, <1>3 DEF OtaCallers, FrameOK
<1>5. stamp[c] = a.stamp
  BY <1>1, <1>2, <1>3, <1>4, RecentUnique DEF FrameOK, CookieOf, TInv
<1>6. a.stamp > 0
  BY <1>3 DEF FrameOK, Recent, TInv, TypeOK
<1>. QED BY <1>1, <1>5, <1>6 DEF c

(* Every step preserves Once, until an answer is repeated.                 *)
LEMMA NextOnce == TInv /\ OwnInv /\ CallInv /\ OnceInv /\ [Next]_vars => OnceInv'
<1>. SUFFICES ASSUME TInv, OwnInv, CallInv, dups = 0 /\ OtaCallers = {} => Once, [Next]_vars,
                     dups' = 0, OtaCallers = {}
              PROVE  Once'
  BY DEF OnceInv, OtaCallers
<1>. USE DEF callerVars, allocVars, txVars, rxVars, devVars
<1>0. TypeOK /\ txq \in Seq(Frame) /\ rxq \in Seq(Frame) /\ allocs \in Nat /\ dups \in Nat /\ dev \subseteq Frame
  BY DEF TInv, TypeOK
<1>1. dups = 0
  <2>1. dups' = dups \/ dups' = dups + 1
    BY Steps DEF GetCookie, EnqueueFrame, UnlinkAndReturn, TxCtrlFrm, DevAnswer, RxStep, Quiet
  <2>. QED BY <1>0, <2>1
<1>2. Once
  BY <1>1
<1>a. /\ Members(<<>>) = {}
      /\ txq # <<>> => Members(Tail(txq)) \subseteq Members(txq) /\ Head(txq) \in Members(txq)
      /\ rxq # <<>> => Members(Tail(rxq)) \subseteq Members(rxq) /\ Head(rxq) \in Members(rxq)
  BY <1>0, SeqMembers
<1>b. /\ txq # <<>> => Differ(Tail(txq)) /\ Apart({Head(txq)}, Members(Tail(txq)))
      /\ rxq # <<>> => Differ(Tail(rxq)) /\ Apart({Head(rxq)}, Members(Tail(rxq)))
      /\ Differ(<<>>)
  <2>1. Differ(<<>>)
    BY DEF Differ
  <2>2. Differ(txq) /\ Differ(rxq)
    BY <1>2 DEF Once
  <2>. QED BY <1>0, <2>1, <2>2, DifferFacts
<1>c. \A f \in Abroad : f.kind # "HCI" => f.stamp \in 1 .. allocs
  BY DEF OwnInv, FrameOK, Recent, Abroad
<1>3. ASSUME NEW c \in Callers, GetCookie(c) PROVE Once'
  <2>1. /\ stamp' = [stamp EXCEPT ![c] = allocs + 1] /\ resp' = [resp EXCEPT ![c] = NoSkb]
        /\ pc' = [pc EXCEPT ![c] = "add"] /\ UNCHANGED <<txq, dev, rxq, leaked>>
    BY <1>3 DEF GetCookie
  <2>2. /\ \A d \in Callers \ {c} : stamp'[d] = stamp[d] /\ resp'[d] = resp[d] /\ pc'[d] = pc[d]
        /\ stamp'[c] = allocs + 1 /\ resp'[c] = NoSkb
    BY <1>0, <2>1 DEF TypeOK
  <2>3. Clear(allocs + 1, Abroad)
    BY <1>0, <1>c DEF Clear
  <2>4. Abroad' = Abroad
    BY <2>1 DEF Abroad
  <2>5. \A d \in Callers : Synchronous(d) /\ pc'[d] \in {"add", "full", "enq"} =>
          resp'[d] = NoSkb /\ Clear(stamp'[d], Abroad)
    BY <1>2, <2>2, <2>3 DEF Once
  <2>6. \A d \in Callers : resp'[d] # NoSkb => Clear(stamp'[d], Abroad)
    BY <1>2, <2>2 DEF Once
  <2>. QED BY <1>2, <2>1, <2>4, <2>5, <2>6 DEF Once, Synchronous
<1>4. ASSUME NEW c \in Callers, EnqueueFrame(c) PROVE Once'
  <2>. DEFINE x == FrameOf(c)
  <2>1. /\ txq' = Append(txq, x) /\ UNCHANGED <<stamp, resp, dev, rxq, leaked>>
        /\ pc[c] = "enq" /\ pc' = [pc EXCEPT ![c] = "sched"]
    BY <1>4 DEF EnqueueFrame
  <2>2. x \in Frame /\ x.stamp = stamp[c] /\ (x.kind # "HCI" <=> Synchronous(c))
    BY <1>0, FrameFacts DEF FrameOf, Synchronous
  <2>. HIDE DEF x
  <2>3. Members(txq') = Members(txq) \cup {x}
    BY <1>0, <2>1, <2>2, SeqMembers
  <2>4. x.kind # "HCI" => Clear(x.stamp, Abroad) /\ resp[c] = NoSkb
    BY <1>2, <2>1, <2>2 DEF Once
  <2>5. Differ(txq')
    <3>1. Apart(Members(txq), {x})
      BY <2>4 DEF Apart, Clear, Abroad
    <3>2. Differ(txq)
      BY <1>2 DEF Once
    <3>. QED BY <1>0, <2>1, <2>2, <3>1, <3>2, DifferFacts
  <2>6. Apart(Members(txq'), dev \cup Members(rxq))
    BY <1>2, <2>3, <2>4 DEF Once, Apart, Clear, Abroad
  <2>7. \A d \in Callers : pc'[d] = IF d = c THEN "sched" ELSE pc[d]
    BY <1>0, <2>1 DEF TypeOK
  <2>8. Abroad' = Abroad \cup {x}
    BY <2>1, <2>3 DEF Abroad
  <2>9. ASSUME NEW d \in Callers, Active(d), d # c, Clear(stamp[d], Abroad) PROVE Clear(stamp[d], Abroad')
    <3>1. x.kind # "HCI" => x.stamp # stamp[d]
      BY <2>1, <2>2, <2>9 DEF CallInv, Active
    <3>. QED BY <2>8, <2>9, <3>1 DEF Clear
  <2>10. \A d \in Callers : Synchronous(d) /\ pc'[d] \in {"add", "full", "enq"} =>
           resp'[d] = NoSkb /\ Clear(stamp'[d], Abroad')
    <3>1. ASSUME NEW d \in Callers, Synchronous(d), pc'[d] \in {"add", "full", "enq"}
          PROVE  resp'[d] = NoSkb /\ Clear(stamp'[d], Abroad')
      <4>1. d # c /\ pc[d] = pc'[d] /\ Active(d)
        BY <2>7, <3>1 DEF Active
      <4>2. resp[d] = NoSkb /\ Clear(stamp[d], Abroad)
        BY <1>2, <3>1, <4>1 DEF Once
      <4>. QED BY <2>1, <2>9, <4>1, <4>2
    <3>. QED BY <3>1
  <2>11. \A d \in Callers : resp'[d] # NoSkb => Clear(stamp'[d], Abroad')
    <3>1. ASSUME NEW d \in Callers, resp[d] # NoSkb PROVE Clear(stamp[d], Abroad')
      <4>1. Active(d) /\ Clear(stamp[d], Abroad)
        BY <1>2, <3>1 DEF CallInv, Active, Once
      <4>2. CASE d = c
        BY <2>2, <2>4, <3>1, <4>1, <4>2 DEF Active
      <4>3. CASE d # c
        BY <2>9, <4>1, <4>3
      <4>. QED BY <4>2, <4>3
    <3>. QED BY <2>1, <3>1
  <2>12. ~leaked' /\ Differ(rxq') /\ Apart(dev', Members(rxq')) /\ \A f, g \in dev' : f.stamp = g.stamp => f = g
    BY <1>2, <2>1 DEF Once
  <2>. QED BY <2>1, <2>5, <2>6, <2>10, <2>11, <2>12 DEF Once, Synchronous
<1>5. ASSUME NEW c \in Callers, UnlinkAndReturn(c) PROVE Once'
  <2>1. /\ resp' = [resp EXCEPT ![c] = NoSkb] /\ pc' = [pc EXCEPT ![c] = "idle"]
        /\ UNCHANGED <<stamp, dev, rxq, txq, leaked>>
    BY <1>5 DEF UnlinkAndReturn
  <2>2. /\ \A d \in Callers \ {c} : resp'[d] = resp[d] /\ pc'[d] = pc[d]
        /\ resp'[c] = NoSkb /\ pc'[c] = "idle"
    BY <1>0, <2>1 DEF TypeOK
  <2>3. Abroad' = Abroad
    BY <2>1 DEF Abroad
  <2>. QED BY <1>2, <2>1, <2>2, <2>3 DEF Once, Synchronous
<1>6. CASE TxCtrlFrm
  <2>0. UNCHANGED <<stamp, resp, pc, rxq, leaked>>
    BY <1>6 DEF TxCtrlFrm
  <2>1. CASE UNCHANGED <<txq, dev>>
    <3>1. Abroad' = Abroad
      BY <2>0, <2>1 DEF Abroad
    <3>. QED BY <1>2, <2>0, <2>1, <3>1 DEF Once, Synchronous
  <2>2. CASE txq # <<>> /\ txq' = Tail(txq)
    <3>. DEFINE x == Head(txq)
    <3>1. /\ x \in Members(txq) /\ Members(txq') \subseteq Members(txq) /\ Differ(txq')
          /\ Apart({x}, Members(txq'))
          /\ dev' = dev \/ (dev' = dev \cup {x} /\ x.kind # "HCI")
      BY <1>a, <1>b, <1>6, <2>2 DEF TxCtrlFrm
    <3>. HIDE DEF x
    <3>2. Abroad' \subseteq Abroad
      BY <2>0, <3>1 DEF Abroad
    <3>3. Apart(Members(txq'), dev' \cup Members(rxq'))
      BY <1>2, <2>0, <3>1 DEF Once, Apart
    <3>4. Apart(dev', Members(rxq'))
      BY <1>2, <2>0, <3>1 DEF Once, Apart
    <3>5. \A f, g \in dev' : f.stamp = g.stamp => f = g
      <4>1. \A f \in dev : f.kind # "HCI"
        BY DEF OwnInv
      <4>. QED BY <1>2, <3>1, <4>1 DEF Once, Apart
    <3>6. \A n : Clear(n, Abroad) => Clear(n, Abroad')
      BY <3>2 DEF Clear
    <3>. QED BY <1>2, <2>0, <3>1, <3>3, <3>4, <3>5, <3>6 DEF Once, Synchronous
  <2>. QED BY <1>6, <2>1, <2>2 DEF TxCtrlFrm
<1>7. ASSUME NEW x \in dev, DevAnswer(x) PROVE Once'
  <2>1. /\ UNCHANGED <<stamp, resp, pc, txq, leaked>> /\ rxq' = Append(rxq, x) /\ dev' = dev \ {x}
    <3>1. dups' # dups + 1
      BY <1>0, <1>1
    <3>. QED BY <1>7, <3>1 DEF DevAnswer
  <2>2. Members(rxq') = Members(rxq) \cup {x} /\ x \in Frame
    BY <1>0, <2>1, SeqMembers
  <2>3. Differ(rxq')
    <3>1. Apart(Members(rxq), {x})
      BY <1>2 DEF Once, Apart
    <3>2. Differ(rxq)
      BY <1>2 DEF Once
    <3>. QED BY <1>0, <2>1, <2>2, <3>1, <3>2, DifferFacts
  <2>4. Apart(Members(txq'), dev' \cup Members(rxq'))
    BY <1>2, <2>1, <2>2 DEF Once, Apart
  <2>5. Apart(dev', Members(rxq'))
    BY <1>2, <2>1, <2>2 DEF Once, Apart
  <2>6. Abroad' = Abroad
    BY <2>1, <2>2 DEF Abroad
  <2>. QED BY <1>2, <2>1, <2>3, <2>4, <2>5, <2>6 DEF Once, Synchronous
<1>8. CASE RxStep
  <2>0. UNCHANGED <<stamp, pc, txq, dev>>
    BY <1>8 DEF RxStep
  <2>1. CASE rxq = <<>>
    <3>1. UNCHANGED <<rxq, resp, leaked>>
      BY <1>8, <2>1 DEF RxStep
    <3>2. Abroad' = Abroad
      BY <2>0, <3>1 DEF Abroad
    <3>. QED BY <1>2, <2>0, <3>1, <3>2 DEF Once, Synchronous
  <2>2. CASE rxq # <<>>
    <3>. DEFINE a == Head(rxq)
    <3>1. /\ a \in Members(rxq) /\ Members(rxq') \subseteq Members(rxq) /\ Differ(rxq')
          /\ Apart({a}, Members(rxq')) /\ RxResponse(a)
      BY <1>a, <1>b, <1>8, <2>2 DEF RxStep
    <3>. HIDE DEF a
    <3>2. a.kind # "HCI"
      BY <3>1 DEF OwnInv
    <3>3. Clear(a.stamp, Abroad')
      BY <1>2, <2>0, <3>1, <3>2 DEF Once, Apart, Clear, Abroad
    <3>4. \A n : Clear(n, Abroad) => Clear(n, Abroad')
      BY <2>0, <3>1 DEF Clear, Abroad
    <3>5. ~Clear(a.stamp, Abroad)
      BY <3>1, <3>2 DEF Clear, Abroad
    <3>6. /\ Apart(Members(txq'), dev' \cup Members(rxq')) /\ Apart(dev', Members(rxq'))
      BY <1>2, <2>0, <3>1 DEF Once, Apart
    <3>7. /\ ~leaked'
          /\ \A c \in Callers : \/ resp'[c] = resp[c]
                                \/ Synchronous(c) /\ stamp[c] = a.stamp
      <4>1. CASE UNCHANGED <<resp, leaked>>
        BY <1>2, <4>1 DEF Once
      <4>2. ASSUME NEW i \in 1 .. Len(pd), Matches(i, a), resp' = [resp EXCEPT ![pd[i]] = a],
                   leaked' = (leaked \/ resp[pd[i]] # NoSkb)
            PROVE  /\ ~leaked'
                   /\ \A c \in Callers : \/ resp'[c] = resp[c]
                                         \/ Synchronous(c) /\ stamp[c] = a.stamp
        <5>1. pd[i] \in Callers /\ InCall(pd[i]) /\ stamp[pd[i]] = a.stamp
          BY <3>1, <4>2, OwnAnswer
        <5>2. resp[pd[i]] = NoSkb
          BY <1>2, <3>5, <5>1 DEF Once
        <5>3. \A c \in Callers \ {pd[i]} : resp'[c] = resp[c]
          BY <1>0, <4>2 DEF TypeOK
        <5>. QED BY <1>2, <4>2, <5>1, <5>2, <5>3 DEF Once, InCall
      <4>. QED BY <3>1, <4>1, <4>2 DEF RxResponse
    <3>8. \A c \in Callers : Synchronous(c) /\ pc'[c] \in {"add", "full", "enq"} =>
            resp'[c] = NoSkb /\ Clear(stamp'[c], Abroad')
      BY <1>2, <2>0, <3>4, <3>5, <3>7 DEF Once
    <3>9. \A c \in Callers : resp'[c] # NoSkb => Clear(stamp'[c], Abroad')
      BY <1>2, <2>0, <3>3, <3>4, <3>7 DEF Once
    <3>. QED BY <1>2, <2>0, <3>1, <3>6, <3>7, <3>8, <3>9 DEF Once, Synchronous
  <2>. QED BY <2>1, <2>2
<1>9. CASE Quiet
  <2>1. /\ UNCHANGED <<stamp, resp, leaked>> /\ dev' \subseteq dev
        /\ Members(txq') \subseteq Members(txq) /\ Members(rxq') \subseteq Members(rxq)
    BY <1>a, <1>9 DEF Quiet
  <2>2. Differ(txq') /\ Differ(rxq')
    BY <1>2, <1>b, <1>9 DEF Quiet, Once
  <2>3. \A n : Clear(n, Abroad) => Clear(n, Abroad')
    BY <2>1 DEF Clear, Abroad
  <2>4. Apart(Members(txq'), dev' \cup Members(rxq')) /\ Apart(dev', Members(rxq'))
    BY <1>2, <2>1 DEF Once, Apart
  <2>5. \A c \in Callers : Synchronous(c) /\ pc'[c] \in {"add", "full", "enq"} => pc[c] \in {"add", "full", "enq"}
    BY <1>9 DEF Quiet
  <2>. QED BY <1>2, <2>1, <2>2, <2>3, <2>4, <2>5 DEF Once, Synchronous
<1>. QED BY <1>3, <1>4, <1>5, <1>6, <1>7, <1>8, <1>9, Steps

(* Without OTA, whose frames all have cookie 0, an answer is overwritten   *)
(* in resp->skb only after the device has repeated one.                    *)
THEOREM LeaksOnlyOnRepeat == Spec => []LeakOnlyOnRepeat
<1>1. Init => OnceInv
  <2>. SUFFICES ASSUME Init PROVE Once
    BY DEF OnceInv
  <2>1. Members(txq) = {} /\ Members(rxq) = {} /\ dev = {} /\ Differ(txq) /\ Differ(rxq)
    BY DEF Init, Members, Differ
  <2>2. Abroad = {}
    BY <2>1 DEF Abroad
  <2>. QED BY <2>1, <2>2 DEF Init, Once, Apart, Clear
<1>2. TInv /\ OnceInv => LeakOnlyOnRepeat
  BY DEF TInv, TypeOK, OnceInv, Once, LeakOnlyOnRepeat
<1>. QED BY <1>1, <1>2, NextOnce, AlwaysCallInv, PTL DEF Spec

-----------------------------------------------------------------------------
(* The command channel implements CmdRpc.                                  *)

(* Every step is a step of CmdRpc, or changes nothing a caller sees.       *)
LEMMA NextRpc ==
  ASSUME OtaCallers = {}, TInv, OwnInv, CallInv, [Next]_vars
  PROVE  [Rpc!Next]_<<CallSeen, AnswerSeen>>
<1>. USE DEF callerVars, allocVars, txVars, rxVars, devVars
<1>. DEFINE Of(c) == IF pc[c] = "idle" \/ ~Synchronous(c) THEN "idle"
                     ELSE IF stamp[c] \in exec THEN "executed" ELSE "called"
            To(c) == IF pc'[c] = "idle" \/ ~Synchronous(c) THEN "idle"
                     ELSE IF stamp'[c] \in exec' THEN "executed" ELSE "called"
<1>0. TypeOK /\ PdInv /\ allocs \in Nat
  BY DEF TInv, TypeOK
<1>a. /\ CallSeen = [c \in Callers |-> Of(c)] /\ CallSeen' = [c \in Callers |-> To(c)]
      /\ AnswerSeen = [c \in Callers |-> resp[c] # NoSkb] /\ AnswerSeen' = [c \in Callers |-> resp'[c] # NoSkb]
  BY DEF CallSeen, AnswerSeen, Synchronous
<1>b. \A c \in Callers : Active(c) => stamp[c] \in 1 .. allocs
  BY DEF OwnInv, Active, Recent
<1>c. ASSUME \A c \in Callers : Of(c) = To(c) PROVE CallSeen' = CallSeen
  BY <1>a, <1>c, Zenon
<1>d. ASSUME \A c \in Callers : resp'[c] # NoSkb <=> resp[c] # NoSkb PROVE AnswerSeen' = AnswerSeen
  BY <1>a, <1>d
<1>1. ASSUME NEW c \in Callers, GetCookie(c) PROVE Rpc!Call(c)
  <2>1. /\ stamp' = [stamp EXCEPT ![c] = allocs + 1] /\ resp' = [resp EXCEPT ![c] = NoSkb]
        /\ pc[c] = "idle" /\ pc' = [pc EXCEPT ![c] = "add"] /\ exec' = exec /\ Synchronous(c)
    BY <1>1 DEF GetCookie
  <2>2. /\ \A d \in Callers \ {c} : stamp'[d] = stamp[d] /\ resp'[d] = resp[d] /\ pc'[d] = pc[d]
        /\ stamp'[c] = allocs + 1 /\ resp'[c] = NoSkb /\ pc'[c] = "add"
    BY <1>0, <2>1 DEF TypeOK
  <2>3. allocs + 1 \notin exec
    BY <1>0 DEF CallInv
  <2>4. Of(c) = "idle" /\ To(c) = "called" /\ \A d \in Callers \ {c} : To(d) = Of(d)
    BY <2>1, <2>2, <2>3
  <2>5. resp[c] = NoSkb
    BY <2>1 DEF CallInv
  <2>6. AnswerSeen' = AnswerSeen
    BY <1>d, <2>2, <2>5
  <2>. HIDE DEF Of, To
  <2>7. CallSeen[c] = "idle" /\ CallSeen' = [CallSeen EXCEPT ![c] = "called"]
    BY <1>a, <2>4
  <2>. QED BY <2>6, <2>7 DEF Rpc!Call
<1>2. ASSUME NEW c \in Callers, UnlinkAndReturn(c) PROVE Rpc!Return(c)
  <2>1. /\ resp' = [resp EXCEPT ![c] = NoSkb] /\ pc[c] = "del" /\ pc' = [pc EXCEPT ![c] = "idle"]
        /\ UNCHANGED <<stamp, exec>>
    BY <1>2 DEF UnlinkAndReturn
  <2>2. /\ \A d \in Callers \ {c} : resp'[d] = resp[d] /\ pc'[d] = pc[d]
        /\ resp'[c] = NoSkb /\ pc'[c] = "idle"
    BY <1>0, <2>1 DEF TypeOK
  <2>3. Synchronous(c)
    BY <1>0, <2>1 DEF PdInv, HciPath
  <2>4. Of(c) # "idle" /\ To(c) = "idle" /\ \A d \in Callers \ {c} : To(d) = Of(d)
    BY <2>1, <2>2, <2>3
  <2>. HIDE DEF Of, To
  <2>5. CallSeen[c] # "idle" /\ CallSeen' = [CallSeen EXCEPT ![c] = "idle"]
    BY <1>a, <2>4
  <2>6. AnswerSeen' = [AnswerSeen EXCEPT ![c] = FALSE]
    BY <1>a, <2>2
  <2>. QED BY <2>5, <2>6 DEF Rpc!Return
<1>3. CASE TxCtrlFrm
  <2>1. UNCHANGED <<stamp, resp, pc>>
    BY <1>3 DEF TxCtrlFrm
  <2>2. AnswerSeen' = AnswerSeen
    BY <2>1, <1>d
  <2>3. PICK n \in Nat : exec' = exec \/ exec' = exec \cup {n}
    <3>1. \A f \in Frame : f.stamp \in Nat
      BY DEF Frame
    <3>2. txq # <<>> => Head(txq) \in Frame
      BY <1>0 DEF TypeOK
    <3>3. \/ exec' = exec \/ (txq # <<>> /\ exec' = exec \cup {Head(txq).stamp})
      BY <1>3 DEF TxCtrlFrm
    <3>4. 0 \in Nat
      OBVIOUS
    <3>. QED BY <3>1, <3>2, <3>3, <3>4
  <2>4. CASE \E c \in Callers : Active(c) /\ stamp[c] = n /\ exec' = exec \cup {n} /\ n \notin exec
    <3>1. PICK c \in Callers : Active(c) /\ stamp[c] = n /\ exec' = exec \cup {n} /\ n \notin exec
      BY <2>4
    <3>2. \A d \in Callers \ {c} : Active(d) => stamp[d] # n
      BY <3>1 DEF CallInv
    <3>3. Of(c) = "called" /\ To(c) = "executed" /\ \A d \in Callers \ {c} : To(d) = Of(d)
      BY <2>1, <3>1, <3>2 DEF Active
    <3>. HIDE DEF Of, To
    <3>4. CallSeen[c] = "called" /\ CallSeen' = [CallSeen EXCEPT ![c] = "executed"]
      BY <1>a, <3>3
    <3>5. Rpc!Execute(c)
      BY <2>2, <3>4 DEF Rpc!Execute
    <3>. QED BY <3>5 DEF Rpc!Next
  <2>5. CASE ~\E c \in Callers : Active(c) /\ stamp[c] = n /\ exec' = exec \cup {n} /\ n \notin exec
    <3>1. \A d \in Callers : Active(d) => (stamp[d] \in exec' <=> stamp[d] \in exec)
      BY <2>3, <2>5
    <3>2. \A d \in Callers : Of(d) = To(d)
      BY <2>1, <3>1 DEF Active
    <3>. QED BY <1>c, <2>2, <3>2
  <2>. QED BY <2>4, <2>5
<1>4. CASE RxStep
  <2>1. UNCHANGED <<stamp, pc, exec>>
    BY <1>4 DEF RxStep
  <2>2. CallSeen' = CallSeen
    BY <1>c, <2>1
  <2>3. CASE resp' = resp
    BY <1>d, <2>2, <2>3
  <2>4. ASSUME NEW a \in Members(rxq), NEW i \in 1 .. Len(pd), Matches(i, a), resp' = [resp EXCEPT ![pd[i]] = a]
        PROVE  Rpc!Answer(pd[i])
    <3>. DEFINE c == pd[i]
    <3>1. c \in Callers /\ InCall(c) /\ stamp[c] = a.stamp /\ a.stamp > 0
      BY <2>4, OwnAnswer
    <3>2. a # NoSkb
      BY <3>1 DEF NoSkb
    <3>3. stamp[c] \in exec
      BY <3>1 DEF CallInv
    <3>4. resp'[c] = a /\ \A d \in Callers \ {c} : resp'[d] = resp[d]
      BY <1>0, <2>4, <3>1 DEF TypeOK
    <3>. HIDE DEF c
    <3>5. Of(c) = "executed"
      BY <3>1, <3>3 DEF InCall
    <3>. HIDE DEF Of, To
    <3>6. CallSeen[c] = "executed"
      BY <1>a, <3>1, <3>5
    <3>7. AnswerSeen' = [AnswerSeen EXCEPT ![c] = TRUE]
      BY <1>a, <3>1, <3>2, <3>4
    <3>8. Rpc!Answer(c)
      BY <2>2, <3>6, <3>7 DEF Rpc!Answer
    <3>. QED BY <3>8 DEF c
  <2>5. \/ resp' = resp
        \/ \E a \in Members(rxq), i \in 1 .. Len(pd) : Matches(i, a) /\ resp' = [resp EXCEPT ![pd[i]] = a]
    <3>1. rxq # <<>> => Head(rxq) \in Members(rxq)
      BY <1>0, SeqMembers DEF TypeOK
    <3>. QED BY <1>4, <3>1 DEF RxStep, RxResponse
  <2>6. \A i \in 1 .. Len(pd) : pd[i] \in Callers
    BY <1>0 DEF TypeOK
  <2>. QED BY <2>3, <2>4, <2>5, <2>6 DEF Rpc!Next
<1>5. CASE Quiet \/ (\E c \in Callers : EnqueueFrame(c)) \/ (\E f \in dev : DevAnswer(f))
  <2>1. UNCHANGED <<stamp, resp, exec>>
    BY <1>5 DEF Quiet, EnqueueFrame, DevAnswer
  <2>2. \A c \in Callers : Synchronous(c) => (pc'[c] = "idle" <=> pc[c] = "idle")
    <3>1. CASE Quiet
      BY <3>1 DEF Quiet
    <3>2. ASSUME NEW c \in Callers, EnqueueFrame(c)
          PROVE  \A d \in Callers : pc'[d] = "idle" <=> pc[d] = "idle"
      BY <1>0, <3>2 DEF EnqueueFrame, TypeOK
    <3>3. ASSUME NEW f \in dev, DevAnswer(f) PROVE pc' = pc
      BY <3>3 DEF DevAnswer
    <3>. QED BY <1>5, <3>1, <3>2, <3>3
  <2>3. \A c \in Callers : Of(c) = To(c)
    BY <2>1, <2>2
  <2>. HIDE DEF Of, To
  <2>. QED BY <1>c, <1>d, <2>1, <2>3
<1>. QED BY <1>1, <1>2, <1>3, <1>4, <1>5, Steps DEF Rpc!Next

(* Where no OTA runs, a caller that holds an answer got it after the       *)
(* device received this very command, in this very call.                   *)
THEOREM ImplementsCmdRpc ==
  ASSUME OtaCallers = {}
  PROVE  Spec => ImplementsRpc
<1>1. Init => Rpc!Init
  BY DEF Init, Rpc!Init, CallSeen, AnswerSeen
<1>2. TInv /\ OwnInv /\ CallInv /\ [Next]_vars => [Rpc!Next]_<<CallSeen, AnswerSeen>>
  BY NextRpc
<1>. QED BY <1>1, <1>2, AlwaysCallInv, PTL DEF Spec, ImplementsRpc, Rpc!Spec
=============================================================================
