---------------------------- MODULE BootDlProofs ----------------------------
(***************************************************************************)
(* The download, for every image, fragment and block size and any number   *)
(* of attempts, losses and refusals.                                       *)
(***************************************************************************)
EXTENDS BootDl, SequenceTheorems, TLAPS

-----------------------------------------------------------------------------
(* Types.                                                                  *)

Stages  == {"ask", "enter", "parse", "frag", "write", "data", "sent", "run", "end"}
Records == [by : Callers, ck : Nat]
Frames  == {f \in [cmd : Cmds, ck : Int, off : Nat, n : Nat] : f.cmd # "DATA" => f.ck \in Nat}
Answers == [cmd : Cmds, ck : Nat, rsp : {0, 1, 255}]
Windows == [off : Nat, n : Nat]

ChanTypes ==
  /\ cookie \in Nat /\ lastck \in Nat
  /\ pd \in Seq(Records) /\ txq \in Seq(Frames)
  /\ ans \in [Callers -> Answers \cup {NoAns}]

DevTypes ==
  /\ air \subseteq Answers /\ expect \in Windows /\ devck \in Nat
  /\ mem \in [Addresses -> Int] /\ up \in BOOLEAN /\ dups \in Nat /\ raced \in BOOLEAN

LoopTypes ==
  at \in Stages /\ sdio \in BOOLEAN /\ copy \in Int /\ off \in Nat /\ xfer \in Nat

BTypes == ChanTypes /\ DevTypes /\ LoopTypes

-----------------------------------------------------------------------------
(* hgic_bootdl_fragment_proc.                                              *)

(* Quotient and remainder.                                                 *)
LEMMA DivMod ==
  ASSUME NEW b \in Nat \ {0}, NEW x \in Nat
  PROVE  /\ x \div b \in Nat /\ x % b \in 0 .. b - 1
         /\ x = b * (x \div b) + (x % b)
OBVIOUS

(* ALIGN rounds up to the next multiple, by less than one block, and not   *)
(* past another multiple.                                                  *)
LEMMA AlignFacts ==
  ASSUME NEW n \in Nat \ {0}, NEW b \in Nat \ {0}
  PROVE  /\ ALIGN(n, b) \in Nat /\ n <= ALIGN(n, b) /\ ALIGN(n, b) <= n + b - 1
         /\ \A k \in Nat : n <= k * b => ALIGN(n, b) <= k * b
<1>. DEFINE q == (n + b - 1) \div b
            r == (n + b - 1) % b
<1>1. q \in Nat /\ r \in 0 .. b - 1 /\ n + b - 1 = b * q + r
  OBVIOUS
<1>2. ALIGN(n, b) = q * b
  BY DEF ALIGN
<1>. HIDE DEF q, r
<1>3. q * b \in Nat /\ n <= q * b /\ q * b <= n + b - 1
  BY <1>1
<1>4. ASSUME NEW k \in Nat, n <= k * b, q > k PROVE FALSE
  <2>1. q - (k + 1) \in Nat /\ q = (q - (k + 1)) + (k + 1)
    BY <1>1, <1>4
  <2>. DEFINE d == q - (k + 1)
  <2>2. d * b \in Nat /\ q * b = d * b + k * b + b
    BY <2>1
  <2>. HIDE DEF d
  <2>3. q * b >= k * b + b
    BY <2>2
  <2>. QED BY <1>3, <1>4, <2>3
<1>5. ASSUME NEW k \in Nat, n <= k * b PROVE q * b <= k * b
  <2>1. q <= k
    BY <1>1, <1>4, <1>5
  <2>2. k - q \in Nat /\ k = (k - q) + q
    BY <1>1, <2>1
  <2>. DEFINE d == k - q
  <2>3. d * b \in Nat /\ k * b = d * b + q * b
    BY <2>2, <1>1
  <2>. QED BY <2>3, <1>1
<1>. QED BY <1>2, <1>3, <1>5

(* A fragment is never empty, never longer than the bus takes, and reaches *)
(* past the end of the image by less than a block, on SDIO only.           *)
LEMMA FragmentFacts ==
  ASSUME sdio \in BOOLEAN, NEW n \in Nat \ {0}
  PROVE  /\ FragmentProc(n) \in 1 .. FragSize
         /\ FragmentProc(n) <= n + (IF sdio THEN BlkSize - 1 ELSE 0)
<1>1. PICK k \in Nat : FragSize = k * BlkSize
  <2>. DEFINE k == FragSize \div BlkSize
  <2>1. k \in Nat /\ FragSize = BlkSize * k + (FragSize % BlkSize)
    BY FragAssumption, DivMod
  <2>. HIDE DEF k
  <2>2. FragSize = k * BlkSize
    BY <2>1, FragAssumption
  <2>. QED BY <2>1, <2>2
<1>2. CASE sdio /\ n < FragSize
  <2>1. FragmentProc(n) = ALIGN(n, BlkSize)
    BY <1>2 DEF FragmentProc
  <2>2. /\ ALIGN(n, BlkSize) \in Nat /\ n <= ALIGN(n, BlkSize)
        /\ ALIGN(n, BlkSize) <= n + BlkSize - 1
        /\ (n <= k * BlkSize => ALIGN(n, BlkSize) <= k * BlkSize)
    BY AlignFacts, FragAssumption
  <2>3. n <= k * BlkSize
    BY <1>1, <1>2, FragAssumption
  <2>. QED BY <1>1, <1>2, <2>1, <2>2, <2>3, FragAssumption
<1>3. CASE ~(sdio /\ n < FragSize)
  BY <1>3, FragAssumption DEF FragmentProc
<1>. QED BY <1>2, <1>3

-----------------------------------------------------------------------------
(* pd_list.                                                                *)

Linked(p) == {p[i] : i \in 1 .. Len(p)}
OneEach(p) == \A i, j \in 1 .. Len(p) : p[i].by = p[j].by => i = j

(* list_add of a record of a caller that has none.                         *)
LEMMA AddFacts ==
  ASSUME NEW p \in Seq(Records), NEW r \in Records, OneEach(p), \A x \in Linked(p) : x.by # r.by
  PROVE  /\ <<r>> \o p \in Seq(Records) /\ OneEach(<<r>> \o p)
         /\ Linked(<<r>> \o p) = Linked(p) \cup {r}
<1>. DEFINE s == <<r>> \o p
<1>1. <<r>> \in Seq(Records) /\ Len(<<r>>) = 1 /\ <<r>>[1] = r
  OBVIOUS
<1>2. s \in Seq(Records) /\ Len(s) = Len(p) + 1 /\ s[1] = r /\ \A i \in 1 .. Len(p) : s[i + 1] = p[i]
  BY <1>1
<1>. HIDE DEF s
<1>3. \A i \in 1 .. Len(s) : i = 1 \/ (i - 1 \in 1 .. Len(p) /\ s[i] = p[i - 1])
  BY <1>2
<1>4. \A i \in 1 .. Len(p) : p[i].by # r.by
  BY DEF Linked
<1>5. OneEach(s)
  <2>. SUFFICES ASSUME NEW i \in 1 .. Len(s), NEW j \in 1 .. Len(s), s[i].by = s[j].by
                PROVE  i = j
    BY DEF OneEach
  <2>1. CASE i = 1 \/ j = 1
    BY <2>1, <1>2, <1>3, <1>4
  <2>2. CASE i # 1 /\ j # 1
    <3>1. i - 1 \in 1 .. Len(p) /\ s[i] = p[i - 1] /\ j - 1 \in 1 .. Len(p) /\ s[j] = p[j - 1]
      BY <2>2, <1>3
    <3>2. i - 1 = j - 1
      BY <3>1 DEF OneEach
    <3>. QED BY <3>2
  <2>. QED BY <2>1, <2>2
<1>6. Linked(s) = Linked(p) \cup {r}
  <2>0. Len(s) \in Nat /\ Len(p) \in Nat
    BY <1>2
  <2>1. ASSUME NEW i \in 1 .. Len(s) PROVE s[i] \in Linked(p) \cup {r}
    <3>1. CASE i = 1
      BY <3>1, <1>2
    <3>2. CASE i - 1 \in 1 .. Len(p) /\ s[i] = p[i - 1]
      BY <3>2, Zenon DEF Linked
    <3>. QED BY <3>1, <3>2, <1>3
  <2>2. ASSUME NEW i \in 1 .. Len(p) PROVE p[i] \in Linked(s)
    <3>1. i + 1 \in 1 .. Len(s) /\ s[i + 1] = p[i]
      BY <1>2, <2>0
    <3>. QED BY <3>1, Zenon DEF Linked
  <2>3. r \in Linked(s)
    <3>1. 1 \in 1 .. Len(s)
      BY <1>2, <2>0
    <3>. QED BY <3>1, <1>2, Zenon DEF Linked
  <2>4. Linked(s) \subseteq Linked(p) \cup {r}
    BY <2>1, Zenon DEF Linked
  <2>5. Linked(p) \subseteq Linked(s)
    BY <2>2, Zenon DEF Linked
  <2>. QED BY <2>3, <2>4, <2>5
<1>. QED BY <1>2, <1>5, <1>6 DEF s

(* list_del of the i-th record.                                            *)
LEMMA DelFacts ==
  ASSUME NEW p \in Seq(Records), OneEach(p), NEW i \in 1 .. Len(p), NEW d,
         d = [j \in 1 .. Len(p) - 1 |-> IF j < i THEN p[j] ELSE p[j + 1]]
  PROVE  /\ d \in Seq(Records) /\ OneEach(d)
         /\ Linked(d) = {r \in Linked(p) : r.by # p[i].by}
<1>1. Len(p) - 1 \in Nat
  OBVIOUS
<1>2. \A j \in 1 .. Len(p) - 1 :
        /\ j < i => d[j] = p[j]
        /\ ~(j < i) => d[j] = p[j + 1]
        /\ j \in 1 .. Len(p) /\ j + 1 \in 1 .. Len(p)
        /\ d[j] \in Records
  OBVIOUS
<1>3. d \in Seq(Records) /\ Len(d) = Len(p) - 1
  BY <1>1, <1>2
<1>4. OneEach(d)
  BY <1>2, <1>3 DEF OneEach
<1>5. ASSUME NEW r \in Linked(d) PROVE r \in Linked(p) /\ r.by # p[i].by
  <2>1. PICK j \in 1 .. Len(p) - 1 : d[j] = r
    BY <1>3 DEF Linked
  <2>2. PICK k \in 1 .. Len(p) : k # i /\ p[k] = r
    BY <1>2, <2>1
  <2>. QED BY <2>2 DEF Linked, OneEach
<1>6. ASSUME NEW r \in Linked(p), r.by # p[i].by PROVE r \in Linked(d)
  <2>1. PICK k \in 1 .. Len(p) : p[k] = r /\ k # i
    BY <1>6 DEF Linked
  <2>2. CASE k < i
    BY <1>2, <1>3, <2>1, <2>2 DEF Linked
  <2>3. CASE k > i
    <3>1. k - 1 \in 1 .. Len(p) - 1 /\ ~(k - 1 < i) /\ (k - 1) + 1 = k
      BY <2>3
    <3>2. d[k - 1] = p[(k - 1) + 1]
      BY <1>2, <3>1
    <3>. QED BY <1>3, <2>1, <3>1, <3>2 DEF Linked
  <2>. QED BY <2>1, <2>2, <2>3
<1>. QED BY <1>3, <1>4, <1>5, <1>6

-----------------------------------------------------------------------------
(* The first half of the inductive invariant: it needs no assumption about *)
(* what the module repeats or when detect_work asks.                       *)

Calling == {"enter", "write", "sent", "run"}
Moving  == {"write", "data", "sent"}
Slack   == IF sdio THEN BlkSize - 1 ELSE 0

(* Where the download is in the image.                                     *)
Fragmented ==
  /\ at \in Moving \cup {"frag"} => off <= ImageLen + Slack /\ copy = ImageLen - off
  /\ at \in Moving => copy > 0 /\ xfer \in 1 .. FragSize /\ xfer <= copy + Slack
  /\ at = "run" => off >= ImageLen

(* A caller has one record while it waits, and none otherwise; while no    *)
(* ENTER of detect_work interferes, the download's has last_cookie.        *)
Pending ==
  /\ OneEach(pd)
  /\ at \in Calling <=> \E r \in Linked(pd) : r.by = "init"
  /\ ~raced /\ at \in {"write", "sent"} =>
       \A r \in Linked(pd) : r.by = "init" => r.ck = lastck

(* No cookie is used before it is given out.                               *)
Numbered ==
  /\ cookie = 0 => txq = <<>> /\ at = "ask"
  /\ devck <= cookie /\ (cookie > 0 => devck < cookie)
  /\ at \in Moving => lastck < cookie
  /\ \A i \in 1 .. Len(txq) : txq[i].ck < cookie
  /\ \A a \in air : a.ck < cookie

Base == BTypes /\ Fragmented /\ Pending /\ Numbered

(* A command is queued and its record linked.                              *)
LEMMA SendCmdFacts ==
  ASSUME ChanTypes, OneEach(pd), NEW c \in Callers, NEW m \in Cmds, NEW a \in Nat, NEW n \in Nat,
         SendCmd(c, m, a, n), \A r \in Linked(pd) : r.by # c
  PROVE  /\ ChanTypes' /\ OneEach(pd') /\ cookie' = cookie + 1 /\ lastck' = cookie
         /\ Linked(pd') = Linked(pd) \cup {[by |-> c, ck |-> cookie]}
         /\ Len(txq') = Len(txq) + 1 /\ \A i \in 1 .. Len(txq) : txq'[i] = txq[i]
         /\ txq'[Len(txq) + 1] = [cmd |-> m, ck |-> cookie, off |-> a, n |-> n]
         /\ ans'[c] = NoAns
<1>. DEFINE r == [by |-> c, ck |-> cookie]
            f == [cmd |-> m, ck |-> cookie, off |-> a, n |-> n]
<1>1. r \in Records /\ r.by = c /\ f \in Frames
  BY DEF ChanTypes, Records, Frames
<1>2. pd' = <<r>> \o pd /\ txq' = Append(txq, f) /\ cookie' = cookie + 1 /\ lastck' = cookie
  BY DEF SendCmd
<1>3. ans' = [ans EXCEPT ![c] = NoAns]
  BY DEF SendCmd
<1>. HIDE DEF r, f
<1>4. pd' \in Seq(Records) /\ OneEach(pd') /\ Linked(pd') = Linked(pd) \cup {r}
  BY <1>1, <1>2, AddFacts DEF ChanTypes
<1>5. txq' \in Seq(Frames) /\ Len(txq') = Len(txq) + 1 /\ txq'[Len(txq) + 1] = f
  BY <1>1, <1>2 DEF ChanTypes
<1>6. \A i \in 1 .. Len(txq) : txq'[i] = txq[i]
  BY <1>1, <1>2 DEF ChanTypes
<1>7. ans' \in [Callers -> Answers \cup {NoAns}] /\ ans'[c] = NoAns
  BY <1>3 DEF ChanTypes
<1>8. cookie' \in Nat /\ lastck' \in Nat
  BY <1>2 DEF ChanTypes
<1>. QED BY <1>2, <1>4, <1>5, <1>6, <1>7, <1>8 DEF ChanTypes, r, f

(* A data frame is queued and its record linked, under last_cookie.        *)
LEMMA SendDataFacts ==
  ASSUME ChanTypes, OneEach(pd), NEW a \in Nat, NEW n \in Nat,
         SendData(a, n), \A r \in Linked(pd) : r.by # "init"
  PROVE  /\ ChanTypes' /\ OneEach(pd') /\ cookie' = cookie /\ lastck' = lastck
         /\ Linked(pd') = Linked(pd) \cup {[by |-> "init", ck |-> lastck]}
         /\ Len(txq') = Len(txq) + 1 /\ \A i \in 1 .. Len(txq) : txq'[i] = txq[i]
         /\ txq'[Len(txq) + 1] = [cmd |-> "DATA", ck |-> -1, off |-> a, n |-> n]
         /\ ans'["init"] = NoAns
<1>. DEFINE r == [by |-> "init", ck |-> lastck]
            f == [cmd |-> "DATA", ck |-> -1, off |-> a, n |-> n]
<1>1. r \in Records /\ r.by = "init" /\ f \in Frames
  BY DEF ChanTypes, Records, Frames, Callers, Cmds
<1>2. pd' = <<r>> \o pd /\ txq' = Append(txq, f) /\ cookie' = cookie /\ lastck' = lastck
  BY DEF SendData
<1>3. ans' = [ans EXCEPT !["init"] = NoAns]
  BY DEF SendData
<1>. HIDE DEF r, f
<1>4. pd' \in Seq(Records) /\ OneEach(pd') /\ Linked(pd') = Linked(pd) \cup {r}
  BY <1>1, <1>2, AddFacts DEF ChanTypes
<1>5. txq' \in Seq(Frames) /\ Len(txq') = Len(txq) + 1 /\ txq'[Len(txq) + 1] = f
  BY <1>1, <1>2 DEF ChanTypes
<1>6. \A i \in 1 .. Len(txq) : txq'[i] = txq[i]
  BY <1>1, <1>2 DEF ChanTypes
<1>7. ans' \in [Callers -> Answers \cup {NoAns}] /\ ans'["init"] = NoAns
  BY <1>3 DEF ChanTypes, Callers
<1>. QED BY <1>2, <1>4, <1>5, <1>6, <1>7 DEF ChanTypes, r, f

(* A record is unlinked.                                                   *)
LEMMA UnlinkFacts ==
  ASSUME ChanTypes, OneEach(pd), NEW c \in Callers, Unlink(c)
  PROVE  /\ ChanTypes' /\ OneEach(pd') /\ UNCHANGED <<cookie, lastck, txq>>
         /\ Linked(pd') = {r \in Linked(pd) : r.by # c}
         /\ \E r \in Linked(pd) : r.by = c
         /\ ans' = [ans EXCEPT ![c] = NoAns]
<1>1. PICK i \in 1 .. Len(pd) :
        pd[i].by = c /\ pd' = [j \in 1 .. Len(pd) - 1 |-> IF j < i THEN pd[j] ELSE pd[j + 1]]
  BY DEF Unlink
<1>2. pd' \in Seq(Records) /\ OneEach(pd') /\ Linked(pd') = {r \in Linked(pd) : r.by # c}
  <2>1. /\ pd' \in Seq(Records) /\ OneEach(pd')
        /\ Linked(pd') = {r \in Linked(pd) : r.by # pd[i].by}
    BY <1>1, DelFacts, Zenon DEF ChanTypes
  <2>. QED BY <1>1, <2>1
<1>3. ans' = [ans EXCEPT ![c] = NoAns] /\ UNCHANGED <<cookie, lastck, txq>>
  BY DEF Unlink
<1>4. ans' \in [Callers -> Answers \cup {NoAns}]
  BY <1>3 DEF ChanTypes
<1>. QED BY <1>1, <1>2, <1>3, <1>4 DEF ChanTypes, Linked

(* The oldest frame leaves.                                                *)
LEMMA TailFacts ==
  ASSUME NEW q \in Seq(Frames), q # <<>>
  PROVE  /\ Head(q) \in Frames /\ Head(q) = q[1] /\ Len(q) \in Nat \ {0} /\ Tail(q) \in Seq(Frames)
         /\ Len(Tail(q)) = Len(q) - 1
         /\ \A i \in 1 .. Len(Tail(q)) : i + 1 \in 1 .. Len(q) /\ Tail(q)[i] = q[i + 1]
<1>1. Len(q) \in Nat \ {0}
  BY EmptySeq
<1>2. Head(q) \in Frames /\ Tail(q) \in Seq(Frames) /\ Len(Tail(q)) = Len(q) - 1
  BY HeadTailProperties
<1>3. \A i \in 1 .. Len(Tail(q)) : Tail(q)[i] = q[i + 1]
  BY HeadTailProperties
<1>. QED BY <1>1, <1>2, <1>3

(* The steps that change only the channel and where the download is.       *)
LEMMA ChannelBase ==
  ASSUME Base, UNCHANGED <<air, expect, devck, mem, up, dups, raced>>,
         \/ /\ at \notin Calling /\ at' \in Calling
            /\ \/ \E m \in Cmds, a \in Nat, n \in Nat : SendCmd("init", m, a, n)
               \/ at \in Moving /\ SendData(off, xfer)
         \/ at \in Calling /\ at' \in Stages \ Calling /\ Unlink("init") /\ (at' = "data" => at = "write")
         \/ at \notin Calling /\ at \notin {"ask", "end"} /\ at' \in Stages \ (Calling \cup Moving)
            /\ UNCHANGED chanVars
  PROVE  ChanTypes' /\ DevTypes' /\ Pending' /\ Numbered'
<1>1. ChanTypes /\ OneEach(pd) /\ DevTypes /\ at \in Stages /\ "init" \in Callers
  BY DEF Base, BTypes, Pending, LoopTypes, Callers
<1>2. DevTypes'
  BY <1>1 DEF DevTypes
<1>3. CASE at \notin Calling /\ at' \in Calling /\ \E m \in Cmds, a \in Nat, n \in Nat : SendCmd("init", m, a, n)
  <2>1. PICK m \in Cmds, a \in Nat, n \in Nat : SendCmd("init", m, a, n)
    BY <1>3
  <2>2. \A r \in Linked(pd) : r.by # "init"
    BY <1>3 DEF Base, Pending
  <2>a. /\ ChanTypes' /\ OneEach(pd') /\ cookie' = cookie + 1 /\ lastck' = cookie
        /\ Linked(pd') = Linked(pd) \cup {[by |-> "init", ck |-> cookie]}
        /\ Len(txq') = Len(txq) + 1 /\ \A i \in 1 .. Len(txq) : txq'[i] = txq[i]
        /\ txq'[Len(txq) + 1] = [cmd |-> m, ck |-> cookie, off |-> a, n |-> n]
    BY <1>1, <2>1, <2>2, SendCmdFacts
  <2>3. /\ ChanTypes' /\ OneEach(pd') /\ cookie' = cookie + 1 /\ lastck' = cookie
        /\ Len(txq') = Len(txq) + 1 /\ \A i \in 1 .. Len(txq) : txq'[i] = txq[i]
        /\ txq'[Len(txq) + 1].ck = cookie
    BY <2>a
  <2>b. /\ \A r \in Linked(pd') : r.by = "init" => r.ck = cookie
        /\ \E r \in Linked(pd') : r.by = "init"
    <3>. DEFINE r0 == [by |-> "init", ck |-> cookie]
    <3>1. r0.by = "init" /\ r0.ck = cookie /\ Linked(pd') = Linked(pd) \cup {r0}
      BY <2>a
    <3>. HIDE DEF r0
    <3>. QED BY <3>1, <2>2
  <2>4. Pending'
    BY <1>3, <2>3, <2>b DEF Pending
  <2>5. Numbered'
    <3>1. Len(txq) \in Nat /\ cookie \in Nat /\ devck \in Nat
      BY <1>1 DEF ChanTypes, DevTypes
    <3>a. \A i \in 1 .. Len(txq) : txq[i].ck \in Int
      <4>1. \A f \in Frames : f.ck \in Int
        BY DEF Frames
      <4>2. \A i \in 1 .. Len(txq) : txq[i] \in Frames
        BY <1>1 DEF ChanTypes
      <4>. QED BY <4>1, <4>2
    <3>2. \A e \in air : e.ck \in Nat
      BY <1>1 DEF DevTypes, Answers
    <3>3. devck <= cookie /\ (\A e \in air : e.ck < cookie) /\ \A i \in 1 .. Len(txq) : txq[i].ck < cookie
      BY DEF Base, Numbered
    <3>4. \A i \in 1 .. Len(txq') : i \in 1 .. Len(txq) \/ i = Len(txq) + 1
      BY <2>3, <3>1
    <3>5. \A i \in 1 .. Len(txq') : txq'[i].ck < cookie'
      BY <2>3, <3>1, <3>a, <3>3, <3>4
    <3>. QED BY <2>3, <3>1, <3>2, <3>3, <3>5 DEF Numbered
  <2>. QED BY <1>2, <2>3, <2>4, <2>5
<1>4. CASE at \notin Calling /\ at' \in Calling /\ at \in Moving /\ SendData(off, xfer)
  <2>1. off \in Nat /\ xfer \in Nat
    BY DEF Base, BTypes, LoopTypes
  <2>2. \A r \in Linked(pd) : r.by # "init"
    BY <1>4 DEF Base, Pending
  <2>a. /\ ChanTypes' /\ OneEach(pd') /\ cookie' = cookie /\ lastck' = lastck
        /\ Linked(pd') = Linked(pd) \cup {[by |-> "init", ck |-> lastck]}
        /\ Len(txq') = Len(txq) + 1 /\ \A i \in 1 .. Len(txq) : txq'[i] = txq[i]
        /\ txq'[Len(txq) + 1] = [cmd |-> "DATA", ck |-> -1, off |-> off, n |-> xfer]
    BY <1>1, <1>4, <2>1, <2>2, SendDataFacts, Zenon
  <2>3. /\ ChanTypes' /\ OneEach(pd') /\ cookie' = cookie /\ lastck' = lastck
        /\ Len(txq') = Len(txq) + 1 /\ \A i \in 1 .. Len(txq) : txq'[i] = txq[i]
        /\ txq'[Len(txq) + 1].ck = -1
    BY <2>a
  <2>b. /\ \A r \in Linked(pd') : r.by = "init" => r.ck = lastck
        /\ \E r \in Linked(pd') : r.by = "init"
    <3>. DEFINE r0 == [by |-> "init", ck |-> lastck]
    <3>1. r0.by = "init" /\ r0.ck = lastck /\ Linked(pd') = Linked(pd) \cup {r0}
      BY <2>a
    <3>. HIDE DEF r0
    <3>. QED BY <3>1, <2>2
  <2>4. Pending'
    BY <1>4, <2>3, <2>b DEF Pending
  <2>5. Numbered'
    <3>1. Len(txq) \in Nat /\ cookie \in Nat /\ cookie # 0 /\ -1 < cookie
      BY <1>1, <1>4 DEF ChanTypes, Base, Numbered, Moving
    <3>2. lastck < cookie
      BY <1>4 DEF Base, Numbered
    <3>3. \A i \in 1 .. Len(txq') : i \in 1 .. Len(txq) \/ i = Len(txq) + 1
      BY <2>3, <3>1
    <3>4. \A i \in 1 .. Len(txq') : txq'[i].ck < cookie'
      BY <2>3, <3>1, <3>3 DEF Base, Numbered
    <3>. QED BY <2>3, <3>1, <3>2, <3>4 DEF Base, Numbered
  <2>. QED BY <1>2, <2>3, <2>4, <2>5
<1>5. CASE at \in Calling /\ at' \in Stages \ Calling /\ Unlink("init") /\ (at' = "data" => at = "write")
  <2>1. /\ ChanTypes' /\ OneEach(pd') /\ UNCHANGED <<cookie, lastck, txq>>
        /\ Linked(pd') = {r \in Linked(pd) : r.by # "init"}
    BY <1>1, <1>5, UnlinkFacts
  <2>2. Pending'
    BY <1>5, <2>1 DEF Pending, Calling
  <2>3. Numbered'
    BY <1>5, <2>1 DEF Base, Numbered, Calling, Moving, Stages
  <2>. QED BY <1>2, <2>1, <2>2, <2>3
<1>6. CASE /\ at \notin Calling /\ at \notin {"ask", "end"} /\ at' \in Stages \ (Calling \cup Moving)
           /\ UNCHANGED chanVars
  <2>1. ChanTypes'
    BY <1>1, <1>6 DEF ChanTypes, chanVars
  <2>2. Pending'
    BY <1>6 DEF Base, Pending, chanVars, Calling
  <2>3. Numbered'
    BY <1>6 DEF Base, Numbered, chanVars
  <2>. QED BY <1>2, <2>1, <2>2, <2>3
<1>. QED BY <1>3, <1>4, <1>5, <1>6

(* An attempt ends where the loop of hgicf_download_fw is tested.          *)
LEMMA AttemptEnds ==
  ASSUME NEW st, NEW e, EndAttempt(st, e)
  PROVE  at' \in {"ask", "end"} /\ sdio' = sdio
BY DEF EndAttempt

(* Where the download is, for the steps of the download.                   *)
LEMMA DownloadLoop ==
  ASSUME Base, DownloadStep
  PROVE  LoopTypes' /\ Fragmented' /\ sdio' = sdio
<1>. USE DEF Stages, Moving
<1>1. at \in Stages /\ sdio \in BOOLEAN /\ copy \in Int /\ off \in Nat /\ xfer \in Nat
  BY DEF Base, BTypes, LoopTypes
<1>2. ImageLen \in Nat \ {0} /\ BlkSize \in Nat \ {0} /\ FragSize \in Nat \ {0} /\ Slack \in 0 .. BlkSize - 1
  BY ImageAssumption, FragAssumption, <1>1 DEF Slack
<1>3. sdio' = sdio => Slack' = Slack
  BY DEF Slack
<1>4. ASSUME UNCHANGED <<sdio, copy, off, xfer>>, at' \in Stages \ (Moving \cup {"frag", "run"})
      PROVE  LoopTypes' /\ Fragmented'
  BY <1>1, <1>4 DEF LoopTypes, Fragmented
<1>5. CASE AskEnter
  BY <1>4, <1>5 DEF AskEnter, loopVars, fragVars
<1>6. CASE EnterDone
  <2>1. at' \in {"parse", "ask", "end"} /\ sdio' = sdio
    BY <1>6, AttemptEnds DEF EnterDone
  <2>. QED BY <1>4, <1>6, <2>1 DEF EnterDone, fragVars
<1>7. CASE ParseFw
  <2>1. CASE at' = "frag" /\ copy' = ImageLen /\ off' = 0 /\ UNCHANGED <<loopVars, xfer>>
    BY <1>1, <1>2, <1>3, <2>1 DEF LoopTypes, Fragmented, loopVars
  <2>2. CASE EndAttempt(status, Failed) /\ UNCHANGED fragVars
    BY <1>4, <2>2, AttemptEnds DEF fragVars
  <2>. QED BY <1>7, <2>1, <2>2 DEF ParseFw
<1>8. CASE SendFragment
  <2>1. CASE xfer' = FragmentProc(copy) /\ at' = "write" /\ UNCHANGED <<loopVars, copy, off>>
    <3>1. copy \in Nat \ {0} /\ off <= ImageLen + Slack /\ copy = ImageLen - off
      BY <1>1, <1>8 DEF SendFragment, Base, Fragmented
    <3>2. FragmentProc(copy) \in 1 .. FragSize /\ FragmentProc(copy) <= copy + Slack
      BY <1>1, <3>1, FragmentFacts DEF Slack
    <3>3. sdio' = sdio /\ copy' = copy /\ off' = off /\ xfer' \in 1 .. FragSize /\ xfer' <= copy + Slack
      BY <2>1, <3>2 DEF loopVars
    <3>. QED BY <1>1, <1>2, <1>3, <2>1, <3>1, <3>3 DEF LoopTypes, Fragmented
  <2>2. CASE EndAttempt(status, Failed) /\ UNCHANGED fragVars
    BY <1>4, <2>2, AttemptEnds DEF fragVars
  <2>. QED BY <1>8, <2>1, <2>2 DEF SendFragment
<1>9. CASE WriteDone
  <2>1. UNCHANGED fragVars /\ at = "write"
    BY <1>9 DEF WriteDone
  <2>2. CASE at' = "data" /\ UNCHANGED loopVars
    BY <1>1, <1>3, <2>1, <2>2 DEF Base, LoopTypes, Fragmented, loopVars, fragVars
  <2>3. CASE \E r : EndAttempt(status, r)
    BY <1>4, <2>1, <2>3, AttemptEnds DEF fragVars
  <2>. QED BY <1>9, <2>2, <2>3 DEF WriteDone
<1>10. CASE SendFw
  BY <1>1, <1>3, <1>10 DEF SendFw, Base, LoopTypes, Fragmented, loopVars, fragVars
<1>11. CASE DataDone
  <2>1. at = "sent"
    BY <1>11 DEF DataDone
  <2>2. CASE at' = "frag" /\ off' = off + xfer /\ copy' = copy - xfer /\ UNCHANGED <<loopVars, xfer>>
    <3>1. copy = ImageLen - off /\ xfer <= copy + Slack
      BY <2>1 DEF Base, Fragmented
    <3>2. sdio' = sdio /\ xfer' = xfer /\ off' \in Nat /\ copy' \in Int
      BY <1>1, <2>2 DEF loopVars
    <3>3. off' <= ImageLen + Slack /\ copy' = ImageLen - off'
      BY <1>1, <1>2, <2>2, <3>1
    <3>. QED BY <1>1, <1>3, <2>2, <3>2, <3>3 DEF LoopTypes, Fragmented
  <2>3. CASE (\E r : EndAttempt(status, r)) /\ UNCHANGED fragVars
    BY <1>4, <2>3, AttemptEnds DEF fragVars
  <2>. QED BY <1>11, <2>2, <2>3 DEF DataDone
<1>12. CASE SendRun
  <2>1. off >= ImageLen
    BY <1>1, <1>2, <1>12 DEF SendRun, Base, Fragmented
  <2>. QED BY <1>1, <1>12, <2>1 DEF SendRun, LoopTypes, Fragmented, loopVars, fragVars
<1>13. CASE RunDone
  BY <1>4, <1>13, AttemptEnds DEF RunDone, fragVars
<1>. QED
  BY <1>5, <1>6, <1>7, <1>8, <1>9, <1>10, <1>11, <1>12, <1>13 DEF DownloadStep

(* Every step of the download keeps the first half of the invariant.       *)
LEMMA DownloadBase == ASSUME Base, DownloadStep PROVE Base'
<1>. USE DEF Stages, Calling, Moving
<1>1. UNCHANGED <<air, expect, devck, mem, up, dups, raced>>
  BY DEF DownloadStep, AskEnter, EnterDone, ParseFw, SendFragment, WriteDone, SendFw, DataDone,
         SendRun, RunDone, devVars
<1>2. off \in Nat /\ ImageLen \in Nat /\ "ENTER" \in Cmds /\ "WRITE" \in Cmds /\ "RUN" \in Cmds
  BY ImageAssumption DEF Base, BTypes, LoopTypes, Cmds
<1>3. CASE AskEnter
  BY <1>1, <1>2, <1>3, ChannelBase, DownloadLoop DEF AskEnter, Base, BTypes
<1>4. CASE EnterDone
  <2>1. at' \in {"parse", "ask", "end"}
    BY <1>4, AttemptEnds DEF EnterDone
  <2>. QED BY <1>1, <1>4, <2>1, ChannelBase, DownloadLoop DEF EnterDone, Base, BTypes
<1>5. CASE ParseFw
  <2>1. at' \in {"frag", "ask", "end"}
    BY <1>5, AttemptEnds DEF ParseFw
  <2>. QED BY <1>1, <1>5, <2>1, ChannelBase, DownloadLoop DEF ParseFw, Base, BTypes
<1>6. CASE SendFragment
  <2>1. CASE at' = "write"
    <3>1. PICK n : SendCmd("init", "WRITE", off, n) /\
                   (n = FragmentProc(copy) \/ n = FragmentProc(copy) + 1024)
      BY <1>6, <2>1, AttemptEnds DEF SendFragment
    <3>2. copy \in Nat \ {0} /\ sdio \in BOOLEAN
      BY <1>6 DEF SendFragment, Base, BTypes, LoopTypes
    <3>3. n \in Nat
      BY <3>1, <3>2, FragmentFacts, FragAssumption
    <3>. QED BY <1>1, <1>2, <1>6, <2>1, <3>1, <3>3, ChannelBase, DownloadLoop DEF SendFragment, Base, BTypes
  <2>2. CASE at' # "write"
    <3>1. at' \in {"ask", "end"} /\ UNCHANGED chanVars
      BY <1>6, <2>2, AttemptEnds DEF SendFragment
    <3>. QED BY <1>1, <1>6, <3>1, ChannelBase, DownloadLoop DEF SendFragment, Base, BTypes
  <2>. QED BY <2>1, <2>2
<1>7. CASE WriteDone
  <2>1. at' \in {"data", "ask", "end"}
    BY <1>7, AttemptEnds DEF WriteDone
  <2>. QED BY <1>1, <1>7, <2>1, ChannelBase, DownloadLoop DEF WriteDone, Base, BTypes
<1>8. CASE SendFw
  BY <1>1, <1>8, ChannelBase, DownloadLoop DEF SendFw, Base, BTypes
<1>9. CASE DataDone
  <2>1. at' \in {"frag", "ask", "end"}
    BY <1>9, AttemptEnds DEF DataDone
  <2>. QED BY <1>1, <1>9, <2>1, ChannelBase, DownloadLoop DEF DataDone, Base, BTypes
<1>10. CASE SendRun
  BY <1>1, <1>2, <1>10, ChannelBase, DownloadLoop DEF SendRun, Base, BTypes
<1>11. CASE RunDone
  <2>1. at' \in {"ask", "end"}
    BY <1>11, AttemptEnds DEF RunDone
  <2>. QED BY <1>1, <1>11, <2>1, ChannelBase, DownloadLoop DEF RunDone, Base, BTypes
<1>. QED
  BY <1>3, <1>4, <1>5, <1>6, <1>7, <1>8, <1>9, <1>10, <1>11 DEF DownloadStep

(* So does every other step.                                               *)
LEMMA OtherBase ==
  ASSUME Base, DetectEnter \/ DetectDone \/ TxLose \/ ModuleCmd \/ ModuleData \/ \E a \in air : Receive(a)
  PROVE  Base'
<1>1. ChanTypes /\ DevTypes /\ LoopTypes /\ Fragmented /\ OneEach(pd) /\ Pending /\ Numbered
  BY DEF Base, BTypes, Pending
<1>2. UNCHANGED <<at, sdio, copy, off, xfer>>
  BY DEF DetectEnter, DetectDone, TxLose, ModuleCmd, ModuleData, Receive, loopVars, fragVars
<1>3. LoopTypes' /\ Fragmented'
  BY <1>1, <1>2 DEF LoopTypes, Fragmented, Slack
<1>4. Len(txq) \in Nat /\ cookie \in Nat /\ devck \in Nat /\ lastck \in Nat
  BY <1>1 DEF ChanTypes, DevTypes
<1>5. (\A a \in air : a.ck \in Nat) /\ \A i \in 1 .. Len(txq) : txq[i] \in Frames
  BY <1>1 DEF DevTypes, Answers, ChanTypes
<1>6. \A f \in Frames : f.ck \in Int /\ f.off \in Nat /\ f.n \in Nat /\ f.cmd \in Cmds
  BY DEF Frames
<1>7. CASE DetectEnter
  <2>1. /\ SendCmd("detect", "ENTER", 0, 0) /\ "detect" \in Callers /\ "ENTER" \in Cmds
        /\ UNCHANGED <<air, expect, devck, mem, up, dups>>
        /\ raced' = (raced \/ at \in {"write", "data", "sent"})
    BY <1>7 DEF DetectEnter, Callers, Cmds, devVars
  <2>2. \A r \in Linked(pd) : r.by # "detect"
    BY <1>7 DEF DetectEnter, Linked
  <2>3. /\ ChanTypes' /\ OneEach(pd') /\ cookie' = cookie + 1 /\ lastck' = cookie
        /\ Linked(pd') = Linked(pd) \cup {[by |-> "detect", ck |-> cookie]}
        /\ Len(txq') = Len(txq) + 1 /\ \A i \in 1 .. Len(txq) : txq'[i] = txq[i]
        /\ txq'[Len(txq) + 1] = [cmd |-> "ENTER", ck |-> cookie, off |-> 0, n |-> 0]
    BY <1>1, <2>1, <2>2, SendCmdFacts
  <2>4. DevTypes'
    BY <1>1, <2>1 DEF DevTypes
  <2>5. Pending'
    <3>. DEFINE r0 == [by |-> "detect", ck |-> cookie]
    <3>1. r0.by # "init" /\ Linked(pd') = Linked(pd) \cup {r0}
      BY <2>3
    <3>. HIDE DEF r0
    <3>2. OneEach(pd') /\ at' = at /\ (~raced' => at \notin {"write", "sent"})
      BY <1>2, <2>1, <2>3
    <3>. QED BY <1>1, <3>1, <3>2 DEF Pending
  <2>6. Numbered'
    <3>1. txq'[Len(txq) + 1].ck = cookie
      BY <2>3
    <3>2. \A i \in 1 .. Len(txq') : i \in 1 .. Len(txq) \/ i = Len(txq) + 1
      BY <1>4, <2>3
    <3>3. \A i \in 1 .. Len(txq) : txq[i].ck \in Int /\ txq[i].ck < cookie
      BY <1>1, <1>5, <1>6 DEF Numbered
    <3>4. \A i \in 1 .. Len(txq') : txq'[i].ck < cookie'
      BY <1>4, <2>3, <3>1, <3>2, <3>3
    <3>5. devck <= cookie /\ \A a \in air : a.ck \in Nat /\ a.ck < cookie
      BY <1>1, <1>5 DEF Numbered
    <3>. QED BY <1>2, <1>4, <2>1, <2>3, <3>4, <3>5 DEF Numbered
  <2>. QED BY <1>3, <2>3, <2>4, <2>5, <2>6 DEF Base, BTypes
<1>8. CASE DetectDone
  <2>1. Unlink("detect") /\ "detect" \in Callers /\ UNCHANGED <<air, expect, devck, mem, up, dups, raced>>
    BY <1>8 DEF DetectDone, Callers, devVars
  <2>2. /\ ChanTypes' /\ OneEach(pd') /\ UNCHANGED <<cookie, lastck, txq>>
        /\ Linked(pd') = {r \in Linked(pd) : r.by # "detect"}
    BY <1>1, <2>1, UnlinkFacts
  <2>3. DevTypes' /\ Numbered'
    BY <1>1, <1>2, <2>1, <2>2 DEF DevTypes, Numbered
  <2>4. Pending'
    BY <1>1, <1>2, <2>1, <2>2 DEF Pending
  <2>. QED BY <1>3, <2>2, <2>3, <2>4 DEF Base, BTypes
<1>9. ASSUME txq # <<>>, txq' = Tail(txq), UNCHANGED <<cookie, lastck, pd, ans, raced>>, DevTypes',
             \A a \in air' : a \in air \/ a.ck = devck \/ a.ck = Head(txq).ck,
             devck' = devck \/ (devck' = Head(txq).ck)
      PROVE  Base'
  <2>1. /\ Head(txq) \in Frames /\ Head(txq) = txq[1] /\ Len(txq) \in Nat \ {0} /\ Tail(txq) \in Seq(Frames)
        /\ Len(Tail(txq)) = Len(txq) - 1
        /\ \A i \in 1 .. Len(Tail(txq)) : i + 1 \in 1 .. Len(txq) /\ Tail(txq)[i] = txq[i + 1]
    BY <1>1, <1>9, TailFacts DEF ChanTypes
  <2>2. ChanTypes' /\ Pending'
    BY <1>1, <1>2, <1>9, <2>1 DEF ChanTypes, Pending
  <2>3. cookie # 0 /\ devck < cookie /\ Head(txq).ck < cookie
    BY <1>1, <1>4, <1>9, <2>1 DEF Numbered
  <2>4. \A i \in 1 .. Len(txq') : txq'[i].ck < cookie'
    BY <1>1, <1>9, <2>1 DEF Numbered
  <2>5. \A a \in air' : a.ck < cookie'
    BY <1>1, <1>9, <2>3 DEF Numbered
  <2>6. devck' <= cookie' /\ (cookie' > 0 => devck' < cookie')
    <3>1. Head(txq).ck \in Int
      BY <1>6, <2>1
    <3>. QED BY <1>4, <1>9, <2>3, <3>1
  <2>7. Numbered'
    BY <1>1, <1>2, <1>9, <2>3, <2>4, <2>5, <2>6 DEF Numbered
  <2>. QED BY <1>3, <1>9, <2>2, <2>7 DEF Base, BTypes
<1>10. CASE TxLose
  <2>1. DevTypes'
    BY <1>1, <1>10 DEF TxLose, DevTypes, devVars
  <2>. QED BY <1>9, <1>10, <2>1 DEF TxLose, devVars
<1>11. CASE ModuleCmd
  <2>. DEFINE f == Head(txq)
  <2>1. txq # <<>> /\ f.cmd # "DATA" /\ devck' = f.ck /\ txq' = Tail(txq)
        /\ UNCHANGED <<cookie, lastck, pd, ans, mem, dups, raced>>
    BY <1>11 DEF ModuleCmd
  <2>2. f \in Frames /\ f = txq[1] /\ 1 \in 1 .. Len(txq)
    BY <1>1, <2>1, TailFacts DEF ChanTypes
  <2>3. PICK rsp \in {0, 1, 255} : air' = air \cup {[cmd |-> f.cmd, ck |-> f.ck, rsp |-> rsp]}
    BY <1>11 DEF ModuleCmd, Answer, OK, ErrCmd, InFw
  <2>4. up' \in BOOLEAN /\ (expect' = expect \/ expect' = NoWrite \/ expect' = [off |-> f.off, n |-> f.n])
    BY <1>1, <1>11 DEF ModuleCmd, DevTypes
  <2>5. expect' \in Windows
    BY <1>1, <1>6, <2>2, <2>4 DEF Windows, NoWrite, DevTypes
  <2>. HIDE DEF f
  <2>6. f.cmd \in Cmds /\ f.ck \in Nat /\ devck' \in Nat
    BY <2>1, <2>2 DEF Frames
  <2>7. air' \subseteq Answers
    BY <1>1, <2>3, <2>6 DEF DevTypes, Answers
  <2>8. \A a \in air' : a \in air \/ a.ck = f.ck
    BY <2>3
  <2>9. DevTypes'
    BY <1>1, <2>1, <2>4, <2>5, <2>6, <2>7 DEF DevTypes
  <2>. QED BY <1>9, <2>1, <2>8, <2>9 DEF f
<1>12. CASE ModuleData
  <2>. DEFINE f == Head(txq)
  <2>1. txq # <<>> /\ txq' = Tail(txq)
        /\ UNCHANGED <<cookie, lastck, pd, ans, devck, up, dups, raced>>
    BY <1>12 DEF ModuleData
  <2>2. f \in Frames
    BY <1>1, <2>1, TailFacts DEF ChanTypes
  <2>3. CASE expect.n > 0 /\ ~up
    <3>1. /\ mem' = [a \in Addresses |->
                       IF a - expect.off \in 0 .. f.n - 1 /\ a - expect.off < expect.n
                       THEN f.off + (a - expect.off) ELSE mem[a]]
          /\ expect' = NoWrite /\ air' = air \cup {[cmd |-> "DATA", ck |-> devck, rsp |-> 0]}
      BY <1>12, <2>3 DEF ModuleData, Answer, OK
    <3>2. expect.off \in Nat /\ mem \in [Addresses -> Int] /\ f.off \in Nat /\ Addresses \subseteq Int
      BY <1>1, <1>6, <2>2, ImageAssumption, FragAssumption DEF DevTypes, Windows, Addresses
    <3>. HIDE DEF f
    <3>3. mem' \in [Addresses -> Int] /\ expect' \in Windows
      BY <3>1, <3>2 DEF Windows, NoWrite
    <3>4. air' \subseteq Answers /\ \A a \in air' : a \in air \/ a.ck = devck
      BY <1>1, <1>4, <3>1 DEF DevTypes, Answers, Cmds
    <3>5. DevTypes'
      BY <1>1, <2>1, <3>3, <3>4 DEF DevTypes
    <3>. QED BY <1>9, <2>1, <3>4, <3>5
  <2>4. CASE ~(expect.n > 0 /\ ~up)
    <3>1. UNCHANGED <<mem, expect, air>>
      BY <1>12, <2>4 DEF ModuleData
    <3>2. DevTypes'
      BY <1>1, <2>1, <3>1 DEF DevTypes
    <3>. QED BY <1>9, <2>1, <3>1, <3>2
  <2>. QED BY <2>3, <2>4
<1>13. CASE \E a \in air : Receive(a)
  <2>1. PICK a \in air : Receive(a)
    BY <1>13
  <2>2. /\ UNCHANGED <<cookie, lastck, pd, txq, expect, devck, mem, up, raced>>
        /\ (air' = air \ {a} \/ air' = air) /\ (dups' = dups \/ dups' = dups + 1)
    BY <2>1 DEF Receive, devVars
  <2>3. ans' = ans \/ \E i \in 1 .. Len(pd) : ans' = [ans EXCEPT ![pd[i].by] = a]
    BY <2>1 DEF Receive
  <2>4. ans' \in [Callers -> Answers \cup {NoAns}]
    BY <1>1, <2>3 DEF ChanTypes, DevTypes
  <2>5. ChanTypes' /\ DevTypes'
    BY <1>1, <2>2, <2>4 DEF ChanTypes, DevTypes
  <2>6. Pending' /\ Numbered'
    BY <1>1, <1>2, <2>2 DEF Pending, Numbered
  <2>. QED BY <1>3, <2>5, <2>6 DEF Base, BTypes
<1>. QED BY <1>7, <1>8, <1>10, <1>11, <1>12, <1>13

(* The first half of the invariant holds throughout.                       *)
LEMMA BaseHolds == Spec => []Base
<1>1. Init => Base
  <2>. SUFFICES ASSUME Init PROVE Base
    OBVIOUS
  <2>1. ImageLen \in Nat /\ BlkSize \in Nat \ {0} /\ Len(pd) = 0 /\ Len(txq) = 0
    BY ImageAssumption, FragAssumption DEF Init
  <2>2. pd \in Seq(Records) /\ txq \in Seq(Frames)
    BY DEF Init
  <2>3. ans \in [Callers -> Answers \cup {NoAns}] /\ mem \in [Addresses -> Int]
    BY DEF Init
  <2>4. BTypes
    <3>1. ChanTypes
      BY <2>2, <2>3 DEF Init, ChanTypes
    <3>2. expect \in Windows /\ air \subseteq Answers /\ devck \in Nat /\ dups \in Nat
      BY DEF Init, Windows, NoWrite
    <3>3. up \in BOOLEAN /\ raced \in BOOLEAN
      BY DEF Init
    <3>4. LoopTypes
      BY DEF Init, LoopTypes, Stages
    <3>. QED BY <2>3, <3>1, <3>2, <3>3, <3>4 DEF BTypes, DevTypes
  <2>5. Fragmented /\ Numbered
    BY <2>1 DEF Init, Fragmented, Moving, Numbered
  <2>6. Pending
    BY <2>1 DEF Init, Pending, OneEach, Linked, Calling
  <2>. QED BY <2>4, <2>5, <2>6 DEF Base
<1>2. Base /\ [Next]_vars => Base'
  <2>. SUFFICES ASSUME Base, [Next]_vars PROVE Base'
    OBVIOUS
  <2>1. CASE UNCHANGED vars
    BY <2>1 DEF vars, loopVars, fragVars, chanVars, devVars, Base, BTypes, ChanTypes, DevTypes,
                LoopTypes, Fragmented, Slack, Pending, Numbered
  <2>2. CASE Next
    BY <2>2, DownloadBase, OtherBase DEF Next
  <2>. QED BY <2>1, <2>2
<1>. QED BY <1>1, <1>2, PTL DEF Spec

(* A fragment is within the image and the slack of the last block, and     *)
(* within what the bus takes: ReadBounded, for every size.                 *)
THEOREM ReadStaysBounded == Spec => []ReadBounded
<1>1. Base => ReadBounded
  <2>. SUFFICES ASSUME Base, at \in Moving
                PROVE  0 < xfer /\ xfer <= FragSize /\ off + xfer <= ImageLen + Slack
    BY DEF ReadBounded, Moving, Slack
  <2>1. /\ off \in Nat /\ xfer \in 1 .. FragSize /\ xfer <= copy + Slack /\ copy = ImageLen - off
        /\ FragSize \in Nat /\ ImageLen \in Nat /\ Slack \in Nat
    BY ImageAssumption, FragAssumption DEF Base, BTypes, LoopTypes, Fragmented, Slack
  <2>. QED BY <2>1
<1>. QED BY <1>1, BaseHolds, PTL

-----------------------------------------------------------------------------
(* The second half: while nothing is repeated and no ENTER of detect_work  *)
(* comes between, an answer under last_cookie says what it seems to say.   *)

Loading == {"frag"} \cup Moving

(* In the memory w, every image byte below m is at its address.            *)
Right(w, m) == \A a \in Addresses : a < m => w[a] = a

Expecting == expect.off = off /\ expect.n >= xfer
NoEcho    == \A a \in air : a.ck # lastck

(* A data frame is the oldest on its way, and meets only the window of its *)
(* own WRITE.                                                              *)
DataFirst ==
  \A i \in 1 .. Len(txq) :
    txq[i].cmd = "DATA" => i = 1 /\ (expect.n > 0 => expect.off = txq[i].off)

Written ==
  /\ at \in Loading => Right(mem, off)
  /\ up \/ at = "run" \/ (\E i \in 1 .. Len(txq) : txq[i].cmd = "RUN") => Right(mem, ImageLen)

(* The last frame on its way.                                              *)
WriteQueued ==
  /\ txq[Len(txq)].cmd = "WRITE" /\ txq[Len(txq)].ck = lastck
  /\ txq[Len(txq)].off = off /\ txq[Len(txq)].n >= xfer
  /\ \A i \in 1 .. Len(txq) - 1 : txq[i].ck # lastck
  /\ devck # lastck /\ NoEcho /\ ans["init"] = NoAns

(* A WRITE is on its way, or its one answer is, or was received.           *)
WriteSent ==
  /\ txq # <<>> => WriteQueued
  /\ \A a \in air : a.ck = lastck =>
       ans["init"] = NoAns /\ (a.rsp = OK => Expecting /\ devck = lastck)
  /\ \A a, b \in air : a.ck = lastck /\ b.ck = lastck => a = b
  /\ ans["init"] # NoAns /\ ans["init"].rsp = OK => Expecting /\ devck = lastck

DataReady == txq = <<>> /\ devck = lastck /\ Expecting /\ NoEcho

(* The data is on its way, or was written, or is lost; only in the second  *)
(* case can there be an answer.                                            *)
DataSent ==
  /\ txq # <<>> =>
       /\ Len(txq) = 1 /\ txq[1].cmd = "DATA" /\ txq[1].off = off /\ txq[1].n = xfer
       /\ devck = lastck /\ Expecting /\ NoEcho /\ ans["init"] = NoAns
  /\ ans["init"] # NoAns \/ ~NoEcho => Right(mem, off + xfer)

Sound ==
  /\ DataFirst /\ Written
  /\ at = "write" => WriteSent
  /\ at = "data" => DataReady
  /\ at = "sent" => DataSent

(* The steps of the download.                                              *)
LEMMA DownloadSound ==
  ASSUME Base, Sound, ~raced, DownloadStep
  PROVE  Sound'
<1>. USE DEF Stages, Calling, Moving, Loading
<1>1. /\ ChanTypes /\ DevTypes /\ OneEach(pd) /\ Pending /\ Numbered /\ Fragmented
      /\ at \in Stages /\ "init" \in Callers /\ ImageLen \in Nat /\ off \in Nat /\ xfer \in Nat
  BY ImageAssumption DEF Base, BTypes, Pending, LoopTypes, Callers
<1>2. UNCHANGED <<air, expect, devck, mem, up, dups, raced>>
  BY DEF DownloadStep, AskEnter, EnterDone, ParseFw, SendFragment, WriteDone, SendFw, DataDone,
         SendRun, RunDone, devVars
<1>3. ASSUME UNCHANGED txq, at' \in Stages \ {"write", "sent", "run"}, at' = "data" => DataReady',
             at' \in Loading => Right(mem, off')
      PROVE  Sound'
  BY <1>2, <1>3 DEF Sound, DataFirst, Written
<1>4. ASSUME NEW m \in {"ENTER", "WRITE", "RUN"}, NEW a \in Nat, NEW n \in Nat, SendCmd("init", m, a, n),
             at \notin Calling, at' \in Loading => Right(mem, off'),
             at' = "run" \/ m = "RUN" => Right(mem, ImageLen)
      PROVE  /\ DataFirst' /\ Written' /\ lastck' = cookie /\ cookie' = cookie + 1 /\ ans'["init"] = NoAns
             /\ Len(txq) \in Nat /\ Len(txq') = Len(txq) + 1 /\ \A i \in 1 .. Len(txq) : txq'[i] = txq[i]
             /\ txq'[Len(txq) + 1] = [cmd |-> m, ck |-> cookie, off |-> a, n |-> n]
  <2>1. \A r \in Linked(pd) : r.by # "init"
    BY <1>1, <1>4 DEF Pending
  <2>2. /\ lastck' = cookie /\ cookie' = cookie + 1 /\ ans'["init"] = NoAns
        /\ Len(txq') = Len(txq) + 1 /\ \A i \in 1 .. Len(txq) : txq'[i] = txq[i]
        /\ txq'[Len(txq) + 1] = [cmd |-> m, ck |-> cookie, off |-> a, n |-> n]
    BY <1>1, <1>4, <2>1, SendCmdFacts DEF Cmds
  <2>3. txq'[Len(txq) + 1].cmd = m /\ m # "DATA" /\ Len(txq) \in Nat
    BY <1>1, <1>4, <2>2 DEF ChanTypes
  <2>4. \A i \in 1 .. Len(txq') : i \in 1 .. Len(txq) \/ i = Len(txq) + 1
    BY <2>2, <2>3
  <2>5. DataFirst'
    BY <1>2, <2>2, <2>3, <2>4 DEF Sound, DataFirst
  <2>6. Written'
    BY <1>2, <1>4, <2>2, <2>3, <2>4 DEF Sound, Written
  <2>. QED BY <2>2, <2>3, <2>5, <2>6
<1>5. CASE AskEnter
  BY <1>4, <1>5 DEF AskEnter, Sound
<1>6. CASE EnterDone
  <2>1. at' \in {"parse", "ask", "end"} /\ UNCHANGED txq
    BY <1>6, AttemptEnds DEF EnterDone, Unlink
  <2>. QED BY <1>3, <2>1
<1>7. CASE ParseFw
  <2>1. UNCHANGED txq
    BY <1>7 DEF ParseFw, chanVars
  <2>2. CASE at' = "frag" /\ off' = 0
    <3>1. Right(mem, 0)
      BY ImageAssumption, FragAssumption DEF Right, Addresses
    <3>. QED BY <1>3, <2>1, <2>2, <3>1
  <2>3. CASE EndAttempt(status, Failed)
    BY <1>3, <2>1, <2>3, AttemptEnds
  <2>. QED BY <1>7, <2>2, <2>3 DEF ParseFw
<1>8. CASE SendFragment
  <2>1. CASE EndAttempt(status, Failed) /\ UNCHANGED chanVars
    BY <1>3, <2>1, AttemptEnds DEF chanVars
  <2>2. CASE /\ xfer' = FragmentProc(copy) /\ at' = "write" /\ off' = off
             /\ SendCmd("init", "WRITE", off,
                        IF sdio THEN FragmentProc(copy) ELSE FragmentProc(copy) + 1024)
    <3>1. at = "frag" /\ copy \in Nat \ {0} /\ sdio \in BOOLEAN
      BY <1>8 DEF SendFragment, Base, BTypes, LoopTypes
    <3>2. FragmentProc(copy) \in Nat
      BY <3>1, FragmentFacts, FragAssumption
    <3>3. PICK n \in Nat : n >= xfer' /\ SendCmd("init", "WRITE", off, n)
      BY <2>2, <3>1, <3>2
    <3>4. /\ DataFirst' /\ Written' /\ lastck' = cookie /\ cookie' = cookie + 1 /\ ans'["init"] = NoAns
          /\ Len(txq) \in Nat /\ Len(txq') = Len(txq) + 1 /\ \A i \in 1 .. Len(txq) : txq'[i] = txq[i]
          /\ txq'[Len(txq) + 1] = [cmd |-> "WRITE", ck |-> cookie, off |-> off, n |-> n]
      BY <1>1, <1>4, <2>2, <3>1, <3>3 DEF Sound, Written
    <3>5. cookie \in Nat /\ devck \in Nat /\ cookie # 0 /\ devck < cookie
      BY <1>1, <3>1 DEF Numbered, ChanTypes, DevTypes
    <3>6. \A i \in 1 .. Len(txq) : txq[i].ck \in Int /\ txq[i].ck < cookie
      <4>1. \A f \in Frames : f.ck \in Int
        BY DEF Frames
      <4>2. \A i \in 1 .. Len(txq) : txq[i] \in Frames
        BY <1>1 DEF ChanTypes
      <4>. QED BY <1>1, <4>1, <4>2 DEF Numbered
    <3>7. \A a \in air : a.ck \in Nat /\ a.ck < cookie
      BY <1>1 DEF Numbered, DevTypes, Answers
    <3>8. NoEcho' /\ devck' # lastck'
      BY <1>2, <3>4, <3>5, <3>7 DEF NoEcho
    <3>9. WriteQueued'
      <4>1. \A i \in 1 .. Len(txq') - 1 : i \in 1 .. Len(txq)
        BY <3>4
      <4>2. \A i \in 1 .. Len(txq') - 1 : txq'[i].ck # lastck'
        BY <3>4, <3>5, <3>6, <4>1
      <4>3. /\ txq'[Len(txq')].cmd = "WRITE" /\ txq'[Len(txq')].ck = lastck'
            /\ txq'[Len(txq')].off = off' /\ txq'[Len(txq')].n >= xfer'
        BY <2>2, <3>3, <3>4
      <4>. QED BY <3>4, <3>8, <4>2, <4>3 DEF WriteQueued
    <3>10. WriteSent'
      BY <3>4, <3>8, <3>9 DEF WriteSent, NoEcho
    <3>. QED BY <2>2, <3>4, <3>10 DEF Sound
  <2>. QED BY <1>8, <2>1, <2>2 DEF SendFragment
<1>9. CASE WriteDone
  <2>1. at = "write" /\ UNCHANGED <<txq, lastck, fragVars>>
    BY <1>9 DEF WriteDone, Unlink
  <2>2. CASE CmdResult("WRITE") = OK
    <3>1. ans["init"] # NoAns /\ ans["init"].rsp = OK
      BY <2>2 DEF CmdResult, Failed, ErrPacket, OK
    <3>2. DataReady
      BY <2>1, <3>1 DEF Sound, WriteSent, WriteQueued, DataReady, NoEcho
    <3>3. DataReady'
      BY <1>2, <2>1, <3>2 DEF DataReady, NoEcho, Expecting, fragVars
    <3>4. at' = "data" /\ Right(mem, off')
      BY <1>9, <2>1, <2>2 DEF WriteDone, Sound, Written, fragVars
    <3>. QED BY <1>3, <2>1, <3>3, <3>4
  <2>3. CASE CmdResult("WRITE") # OK
    <3>1. at' \in {"ask", "end"}
      BY <1>9, <2>3, AttemptEnds DEF WriteDone
    <3>. QED BY <1>3, <2>1, <3>1
  <2>. QED BY <2>2, <2>3
<1>10. CASE SendFw
  <2>1. at = "data" /\ at' = "sent" /\ SendData(off, xfer) /\ UNCHANGED fragVars /\ DataReady
    BY <1>10 DEF SendFw, Sound
  <2>2. \A r \in Linked(pd) : r.by # "init"
    BY <1>1, <2>1 DEF Pending
  <2>3. /\ lastck' = lastck /\ ans'["init"] = NoAns /\ Len(txq') = Len(txq) + 1
        /\ \A i \in 1 .. Len(txq) : txq'[i] = txq[i]
        /\ txq'[Len(txq) + 1] = [cmd |-> "DATA", ck |-> -1, off |-> off, n |-> xfer]
    BY <1>1, <2>1, <2>2, SendDataFacts, Zenon
  <2>4. Len(txq) = 0 /\ txq = <<>>
    BY <2>1 DEF DataReady
  <2>5. Len(txq') = 1 /\ txq'[1].cmd = "DATA" /\ txq'[1].off = off /\ txq'[1].n = xfer
    BY <2>3, <2>4
  <2>6. devck' = lastck' /\ Expecting' /\ NoEcho'
    BY <1>2, <2>1, <2>3 DEF DataReady, Expecting, NoEcho, fragVars
  <2>7. DataSent'
    BY <2>1, <2>3, <2>5, <2>6 DEF DataSent, fragVars
  <2>8. DataFirst'
    BY <2>1, <2>5, <2>6 DEF DataFirst, Expecting, fragVars
  <2>9. Written'
    <3>1. \A i \in 1 .. Len(txq') : txq'[i].cmd # "RUN"
      BY <2>5
    <3>. QED BY <1>2, <2>1, <3>1 DEF Sound, Written, fragVars
  <2>. QED BY <2>1, <2>7, <2>8, <2>9 DEF Sound
<1>11. CASE DataDone
  <2>1. at = "sent" /\ UNCHANGED txq
    BY <1>11 DEF DataDone, Unlink
  <2>2. CASE DataResult = OK
    <3>1. ans["init"] # NoAns
      BY <2>2 DEF DataResult, Failed, OK
    <3>2. Right(mem, off + xfer)
      BY <2>1, <3>1 DEF Sound, DataSent
    <3>3. at' = "frag" /\ off' = off + xfer
      BY <1>11, <2>2 DEF DataDone
    <3>. QED BY <1>3, <2>1, <3>2, <3>3
  <2>3. CASE DataResult # OK
    <3>1. at' \in {"ask", "end"}
      BY <1>11, <2>3, AttemptEnds DEF DataDone
    <3>. QED BY <1>3, <2>1, <3>1
  <2>. QED BY <2>2, <2>3
<1>12. CASE SendRun
  <2>1. at = "frag" /\ at' = "run" /\ SendCmd("init", "RUN", 0, ImageLen) /\ copy <= 0
    BY <1>12 DEF SendRun
  <2>2. off >= ImageLen
    BY <1>1, <2>1 DEF Fragmented
  <2>3. Right(mem, ImageLen)
    <3>1. \A a \in Addresses : a \in Int /\ (a < ImageLen => a < off)
      BY <1>1, <2>2, FragAssumption DEF Addresses
    <3>. QED BY <2>1, <3>1 DEF Sound, Written, Right
  <2>. QED BY <1>1, <1>4, <2>1, <2>3 DEF Sound
<1>13. CASE RunDone
  <2>1. at' \in {"ask", "end"} /\ UNCHANGED txq
    BY <1>13, AttemptEnds DEF RunDone, Unlink
  <2>. QED BY <1>3, <2>1
<1>. QED
  BY <1>5, <1>6, <1>7, <1>8, <1>9, <1>10, <1>11, <1>12, <1>13 DEF DownloadStep

(* The data of a frame that meets its own window is written to its own     *)
(* addresses: what was right stays right, and the fragment becomes right.  *)
LEMMA WriteFacts ==
  ASSUME NEW w \in [Addresses -> Int], NEW o \in Nat, NEW k \in Nat, NEW n \in Nat, NEW v,
         v = [a \in Addresses |-> IF a - o \in 0 .. n - 1 /\ a - o < k THEN o + (a - o) ELSE w[a]]
  PROVE  /\ \A m : Right(w, m) => Right(v, m)
         /\ Right(w, o) /\ n <= k => Right(v, o + n)
<1>1. Addresses \subseteq Nat
  BY ImageAssumption, FragAssumption DEF Addresses
<1>2. \A a \in Addresses : v[a] = a \/ (v[a] = w[a] /\ (n <= k => a < o \/ ~(a < o + n)))
  BY <1>1
<1>. QED BY <1>2 DEF Right

(* The steps of detect_work, the bus and the module.                       *)
LEMMA OtherSound ==
  ASSUME Base, Sound, ~raced', dups' = 0,
         DetectEnter \/ DetectDone \/ TxLose \/ ModuleCmd \/ ModuleData \/ \E a \in air : Receive(a)
  PROVE  Sound'
<1>. USE DEF Stages, Moving, Loading
<1>1. /\ ChanTypes /\ DevTypes /\ OneEach(pd) /\ Pending /\ Numbered /\ Fragmented
      /\ at \in Stages /\ ImageLen \in Nat /\ off \in Nat /\ xfer \in Nat
  BY ImageAssumption DEF Base, BTypes, Pending, LoopTypes
<1>2. UNCHANGED <<at, off, xfer>>
  BY DEF DetectEnter, DetectDone, TxLose, ModuleCmd, ModuleData, Receive, loopVars, fragVars
<1>3. Len(txq) \in Nat /\ (txq # <<>> => Len(txq) > 0) /\ (at \in Moving => xfer > 0)
  BY <1>1, EmptySeq DEF ChanTypes, Fragmented
<1>4. CASE DetectEnter
  <2>1. /\ SendCmd("detect", "ENTER", 0, 0) /\ "detect" \in Callers /\ "ENTER" \in Cmds
        /\ UNCHANGED <<air, expect, devck, mem, up>> /\ at \notin Moving
    BY <1>4 DEF DetectEnter, Callers, Cmds, devVars
  <2>2. \A r \in Linked(pd) : r.by # "detect"
    BY <1>4 DEF DetectEnter, Linked
  <2>3. /\ Len(txq') = Len(txq) + 1 /\ \A i \in 1 .. Len(txq) : txq'[i] = txq[i]
        /\ txq'[Len(txq) + 1] = [cmd |-> "ENTER", ck |-> cookie, off |-> 0, n |-> 0]
    BY <1>1, <2>1, <2>2, SendCmdFacts
  <2>4. txq'[Len(txq) + 1].cmd = "ENTER"
    BY <2>3
  <2>5. \A i \in 1 .. Len(txq') : i \in 1 .. Len(txq) \/ i = Len(txq) + 1
    BY <1>3, <2>3
  <2>. QED BY <1>2, <2>1, <2>3, <2>4, <2>5 DEF Sound, DataFirst, Written
<1>5. CASE DetectDone
  <2>1. /\ UNCHANGED <<air, expect, devck, mem, up, lastck, txq>>
        /\ ans' = [ans EXCEPT !["detect"] = NoAns]
    BY <1>5 DEF DetectDone, Unlink, devVars
  <2>2. ans'["init"] = ans["init"]
    BY <1>1, <2>1 DEF ChanTypes, Callers
  <2>. QED BY <1>2, <2>1, <2>2
           DEF Sound, DataFirst, Written, WriteSent, WriteQueued, DataReady, DataSent, Expecting, NoEcho
<1>6. CASE \E a \in air : Receive(a)
  <2>1. PICK a \in air : Receive(a)
    BY <1>6
  <2>2. UNCHANGED <<lastck, pd, txq, expect, devck, mem, up, raced>>
    BY <2>1 DEF Receive, devVars
  <2>3. air' = air \ {a}
    BY <1>1, <2>1 DEF Receive, DevTypes
  <2>4. \/ ans'["init"] = ans["init"]
        \/ \E i \in 1 .. Len(pd) : pd[i].by = "init" /\ pd[i].ck = a.ck /\ ans'["init"] = a
    BY <1>1, <2>1 DEF Receive, ChanTypes, Callers
  <2>5. at \in {"write", "sent"} =>
          ans'["init"] = ans["init"] \/ (ans'["init"] = a /\ a.ck = lastck)
    BY <1>1, <2>2, <2>4 DEF Pending, Linked
  <2>6. DataFirst' /\ Written'
    BY <1>2, <2>2 DEF Sound, DataFirst, Written
  <2>7. ASSUME at = "write" PROVE WriteSent'
    <3>1. WriteSent
      BY <2>7 DEF Sound
    <3>2. CASE a.ck = lastck
      <4>1. txq = <<>> /\ ans["init"] = NoAns /\ NoEcho'
        BY <2>2, <2>3, <3>1, <3>2 DEF WriteSent, WriteQueued, NoEcho
      <4>. QED BY <1>2, <2>2, <2>5, <2>7, <3>1, <3>2, <4>1 DEF WriteSent, NoEcho, Expecting
    <3>3. CASE a.ck # lastck
      <4>1. ans'["init"] = ans["init"]
        BY <2>5, <2>7, <3>3
      <4>. QED BY <1>2, <2>2, <2>3, <3>1, <4>1 DEF WriteSent, WriteQueued, NoEcho, Expecting
    <3>. QED BY <3>2, <3>3
  <2>8. at = "data" => DataReady'
    BY <1>2, <2>2, <2>3 DEF Sound, DataReady, Expecting, NoEcho
  <2>9. at = "sent" => DataSent'
    <3>. SUFFICES ASSUME at = "sent" PROVE DataSent'
      OBVIOUS
    <3>1. CASE a.ck = lastck
      <4>1. txq = <<>> /\ Right(mem, off + xfer)
        BY <3>1 DEF Sound, DataSent, NoEcho
      <4>. QED BY <1>2, <2>2, <4>1 DEF DataSent
    <3>2. CASE a.ck # lastck
      <4>1. ans'["init"] = ans["init"]
        BY <2>5, <3>2
      <4>. QED BY <1>2, <2>2, <2>3, <4>1 DEF Sound, DataSent, NoEcho, Expecting
    <3>. QED BY <3>1, <3>2
  <2>. QED BY <1>2, <2>6, <2>7, <2>8, <2>9 DEF Sound
<1>7. ASSUME txq # <<>>, txq' = Tail(txq)
      PROVE  /\ Head(txq) = txq[1] /\ Head(txq) \in Frames /\ txq' \in Seq(Frames)
             /\ Len(txq') = Len(txq) - 1 /\ at # "data"
             /\ \A i \in 1 .. Len(txq') : i + 1 \in 1 .. Len(txq) /\ txq'[i] = txq[i + 1] /\ txq'[i].cmd # "DATA"
             /\ at = "sent" => Len(txq) = 1 /\ txq' = <<>>
             /\ at = "write" => txq' = <<>> \/ Len(txq) > 1
  <2>1. /\ Head(txq) = txq[1] /\ Head(txq) \in Frames /\ txq' \in Seq(Frames)
        /\ Len(txq') = Len(txq) - 1
        /\ \A i \in 1 .. Len(txq') : i + 1 \in 1 .. Len(txq) /\ txq'[i] = txq[i + 1]
    BY <1>1, <1>7, TailFacts DEF ChanTypes
  <2>2. \A i \in 1 .. Len(txq') : txq'[i].cmd # "DATA"
    BY <2>1 DEF Sound, DataFirst
  <2>3. Len(txq) = 1 => txq' = <<>>
    BY <2>1, EmptySeq
  <2>. QED BY <1>3, <1>7, <2>1, <2>2, <2>3 DEF Sound, DataReady, DataSent
<1>8. CASE TxLose
  <2>1. txq # <<>> /\ txq' = Tail(txq) /\ UNCHANGED <<air, expect, devck, mem, up, lastck, ans>>
    BY <1>8 DEF TxLose, devVars
  <2>2. DataFirst' /\ Written'
    BY <1>2, <1>7, <2>1 DEF Sound, DataFirst, Written
  <2>3. at = "write" => WriteSent'
    BY <1>2, <1>3, <1>7, <2>1 DEF Sound, WriteSent, WriteQueued, NoEcho, Expecting
  <2>4. at = "sent" => DataSent'
    BY <1>2, <1>7, <2>1 DEF Sound, DataSent, NoEcho
  <2>. QED BY <1>2, <1>7, <2>1, <2>2, <2>3, <2>4 DEF Sound
<1>9. CASE ModuleCmd
  <2>. DEFINE f == Head(txq)
  <2>1. /\ txq # <<>> /\ f.cmd # "DATA" /\ devck' = f.ck /\ txq' = Tail(txq)
        /\ UNCHANGED <<lastck, ans, mem>>
    BY <1>9 DEF ModuleCmd
  <2>2. PICK rsp : /\ air' = air \cup {[cmd |-> f.cmd, ck |-> f.ck, rsp |-> rsp]}
                   /\ rsp = OK /\ f.cmd = "WRITE" => expect' = [off |-> f.off, n |-> f.n]
    <3>1. OK # InFw /\ OK # ErrCmd
      BY DEF OK, ErrCmd, InFw
    <3>2. CASE Answer(f.cmd, f.ck, InFw)
      BY <3>1, <3>2, Zenon DEF Answer
    <3>3. CASE Answer(f.cmd, f.ck, ErrCmd)
      BY <3>1, <3>3, Zenon DEF Answer
    <3>4. CASE /\ Answer(f.cmd, f.ck, OK)
               /\ expect' = IF f.cmd = "WRITE" THEN [off |-> f.off, n |-> f.n] ELSE NoWrite
      BY <3>4 DEF Answer
    <3>. QED BY <1>9, <3>2, <3>4, <3>3 DEF ModuleCmd
  <2>3. up' => up \/ f.cmd = "RUN"
    BY <1>9 DEF ModuleCmd
  <2>4. f = txq[1] /\ 1 \in 1 .. Len(txq)
    BY <1>3, <1>7, <2>1
  <2>. HIDE DEF f
  <2>5. DataFirst'
    BY <1>7, <2>1 DEF DataFirst
  <2>6. Written'
    BY <1>2, <1>7, <2>1, <2>3, <2>4 DEF Sound, Written
  <2>7. at # "sent"
    BY <1>3, <2>1, <2>4 DEF Sound, DataSent
  <2>8. ASSUME at = "write" PROVE WriteSent'
    <3>. DEFINE b == [cmd |-> f.cmd, ck |-> f.ck, rsp |-> rsp]
    <3>1. b.ck = f.ck /\ b.rsp = rsp /\ air' = air \cup {b}
      BY <2>2
    <3>. HIDE DEF b
    <3>2. WriteQueued
      BY <2>1, <2>8 DEF Sound, WriteSent
    <3>3. CASE Len(txq) = 1
      <4>1. /\ f.cmd = "WRITE" /\ f.ck = lastck /\ f.off = off /\ f.n >= xfer
            /\ txq' = <<>> /\ NoEcho /\ ans["init"] = NoAns
        BY <1>7, <2>1, <2>4, <2>8, <3>2, <3>3 DEF WriteQueued
      <4>2. rsp = OK => Expecting' /\ devck' = lastck'
        <5>1. rsp = OK => expect'.off = f.off /\ expect'.n = f.n
          BY <2>2, <4>1
        <5>. QED BY <1>2, <2>1, <4>1, <5>1 DEF Expecting
      <4>3. \A a \in air' : a.ck = lastck' => a = b
        BY <2>1, <3>1, <4>1 DEF NoEcho
      <4>. QED BY <2>1, <3>1, <4>1, <4>2, <4>3 DEF WriteSent
    <3>4. CASE Len(txq) > 1
      <4>1. f.ck # lastck
        BY <2>4, <3>2, <3>4 DEF WriteQueued
      <4>2. NoEcho' /\ devck' # lastck'
        BY <2>1, <3>1, <3>2, <4>1 DEF NoEcho, WriteQueued
      <4>3. /\ txq'[Len(txq')] = txq[Len(txq)]
            /\ \A i \in 1 .. Len(txq') - 1 : i + 1 \in 1 .. Len(txq) - 1 /\ txq'[i] = txq[i + 1]
        BY <1>3, <1>7, <2>1, <3>4
      <4>4. WriteQueued'
        BY <1>2, <2>1, <3>2, <4>2, <4>3 DEF WriteQueued
      <4>. QED BY <2>1, <4>2, <4>4 DEF WriteSent, WriteQueued, NoEcho
    <3>5. Len(txq) = 1 \/ Len(txq) > 1
      <4>1. \A k \in Nat : 1 \in 1 .. k => k = 1 \/ k > 1
        OBVIOUS
      <4>2. Len(txq) \in Nat /\ 1 \in 1 .. Len(txq)
        BY <1>3, <2>4
      <4>. QED BY <4>1, <4>2, Zenon
    <3>. QED BY <3>3, <3>4, <3>5
  <2>. QED BY <1>2, <1>7, <2>1, <2>5, <2>6, <2>7, <2>8 DEF Sound
<1>10. CASE ModuleData
  <2>. DEFINE f == Head(txq)
  <2>1. /\ txq # <<>> /\ f.cmd = "DATA" /\ txq' = Tail(txq)
        /\ UNCHANGED <<lastck, ans, devck, up>>
    BY <1>10 DEF ModuleData
  <2>2. /\ f = txq[1] /\ 1 \in 1 .. Len(txq) /\ f.off \in Nat /\ f.n \in Nat
        /\ expect.n > 0 => expect.off = f.off
    BY <1>3, <1>7, <2>1 DEF Sound, DataFirst, Frames
  <2>3. air' = air \/ air' = air \cup {[cmd |-> "DATA", ck |-> devck, rsp |-> 0]}
    BY <1>10 DEF ModuleData, Answer, OK
  <2>4. /\ \A m : Right(mem, m) => Right(mem', m)
        /\ at = "sent" /\ air' # air => Right(mem', off + xfer)
    <3>1. CASE expect.n > 0 /\ ~up
      <4>1. /\ expect.n \in Nat /\ mem \in [Addresses -> Int] /\ expect.off = f.off
        BY <1>1, <2>2, <3>1 DEF DevTypes, Windows
      <4>2. mem' = [a \in Addresses |->
                      IF a - f.off \in 0 .. f.n - 1 /\ a - f.off < expect.n
                      THEN f.off + (a - f.off) ELSE mem[a]]
        BY <1>10, <3>1, <4>1 DEF ModuleData
      <4>. HIDE DEF f
      <4>3. /\ \A m : Right(mem, m) => Right(mem', m)
            /\ Right(mem, f.off) /\ f.n <= expect.n => Right(mem', f.off + f.n)
        <5>1. \A o \in Nat, k \in Nat, n \in Nat :
                mem' = [a \in Addresses |-> IF a - o \in 0 .. n - 1 /\ a - o < k
                                            THEN o + (a - o) ELSE mem[a]] =>
                  /\ \A m : Right(mem, m) => Right(mem', m)
                  /\ Right(mem, o) /\ n <= k => Right(mem', o + n)
          BY <4>1, WriteFacts
        <5>2. f.off \in Nat /\ f.n \in Nat /\ expect.n \in Nat
          BY <2>2, <4>1
        <5>. QED BY <4>2, <5>1, <5>2, Zenon
      <4>4. at = "sent" => f.off = off /\ f.n = xfer /\ expect.n >= xfer /\ Right(mem, off)
        BY <2>1, <2>2 DEF Sound, DataSent, Expecting, Written
      <4>. QED BY <1>1, <4>1, <4>3, <4>4
    <3>2. CASE ~(expect.n > 0 /\ ~up)
      BY <1>10, <3>2 DEF ModuleData
    <3>. QED BY <3>1, <3>2
  <2>. HIDE DEF f
  <2>5. DataFirst'
    BY <1>7, <2>1 DEF DataFirst
  <2>6. Written'
    BY <1>2, <1>7, <2>1, <2>4 DEF Sound, Written
  <2>7. ASSUME at = "write" PROVE WriteSent'
    <3>1. WriteQueued
      BY <2>1, <2>7 DEF Sound, WriteSent
    <3>2. NoEcho'
      BY <2>1, <2>3, <3>1 DEF WriteQueued, NoEcho
    <3>3. Len(txq) > 1
      BY <1>3, <2>1, <2>2, <3>1 DEF WriteQueued
    <3>4. /\ txq'[Len(txq')] = txq[Len(txq)]
          /\ \A i \in 1 .. Len(txq') - 1 : i + 1 \in 1 .. Len(txq) - 1 /\ txq'[i] = txq[i + 1]
      BY <1>3, <1>7, <2>1, <3>3
    <3>5. WriteQueued'
      BY <1>2, <2>1, <3>1, <3>2, <3>4 DEF WriteQueued
    <3>. QED BY <2>1, <3>2, <3>5 DEF WriteSent, WriteQueued, NoEcho
  <2>8. at = "sent" => DataSent'
    <3>. SUFFICES ASSUME at = "sent" PROVE DataSent'
      OBVIOUS
    <3>1. txq' = <<>> /\ NoEcho /\ ans["init"] = NoAns
      BY <1>7, <2>1 DEF Sound, DataSent
    <3>2. ans'["init"] # NoAns \/ ~NoEcho' => Right(mem', off + xfer)
      BY <2>1, <2>4, <3>1 DEF NoEcho
    <3>. QED BY <1>2, <3>1, <3>2 DEF DataSent
  <2>. QED BY <1>2, <1>7, <2>1, <2>5, <2>6, <2>7, <2>8 DEF Sound
<1>. QED BY <1>4, <1>5, <1>6, <1>8, <1>9, <1>10

BInv == Base /\ (dups = 0 /\ ~raced => Sound)

(* The invariant holds throughout.                                         *)
LEMMA BInvHolds == Spec => []BInv
<1>1. Init => (dups = 0 /\ ~raced => Sound)
  <2>. SUFFICES ASSUME Init PROVE Sound
    OBVIOUS
  <2>1. Len(txq) = 0
    BY DEF Init
  <2>. QED BY <2>1 DEF Init, Sound, DataFirst, Written, Loading, Moving
<1>2. Base /\ (dups = 0 /\ ~raced => Sound) /\ [Next]_vars => (dups = 0 /\ ~raced => Sound)'
  <2>. SUFFICES ASSUME Base, dups = 0 /\ ~raced => Sound, [Next]_vars, dups' = 0, ~raced'
                PROVE  Sound'
    OBVIOUS
  <2>1. CASE UNCHANGED vars
    BY <2>1 DEF vars, loopVars, fragVars, chanVars, devVars, Sound, DataFirst, Written, WriteSent,
                WriteQueued, DataReady, DataSent, Expecting, NoEcho
  <2>2. CASE Next
    <3>1. raced \in BOOLEAN /\ dups \in Nat
      BY DEF Base, BTypes, DevTypes
    <3>2. ~raced /\ dups = 0
      BY <2>2, <3>1 DEF Next, DownloadStep, AskEnter, EnterDone, ParseFw, SendFragment, WriteDone,
         SendFw, DataDone, SendRun, RunDone, DetectEnter, DetectDone, TxLose, ModuleCmd, ModuleData,
         Receive
    <3>. QED BY <2>2, <3>2, DownloadSound, OtherSound DEF Next
  <2>. QED BY <2>1, <2>2
<1>. QED BY <1>1, <1>2, BaseHolds, PTL DEF Spec, BInv

(* The module runs only a whole image, for every image, fragment and block *)
(* size, whatever is lost, late or refused and however often the download  *)
(* begins anew: RunsWholeImage.                                            *)
THEOREM ImageRunsWhole == Spec => []RunsWholeImage
<1>1. BInv => RunsWholeImage
  <2>. SUFFICES ASSUME BInv, up, dups = 0, ~raced, NEW a \in 0 .. ImageLen - 1
                PROVE  mem[a] = a
    BY DEF RunsWholeImage
  <2>1. a \in Addresses /\ a < ImageLen
    BY ImageAssumption, FragAssumption DEF Addresses
  <2>. QED BY <2>1 DEF BInv, Sound, Written, Right
<1>. QED BY <1>1, BInvHolds, PTL
=============================================================================
