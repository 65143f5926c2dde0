--------------------------- MODULE UpgradeProofs ----------------------------
(***************************************************************************)
(* The two upgrades, for any number of writers, tools, stations and files, *)
(* any sizes and any number of losses.                                     *)
(***************************************************************************)
EXTENDS Upgrade, SequenceTheorems, TLAPS

-----------------------------------------------------------------------------
(* Multiples of a block.                                                   *)

(* The multiple before and the multiple after leave no room between them.  *)
LEMMA NextMultiple ==
  ASSUME NEW b \in Nat \ {0}, NEW q \in Nat, NEW k \in Nat, k % b = 0, k < q * b + b
  PROVE  k < q * b \/ k = q * b
<1>. DEFINE p == k \div b
<1>1. p \in Nat /\ k = b * p + (k % b)
  OBVIOUS
<1>2. k = p * b
  BY <1>1
<1>. HIDE DEF p
<1>3. CASE p < q
  <2>1. q - (p + 1) \in Nat /\ q = (q - (p + 1)) + (p + 1)
    BY <1>1, <1>3
  <2>. DEFINE d == q - (p + 1)
  <2>2. d * b \in Nat /\ p * b \in Nat /\ q * b = d * b + p * b + b
    BY <1>1, <2>1
  <2>. HIDE DEF d
  <2>. QED BY <1>2, <2>2
<1>4. CASE p = q
  BY <1>2, <1>4
<1>5. CASE p > q
  <2>1. p - (q + 1) \in Nat /\ p = (p - (q + 1)) + (q + 1)
    BY <1>1, <1>5
  <2>. DEFINE d == p - (q + 1)
  <2>2. d * b \in Nat /\ q * b \in Nat /\ p * b = d * b + q * b + b
    BY <2>1
  <2>. HIDE DEF d
  <2>. QED BY <1>2, <2>2
<1>. QED BY <1>1, <1>3, <1>4, <1>5

-----------------------------------------------------------------------------
(* The upload through the driver.                                          *)

Busy == {"parse", "test", "take", "wait"}

Fragment == [file : DOMAIN Files, off : Nat, round : Nat]
Uploads  == [pc : Busy \cup {"idle", "done"}, file : DOMAIN Files \cup {""}, off : Nat, ret : Int,
             round : Nat, sent : [off : Int, round : Nat], ans : {<<>>, <<0>>, <<2>>},
             alone : BOOLEAN, own : BOOLEAN]

DTypes ==
  /\ up \in [Writers -> Uploads] /\ pdl \in Seq(Writers)
  /\ dataq \in Seq(Fragment) /\ otx \in Seq(Fragment)
  /\ oans \subseteq [frag : Fragment, err : {0, 2}] /\ rounds \in Nat /\ oops \in BOOLEAN

Frag(u, k) == [file |-> u.file, off |-> k, round |-> u.round]
Queued(g, d) == \E i \in 1 .. Len(d) : d[i] = g

(* The upload u, with the queue d and the flash wr: a writer that is alone *)
(* finds only its own fragments on the queue, and each fragment of its     *)
(* file is there, was written, or is the one it waits for.                 *)
Uploading(u, d, wr) ==
  u.pc \in Busy /\ u.alone =>
    /\ u.file \in DOMAIN Files /\ FileError(Files[u.file]) = 0
    /\ \A i \in 1 .. Len(d) : d[i].file = u.file /\ d[i].round = u.round
    /\ u.pc = "parse" =>
         /\ \E q \in Nat : u.off = q * FragSize
         /\ \A k \in Fragments(Files[u.file]) : k < u.off => Queued(Frag(u, k), d)
    /\ u.pc # "parse" /\ u.own =>
         \A k \in Fragments(Files[u.file]) :
           Queued(Frag(u, k), d) \/ Frag(u, k) \in wr \/ (u.pc = "wait" /\ u.sent.off = k)
    /\ u.pc = "take" => d # <<>>
    /\ u.pc = "wait" => u.sent.round = u.round

(* An answer without error that is the writer's own.                       *)
Answered(u, wr) ==
  u.ans = <<0>> /\ u.own /\ u.sent.round = u.round => Frag(u, u.sent.off) \in wr

(* The upload u ended well.                                                *)
Ended(u, wr) ==
  u.pc = "done" /\ u.ret = 0 /\ u.round > 0 /\ u.alone /\ u.own =>
    /\ \A k \in Fragments(Files[u.file]) : Frag(u, k) \in wr
    /\ hgic_crc32_matches(Files[u.file], Files[u.file].size - Files[u.file].off)

EachUpload(u, d, wr) == Uploading(u, d, wr) /\ Answered(u, wr) /\ Ended(u, wr)

(* A round is one upload's: its fragments are all of one file.             *)
OfRound(g) == g.round \in 1 .. rounds /\ \A w \in Writers : g.round = up[w].round => g.file = up[w].file

Rounds ==
  /\ \A w \in Writers : up[w].round <= rounds /\
       (up[w].pc \in Busy => up[w].round > 0 /\ up[w].file \in DOMAIN Files)
  /\ \A w, x \in Writers : up[w].round = up[x].round /\ up[w].round > 0 => w = x
  /\ \A i \in 1 .. Len(dataq) : OfRound(dataq[i])
  /\ \A i \in 1 .. Len(otx) : OfRound(otx[i])
  /\ \A a \in oans : OfRound(a.frag) /\ (a.err = 0 => a.frag \in written)

Sharing ==
  /\ \A w, x \in Writers : up[w].pc \in Busy /\ up[x].pc \in Busy /\ up[w].alone => x = w
  /\ (\A w \in Writers : up[w].pc \notin Busy) => dataq = <<>>
  /\ oops => \E w \in Writers : up[w].pc = "take" /\ ~up[w].alone

DInv == DTypes /\ Rounds /\ Sharing /\ \A w \in Writers : EachUpload(up[w], dataq, written)

(* What the checks of hgic_ota_parse_fw return; a file that passes them    *)
(* has a right checksum.                                                   *)
LEMMA FileErrorFacts ==
  ASSUME NEW name \in DOMAIN Files
  PROVE  /\ FileError(Files[name]) \in Int
         /\ FileError(Files[name]) = 0 =>
              hgic_crc32_matches(Files[name], Files[name].size - Files[name].off)
<1>. DEFINE f == Files[name]
<1>1. hgic_ota_check_hdr_info(f) \in Int
  BY DEF hgic_ota_check_hdr_info, hgic_get_fw, hgic_check_fwinfo_hdr
<1>2. hgic_get_fw_code_checksum(f, f.size) \in Int
  BY DEF hgic_get_fw_code_checksum, hgic_get_fw, hgic_check_fwinfo_hdr
<1>3. ASSUME hgic_get_fw_code_checksum(f, f.size) = 0
      PROVE  hgic_crc32_matches(f, f.size - f.off)
  <2>1. hgic_check_fwinfo_hdr(f) = 0 => hgic_get_fw(f, "off").val = f.off
    BY DEF hgic_get_fw
  <2>2. hgic_get_fw(f, "crc").err = 0 => hgic_check_fwinfo_hdr(f) = 0
    BY DEF hgic_get_fw
  <2>3. /\ hgic_get_fw(f, "crc").err = 0
        /\ hgic_crc32_matches(f, f.size - hgic_get_fw(f, "off").val)
    <3>. HIDE DEF f
    <3>. QED BY <1>3 DEF hgic_get_fw_code_checksum
  <2>. QED BY <2>1, <2>2, <2>3
<1>. QED BY <1>1, <1>2, <1>3 DEF FileError

(* A step of the upload of w: what it may do to the shared state.          *)
LEMMA WriterStep ==
  ASSUME DInv, NEW w \in Writers, up[w].pc \in Busy,
         up' \in [Writers -> Uploads], \A x \in Writers \ {w} : up'[x] = up[x],
         up'[w].round = up[w].round, up'[w].file = up[w].file, up'[w].alone = up[w].alone,
         up'[w].pc \in Busy \/ (up'[w].pc = "done" /\ dataq' = <<>>),
         dataq' \in Seq(Fragment),
         \A i \in 1 .. Len(dataq') :
           Queued(dataq'[i], dataq) \/ (dataq'[i].round = up[w].round /\ dataq'[i].file = up[w].file),
         otx' \in Seq(Fragment),
         \A i \in 1 .. Len(otx') : Queued(otx'[i], otx) \/ Queued(otx'[i], dataq),
         pdl' \in Seq(Writers), UNCHANGED <<oans, written, rounds>>, oops' \in BOOLEAN,
         oops' => (oops /\ up[w].pc # "take") \/ (up'[w].pc = "take" /\ ~up'[w].alone),
         EachUpload(up'[w], dataq', written)
  PROVE  DInv'
<1>1. DTypes'
  BY DEF DInv, DTypes
<1>2. \A x \in Writers : up'[x].round = up[x].round /\ up'[x].file = up[x].file
  OBVIOUS
<1>3. /\ \A x \in Writers : up[x].round <= rounds /\
           (up[x].pc \in Busy => up[x].round > 0 /\ up[x].file \in DOMAIN Files)
      /\ up[w].round \in Nat /\ rounds \in Nat
  BY DEF DInv, DTypes, Rounds, Uploads
<1>. DEFINE Of(g) == g.round \in 1 .. rounds' /\ \A x \in Writers : g.round = up'[x].round => g.file = up'[x].file
<1>4. \A g : OfRound(g) => Of(g)
  BY <1>2 DEF OfRound
<1>5. ASSUME NEW g, g.round = up[w].round, g.file = up[w].file PROVE OfRound(g)
  <2>1. up[w].round \in 1 .. rounds
    BY <1>3
  <2>. QED BY <1>5, <2>1, <1>3 DEF OfRound, DInv, Rounds
<1>6. Rounds'
  <2>. HIDE DEF Of
  <2>1. \A x \in Writers : up'[x].round <= rounds' /\
          (up'[x].pc \in Busy => up'[x].round > 0 /\ up'[x].file \in DOMAIN Files)
    BY <1>2, <1>3
  <2>2. \A x, y \in Writers : up'[x].round = up'[y].round /\ up'[x].round > 0 => x = y
    BY <1>2 DEF DInv, Rounds
  <2>3. \A i \in 1 .. Len(dataq') : Of(dataq'[i])
    BY <1>4, <1>5 DEF DInv, Rounds, Queued
  <2>4. \A i \in 1 .. Len(otx') : Of(otx'[i])
    BY <1>4 DEF DInv, Rounds, Queued
  <2>5. \A a \in oans' : Of(a.frag) /\ (a.err = 0 => a.frag \in written')
    BY <1>4 DEF DInv, Rounds
  <2>. QED BY <2>1, <2>2, <2>3, <2>4, <2>5 DEF Rounds, OfRound, Of
<1>7. Sharing'
  BY DEF DInv, Sharing
<1>8. ASSUME NEW x \in Writers PROVE EachUpload(up'[x], dataq', written')
  <2>1. CASE x = w
    BY <2>1
  <2>2. CASE x # w
    <3>1. up'[x] = up[x] /\ EachUpload(up[x], dataq, written) /\ ~(up[x].pc \in Busy /\ up[x].alone)
      BY <2>2 DEF DInv, Sharing
    <3>. QED BY <3>1 DEF EachUpload, Uploading
  <2>. QED BY <2>1, <2>2
<1>. QED BY <1>1, <1>6, <1>7, <1>8 DEF DInv

(* hgic_ota_send_fw returns.                                               *)
LEMMA LeaveFacts ==
  ASSUME DTypes, NEW w \in Writers, NEW r \in Int, Leave(w, r)
  PROVE  /\ up' \in [Writers -> Uploads] /\ \A x \in Writers \ {w} : up'[x] = up[x]
         /\ up'[w].pc = "done" /\ up'[w].ret = r /\ up'[w].file = up[w].file
         /\ up'[w].round = up[w].round /\ up'[w].alone = up[w].alone /\ up'[w].own = up[w].own
         /\ up'[w].ans = up[w].ans /\ up'[w].sent = up[w].sent
         /\ dataq' = <<>> /\ dataq' \in Seq(Fragment) /\ Len(dataq') = 0
<1>1. up \in [Writers -> Uploads] /\ up[w] \in Uploads
  BY DEF DTypes
<1>2. up' = [up EXCEPT ![w].pc = "done", ![w].ret = r] /\ dataq' = <<>>
  BY DEF Leave
<1>3. up'[w] = [up[w] EXCEPT !.pc = "done", !.ret = r] /\ \A x \in Writers \ {w} : up'[x] = up[x]
  BY <1>1, <1>2
<1>4. /\ up'[w] \in Uploads /\ up'[w].pc = "done" /\ up'[w].ret = r /\ up'[w].file = up[w].file
      /\ up'[w].round = up[w].round /\ up'[w].alone = up[w].alone /\ up'[w].own = up[w].own
      /\ up'[w].ans = up[w].ans /\ up'[w].sent = up[w].sent
  BY <1>1, <1>3 DEF Uploads
<1>5. up' \in [Writers -> Uploads]
  BY <1>1, <1>2, <1>3, <1>4
<1>. QED BY <1>2, <1>3, <1>4, <1>5

(* A writer goes on.                                                       *)
LEMMA MoveFacts ==
  ASSUME DTypes, NEW w \in Writers, NEW c \in Busy, up' = [up EXCEPT ![w].pc = c]
  PROVE  /\ up' \in [Writers -> Uploads] /\ \A x \in Writers \ {w} : up'[x] = up[x]
         /\ up'[w].pc = c /\ up'[w].off = up[w].off /\ up'[w].ret = up[w].ret
         /\ up'[w].file = up[w].file /\ up'[w].round = up[w].round /\ up'[w].sent = up[w].sent
         /\ up'[w].ans = up[w].ans /\ up'[w].alone = up[w].alone /\ up'[w].own = up[w].own
<1>1. up \in [Writers -> Uploads] /\ up[w] \in Uploads
  BY DEF DTypes
<1>2. up'[w] = [up[w] EXCEPT !.pc = c] /\ \A x \in Writers \ {w} : up'[x] = up[x]
  BY <1>1
<1>3. /\ up'[w] \in Uploads
      /\ up'[w].pc = c /\ up'[w].off = up[w].off /\ up'[w].ret = up[w].ret
      /\ up'[w].file = up[w].file /\ up'[w].round = up[w].round /\ up'[w].sent = up[w].sent
      /\ up'[w].ans = up[w].ans /\ up'[w].alone = up[w].alone /\ up'[w].own = up[w].own
  BY <1>1, <1>2 DEF Uploads
<1>4. up' \in [Writers -> Uploads]
  BY <1>1, <1>2, <1>3
<1>. QED BY <1>2, <1>3, <1>4

(* The fragments of a file are multiples of the fragment size.             *)
LEMMA FragmentsFacts ==
  ASSUME NEW f, f.size \in Nat, NEW k \in Fragments(f)
  PROVE  k \in Nat /\ k < f.size /\ k % FragSize = 0
BY DEF Fragments

(* What a writer may rely on.                                              *)
LEMMA WriterFacts ==
  ASSUME DInv, NEW w \in Writers, up[w].pc \in Busy
  PROVE  /\ up[w] \in Uploads /\ up[w].file \in DOMAIN Files /\ Files[up[w].file].size \in Nat
         /\ up[w].off \in Nat /\ up[w].round \in Nat /\ EachUpload(up[w], dataq, written)
         /\ dataq \in Seq(Fragment) /\ otx \in Seq(Fragment) /\ pdl \in Seq(Writers)
         /\ oops \in BOOLEAN /\ DTypes
<1>1. up[w] \in Uploads /\ up[w].file \in DOMAIN Files
  BY DEF DInv, DTypes, Rounds
<1>2. up[w].off \in Nat /\ up[w].round \in Nat
  BY <1>1 DEF Uploads
<1>. QED BY <1>1, <1>2, OtaAssumption DEF DInv, DTypes

(* One fragment is queued.                                                 *)
LEMMA FragmentStep ==
  ASSUME DInv, NEW w \in Writers, OtaFragment(w)
  PROVE  DInv'
<1>1. up[w].pc = "parse" /\ up[w].pc \in Busy
  BY DEF OtaFragment, Busy
<1>2. /\ up[w] \in Uploads /\ up[w].file \in DOMAIN Files /\ Files[up[w].file].size \in Nat
      /\ up[w].off \in Nat /\ up[w].round \in Nat /\ EachUpload(up[w], dataq, written)
      /\ dataq \in Seq(Fragment) /\ otx \in Seq(Fragment) /\ pdl \in Seq(Writers)
      /\ oops \in BOOLEAN /\ DTypes
  BY <1>1, WriterFacts
<1>3. UNCHANGED <<pdl, otx, oans, written, oops, rounds>>
  BY DEF OtaFragment
<1>4. \A i \in 1 .. Len(otx') : Queued(otx'[i], otx)
  BY <1>3 DEF Queued
<1>. DEFINE size == Files[up[w].file].size
            off  == up[w].off
<1>5. CASE /\ off < size
           /\ dataq' = Append(dataq, [file |-> up[w].file, off |-> off, round |-> up[w].round])
           /\ up' = [up EXCEPT ![w].off = off + FragSize]
  <2>. DEFINE g == Frag(up[w], off)
  <2>1. g \in Fragment /\ g.file = up[w].file /\ g.round = up[w].round
    BY <1>2 DEF Fragment, Frag
  <2>2. dataq' = Append(dataq, g)
    BY <1>5 DEF Frag
  <2>. HIDE DEF g
  <2>3. /\ dataq' \in Seq(Fragment) /\ Len(dataq') = Len(dataq) + 1 /\ dataq'[Len(dataq) + 1] = g
        /\ \A i \in 1 .. Len(dataq) : dataq'[i] = dataq[i]
    BY <1>2, <2>1, <2>2
  <2>4. Len(dataq) \in Nat /\ \A i \in 1 .. Len(dataq') : i \in 1 .. Len(dataq) \/ i = Len(dataq) + 1
    BY <1>2, <2>3
  <2>5. \A i \in 1 .. Len(dataq') : Queued(dataq'[i], dataq) \/ dataq'[i] = g
    BY <2>3, <2>4 DEF Queued
  <2>6. \A x : Queued(x, dataq) \/ x = g => Queued(x, dataq')
    BY <2>3, <2>4 DEF Queued
  <2>7. /\ up'[w] = [up[w] EXCEPT !.off = off + FragSize] /\ \A x \in Writers \ {w} : up'[x] = up[x]
    BY <1>2, <1>5 DEF DTypes
  <2>8. off + FragSize \in Nat
    BY <1>2, OtaAssumption
  <2>9. /\ up'[w] \in Uploads /\ up'[w].pc = "parse" /\ up'[w].off = off + FragSize
        /\ up'[w].file = up[w].file /\ up'[w].round = up[w].round /\ up'[w].sent = up[w].sent
        /\ up'[w].ans = up[w].ans /\ up'[w].alone = up[w].alone /\ up'[w].own = up[w].own
    BY <1>1, <1>2, <2>7, <2>8 DEF Uploads
  <2>10. up' \in [Writers -> Uploads]
    BY <1>2, <1>5, <2>7, <2>9 DEF DTypes
  <2>11. \A k : Frag(up'[w], k) = Frag(up[w], k)
    BY <2>9 DEF Frag
  <2>12. ASSUME up[w].alone PROVE
           /\ \E q \in Nat : off + FragSize = q * FragSize
           /\ \A k \in Fragments(Files[up[w].file]) : k < off + FragSize => Queued(Frag(up[w], k), dataq')
    <3>1. /\ \A k \in Fragments(Files[up[w].file]) : k < off => Queued(Frag(up[w], k), dataq)
          /\ \E q \in Nat : off = q * FragSize
      BY <1>1, <1>2, <2>12 DEF EachUpload, Uploading
    <3>2. PICK q \in Nat : off = q * FragSize
      BY <3>1
    <3>3. q + 1 \in Nat /\ off + FragSize = (q + 1) * FragSize
      BY <3>2, OtaAssumption
    <3>4. ASSUME NEW k \in Fragments(Files[up[w].file]), k < off + FragSize
          PROVE  k < off \/ k = off
      <4>1. k \in Nat /\ k % FragSize = 0
        BY <1>2, FragmentsFacts
      <4>. QED BY <3>2, <3>4, <4>1, NextMultiple, OtaAssumption
    <3>5. \A k \in Fragments(Files[up[w].file]) : k < off + FragSize => Queued(Frag(up[w], k), dataq')
      BY <2>6, <3>1, <3>4 DEF g
    <3>. QED BY <3>3, <3>5
  <2>13. Uploading(up'[w], dataq', written)
    <3>. SUFFICES ASSUME up[w].alone PROVE
           /\ up[w].file \in DOMAIN Files /\ FileError(Files[up[w].file]) = 0
           /\ \A i \in 1 .. Len(dataq') : dataq'[i].file = up[w].file /\ dataq'[i].round = up[w].round
      BY <2>9, <2>11, <2>12 DEF Uploading
    <3>1. /\ FileError(Files[up[w].file]) = 0
          /\ \A i \in 1 .. Len(dataq) : dataq[i].file = up[w].file /\ dataq[i].round = up[w].round
      BY <1>1, <1>2 DEF EachUpload, Uploading
    <3>. QED BY <1>2, <2>1, <2>5, <3>1 DEF Queued
  <2>14. EachUpload(up'[w], dataq', written)
    BY <1>2, <2>9, <2>11, <2>13 DEF EachUpload, Answered, Ended
  <2>. QED BY <1>1, <1>2, <1>3, <1>4, <2>1, <2>3, <2>5, <2>7, <2>9, <2>10, <2>14, WriterStep
<1>6. CASE Leave(w, -12)
  <2>1. /\ up' \in [Writers -> Uploads] /\ \A x \in Writers \ {w} : up'[x] = up[x]
        /\ up'[w].pc = "done" /\ up'[w].ret = -12 /\ up'[w].file = up[w].file
        /\ up'[w].round = up[w].round /\ up'[w].alone = up[w].alone /\ up'[w].own = up[w].own
        /\ up'[w].ans = up[w].ans /\ up'[w].sent = up[w].sent
        /\ dataq' = <<>> /\ dataq' \in Seq(Fragment) /\ Len(dataq') = 0
    BY <1>2, <1>6, LeaveFacts
  <2>2. EachUpload(up'[w], dataq', written)
    BY <1>2, <2>1 DEF EachUpload, Uploading, Answered, Ended, Busy, Frag
  <2>. QED BY <1>1, <1>2, <1>3, <1>4, <2>1, <2>2, WriterStep
<1>7. CASE off >= size /\ up' = [up EXCEPT ![w].pc = "test"] /\ UNCHANGED dataq
  <2>1. /\ up' \in [Writers -> Uploads] /\ \A x \in Writers \ {w} : up'[x] = up[x]
        /\ up'[w].pc = "test" /\ up'[w].off = up[w].off /\ up'[w].ret = up[w].ret
        /\ up'[w].file = up[w].file /\ up'[w].round = up[w].round /\ up'[w].sent = up[w].sent
        /\ up'[w].ans = up[w].ans /\ up'[w].alone = up[w].alone /\ up'[w].own = up[w].own
    BY <1>2, <1>7, MoveFacts DEF Busy
  <2>2. \A k : Frag(up'[w], k) = Frag(up[w], k)
    BY <2>1 DEF Frag
  <2>3. \A k \in Fragments(Files[up[w].file]) : k < off
    BY <1>2, <1>7, FragmentsFacts
  <2>4. Uploading(up'[w], dataq', written)
    <3>1. ASSUME up[w].alone PROVE
            /\ FileError(Files[up[w].file]) = 0
            /\ \A i \in 1 .. Len(dataq) : dataq[i].file = up[w].file /\ dataq[i].round = up[w].round
            /\ \A k \in Fragments(Files[up[w].file]) : Queued(Frag(up[w], k), dataq)
      BY <1>1, <1>2, <2>3, <3>1 DEF EachUpload, Uploading
    <3>. QED BY <1>2, <1>7, <2>1, <2>2, <3>1 DEF Uploading
  <2>5. EachUpload(up'[w], dataq', written)
    BY <1>2, <2>1, <2>2, <2>4 DEF EachUpload, Answered, Ended
  <2>6. \A i \in 1 .. Len(dataq') : Queued(dataq'[i], dataq)
    BY <1>7 DEF Queued
  <2>. QED BY <1>1, <1>2, <1>3, <1>4, <1>7, <2>1, <2>5, <2>6, WriterStep DEF Busy
<1>. QED BY <1>5, <1>6, <1>7 DEF OtaFragment

(* The queue is tested: an upload that finds it empty has ended well.      *)
LEMMA TestStep ==
  ASSUME DInv, NEW w \in Writers, OtaTest(w)
  PROVE  DInv'
<1>1. up[w].pc = "test" /\ up[w].pc \in Busy
  BY DEF OtaTest, Busy
<1>2. /\ up[w] \in Uploads /\ up[w].file \in DOMAIN Files /\ Files[up[w].file].size \in Nat
      /\ up[w].off \in Nat /\ up[w].round \in Nat /\ EachUpload(up[w], dataq, written)
      /\ dataq \in Seq(Fragment) /\ otx \in Seq(Fragment) /\ pdl \in Seq(Writers)
      /\ oops \in BOOLEAN /\ DTypes
  BY <1>1, WriterFacts
<1>3. UNCHANGED <<pdl, otx, oans, written, oops, rounds>>
  BY DEF OtaTest
<1>4. \A i \in 1 .. Len(otx') : Queued(otx'[i], otx)
  BY <1>3 DEF Queued
<1>5. CASE dataq = <<>>
  <2>1. /\ up' \in [Writers -> Uploads] /\ \A x \in Writers \ {w} : up'[x] = up[x]
        /\ up'[w].pc = "done" /\ up'[w].ret = 0 /\ up'[w].file = up[w].file
        /\ up'[w].round = up[w].round /\ up'[w].alone = up[w].alone /\ up'[w].own = up[w].own
        /\ up'[w].ans = up[w].ans /\ up'[w].sent = up[w].sent
        /\ dataq' = <<>> /\ dataq' \in Seq(Fragment) /\ Len(dataq') = 0
    BY <1>2, <1>5, LeaveFacts DEF OtaTest
  <2>2. \A k : Frag(up'[w], k) = Frag(up[w], k) /\ ~Queued(Frag(up[w], k), dataq)
    BY <1>5, <2>1 DEF Frag, Queued
  <2>3. ASSUME up[w].alone, up[w].own
        PROVE  /\ \A k \in Fragments(Files[up[w].file]) : Frag(up[w], k) \in written
               /\ FileError(Files[up[w].file]) = 0
    BY <1>1, <1>2, <2>2, <2>3 DEF EachUpload, Uploading
  <2>4. Ended(up'[w], written)
    BY <1>2, <2>1, <2>2, <2>3, FileErrorFacts DEF Ended
  <2>5. EachUpload(up'[w], dataq', written)
    BY <1>2, <2>1, <2>2, <2>4 DEF EachUpload, Uploading, Answered, Busy
  <2>. QED BY <1>1, <1>2, <1>3, <1>4, <2>1, <2>5, WriterStep
<1>6. CASE dataq # <<>>
  <2>1. up' = [up EXCEPT ![w].pc = "take"] /\ UNCHANGED dataq
    BY <1>6 DEF OtaTest
  <2>2. /\ up' \in [Writers -> Uploads] /\ \A x \in Writers \ {w} : up'[x] = up[x]
        /\ up'[w].pc = "take" /\ up'[w].off = up[w].off /\ up'[w].ret = up[w].ret
        /\ up'[w].file = up[w].file /\ up'[w].round = up[w].round /\ up'[w].sent = up[w].sent
        /\ up'[w].ans = up[w].ans /\ up'[w].alone = up[w].alone /\ up'[w].own = up[w].own
    BY <1>2, <2>1, MoveFacts DEF Busy
  <2>3. \A k : Frag(up'[w], k) = Frag(up[w], k)
    BY <2>2 DEF Frag
  <2>4. Uploading(up'[w], dataq', written)
    <3>1. ASSUME up[w].alone PROVE
            /\ FileError(Files[up[w].file]) = 0
            /\ \A i \in 1 .. Len(dataq) : dataq[i].file = up[w].file /\ dataq[i].round = up[w].round
            /\ up[w].own => \A k \in Fragments(Files[up[w].file]) :
                              Queued(Frag(up[w], k), dataq) \/ Frag(up[w], k) \in written
      BY <1>1, <1>2, <3>1 DEF EachUpload, Uploading
    <3>. QED BY <1>2, <1>6, <2>1, <2>2, <2>3, <3>1 DEF Uploading
  <2>5. EachUpload(up'[w], dataq', written)
    BY <1>2, <2>2, <2>3, <2>4 DEF EachUpload, Answered, Ended
  <2>6. \A i \in 1 .. Len(dataq') : Queued(dataq'[i], dataq)
    BY <2>1 DEF Queued
  <2>7. "take" \in Busy
    BY DEF Busy
  <2>. QED BY <1>1, <1>2, <1>3, <1>4, <2>1, <2>2, <2>5, <2>6, <2>7, WriterStep
<1>. QED BY <1>5, <1>6

(* A fragment is taken from the queue and sent; a writer that finds none   *)
(* is not alone.                                                           *)
LEMMA SendStep ==
  ASSUME DInv, NEW w \in Writers, OtaSend(w)
  PROVE  DInv'
<1>1. up[w].pc = "take" /\ up[w].pc \in Busy /\ ~oops /\ {"take", "wait"} \subseteq Busy
  BY DEF OtaSend, Busy
<1>2. /\ up[w] \in Uploads /\ up[w].file \in DOMAIN Files /\ Files[up[w].file].size \in Nat
      /\ up[w].off \in Nat /\ up[w].round \in Nat /\ EachUpload(up[w], dataq, written)
      /\ dataq \in Seq(Fragment) /\ otx \in Seq(Fragment) /\ pdl \in Seq(Writers)
      /\ oops \in BOOLEAN /\ DTypes
  BY <1>1, WriterFacts
<1>3. UNCHANGED <<oans, written, rounds>>
  BY DEF OtaSend
<1>4. CASE dataq = <<>>
  <2>1. oops' = TRUE /\ UNCHANGED <<up, dataq, pdl, otx>>
    BY <1>4 DEF OtaSend
  <2>2. ~up[w].alone
    BY <1>1, <1>2, <1>4 DEF EachUpload, Uploading
  <2>3. up' \in [Writers -> Uploads] /\ oops' \in BOOLEAN
    BY <1>2, <2>1 DEF DTypes
  <2>4. /\ \A i \in 1 .. Len(dataq') : Queued(dataq'[i], dataq)
        /\ \A i \in 1 .. Len(otx') : Queued(otx'[i], otx)
    BY <2>1 DEF Queued
  <2>. QED BY <1>1, <1>2, <1>3, <2>1, <2>2, <2>3, <2>4, WriterStep
<1>5. CASE dataq # <<>>
  <2>. DEFINE g == Head(dataq)
  <2>1. /\ up' = [up EXCEPT ![w].pc = "wait", ![w].ans = <<>>, ![w].sent = [off |-> g.off, round |-> g.round]]
        /\ dataq' = Tail(dataq) /\ pdl' = <<w>> \o pdl /\ otx' = Append(otx, g) /\ UNCHANGED oops
    BY <1>5 DEF OtaSend
  <2>2. /\ g \in Fragment /\ g = dataq[1] /\ Len(dataq) \in Nat \ {0}
        /\ dataq' \in Seq(Fragment) /\ Len(dataq') = Len(dataq) - 1
        /\ \A i \in 1 .. Len(dataq') : dataq'[i] = dataq[i + 1]
    <3>1. Len(dataq) \in Nat \ {0}
      BY <1>2, <1>5, EmptySeq
    <3>. QED BY <1>2, <1>5, <2>1, <3>1, HeadTailProperties
  <2>. HIDE DEF g
  <2>3. \A i \in 1 .. Len(dataq') : Queued(dataq'[i], dataq)
    <3>1. \A i \in 1 .. Len(dataq') : i + 1 \in 1 .. Len(dataq)
      BY <2>2
    <3>. QED BY <2>2, <3>1 DEF Queued
  <2>4. \A x : Queued(x, dataq) => Queued(x, dataq') \/ x = g
    <3>. SUFFICES ASSUME NEW i \in 1 .. Len(dataq) PROVE Queued(dataq[i], dataq') \/ dataq[i] = g
      BY DEF Queued
    <3>1. CASE i = 1
      BY <2>2, <3>1
    <3>2. CASE i # 1
      <4>1. i - 1 \in 1 .. Len(dataq') /\ dataq'[i - 1] = dataq[(i - 1) + 1] /\ (i - 1) + 1 = i
        BY <2>2, <3>2
      <4>. QED BY <4>1 DEF Queued
    <3>. QED BY <3>1, <3>2
  <2>5. Queued(g, dataq)
    BY <2>2 DEF Queued
  <2>6. /\ otx' \in Seq(Fragment)
        /\ \A i \in 1 .. Len(otx') : Queued(otx'[i], otx) \/ Queued(otx'[i], dataq)
    <3>1. /\ otx' \in Seq(Fragment) /\ Len(otx') = Len(otx) + 1 /\ otx'[Len(otx) + 1] = g
          /\ \A i \in 1 .. Len(otx) : otx'[i] = otx[i]
      BY <1>2, <2>1, <2>2
    <3>2. \A i \in 1 .. Len(otx') : i \in 1 .. Len(otx) \/ i = Len(otx) + 1
      BY <1>2, <3>1
    <3>. QED BY <2>5, <3>1, <3>2 DEF Queued
  <2>7. pdl' \in Seq(Writers)
    <3>1. <<w>> \in Seq(Writers)
      OBVIOUS
    <3>. QED BY <1>2, <2>1, <3>1, ConcatProperties
  <2>. DEFINE t == [off |-> g.off, round |-> g.round]
  <2>8. t \in [off : Int, round : Nat] /\ t.off = g.off /\ t.round = g.round
    BY <2>2 DEF Fragment
  <2>9. up' = [up EXCEPT ![w].pc = "wait", ![w].ans = <<>>, ![w].sent = t]
    BY <2>1
  <2>. HIDE DEF t
  <2>10. /\ up'[w] = [up[w] EXCEPT !.pc = "wait", !.ans = <<>>, !.sent = t]
         /\ \A x \in Writers \ {w} : up'[x] = up[x]
    BY <1>2, <2>9 DEF DTypes
  <2>11. /\ up'[w] \in Uploads /\ up'[w].pc = "wait" /\ up'[w].ans = <<>> /\ up'[w].sent = t
         /\ up'[w].file = up[w].file /\ up'[w].round = up[w].round
         /\ up'[w].alone = up[w].alone /\ up'[w].own = up[w].own
    BY <1>1, <1>2, <2>8, <2>10 DEF Uploads
  <2>12. up' \in [Writers -> Uploads]
    BY <1>2, <2>9, <2>10, <2>11 DEF DTypes
  <2>13. \A k : Frag(up'[w], k) = Frag(up[w], k) /\ (Frag(up[w], k) = g => k = g.off)
    BY <2>11 DEF Frag
  <2>14. Uploading(up'[w], dataq', written)
    <3>1. ASSUME up[w].alone PROVE
            /\ FileError(Files[up[w].file]) = 0
            /\ \A i \in 1 .. Len(dataq) : dataq[i].file = up[w].file /\ dataq[i].round = up[w].round
            /\ up[w].own => \A k \in Fragments(Files[up[w].file]) :
                              Queued(Frag(up[w], k), dataq) \/ Frag(up[w], k) \in written
      BY <1>1, <1>2, <3>1 DEF EachUpload, Uploading
    <3>2. ASSUME up[w].alone PROVE
            /\ g.round = up[w].round
            /\ \A i \in 1 .. Len(dataq') : dataq'[i].file = up[w].file /\ dataq'[i].round = up[w].round
      BY <2>3, <2>5, <3>1, <3>2 DEF Queued
    <3>3. ASSUME up[w].alone, up[w].own, NEW k \in Fragments(Files[up[w].file])
          PROVE  Queued(Frag(up[w], k), dataq') \/ Frag(up[w], k) \in written \/ t.off = k
      BY <2>4, <2>8, <2>13, <3>1, <3>3
    <3>. QED BY <1>2, <2>8, <2>11, <2>13, <3>1, <3>2, <3>3 DEF Uploading
  <2>15. EachUpload(up'[w], dataq', written)
    <3>1. up'[w].ans # <<0>> /\ up'[w].pc # "done"
      <4>1. Len(<<>>) = 0 /\ Len(<<0>>) = 1
        OBVIOUS
      <4>. QED BY <2>11, <4>1
    <3>2. Answered(up'[w], written) /\ Ended(up'[w], written)
      BY <3>1 DEF Answered, Ended
    <3>. QED BY <2>14, <3>2 DEF EachUpload
  <2>16. /\ up'[w].pc \in Busy /\ oops' \in BOOLEAN /\ ~oops' /\ dataq' \in Seq(Fragment)
         /\ up'[w].file = up[w].file /\ up'[w].round = up[w].round /\ up'[w].alone = up[w].alone
    BY <1>1, <1>2, <2>1, <2>2, <2>11
  <2>. QED BY <1>1, <1>3, <2>3, <2>6, <2>7, <2>10, <2>12, <2>15, <2>16, WriterStep
<1>. QED BY <1>4, <1>5

(* list_del of the i-th element.                                           *)
LEMMA DelType ==
  ASSUME NEW S, NEW p \in Seq(S), NEW i \in 1 .. Len(p), NEW d,
         d = [j \in 1 .. (Len(p) - 1) |-> IF j < i THEN p[j] ELSE p[j + 1]]
  PROVE  d \in Seq(S)
<1>1. Len(p) - 1 \in Nat
  OBVIOUS
<1>2. \A j \in 1 .. (Len(p) - 1) : d[j] \in S
  OBVIOUS
<1>. QED BY <1>1, <1>2

(* The wait for an answer ends.                                            *)
LEMMA DoneStep ==
  ASSUME DInv, NEW w \in Writers, OtaDone(w)
  PROVE  DInv'
<1>1. up[w].pc = "wait" /\ up[w].pc \in Busy /\ OtaResult(w) /\ Unlink(w)
  BY DEF OtaDone, Busy
<1>2. /\ up[w] \in Uploads /\ up[w].file \in DOMAIN Files /\ Files[up[w].file].size \in Nat
      /\ up[w].off \in Nat /\ up[w].round \in Nat /\ EachUpload(up[w], dataq, written)
      /\ dataq \in Seq(Fragment) /\ otx \in Seq(Fragment) /\ pdl \in Seq(Writers)
      /\ oops \in BOOLEAN /\ DTypes
  BY <1>1, WriterFacts
<1>3. UNCHANGED <<otx, oans, written, oops, rounds>>
  BY DEF OtaDone
<1>4. \A i \in 1 .. Len(otx') : Queued(otx'[i], otx)
  BY <1>3 DEF Queued
<1>5. pdl' \in Seq(Writers)
  <2>1. PICK i \in 1 .. Len(pdl) :
          pdl' = [j \in 1 .. (Len(pdl) - 1) |-> IF j < i THEN pdl[j] ELSE pdl[j + 1]]
    BY <1>1 DEF Unlink
  <2>. QED BY <1>2, <2>1, DelType, Zenon
<1>6. CASE up[w].ans = <<0>>
  <2>1. up' = [up EXCEPT ![w].pc = "test"] /\ UNCHANGED dataq
    BY <1>1, <1>6 DEF OtaResult
  <2>2. /\ up' \in [Writers -> Uploads] /\ \A x \in Writers \ {w} : up'[x] = up[x]
        /\ up'[w].pc = "test" /\ up'[w].off = up[w].off /\ up'[w].ret = up[w].ret
        /\ up'[w].file = up[w].file /\ up'[w].round = up[w].round /\ up'[w].sent = up[w].sent
        /\ up'[w].ans = up[w].ans /\ up'[w].alone = up[w].alone /\ up'[w].own = up[w].own
    BY <1>2, <2>1, MoveFacts DEF Busy
  <2>3. \A k : Frag(up'[w], k) = Frag(up[w], k)
    BY <2>2 DEF Frag
  <2>4. Uploading(up'[w], dataq', written)
    <3>1. ASSUME up[w].alone PROVE
            /\ FileError(Files[up[w].file]) = 0
            /\ \A i \in 1 .. Len(dataq) : dataq[i].file = up[w].file /\ dataq[i].round = up[w].round
            /\ up[w].own => \A k \in Fragments(Files[up[w].file]) :
                              Queued(Frag(up[w], k), dataq) \/ Frag(up[w], k) \in written \/ up[w].sent.off = k
            /\ up[w].sent.round = up[w].round
      BY <1>1, <1>2, <3>1 DEF EachUpload, Uploading
    <3>2. ASSUME up[w].alone, up[w].own PROVE Frag(up[w], up[w].sent.off) \in written
      BY <1>2, <1>6, <3>1, <3>2 DEF EachUpload, Answered
    <3>3. ASSUME up[w].alone, up[w].own, NEW k \in Fragments(Files[up[w].file])
          PROVE  Queued(Frag(up[w], k), dataq) \/ Frag(up[w], k) \in written
      BY <3>1, <3>2, <3>3
    <3>. QED BY <1>2, <2>1, <2>2, <2>3, <3>1, <3>3 DEF Uploading
  <2>5. EachUpload(up'[w], dataq', written)
    BY <1>2, <2>2, <2>3, <2>4 DEF EachUpload, Answered, Ended
  <2>6. \A i \in 1 .. Len(dataq') : Queued(dataq'[i], dataq)
    BY <2>1 DEF Queued
  <2>7. "test" \in Busy
    BY DEF Busy
  <2>. QED BY <1>1, <1>2, <1>3, <1>4, <1>5, <2>1, <2>2, <2>5, <2>6, <2>7, WriterStep
<1>7. CASE up[w].ans # <<0>>
  <2>1. PICK r \in Int : r # 0 /\ Leave(w, r)
    <3>1. up[w].ans = <<>> \/ up[w].ans = <<2>>
      BY <1>2, <1>7 DEF Uploads
    <3>2. <<2>>[1] = 2 /\ <<2>> # <<>>
      OBVIOUS
    <3>. QED BY <1>1, <1>7, <3>1, <3>2 DEF OtaResult
  <2>2. /\ up' \in [Writers -> Uploads] /\ \A x \in Writers \ {w} : up'[x] = up[x]
        /\ up'[w].pc = "done" /\ up'[w].ret = r /\ up'[w].file = up[w].file
        /\ up'[w].round = up[w].round /\ up'[w].alone = up[w].alone /\ up'[w].own = up[w].own
        /\ up'[w].ans = up[w].ans /\ up'[w].sent = up[w].sent
        /\ dataq' = <<>> /\ dataq' \in Seq(Fragment) /\ Len(dataq') = 0
    BY <1>2, <2>1, LeaveFacts
  <2>3. EachUpload(up'[w], dataq', written)
    BY <1>2, <1>7, <2>1, <2>2 DEF EachUpload, Uploading, Answered, Ended, Busy, Frag
  <2>. QED BY <1>1, <1>2, <1>3, <1>4, <1>5, <2>2, <2>3, WriterStep
<1>. QED BY <1>6, <1>7

(* The module takes the oldest fragment, and an answer arrives: a fragment *)
(* that was written stays written.                                         *)
LEMMA ModuleStep == ASSUME DInv, ModuleWrite PROVE DInv'
<1>. DEFINE g == Head(otx)
<1>1. /\ otx # <<>> /\ otx' = Tail(otx) /\ UNCHANGED <<up, dataq, pdl, oops, rounds>>
      /\ written \subseteq written' /\ \A a \in oans : a \in oans'
      /\ \A a \in oans' : a \in oans \/ (a.frag = g /\ a.err \in {0, 2} /\ (a.err = 0 => g \in written'))
      /\ \E e \in {0, 2} : oans' \subseteq oans \cup {[frag |-> g, err |-> e]}
  BY DEF ModuleWrite
<1>2. /\ g \in Fragment /\ g = otx[1] /\ Len(otx) \in Nat \ {0}
      /\ otx' \in Seq(Fragment) /\ Len(otx') = Len(otx) - 1
      /\ \A i \in 1 .. Len(otx') : otx'[i] = otx[i + 1] /\ i + 1 \in 1 .. Len(otx)
  <2>1. otx \in Seq(Fragment)
    BY DEF DInv, DTypes
  <2>2. Len(otx) \in Nat \ {0}
    BY <1>1, <2>1, EmptySeq
  <2>3. /\ g \in Fragment /\ g = otx[1] /\ otx' \in Seq(Fragment) /\ Len(otx') = Len(otx) - 1
        /\ \A i \in 1 .. Len(otx') : otx'[i] = otx[i + 1]
    BY <1>1, <2>1, <2>2, HeadTailProperties
  <2>. QED BY <2>2, <2>3
<1>. HIDE DEF g
<1>3. OfRound(g)
  BY <1>2 DEF DInv, Rounds
<1>4. DTypes'
  <2>1. oans' \subseteq [frag : Fragment, err : {0, 2}]
    BY <1>1, <1>2 DEF DInv, DTypes
  <2>. QED BY <1>1, <1>2, <2>1 DEF DInv, DTypes
<1>5. Rounds'
  BY <1>1, <1>2, <1>3 DEF DInv, Rounds, OfRound
<1>6. Sharing'
  BY <1>1 DEF DInv, Sharing
<1>7. ASSUME NEW w \in Writers PROVE EachUpload(up'[w], dataq', written')
  BY <1>1 DEF DInv, EachUpload, Uploading, Answered, Ended
<1>. QED BY <1>4, <1>5, <1>6, <1>7 DEF DInv

(* An upload that has only lost confidence in its answers.                 *)
LEMMA SameUpload ==
  ASSUME NEW u, NEW v, NEW d, NEW wr, Uploading(u, d, wr), v.pc = u.pc, v.file = u.file, v.off = u.off,
         v.round = u.round, v.sent = u.sent, v.alone = u.alone, v.own => u.own
  PROVE  Uploading(v, d, wr)
<1>1. \A k : Frag(v, k) = Frag(u, k)
  BY DEF Frag
<1>. QED BY <1>1 DEF Uploading

(* An answer goes to the latest that waits.                                *)
LEMMA AnswerStep == ASSUME DInv, OtaAnswer PROVE DInv'
<1>1. PICK a \in oans :
        /\ oans' = oans \ {a}
        /\ IF pdl = <<>> THEN UNCHANGED up
           ELSE LET w == Head(pdl)
                IN  up' = [up EXCEPT ![w].ans = <<a.err>>,
                                     ![w].own = @ /\ [off |-> a.frag.off, round |-> a.frag.round] = up[w].sent]
  BY DEF OtaAnswer
<1>2. UNCHANGED <<dataq, pdl, otx, written, oops, rounds>>
  BY DEF OtaAnswer
<1>3. DTypes /\ Rounds /\ Sharing /\ \A w \in Writers : EachUpload(up[w], dataq, written)
  BY DEF DInv
<1>4. \A b \in oans' : b \in oans
  BY <1>1
<1>5. CASE UNCHANGED up
  <2>1. DTypes'
    BY <1>2, <1>3, <1>4, <1>5 DEF DTypes
  <2>2. Rounds' /\ Sharing'
    BY <1>2, <1>3, <1>4, <1>5 DEF Rounds, Sharing, OfRound
  <2>. QED BY <1>2, <1>3, <1>5, <2>1, <2>2 DEF DInv
<1>6. CASE pdl # <<>>
  <2>. DEFINE w == Head(pdl)
              y == [off |-> a.frag.off, round |-> a.frag.round] = up[w].sent
  <2>1. w \in Writers
    BY <1>3, <1>6, HeadTailProperties DEF DTypes
  <2>2. up' = [up EXCEPT ![w].ans = <<a.err>>, ![w].own = @ /\ y]
    BY <1>1, <1>6
  <2>3. up \in [Writers -> Uploads] /\ up[w] \in Uploads /\ y \in BOOLEAN
    BY <1>3, <2>1 DEF DTypes
  <2>4. y => a.frag.off = up[w].sent.off /\ a.frag.round = up[w].sent.round
    OBVIOUS
  <2>5. a.frag \in Fragment /\ a.err \in {0, 2} /\ OfRound(a.frag) /\ (a.err = 0 => a.frag \in written)
    BY <1>3 DEF DTypes, Rounds
  <2>6. <<a.err>> \in {<<>>, <<0>>, <<2>>} /\ (<<a.err>> = <<0>> => a.err = 0)
    BY <2>5
  <2>. HIDE DEF w, y
  <2>7. /\ up'[w] = [up[w] EXCEPT !.ans = <<a.err>>, !.own = @ /\ y]
        /\ \A x \in Writers \ {w} : up'[x] = up[x]
    BY <2>1, <2>2, <2>3
  <2>8. /\ up'[w] \in Uploads /\ up'[w].ans = <<a.err>> /\ up'[w].own = (up[w].own /\ y)
        /\ up'[w].pc = up[w].pc /\ up'[w].file = up[w].file /\ up'[w].off = up[w].off
        /\ up'[w].ret = up[w].ret /\ up'[w].round = up[w].round /\ up'[w].sent = up[w].sent
        /\ up'[w].alone = up[w].alone
    BY <2>3, <2>6, <2>7 DEF Uploads
  <2>9. up' \in [Writers -> Uploads]
    BY <2>2, <2>3, <2>7, <2>8
  <2>10. DTypes'
    BY <1>2, <1>3, <1>4, <2>9 DEF DTypes
  <2>11. \A x \in Writers : /\ up'[x].pc = up[x].pc /\ up'[x].file = up[x].file
                            /\ up'[x].round = up[x].round /\ up'[x].alone = up[x].alone
    BY <2>7, <2>8
  <2>12. Rounds' /\ Sharing'
    BY <1>2, <1>3, <1>4, <2>11 DEF Rounds, Sharing, OfRound
  <2>13. \A k : Frag(up'[w], k) = Frag(up[w], k)
    BY <2>8 DEF Frag
  <2>14. Answered(up'[w], written)
    <3>. SUFFICES ASSUME a.err = 0, y, up[w].sent.round = up[w].round
                  PROVE  Frag(up[w], up[w].sent.off) \in written
      BY <2>6, <2>8, <2>13 DEF Answered
    <3>1. a.frag.file = up[w].file /\ a.frag.off = up[w].sent.off /\ a.frag.round = up[w].round
      BY <2>1, <2>4, <2>5 DEF OfRound
    <3>2. a.frag = Frag(up[w], up[w].sent.off)
      BY <2>5, <3>1 DEF Fragment, Frag
    <3>. QED BY <2>5, <3>2
  <2>15. Uploading(up'[w], dataq', written')
    <3>1. up'[w].own => up[w].own
      BY <2>8
    <3>2. Uploading(up[w], dataq, written)
      BY <1>3, <2>1 DEF EachUpload
    <3>. QED BY <1>2, <2>8, <3>1, <3>2, SameUpload, Zenon
  <2>16. Ended(up'[w], written')
    BY <1>2, <1>3, <2>1, <2>8, <2>13 DEF EachUpload, Ended
  <2>17. \A x \in Writers : EachUpload(up'[x], dataq', written')
    BY <1>2, <1>3, <2>7, <2>14, <2>15, <2>16 DEF EachUpload
  <2>. QED BY <2>10, <2>12, <2>17 DEF DInv
<1>. QED BY <1>1, <1>5, <1>6

(* A writer begins: those that are active are no longer alone.             *)
LEMMA BeginStep ==
  ASSUME DInv, NEW w \in Writers, OtaWrite(w)
  PROVE  DInv'
<1>1. /\ up[w].pc \notin Busy /\ rounds' = rounds + 1
      /\ UNCHANGED <<pdl, otx, oans, written, oops>>
  BY DEF OtaWrite, Busy
<1>2. DTypes /\ Rounds /\ Sharing /\ \A x \in Writers : EachUpload(up[x], dataq, written)
  BY DEF DInv
<1>3. \A x \in Writers : x \in Active <=> up[x].pc \in Busy
  <2>1. \A x \in Writers : up[x].pc \in Busy \cup {"idle", "done"}
    BY <1>2 DEF DTypes, Uploads
  <2>. QED BY <2>1 DEF Active, Busy
<1>. DEFINE parted == [x \in Writers |-> [up[x] EXCEPT !.alone = @ /\ x \notin Active]]
            fresh(c, name, r) ==
              [pc |-> c, file |-> name, off |-> 0, ret |-> r, round |-> rounds + 1,
               sent |-> [off |-> -1, round |-> 0], ans |-> <<>>, alone |-> Active = {}, own |-> TRUE]
<1>4. PICK name \in DOMAIN Files, c \in {"parse", "done"}, r \in Int :
        /\ up' = [parted EXCEPT ![w] = fresh(c, name, r)]
        /\ c = "parse" => FileError(Files[name]) = 0 /\ UNCHANGED dataq
        /\ c = "done" => dataq' = <<>> /\ r # 0
  <2>1. PICK name \in DOMAIN Files :
          \/ /\ FileError(Files[name]) = 0
             /\ up' = [parted EXCEPT ![w] = fresh("parse", name, 0)] /\ UNCHANGED dataq
          \/ /\ FileError(Files[name]) # 0
             /\ up' = [parted EXCEPT ![w] = fresh("done", name, FileError(Files[name]))] /\ dataq' = <<>>
          \/ up' = [parted EXCEPT ![w] = fresh("done", name, -19)] /\ dataq' = <<>>
    BY Zenon DEF OtaWrite
  <2>. HIDE DEF parted, fresh
  <2>2. FileError(Files[name]) \in Int
    BY FileErrorFacts
  <2>3. CASE /\ FileError(Files[name]) = 0
             /\ up' = [parted EXCEPT ![w] = fresh("parse", name, 0)] /\ UNCHANGED dataq
    <3>1. 0 \in Int /\ "parse" \in {"parse", "done"} /\ "parse" # "done"
      OBVIOUS
    <3>. QED BY <2>3, <3>1, Zenon
  <2>4. CASE /\ FileError(Files[name]) # 0
             /\ up' = [parted EXCEPT ![w] = fresh("done", name, FileError(Files[name]))] /\ dataq' = <<>>
    BY <2>2, <2>4
  <2>5. CASE up' = [parted EXCEPT ![w] = fresh("done", name, -19)] /\ dataq' = <<>>
    <3>1. -19 \in Int /\ -19 # 0 /\ "done" \in {"parse", "done"} /\ "parse" # "done"
      OBVIOUS
    <3>2. \E r \in Int : r # 0 /\ up' = [parted EXCEPT ![w] = fresh("done", name, r)]
      BY <2>5, <3>1
    <3>. QED BY <2>5, <3>1, <3>2, Zenon
  <2>. QED BY <2>1, <2>3, <2>4, <2>5
<1>5. rounds \in Nat /\ rounds + 1 \in Nat /\ up \in [Writers -> Uploads]
  BY <1>2 DEF DTypes
<1>6. fresh(c, name, r) \in Uploads
  <2>1. <<>> \in {<<>>, <<0>>, <<2>>} /\ [off |-> -1, round |-> 0] \in [off : Int, round : Nat]
    OBVIOUS
  <2>. QED BY <1>5, <2>1 DEF Uploads, Busy
<1>. DEFINE y(x) == [up[x] EXCEPT !.alone = @ /\ x \notin Active]
<1>7. ASSUME NEW x \in Writers
      PROVE  /\ y(x) \in Uploads /\ y(x).pc = up[x].pc /\ y(x).file = up[x].file /\ y(x).off = up[x].off
             /\ y(x).ret = up[x].ret /\ y(x).round = up[x].round /\ y(x).sent = up[x].sent
             /\ y(x).ans = up[x].ans /\ y(x).own = up[x].own
             /\ y(x).alone = (up[x].alone /\ x \notin Active)
  <2>1. up[x] \in Uploads
    BY <1>5
  <2>. QED BY <2>1 DEF Uploads
<1>8. up'[w] = fresh(c, name, r) /\ \A x \in Writers \ {w} : up'[x] = y(x)
  BY <1>4
<1>9. /\ up'[w].pc = c /\ up'[w].file = name /\ up'[w].off = 0 /\ up'[w].ret = r
      /\ up'[w].round = rounds + 1 /\ up'[w].ans = <<>> /\ up'[w].alone = (Active = {}) /\ up'[w].own
  BY <1>8
<1>a. DOMAIN up' = Writers /\ up' = [x \in Writers |-> up'[x]]
  BY <1>4
<1>. HIDE DEF y, parted, fresh
<1>10. \A x \in Writers \ {w} :
         /\ up'[x].pc = up[x].pc /\ up'[x].file = up[x].file /\ up'[x].off = up[x].off
         /\ up'[x].ret = up[x].ret /\ up'[x].round = up[x].round /\ up'[x].sent = up[x].sent
         /\ up'[x].ans = up[x].ans /\ up'[x].own = up[x].own
         /\ up'[x].alone = (up[x].alone /\ x \notin Active)
  BY <1>7, <1>8
<1>11. up' \in [Writers -> Uploads]
  BY <1>6, <1>7, <1>8, <1>a
<1>12. dataq' \in Seq(Fragment) /\ (dataq' = dataq \/ dataq' = <<>>)
  <2>1. dataq \in Seq(Fragment) /\ <<>> \in Seq(Fragment)
    BY <1>2 DEF DTypes
  <2>. QED BY <1>4, <2>1
<1>13. DTypes'
  BY <1>1, <1>2, <1>5, <1>11, <1>12 DEF DTypes
<1>14. \A x \in Writers : up[x].round \in Nat /\ up[x].round <= rounds
  BY <1>2 DEF DTypes, Uploads, Rounds
<1>. DEFINE Of(g) == g.round \in 1 .. rounds' /\ \A x \in Writers : g.round = up'[x].round => g.file = up'[x].file
<1>15. ASSUME NEW g, OfRound(g) PROVE Of(g)
  <2>1. g.round \in 1 .. rounds /\ g.round \in 1 .. rounds' /\ g.round # rounds + 1
    BY <1>1, <1>5, <1>15 DEF OfRound
  <2>2. \A x \in Writers : g.round = up'[x].round => g.file = up'[x].file
    BY <1>9, <1>10, <1>15, <2>1 DEF OfRound
  <2>. QED BY <2>1, <2>2
<1>16. Rounds'
  <2>. HIDE DEF Of
  <2>1. ASSUME NEW x \in Writers
        PROVE  up'[x].round <= rounds' /\ (up'[x].pc \in Busy => up'[x].round > 0 /\ up'[x].file \in DOMAIN Files)
    <3>1. CASE x = w
      BY <1>1, <1>5, <1>9, <3>1
    <3>2. CASE x # w
      BY <1>1, <1>2, <1>5, <1>10, <1>14, <3>2 DEF Rounds
    <3>. QED BY <3>1, <3>2
  <2>2. ASSUME NEW x \in Writers, NEW z \in Writers, up'[x].round = up'[z].round, up'[x].round > 0
        PROVE  x = z
    <3>1. \A k \in Nat : k <= rounds => k # rounds + 1
      BY <1>5
    <3>2. CASE x = w \/ z = w
      BY <1>9, <1>10, <1>14, <2>2, <3>1, <3>2
    <3>3. CASE x # w /\ z # w
      BY <1>2, <1>10, <2>2, <3>3 DEF Rounds
    <3>. QED BY <3>2, <3>3
  <2>3. \A i \in 1 .. Len(dataq') : Of(dataq'[i])
    BY <1>2, <1>12, <1>15 DEF Rounds
  <2>4. \A i \in 1 .. Len(otx') : Of(otx'[i])
    BY <1>1, <1>2, <1>15 DEF Rounds
  <2>5. \A a \in oans' : Of(a.frag) /\ (a.err = 0 => a.frag \in written')
    BY <1>1, <1>2, <1>15 DEF Rounds
  <2>. QED BY <2>1, <2>2, <2>3, <2>4, <2>5 DEF Rounds, OfRound, Of
<1>17. ASSUME up'[w].pc \in Busy, up'[w].alone
       PROVE  Active = {} /\ dataq' = <<>> /\ c = "parse" /\ FileError(Files[name]) = 0
  BY <1>2, <1>3, <1>4, <1>9, <1>12, <1>17 DEF Sharing, Busy
<1>18. Sharing'
  <2>1. ASSUME NEW x \in Writers, NEW z \in Writers, up'[x].pc \in Busy, up'[z].pc \in Busy, up'[x].alone
        PROVE  z = x
    <3>1. CASE x = w
      BY <1>3, <1>10, <1>17, <2>1, <3>1
    <3>2. CASE x # w
      BY <1>3, <1>10, <2>1, <3>2
    <3>. QED BY <3>1, <3>2
  <2>2. (\A x \in Writers : up'[x].pc \notin Busy) => dataq' = <<>>
    BY <1>2, <1>4, <1>9, <1>10, <1>12 DEF Sharing, Busy
  <2>3. oops' => \E x \in Writers : up'[x].pc = "take" /\ ~up'[x].alone
    BY <1>1, <1>2, <1>10 DEF Sharing, Busy
  <2>. QED BY <2>1, <2>2, <2>3 DEF Sharing
<1>19. EachUpload(up'[w], dataq', written')
  <2>1. up'[w].ans # <<0>>
    <3>1. Len(<<>>) = 0 /\ Len(<<0>>) = 1
      OBVIOUS
    <3>. QED BY <1>9, <3>1
  <2>2. ~(up'[w].pc = "done" /\ up'[w].ret = 0)
    BY <1>4, <1>9
  <2>3. Uploading(up'[w], dataq', written')
    <3>1. \A k \in Fragments(Files[name]) : ~(k < 0)
      BY OtaAssumption, FragmentsFacts
    <3>2. 0 \in Nat /\ 0 = 0 * FragSize
      BY OtaAssumption
    <3>3. Len(<<>>) = 0
      OBVIOUS
    <3>4. ASSUME up'[w].pc \in Busy, up'[w].alone PROVE
            /\ up'[w].pc = "parse" /\ up'[w].file = name /\ up'[w].off = 0 /\ Len(dataq') = 0
            /\ FileError(Files[name]) = 0
      BY <1>9, <1>17, <3>3, <3>4
    <3>. QED BY <3>1, <3>2, <3>4 DEF Uploading
  <2>. QED BY <2>1, <2>2, <2>3 DEF EachUpload, Answered, Ended
<1>20. ASSUME NEW x \in Writers, x # w PROVE EachUpload(up'[x], dataq', written')
  <2>1. EachUpload(up[x], dataq, written)
    BY <1>2
  <2>2. \A k : Frag(up'[x], k) = Frag(up[x], k)
    BY <1>10, <1>20 DEF Frag
  <2>3. ~(up'[x].pc \in Busy /\ up'[x].alone)
    BY <1>3, <1>10, <1>20
  <2>4. up'[x].alone => up[x].alone
    BY <1>10, <1>20
  <2>5. Answered(up'[x], written')
    BY <1>1, <1>10, <1>20, <2>1, <2>2 DEF EachUpload, Answered
  <2>6. Ended(up'[x], written')
    BY <1>1, <1>10, <1>20, <2>1, <2>2, <2>4 DEF EachUpload, Ended
  <2>. QED BY <2>3, <2>5, <2>6 DEF EachUpload, Uploading
<1>. QED BY <1>13, <1>16, <1>18, <1>19, <1>20 DEF DInv

(* The invariant of the uploads holds throughout.                          *)
LEMMA UploadsHold == UpSpec => []DInv
<1>1. UpInit => DInv
  <2>. SUFFICES ASSUME OtaInit PROVE DInv
    BY DEF UpInit
  <2>. DEFINE u0 == [pc |-> "idle", file |-> "", off |-> 0, ret |-> 0, round |-> 0,
                     sent |-> [off |-> -1, round |-> 0], ans |-> <<>>, alone |-> TRUE, own |-> TRUE]
  <2>1. <<>> \in {<<>>, <<0>>, <<2>>} /\ [off |-> -1, round |-> 0] \in [off : Int, round : Nat]
    OBVIOUS
  <2>2. u0 \in Uploads /\ u0.pc = "idle" /\ u0.ans = <<>> /\ u0.round = 0
    BY <2>1 DEF Uploads
  <2>3. up = [w \in Writers |-> u0]
    BY Zenon DEF OtaInit
  <2>. HIDE DEF u0
  <2>4. \A w \in Writers : up[w] = u0
    BY <2>3
  <2>5. /\ up \in [Writers -> Uploads] /\ dataq = <<>> /\ otx = <<>> /\ oans = {} /\ rounds = 0 /\ oops = FALSE
        /\ Len(dataq) = 0 /\ Len(otx) = 0
    BY <2>2, <2>3 DEF OtaInit
  <2>6. DTypes
    <3>0. \A S : <<>> \in Seq(S)
      OBVIOUS
    <3>1. pdl \in Seq(Writers) /\ dataq \in Seq(Fragment) /\ otx \in Seq(Fragment)
      BY <3>0, Zenon DEF OtaInit
    <3>2. oops \in BOOLEAN
      BY <2>5
    <3>. QED BY <2>5, <3>1, <3>2 DEF DTypes
  <2>7. u0.pc \notin Busy /\ u0.pc # "done" /\ u0.ans # <<0>>
    <3>1. Len(<<>>) = 0 /\ Len(<<0>>) = 1
      OBVIOUS
    <3>. QED BY <2>2, <3>1 DEF Busy
  <2>8. Rounds /\ Sharing
    BY <2>2, <2>4, <2>5, <2>7 DEF Rounds, Sharing
  <2>9. EachUpload(u0, dataq, written)
    BY <2>7 DEF EachUpload, Uploading, Answered, Ended
  <2>. QED BY <2>4, <2>6, <2>8, <2>9 DEF DInv
<1>2. DInv /\ [UpNext]_upvars => DInv'
  <2>. SUFFICES ASSUME DInv, [UpNext]_upvars PROVE DInv'
    OBVIOUS
  <2>1. CASE UNCHANGED otavars
    BY <2>1 DEF otavars, DInv, DTypes, Rounds, OfRound, Sharing
  <2>2. CASE OtaNext
    BY <2>2, BeginStep, FragmentStep, TestStep, SendStep, DoneStep, ModuleStep, AnswerStep
       DEF OtaNext, UploadStep
  <2>. QED BY <2>1, <2>2 DEF UpNext, ByAir, upvars
<1>. QED BY <1>1, <1>2, PTL DEF UpSpec

(* An upload that returned 0, was alone and took only its own answers has  *)
(* put the whole of a file with a right checksum into the flash.           *)
THEOREM UploadsAreWhole == UpSpec => []ImageWhole
<1>1. DInv => ImageWhole
  BY DEF DInv, EachUpload, Ended, Frag, ImageWhole
<1>. QED BY <1>1, UploadsHold, PTL

(* No upload starts with the fragments of another, and skb_dequeue fails   *)
(* only a writer that was not alone.                                       *)
THEOREM QueueStaysClean == UpSpec => []QueueClean
<1>1. ASSUME DInv PROVE QueueClean
  <2>1. \A w \in Writers : w \in Active <=> up[w].pc \in Busy
    <3>1. \A w \in Writers : up[w].pc \in Busy \cup {"idle", "done"}
      BY <1>1 DEF DInv, DTypes, Uploads
    <3>. QED BY <3>1 DEF Active, Busy
  <2>. QED BY <1>1, <2>1 DEF DInv, Sharing, QueueClean, Busy
<1>. QED BY <1>1, UploadsHold, PTL

-----------------------------------------------------------------------------
(* The upgrade over the air.                                               *)

Svns    == {Svn[s] : s \in Stations}
Pars    == {"zeros", "own", "default"}
Entries == [svn : Svns, next : Nat, par : Pars]
Tables  == UNION {[D -> Entries] : D \in SUBSET Stations}

AirFrames == [kind : {"scan", "getparam"}] \cup [kind : {"reboot"}, loaddef : BOOLEAN]
               \cup [kind : {"data"}, sid : Nat, off : Nat, len : Nat]
Heard == [kind : {"report"}, src : Stations, svn : Svns]
           \cup [kind : {"param"}, src : Stations, par : Pars, sumok : BOOLEAN]
           \cup [kind : {"data"}, src : Stations, sid : Nat, off : Nat, len : Nat, status : {0, 255}]

Pcs   == {"idle", "scan", "save", "write", "cfgrx", "ota", "otarx", "done"}
Shown == Pars \cup {"", "garbage"}
ToolRecs == [pc : Pcs, cmd : {"", "SCAN", "GETCFG", "REBOOT", "LDDEF", "OTA"}, to : Stations \cup {""},
             img : DOMAIN Images \cup {""}, tab : Tables, off : Nat, retry : Nat, n : Nat,
             shown : Shown, sid : Nat, clean : BOOLEAN]

HTypes ==
  /\ tl \in [Tools -> ToolRecs] /\ tmp \in Tables
  /\ air \in [Stations -> Seq(AirFrames)] /\ inbox \in [Tools -> Seq(Heard)]
  /\ stored \in [Stations -> SUBSET (Nat \X Nat)] /\ param \in [Stations -> Pars] /\ calls \in Nat

Tot(u) == fwinfo_get_fw_length(Images[u.img])

(* Every block of invocation i below o is among the accepted ones.         *)
Below(i, o, blocks) == \A k \in 0 .. (o - 1) : k % BlockSize = 0 => <<i, k>> \in blocks

(* The invocation u: where it is in the file, all below was accepted.      *)
ToolOk(u, st, n) ==
  /\ u.sid <= n
  /\ u.pc \in {"ota", "otarx"} \/ u.off > 0 =>
       u.sid > 0 /\ u.to \in Stations /\ u.img \in DOMAIN Images /\ hgic_read_firmware(Images[u.img])
  /\ u.clean /\ u.off > 0 => Below(u.sid, u.off, st[u.to])
  /\ u.clean => (\E q \in Nat : u.off = q * BlockSize) \/ u.off >= Tot(u)
  /\ u.pc = "otarx" /\ u.to \in DOMAIN u.tab => u.tab[u.to].next = 0

(* The block f for station s belongs to one invocation of t; if that one   *)
(* has taken only answers to its own blocks, all blocks below f were       *)
(* accepted.                                                               *)
Sent(f, s, t, st, n) ==
  /\ f.sid \in 1 .. n
  /\ \A p \in Tools : t[p].sid = f.sid /\ t[p].clean =>
       /\ t[p].to = s /\ Below(f.sid, f.off, st[s])
       /\ \E q \in Nat : f.off = q * BlockSize
       /\ f.len <= BlockSize /\ (f.len = BlockSize \/ f.off + f.len >= Tot(t[p]))

OnAir(f, s, t, st, n) == f.kind = "data" => Sent(f, s, t, st, n)

(* An answer that accepts a block.                                         *)
Answering(f, t, st, n) ==
  f.kind = "data" =>
    Sent(f, f.src, t, st, n) /\ (f.status # 255 => <<f.sid, f.off>> \in st[f.src])

HInv ==
  /\ HTypes
  /\ \A p \in Tools : ToolOk(tl[p], stored, calls)
  /\ \A p, q \in Tools : tl[p].sid = tl[q].sid /\ tl[p].sid > 0 => p = q
  /\ \A s \in Stations : \A i \in 1 .. Len(air[s]) : OnAir(air[s][i], s, tl, stored, calls)
  /\ \A p \in Tools : \A i \in 1 .. Len(inbox[p]) : Answering(inbox[p][i], tl, stored, calls)

(* The table after a frame.  If the station has no next offset, it has one *)
(* only from its answer to a block.                                        *)
LEMMA TableFacts ==
  ASSUME NEW t
  PROVE  t \in Tables <=> (DOMAIN t \subseteq Stations /\ t \in [DOMAIN t -> Entries])
BY DEF Tables

LEMMA RxFacts ==
  ASSUME NEW t \in Tables, NEW f \in Heard
  PROVE  /\ libota_rx_proc(t, f).tab \in Tables
         /\ \A s : (s \in DOMAIN t => t[s].next = 0) =>
              LET nx == libota_sta_nexoff(libota_rx_proc(t, f).tab, s)
              IN  nx = 0 \/ (nx = f.off + f.len /\ f.kind = "data" /\ f.src = s /\ f.status # 255)
<1>1. DOMAIN t \subseteq Stations /\ t \in [DOMAIN t -> Entries]
  BY TableFacts
<1>2. CASE f.kind = "report"
  <2>1. f.src \in Stations /\ f.svn \in Svns
    BY <1>2 DEF Heard
  <2>. DEFINE a == libota_add_sta(t, f.src, f.svn)
              e == [svn |-> f.svn, next |-> 0, par |-> "zeros"]
  <2>2. libota_rx_proc(t, f).tab = a
    BY <1>2 DEF libota_rx_proc
  <2>3. e \in Entries /\ e.next = 0
    BY <2>1 DEF Entries, Pars
  <2>. HIDE DEF e
  <2>4. CASE f.src \in DOMAIN t
    <3>1. a = [t EXCEPT ![f.src].svn = f.svn]
      BY <2>4 DEF libota_add_sta
    <3>2. t[f.src] \in Entries
      BY <1>1, <2>4
    <3>3. [t[f.src] EXCEPT !.svn = f.svn] \in Entries /\ [t[f.src] EXCEPT !.svn = f.svn].next = t[f.src].next
      BY <2>1, <3>2 DEF Entries
    <3>. HIDE DEF a
    <3>4. DOMAIN a = DOMAIN t /\ a \in [DOMAIN t -> Entries] /\ \A s \in DOMAIN t : a[s].next = t[s].next
      BY <1>1, <2>4, <3>1, <3>3
    <3>. QED BY <1>1, <2>2, <3>4, TableFacts DEF libota_sta_nexoff
  <2>5. CASE f.src \notin DOMAIN t /\ Cardinality(DOMAIN t) < TableSize
    <3>1. a = [x \in DOMAIN t \union {f.src} |-> IF x = f.src THEN e ELSE t[x]]
      BY <2>5 DEF libota_add_sta, e
    <3>. HIDE DEF a
    <3>2. /\ DOMAIN a = DOMAIN t \cup {f.src} /\ a \in [DOMAIN t \cup {f.src} -> Entries]
          /\ \A s \in DOMAIN t : a[s] = t[s]
          /\ a[f.src] = e
      BY <1>1, <2>3, <2>5, <3>1
    <3>3. a \in Tables
      BY <1>1, <2>1, <3>2, TableFacts
    <3>. QED BY <2>2, <2>3, <3>2, <3>3 DEF libota_sta_nexoff
  <2>6. CASE ~(f.src \in DOMAIN t) /\ ~(Cardinality(DOMAIN t) < TableSize)
    <3>1. a = t
      BY <2>6 DEF libota_add_sta
    <3>. QED BY <2>2, <3>1 DEF libota_sta_nexoff
  <2>. QED BY <2>4, <2>5, <2>6
<1>3. CASE f.kind = "data"
  <2>1. f.src \in Stations /\ f.off \in Nat /\ f.len \in Nat
    BY <1>3 DEF Heard
  <2>2. CASE f.src \in DOMAIN t /\ f.status # 255
    <3>. DEFINE a == [t EXCEPT ![f.src].next = f.off + f.len]
    <3>1. libota_rx_proc(t, f).tab = a
      BY <1>3, <2>2 DEF libota_rx_proc, Accepted, After
    <3>2. t[f.src] \in Entries /\ f.off + f.len \in Nat
      BY <1>1, <2>1, <2>2
    <3>3. /\ [t[f.src] EXCEPT !.next = f.off + f.len] \in Entries
          /\ [t[f.src] EXCEPT !.next = f.off + f.len].next = f.off + f.len
      BY <3>2 DEF Entries
    <3>4. /\ DOMAIN a = DOMAIN t /\ a \in [DOMAIN t -> Entries]
          /\ \A s \in DOMAIN t : s # f.src => a[s] = t[s]
          /\ a[f.src].next = f.off + f.len
      BY <1>1, <2>2, <3>3
    <3>. HIDE DEF a
    <3>. QED BY <1>1, <1>3, <2>2, <3>1, <3>4, TableFacts DEF libota_sta_nexoff
  <2>3. CASE ~(f.src \in DOMAIN t /\ f.status # 255)
    <3>1. libota_rx_proc(t, f).tab = t
      BY <1>3, <2>3 DEF libota_rx_proc, Accepted
    <3>. QED BY <3>1 DEF libota_sta_nexoff
  <2>. QED BY <2>2, <2>3
<1>4. CASE f.kind = "param" /\ f.sumok /\ f.src \in DOMAIN t
  <2>. DEFINE a == [t EXCEPT ![f.src].par = f.par]
  <2>1. libota_rx_proc(t, f).tab = a
    BY <1>4 DEF libota_rx_proc
  <2>2. f.par \in Pars /\ t[f.src] \in Entries
    BY <1>1, <1>4 DEF Heard
  <2>3. [t[f.src] EXCEPT !.par = f.par] \in Entries /\ [t[f.src] EXCEPT !.par = f.par].next = t[f.src].next
    BY <2>2 DEF Entries
  <2>4. DOMAIN a = DOMAIN t /\ a \in [DOMAIN t -> Entries] /\ \A s \in DOMAIN t : a[s].next = t[s].next
    BY <1>1, <1>4, <2>3
  <2>. HIDE DEF a
  <2>. QED BY <1>1, <2>1, <2>4, TableFacts DEF libota_sta_nexoff
<1>5. CASE f.kind = "param" /\ ~(f.sumok /\ f.src \in DOMAIN t)
  <2>1. libota_rx_proc(t, f).tab = t
    BY <1>5 DEF libota_rx_proc
  <2>. QED BY <2>1 DEF libota_sta_nexoff
<1>. QED BY <1>2, <1>3, <1>4, <1>5 DEF Heard

(* A block stays what it was while stations accept more, invocations begin *)
(* and others lose confidence in their answers.                            *)
LEMMA SentKept ==
  ASSUME NEW f, NEW s, NEW t, NEW v, NEW st, NEW sv, NEW n \in Nat, NEW m \in Nat, n <= m,
         st[s] \subseteq sv[s],
         \A p \in Tools : \/ /\ v[p].sid = t[p].sid /\ v[p].to = t[p].to /\ v[p].img = t[p].img
                             /\ v[p].clean => t[p].clean
                          \/ v[p].sid = n + 1,
         Sent(f, s, t, st, n)
  PROVE  Sent(f, s, v, sv, m)
<1>1. f.sid \in 1 .. n /\ f.sid \in 1 .. m /\ f.sid # n + 1
  BY DEF Sent
<1>2. ASSUME NEW p \in Tools, v[p].sid = f.sid, v[p].clean
      PROVE  /\ v[p].to = s /\ Below(f.sid, f.off, sv[s])
             /\ \E q \in Nat : f.off = q * BlockSize
             /\ f.len <= BlockSize /\ (f.len = BlockSize \/ f.off + f.len >= Tot(v[p]))
  <2>1. v[p].to = t[p].to /\ v[p].img = t[p].img /\ t[p].clean /\ t[p].sid = f.sid
    BY <1>1, <1>2
  <2>2. /\ t[p].to = s /\ Below(f.sid, f.off, st[s])
        /\ \E q \in Nat : f.off = q * BlockSize
        /\ f.len <= BlockSize /\ (f.len = BlockSize \/ f.off + f.len >= Tot(t[p]))
    BY <2>1 DEF Sent
  <2>3. Tot(v[p]) = Tot(t[p])
    BY <2>1 DEF Tot
  <2>4. Below(f.sid, f.off, sv[s])
    BY <2>2 DEF Below
  <2>. QED BY <2>1, <2>2, <2>3, <2>4
<1>. QED BY <1>1, <1>2 DEF Sent

(* In particular while only the stations move.                             *)
LEMMA SentGrows ==
  ASSUME NEW f, NEW s, NEW t, NEW st, NEW sv, NEW n \in Nat, st[s] \subseteq sv[s], Sent(f, s, t, st, n)
  PROVE  Sent(f, s, t, sv, n)
<1>1. \A q \in Tools : \/ /\ t[q].sid = t[q].sid /\ t[q].to = t[q].to /\ t[q].img = t[q].img
                          /\ t[q].clean => t[q].clean
                       \/ t[q].sid = n + 1
  OBVIOUS
<1>2. n <= n
  OBVIOUS
<1>. QED BY <1>1, <1>2, SentKept, Zenon

(* So does an invocation that does not move.                               *)
LEMMA ToolKept ==
  ASSUME NEW u, NEW st, NEW sv, NEW n \in Nat, NEW m \in Nat, n <= m, u.sid \in Nat, u.off \in Nat,
         \A s \in Stations : st[s] \subseteq sv[s], ToolOk(u, st, n)
  PROVE  ToolOk(u, sv, m)
<1>1. u.sid <= m
  BY DEF ToolOk
<1>2. u.clean /\ u.off > 0 => Below(u.sid, u.off, sv[u.to])
  BY DEF ToolOk, Below
<1>. QED BY <1>1, <1>2 DEF ToolOk

(* A step of the tool p: what it may do to the shared state.               *)
LEMMA ToolTurn ==
  ASSUME HInv, NEW p \in Tools, tl' \in [Tools -> ToolRecs], \A q \in Tools \ {p} : tl'[q] = tl[q],
         tl'[p].sid = tl[p].sid, tl'[p].to = tl[p].to, tl'[p].img = tl[p].img,
         tl'[p].clean => tl[p].clean, ToolOk(tl'[p], stored, calls),
         tmp' \in Tables, air' \in [Stations -> Seq(AirFrames)], inbox' \in [Tools -> Seq(Heard)],
         UNCHANGED <<stored, param, calls>>,
         \A s \in Stations : \A i \in 1 .. Len(air'[s]) :
           Queued(air'[s][i], air[s]) \/ OnAir(air'[s][i], s, tl, stored, calls),
         \A q \in Tools : \A i \in 1 .. Len(inbox'[q]) : Queued(inbox'[q][i], inbox[q])
  PROVE  HInv'
<1>1. HTypes'
  BY DEF HInv, HTypes
<1>2. calls \in Nat /\ calls <= calls
  BY DEF HInv, HTypes
<1>3. \A q \in Tools : /\ tl'[q].sid = tl[q].sid /\ tl'[q].to = tl[q].to /\ tl'[q].img = tl[q].img
                       /\ tl'[q].clean => tl[q].clean
  OBVIOUS
<1>4. ASSUME NEW f, NEW s, Sent(f, s, tl, stored, calls) PROVE Sent(f, s, tl', stored, calls)
  <2>1. \A q \in Tools : \/ /\ tl'[q].sid = tl[q].sid /\ tl'[q].to = tl[q].to /\ tl'[q].img = tl[q].img
                            /\ tl'[q].clean => tl[q].clean
                         \/ tl'[q].sid = calls + 1
    BY <1>3
  <2>2. stored[s] \subseteq stored[s]
    OBVIOUS
  <2>. QED BY <1>2, <1>4, <2>1, <2>2, SentKept, Zenon
<1>5. \A s \in Stations : \A i \in 1 .. Len(air'[s]) : OnAir(air'[s][i], s, tl, stored, calls)
  BY DEF HInv, Queued
<1>6. \A q \in Tools : \A i \in 1 .. Len(inbox'[q]) : Answering(inbox'[q][i], tl, stored, calls)
  BY DEF HInv, Queued
<1>7. \A s \in Stations : \A i \in 1 .. Len(air'[s]) : OnAir(air'[s][i], s, tl', stored', calls')
  BY <1>4, <1>5 DEF OnAir
<1>8. \A q \in Tools : \A i \in 1 .. Len(inbox'[q]) : Answering(inbox'[q][i], tl', stored', calls')
  BY <1>4, <1>6 DEF Answering
<1>9. \A q \in Tools : ToolOk(tl'[q], stored', calls')
  BY DEF HInv
<1>10. \A q, r \in Tools : tl'[q].sid = tl'[r].sid /\ tl'[q].sid > 0 => q = r
  <2>1. \A q, r \in Tools : tl[q].sid = tl[r].sid /\ tl[q].sid > 0 => q = r
    BY DEF HInv
  <2>2. \A q \in Tools : tl'[q].sid = tl[q].sid
    BY <1>3
  <2>. QED BY <2>1, <2>2
<1>. QED BY <1>1, <1>7, <1>8, <1>9, <1>10 DEF HInv

(* What a tool may rely on.                                                *)
LEMMA ToolFacts ==
  ASSUME HInv, NEW p \in Tools
  PROVE  /\ tl \in [Tools -> ToolRecs] /\ tl[p] \in ToolRecs /\ tmp \in Tables
         /\ air \in [Stations -> Seq(AirFrames)] /\ inbox \in [Tools -> Seq(Heard)] /\ inbox[p] \in Seq(Heard)
         /\ tl[p].tab \in Tables /\ tl[p].off \in Nat /\ tl[p].retry \in Nat /\ tl[p].n \in Nat
         /\ tl[p].sid \in Nat /\ tl[p].clean \in BOOLEAN /\ calls \in Nat
         /\ ToolOk(tl[p], stored, calls)
         /\ \A s \in Stations : \A i \in 1 .. Len(air[s]) : Queued(air[s][i], air[s])
         /\ \A q \in Tools : \A i \in 1 .. Len(inbox[q]) : Queued(inbox[q][i], inbox[q])
<1>1. tl \in [Tools -> ToolRecs] /\ tl[p] \in ToolRecs /\ tmp \in Tables /\ ToolOk(tl[p], stored, calls)
  BY DEF HInv, HTypes
<1>2. tl[p].tab \in Tables /\ tl[p].off \in Nat /\ tl[p].retry \in Nat /\ tl[p].n \in Nat
      /\ tl[p].sid \in Nat /\ tl[p].clean \in BOOLEAN
  BY <1>1 DEF ToolRecs
<1>. QED BY <1>1, <1>2 DEF HInv, HTypes, Queued

(* The empty queue.                                                        *)
LEMMA EmptyFacts ==
  ASSUME NEW S
  PROVE  <<>> \in Seq(S) /\ Len(<<>>) = 0 /\ \A i \in 1 .. Len(<<>>) : FALSE
OBVIOUS

(* The empty table.                                                        *)
LEMMA NoTableFacts == NoTable \in Tables
<1>1. DOMAIN NoTable = {} /\ NoTable \in [{} -> Entries]
  BY DEF NoTable
<1>. QED BY <1>1, TableFacts

(* One field of an invocation changes.                                     *)
SameCall(u, v) == v.sid = u.sid /\ v.to = u.to /\ v.img = u.img

LEMMA SetPc ==
  ASSUME NEW u \in ToolRecs, NEW c \in Pcs, NEW v, v = [u EXCEPT !.pc = c]
  PROVE  /\ v \in ToolRecs /\ SameCall(u, v) /\ v.pc = c /\ v.tab = u.tab /\ v.off = u.off /\ v.clean = u.clean
BY DEF ToolRecs, SameCall

LEMMA SetTab ==
  ASSUME NEW u \in ToolRecs, NEW c \in Tables, NEW v, v = [u EXCEPT !.tab = c]
  PROVE  /\ v \in ToolRecs /\ SameCall(u, v) /\ v.pc = u.pc /\ v.tab = c /\ v.off = u.off /\ v.clean = u.clean
BY DEF ToolRecs, SameCall

LEMMA SetN ==
  ASSUME NEW u \in ToolRecs, NEW c \in Nat, NEW v, v = [u EXCEPT !.n = c]
  PROVE  /\ v \in ToolRecs /\ SameCall(u, v) /\ v.pc = u.pc /\ v.tab = u.tab /\ v.off = u.off /\ v.clean = u.clean
BY DEF ToolRecs, SameCall

LEMMA SetRetry ==
  ASSUME NEW u \in ToolRecs, NEW c \in Nat, NEW v, v = [u EXCEPT !.retry = c]
  PROVE  /\ v \in ToolRecs /\ SameCall(u, v) /\ v.pc = u.pc /\ v.tab = u.tab /\ v.off = u.off /\ v.clean = u.clean
BY DEF ToolRecs, SameCall

LEMMA SetShown ==
  ASSUME NEW u \in ToolRecs, NEW c \in Shown, NEW v, v = [u EXCEPT !.shown = c]
  PROVE  /\ v \in ToolRecs /\ SameCall(u, v) /\ v.pc = u.pc /\ v.tab = u.tab /\ v.off = u.off /\ v.clean = u.clean
BY DEF ToolRecs, SameCall

LEMMA SetOff ==
  ASSUME NEW u \in ToolRecs, NEW c \in Nat, NEW v, v = [u EXCEPT !.off = c]
  PROVE  /\ v \in ToolRecs /\ SameCall(u, v) /\ v.pc = u.pc /\ v.tab = u.tab /\ v.off = c /\ v.clean = u.clean
BY DEF ToolRecs, SameCall

LEMMA SetClean ==
  ASSUME NEW u \in ToolRecs, NEW c \in BOOLEAN, NEW v, v = [u EXCEPT !.clean = c]
  PROVE  /\ v \in ToolRecs /\ SameCall(u, v) /\ v.pc = u.pc /\ v.tab = u.tab /\ v.off = u.off /\ v.clean = c
BY DEF ToolRecs, SameCall

(* The record of p is replaced.                                            *)
LEMMA Replaced ==
  ASSUME NEW t \in [Tools -> ToolRecs], NEW p \in Tools, NEW v \in ToolRecs, NEW r, r = [t EXCEPT ![p] = v]
  PROVE  r \in [Tools -> ToolRecs] /\ r[p] = v /\ \A q \in Tools \ {p} : r[q] = t[q]
OBVIOUS

(* A process ends.                                                         *)
LEMMA ExitFacts ==
  ASSUME HInv, NEW p \in Tools, NEW sh \in Shown, Exit(p, sh)
  PROVE  /\ tl' \in [Tools -> ToolRecs] /\ \A q \in Tools \ {p} : tl'[q] = tl[q]
         /\ tl'[p].sid = tl[p].sid /\ tl'[p].to = tl[p].to /\ tl'[p].img = tl[p].img
         /\ tl'[p].clean = tl[p].clean /\ ToolOk(tl'[p], stored, calls)
         /\ inbox' \in [Tools -> Seq(Heard)]
         /\ \A q \in Tools : \A i \in 1 .. Len(inbox'[q]) : Queued(inbox'[q][i], inbox[q])
<1>1. /\ tl \in [Tools -> ToolRecs] /\ tl[p] \in ToolRecs /\ inbox \in [Tools -> Seq(Heard)]
      /\ ToolOk(tl[p], stored, calls)
      /\ \A q \in Tools : \A i \in 1 .. Len(inbox[q]) : Queued(inbox[q][i], inbox[q])
  BY ToolFacts
<1>. DEFINE a == [tl[p] EXCEPT !.pc = "done"]
            b == [a EXCEPT !.tab = NoTable]
            c == [b EXCEPT !.n = 0]
            d == [c EXCEPT !.retry = 0]
            v == [d EXCEPT !.shown = sh]
<1>2. tl' = [tl EXCEPT ![p] = v] /\ inbox' = [inbox EXCEPT ![p] = <<>>]
  BY <1>1 DEF Exit
<1>3. a \in ToolRecs /\ SameCall(tl[p], a) /\ a.pc = "done" /\ a.off = tl[p].off /\ a.clean = tl[p].clean
  <2>1. "done" \in Pcs
    BY DEF Pcs
  <2>2. tl[p] \in ToolRecs
    BY <1>1
  <2>. QED BY <2>1, <2>2, SetPc
<1>. HIDE DEF a
<1>4. b \in ToolRecs /\ SameCall(a, b) /\ b.pc = a.pc /\ b.off = a.off /\ b.clean = a.clean
  <2>1. a \in ToolRecs /\ NoTable \in Tables
    BY <1>3, NoTableFacts
  <2>. QED BY <2>1, SetTab
<1>. HIDE DEF b
<1>5. 0 \in Nat
  OBVIOUS
<1>6. c \in ToolRecs /\ SameCall(b, c) /\ c.pc = b.pc /\ c.off = b.off /\ c.clean = b.clean
  BY <1>4, <1>5, SetN, Zenon
<1>. HIDE DEF c
<1>7. d \in ToolRecs /\ SameCall(c, d) /\ d.pc = c.pc /\ d.off = c.off /\ d.clean = c.clean
  BY <1>5, <1>6, SetRetry, Zenon
<1>. HIDE DEF d
<1>8. v \in ToolRecs /\ SameCall(d, v) /\ v.pc = d.pc /\ v.off = d.off /\ v.clean = d.clean
  BY <1>7, SetShown, Zenon
<1>. HIDE DEF v
<1>9. tl' \in [Tools -> ToolRecs] /\ tl'[p] = v /\ \A q \in Tools \ {p} : tl'[q] = tl[q]
  BY <1>1, <1>2, <1>8, Replaced, Zenon
<1>10. SameCall(tl[p], v) /\ v.pc = "done" /\ v.off = tl[p].off /\ v.clean = tl[p].clean
  BY <1>3, <1>4, <1>6, <1>7, <1>8 DEF SameCall
<1>11. ToolOk(v, stored, calls)
  BY <1>1, <1>10 DEF ToolOk, Tot, SameCall
<1>12. /\ inbox' \in [Tools -> Seq(Heard)] /\ inbox'[p] = <<>>
       /\ \A q \in Tools \ {p} : inbox'[q] = inbox[q]
  <2>1. <<>> \in Seq(Heard)
    BY EmptyFacts
  <2>. QED BY <1>1, <1>2, <2>1
<1>13. \A q \in Tools : \A i \in 1 .. Len(inbox'[q]) : Queued(inbox'[q][i], inbox[q])
  <2>1. \A i \in 1 .. Len(<<>>) : FALSE
    BY EmptyFacts
  <2>2. \A q \in Tools \ {p} : \A i \in 1 .. Len(inbox'[q]) : Queued(inbox'[q][i], inbox[q])
    BY <1>1, <1>12
  <2>3. \A i \in 1 .. Len(inbox'[p]) : FALSE
    BY <1>12, <2>1, Zenon
  <2>. QED BY <2>2, <2>3
<1>. QED BY <1>9, <1>10, <1>11, <1>12, <1>13 DEF SameCall

(* A frame is taken from a queue.                                          *)
Within(t, r)  == \A i \in 1 .. Len(t) : Queued(t[i], r)
Kept(c, b, D) == \A q \in D : \A i \in 1 .. Len(c[q]) : Queued(c[q][i], b[q])

LEMMA TailFacts ==
  ASSUME NEW S, NEW r \in Seq(S), r # <<>>
  PROVE  Head(r) \in S /\ Queued(Head(r), r) /\ Tail(r) \in Seq(S) /\ Within(Tail(r), r)
<1>1. Len(r) \in Nat \ {0}
  BY EmptySeq
<1>2. /\ Head(r) \in S /\ Head(r) = r[1] /\ Tail(r) \in Seq(S) /\ Len(Tail(r)) = Len(r) - 1
      /\ \A i \in 1 .. Len(Tail(r)) : Tail(r)[i] = r[i + 1]
  BY <1>1, HeadTailProperties
<1>3. \A i \in 1 .. Len(Tail(r)) : i + 1 \in 1 .. Len(r)
  BY <1>1, <1>2
<1>4. Within(Tail(r), r)
  BY <1>2, <1>3 DEF Within, Queued
<1>5. Queued(Head(r), r)
  BY <1>1, <1>2 DEF Queued
<1>. QED BY <1>2, <1>4, <1>5

LEMMA InboxFacts ==
  ASSUME NEW b \in [Tools -> Seq(Heard)], NEW p \in Tools, b[p] # <<>>, NEW c, c = [b EXCEPT ![p] = Tail(b[p])]
  PROVE  /\ Head(b[p]) \in Heard /\ Queued(Head(b[p]), b[p]) /\ c \in [Tools -> Seq(Heard)]
         /\ Kept(c, b, Tools)
<1>. DEFINE r == b[p]
            t == Tail(r)
<1>1. r \in Seq(Heard) /\ r # <<>> /\ c = [b EXCEPT ![p] = t]
  OBVIOUS
<1>. HIDE DEF r
<1>2. Head(r) \in Heard /\ Queued(Head(r), r) /\ t \in Seq(Heard) /\ Within(t, r)
  BY <1>1, TailFacts
<1>. HIDE DEF t
<1>3. c \in [Tools -> Seq(Heard)] /\ c[p] = t /\ \A q \in Tools \ {p} : c[q] = b[q]
  BY <1>1, <1>2
<1>4. \A q \in Tools : Within(b[q], b[q])
  BY DEF Within, Queued
<1>5. Within(t, b[p])
  BY <1>2 DEF r
<1>6. Kept(c, b, Tools)
  BY <1>3, <1>4, <1>5 DEF Kept, Within
<1>. QED BY <1>2, <1>3, <1>6 DEF r

LEMMA AirFacts ==
  ASSUME NEW b \in [Stations -> Seq(AirFrames)], NEW p \in Stations, b[p] # <<>>,
         NEW c, c = [b EXCEPT ![p] = Tail(b[p])]
  PROVE  /\ Head(b[p]) \in AirFrames /\ Queued(Head(b[p]), b[p]) /\ c \in [Stations -> Seq(AirFrames)]
         /\ Kept(c, b, Stations)
<1>. DEFINE r == b[p]
            t == Tail(r)
<1>1. r \in Seq(AirFrames) /\ r # <<>> /\ c = [b EXCEPT ![p] = t]
  OBVIOUS
<1>. HIDE DEF r
<1>2. Head(r) \in AirFrames /\ Queued(Head(r), r) /\ t \in Seq(AirFrames) /\ Within(t, r)
  BY <1>1, TailFacts
<1>. HIDE DEF t
<1>3. c \in [Stations -> Seq(AirFrames)] /\ c[p] = t /\ \A q \in Stations \ {p} : c[q] = b[q]
  BY <1>1, <1>2
<1>4. \A q \in Stations : Within(b[q], b[q])
  BY DEF Within, Queued
<1>5. Within(t, b[p])
  BY <1>2 DEF r
<1>6. Kept(c, b, Stations)
  BY <1>3, <1>4, <1>5 DEF Kept, Within
<1>. QED BY <1>2, <1>3, <1>6 DEF r

(* An invocation that sends no blocks stays what it was.                   *)
LEMMA StillOk ==
  ASSUME NEW u, NEW v, NEW st, NEW n, ToolOk(u, st, n), SameCall(u, v), v.pc \notin {"ota", "otarx"},
         v.off = u.off, v.clean = u.clean
  PROVE  ToolOk(v, st, n)
BY DEF ToolOk, SameCall, Tot

(* hgic_scan_device.                                                       *)
LEMMA ScanStep == ASSUME HInv, NEW p \in Tools, HgScan(p) PROVE HInv'
<1>1. /\ tl \in [Tools -> ToolRecs] /\ tl[p] \in ToolRecs /\ inbox \in [Tools -> Seq(Heard)]
      /\ tl[p].tab \in Tables /\ tl[p].n \in Nat /\ ToolOk(tl[p], stored, calls) /\ tmp \in Tables
      /\ air \in [Stations -> Seq(AirFrames)]
      /\ \A s \in Stations : \A i \in 1 .. Len(air[s]) : Queued(air[s][i], air[s])
      /\ \A q \in Tools : \A i \in 1 .. Len(inbox[q]) : Queued(inbox[q][i], inbox[q])
  BY ToolFacts
<1>2. tl[p].pc = "scan" /\ UNCHANGED <<tmp, air, stored, param, calls>>
  BY DEF HgScan
<1>3. ASSUME NEW v \in ToolRecs, tl' = [tl EXCEPT ![p] = v], SameCall(tl[p], v), v.pc \in {"scan", "save"},
             v.off = tl[p].off, v.clean = tl[p].clean, inbox' \in [Tools -> Seq(Heard)],
             \A q \in Tools : \A i \in 1 .. Len(inbox'[q]) : Queued(inbox'[q][i], inbox[q])
      PROVE  HInv'
  <2>1. tl' \in [Tools -> ToolRecs] /\ tl'[p] = v /\ \A q \in Tools \ {p} : tl'[q] = tl[q]
    BY <1>1, <1>3, Replaced, Zenon
  <2>2. ToolOk(v, stored, calls)
    BY <1>1, <1>3, StillOk
  <2>. QED BY <1>1, <1>2, <1>3, <2>1, <2>2, ToolTurn DEF SameCall
<1>4. CASE tl[p].n = ScanRecvs
  <2>. DEFINE v == [tl[p] EXCEPT !.pc = "save"]
  <2>1. tl' = [tl EXCEPT ![p] = v] /\ inbox' = inbox
    BY <1>1, <1>4 DEF HgScan
  <2>2. "save" \in Pcs
    BY DEF Pcs
  <2>3. v \in ToolRecs /\ SameCall(tl[p], v) /\ v.pc = "save" /\ v.off = tl[p].off /\ v.clean = tl[p].clean
    BY <1>1, <2>2, SetPc
  <2>. HIDE DEF v
  <2>. QED BY <1>1, <1>3, <2>1, <2>3
<1>5. CASE /\ inbox[p] # <<>> /\ inbox' = [inbox EXCEPT ![p] = Tail(inbox[p])]
           /\ tl' = [tl EXCEPT ![p].n = @ + 1, ![p].tab = libota_rx_proc(@, Head(inbox[p])).tab]
  <2>. DEFINE f == Head(inbox[p])
              r == libota_rx_proc(tl[p].tab, f).tab
              m == tl[p].n + 1
              a == [tl[p] EXCEPT !.n = m]
              v == [a EXCEPT !.tab = r]
  <2>1. tl' = [tl EXCEPT ![p] = v]
    BY <1>1, <1>5 DEF ToolRecs
  <2>0. f \in Heard /\ inbox' \in [Tools -> Seq(Heard)] /\ Kept(inbox', inbox, Tools)
    BY <1>1, <1>5, InboxFacts, Zenon
  <2>2. f \in Heard /\ inbox' \in [Tools -> Seq(Heard)]
        /\ \A q \in Tools : \A i \in 1 .. Len(inbox'[q]) : Queued(inbox'[q][i], inbox[q])
    BY <2>0 DEF Kept
  <2>. HIDE DEF f
  <2>3. r \in Tables
    BY <1>1, <2>2, RxFacts
  <2>4. m \in Nat
    BY <1>1
  <2>. HIDE DEF r, m
  <2>5. a \in ToolRecs /\ SameCall(tl[p], a) /\ a.pc = tl[p].pc /\ a.off = tl[p].off /\ a.clean = tl[p].clean
    BY <1>1, <2>4, SetN
  <2>. HIDE DEF a
  <2>6. v \in ToolRecs /\ SameCall(a, v) /\ v.pc = a.pc /\ v.off = a.off /\ v.clean = a.clean
    BY <2>3, <2>5, SetTab
  <2>. HIDE DEF v
  <2>7. SameCall(tl[p], v) /\ v.pc = "scan" /\ v.off = tl[p].off /\ v.clean = tl[p].clean
    BY <1>2, <2>5, <2>6 DEF SameCall
  <2>. QED BY <1>3, <2>1, <2>2, <2>6, <2>7
<1>6. CASE tl' = [tl EXCEPT ![p].n = @ + 1] /\ inbox' = inbox
  <2>. DEFINE m == tl[p].n + 1
              v == [tl[p] EXCEPT !.n = m]
  <2>1. tl' = [tl EXCEPT ![p] = v] /\ m \in Nat
    BY <1>1, <1>6
  <2>. HIDE DEF m
  <2>2. v \in ToolRecs /\ SameCall(tl[p], v) /\ v.pc = tl[p].pc /\ v.off = tl[p].off /\ v.clean = tl[p].clean
    BY <1>1, <2>1, SetN
  <2>. HIDE DEF v
  <2>. QED BY <1>1, <1>2, <1>3, <1>6, <2>1, <2>2
<1>. QED BY <1>4, <1>5, <1>6 DEF HgScan

(* hgic_save_device.                                                       *)
LEMMA SaveStep == ASSUME HInv, NEW p \in Tools, HgSave(p) PROVE HInv'
<1>1. /\ tl \in [Tools -> ToolRecs] /\ tl[p] \in ToolRecs /\ inbox \in [Tools -> Seq(Heard)]
      /\ tl[p].tab \in Tables /\ ToolOk(tl[p], stored, calls)
      /\ air \in [Stations -> Seq(AirFrames)]
      /\ \A s \in Stations : \A i \in 1 .. Len(air[s]) : Queued(air[s][i], air[s])
      /\ \A q \in Tools : \A i \in 1 .. Len(inbox[q]) : Queued(inbox[q][i], inbox[q])
  BY ToolFacts
<1>2. UNCHANGED <<air, stored, param, calls>>
  BY DEF HgSave
<1>3. CASE tl[p].pc = "save" /\ tmp' = NoTable /\ tl' = [tl EXCEPT ![p].pc = "write"] /\ UNCHANGED inbox
  <2>. DEFINE v == [tl[p] EXCEPT !.pc = "write"]
  <2>1. tl' = [tl EXCEPT ![p] = v] /\ tmp' \in Tables
    BY <1>1, <1>3, NoTableFacts
  <2>2. "write" \in Pcs
    BY DEF Pcs
  <2>3. v \in ToolRecs /\ SameCall(tl[p], v) /\ v.pc = "write" /\ v.off = tl[p].off /\ v.clean = tl[p].clean
    BY <1>1, <2>2, SetPc
  <2>. HIDE DEF v
  <2>4. tl' \in [Tools -> ToolRecs] /\ tl'[p] = v /\ \A q \in Tools \ {p} : tl'[q] = tl[q]
    BY <1>1, <2>1, <2>3, Replaced, Zenon
  <2>5. ToolOk(v, stored, calls)
    BY <1>1, <2>3, StillOk
  <2>. QED BY <1>1, <1>2, <1>3, <2>1, <2>3, <2>4, <2>5, ToolTurn DEF SameCall
<1>4. CASE tl[p].pc = "write" /\ tmp' = tl[p].tab /\ Exit(p, "")
  <2>1. "" \in Shown
    BY DEF Shown
  <2>. QED BY <1>1, <1>2, <1>4, <2>1, ExitFacts, ToolTurn
<1>. QED BY <1>3, <1>4 DEF HgSave

(* hgic_get_config.                                                        *)
LEMMA GetConfigStep == ASSUME HInv, NEW p \in Tools, HgGetConfig(p) PROVE HInv'
<1>1. /\ inbox \in [Tools -> Seq(Heard)] /\ tl[p].tab \in Tables /\ tmp \in Tables
      /\ air \in [Stations -> Seq(AirFrames)]
      /\ \A s \in Stations : \A i \in 1 .. Len(air[s]) : Queued(air[s][i], air[s])
  BY ToolFacts
<1>2. UNCHANGED <<tmp, air, stored, param, calls>>
  BY DEF HgGetConfig
<1>3. \E sh \in Shown : Exit(p, sh)
  <2>1. CASE inbox[p] # <<>>
    <3>. DEFINE r == libota_rx_proc(tl[p].tab, Head(inbox[p]))
                sh == CASE r.ret # "CONFIG_GOT" -> ""
                        [] r.ret = "CONFIG_GOT" /\ tl[p].to \in DOMAIN r.tab -> r.tab[tl[p].to].par
                        [] OTHER -> "garbage"
    <3>1. Exit(p, sh)
      BY <2>1 DEF HgGetConfig
    <3>2. [inbox EXCEPT ![p] = Tail(inbox[p])] = [inbox EXCEPT ![p] = Tail(inbox[p])]
      OBVIOUS
    <3>3. Head(inbox[p]) \in Heard
      BY <1>1, <2>1, <3>2, InboxFacts, Zenon
    <3>4. r.tab \in Tables
      BY <1>1, <3>3, RxFacts
    <3>. HIDE DEF r
    <3>5. \A s \in DOMAIN r.tab : r.tab[s].par \in Pars
      <4>1. r.tab \in [DOMAIN r.tab -> Entries]
        BY <3>4, TableFacts
      <4>. QED BY <4>1 DEF Entries
    <3>6. sh \in Shown
      BY <3>5 DEF Shown
    <3>. HIDE DEF sh
    <3>. QED BY <3>1, <3>6
  <2>2. CASE inbox[p] = <<>>
    <3>1. "" \in Shown /\ Exit(p, "")
      BY <2>2 DEF Shown, HgGetConfig
    <3>. QED BY <3>1
  <2>. QED BY <2>1, <2>2
<1>4. PICK sh \in Shown : Exit(p, sh)
  BY <1>3
<1>. QED BY <1>1, <1>2, <1>4, ExitFacts, ToolTurn

(* A frame is queued, or dropped.                                          *)
Adds(r, q, g) == \A i \in 1 .. Len(r) : Queued(r[i], q) \/ r[i] = g

LEMMA QueueFacts ==
  ASSUME NEW q \in Seq(AirFrames), NEW g \in AirFrames
  PROVE  Queue(q, g) \in Seq(AirFrames) /\ Adds(Queue(q, g), q, g)
<1>. DEFINE r == Queue(q, g)
<1>1. CASE r = q
  BY <1>1 DEF Queued, Adds
<1>2. CASE r = Append(q, g)
  <2>1. /\ r \in Seq(AirFrames) /\ Len(r) = Len(q) + 1 /\ r[Len(q) + 1] = g
        /\ \A i \in 1 .. Len(q) : r[i] = q[i]
    BY <1>2
  <2>2. \A i \in 1 .. Len(r) : i \in 1 .. Len(q) \/ i = Len(q) + 1
    BY <2>1
  <2>. HIDE DEF r
  <2>3. Adds(r, q, g)
    BY <2>1, <2>2 DEF Queued, Adds
  <2>. QED BY <2>1, <2>3 DEF r
<1>. QED BY <1>1, <1>2 DEF Queue

LEMMA UnicastFacts ==
  ASSUME NEW a \in [Stations -> Seq(AirFrames)], NEW s \in Stations, NEW g \in AirFrames,
         NEW b, b = [a EXCEPT ![s] = Queue(a[s], g)]
  PROVE  /\ b \in [Stations -> Seq(AirFrames)] /\ Adds(b[s], a[s], g)
         /\ \A x \in Stations \ {s} : b[x] = a[x]
<1>. DEFINE r == Queue(a[s], g)
<1>1. a[s] \in Seq(AirFrames) /\ b = [a EXCEPT ![s] = r]
  OBVIOUS
<1>2. r \in Seq(AirFrames) /\ Adds(r, a[s], g)
  BY <1>1, QueueFacts, Zenon
<1>. HIDE DEF r
<1>. QED BY <1>1, <1>2

(* One pass of hgic_ota_device up to its receive.                          *)
LEMMA OtaSendStep == ASSUME HInv, NEW p \in Tools, HgOtaSend(p) PROVE HInv'
<1>1. /\ tl \in [Tools -> ToolRecs] /\ tl[p] \in ToolRecs /\ inbox \in [Tools -> Seq(Heard)]
      /\ tl[p].tab \in Tables /\ tl[p].off \in Nat /\ tl[p].sid \in Nat /\ calls \in Nat
      /\ ToolOk(tl[p], stored, calls) /\ tmp \in Tables /\ air \in [Stations -> Seq(AirFrames)]
      /\ \A s \in Stations : \A i \in 1 .. Len(air[s]) : Queued(air[s][i], air[s])
      /\ \A q \in Tools : \A i \in 1 .. Len(inbox[q]) : Queued(inbox[q][i], inbox[q])
  BY ToolFacts
<1>2. tl[p].pc = "ota" /\ UNCHANGED <<tmp, stored, param, calls>>
  BY DEF HgOtaSend
<1>3. /\ tl[p].sid \in 1 .. calls /\ tl[p].to \in Stations /\ tl[p].img \in DOMAIN Images
      /\ hgic_read_firmware(Images[tl[p].img])
  BY <1>1, <1>2 DEF ToolOk
<1>. DEFINE tot == Tot(tl[p])
            off == tl[p].off
            len == IF tot - off > BlockSize THEN BlockSize ELSE tot - off
            g == [kind |-> "data", sid |-> tl[p].sid, off |-> off, len |-> len]
<1>4. tot \in Int /\ BlockSize \in Nat \ {0}
  BY <1>3, HgOtaAssumption DEF Tot, fwinfo_get_fw_length, fwinfo_get
<1>5. CASE off < tot /\ tl[p].retry < OtaRetries
  <2>. DEFINE t == ClearNext(tl[p].tab, tl[p].to)
              a == [tl[p] EXCEPT !.pc = "otarx"]
              v == [a EXCEPT !.tab = t]
  <2>1. /\ air' = [air EXCEPT ![tl[p].to] = Queue(air[tl[p].to], g)]
        /\ tl' = [tl EXCEPT ![p] = v] /\ inbox' = inbox
    BY <1>1, <1>5 DEF HgOtaSend, Unicast, Tot, ToolRecs
  <2>2. t \in Tables /\ (tl[p].to \in DOMAIN t => t[tl[p].to].next = 0)
    <3>1. DOMAIN tl[p].tab \subseteq Stations /\ tl[p].tab \in [DOMAIN tl[p].tab -> Entries]
      BY <1>1, TableFacts
    <3>2. CASE tl[p].to \in DOMAIN tl[p].tab
      <4>. DEFINE e == [tl[p].tab[tl[p].to] EXCEPT !.next = 0]
      <4>1. e \in Entries /\ e.next = 0
        BY <3>1, <3>2 DEF Entries
      <4>2. t = [tl[p].tab EXCEPT ![tl[p].to] = e]
        BY <3>2 DEF ClearNext
      <4>. HIDE DEF e, t
      <4>3. DOMAIN t = DOMAIN tl[p].tab /\ t \in [DOMAIN t -> Entries] /\ t[tl[p].to] = e
        BY <3>1, <3>2, <4>1, <4>2
      <4>. QED BY <3>1, <4>1, <4>3, TableFacts
    <3>3. CASE tl[p].to \notin DOMAIN tl[p].tab
      BY <1>1, <3>3 DEF ClearNext
    <3>. QED BY <3>2, <3>3
  <2>. HIDE DEF t
  <2>3. a \in ToolRecs /\ SameCall(tl[p], a) /\ a.pc = "otarx" /\ a.off = off /\ a.clean = tl[p].clean
    <3>1. "otarx" \in Pcs
      BY DEF Pcs
    <3>. QED BY <1>1, <3>1, SetPc
  <2>. HIDE DEF a
  <2>4. v \in ToolRecs /\ SameCall(a, v) /\ v.pc = a.pc /\ v.tab = t /\ v.off = a.off /\ v.clean = a.clean
    BY <2>2, <2>3, SetTab
  <2>. HIDE DEF v
  <2>5. tl' \in [Tools -> ToolRecs] /\ tl'[p] = v /\ \A q \in Tools \ {p} : tl'[q] = tl[q]
    BY <1>1, <2>1, <2>4, Replaced, Zenon
  <2>6. SameCall(tl[p], v) /\ v.pc = "otarx" /\ v.off = off /\ v.clean = tl[p].clean
    BY <2>3, <2>4 DEF SameCall
  <2>7. ToolOk(v, stored, calls)
    BY <1>1, <1>3, <2>2, <2>4, <2>6 DEF ToolOk, SameCall, Tot
  <2>8. len \in Nat /\ len <= BlockSize /\ (len = BlockSize \/ off + len = tot)
    BY <1>1, <1>4, <1>5
  <2>. HIDE DEF len
  <2>9. g \in AirFrames /\ g.kind = "data" /\ g.sid = tl[p].sid /\ g.off = off /\ g.len = len
    BY <1>1, <2>8 DEF AirFrames
  <2>10. Sent(g, tl[p].to, tl, stored, calls)
    <3>1. ASSUME NEW q \in Tools, tl[q].sid = g.sid, tl[q].clean
          PROVE  /\ tl[q].to = tl[p].to /\ Below(g.sid, g.off, stored[tl[p].to])
                 /\ \E k \in Nat : g.off = k * BlockSize
                 /\ g.len <= BlockSize /\ (g.len = BlockSize \/ g.off + g.len >= Tot(tl[q]))
      <4>1. q = p
        <5>1. tl[p].sid > 0 /\ tl[q].sid = tl[p].sid
          BY <1>3, <2>9, <3>1
        <5>. QED BY <5>1 DEF HInv
      <4>2. Below(tl[p].sid, off, stored[tl[p].to])
        <5>1. CASE off = 0
          BY <5>1 DEF Below
        <5>2. CASE off > 0
          BY <1>1, <3>1, <4>1, <5>2 DEF ToolOk
        <5>. QED BY <1>1, <5>1, <5>2
      <4>3. \E k \in Nat : off = k * BlockSize
        <5>1. ~(off >= tot)
          BY <1>1, <1>4, <1>5
        <5>. QED BY <1>1, <3>1, <4>1, <5>1 DEF ToolOk
      <4>4. len = BlockSize \/ off + len >= tot
        BY <1>1, <1>4, <2>8
      <4>. QED BY <2>8, <2>9, <4>1, <4>2, <4>3, <4>4
    <3>2. g.sid \in 1 .. calls
      BY <1>3, <2>9
    <3>. QED BY <3>1, <3>2 DEF Sent
  <2>. HIDE DEF g
  <2>11. /\ air' \in [Stations -> Seq(AirFrames)]
         /\ \A s \in Stations : \A i \in 1 .. Len(air'[s]) :
              Queued(air'[s][i], air[s]) \/ OnAir(air'[s][i], s, tl, stored, calls)
    <3>1. /\ air' \in [Stations -> Seq(AirFrames)] /\ Adds(air'[tl[p].to], air[tl[p].to], g)
          /\ \A s \in Stations \ {tl[p].to} : air'[s] = air[s]
      BY <1>1, <1>3, <2>1, <2>9, UnicastFacts, Zenon
    <3>2. OnAir(g, tl[p].to, tl, stored, calls)
      BY <2>10 DEF OnAir
    <3>. QED BY <1>1, <3>1, <3>2 DEF Adds
  <2>. QED BY <1>1, <1>2, <2>1, <2>5, <2>6, <2>7, <2>11, ToolTurn DEF SameCall
<1>6. CASE ~(off < tot /\ tl[p].retry < OtaRetries)
  <2>1. "" \in Shown /\ Exit(p, "") /\ UNCHANGED air
    BY <1>6 DEF Shown, HgOtaSend, Tot
  <2>. QED BY <1>1, <1>2, <2>1, ExitFacts, ToolTurn
<1>. QED BY <1>5, <1>6

(* Past an accepted block of at most BlockSize bytes.                      *)
LEMMA BelowNext ==
  ASSUME NEW i, NEW blocks, NEW o \in Nat, NEW l \in Nat, l <= BlockSize, NEW q \in Nat, o = q * BlockSize,
         Below(i, o, blocks), <<i, o>> \in blocks
  PROVE  Below(i, o + l, blocks)
<1>1. BlockSize \in Nat \ {0}
  BY HgOtaAssumption
<1>2. ASSUME NEW k \in 0 .. ((o + l) - 1), k % BlockSize = 0 PROVE <<i, k>> \in blocks
  <2>1. k \in Nat /\ k < q * BlockSize + BlockSize
    BY <1>1, <1>2
  <2>2. k < q * BlockSize \/ k = q * BlockSize
    BY <1>1, <1>2, <2>1, NextMultiple
  <2>3. CASE k = o
    BY <2>3
  <2>4. CASE k < o
    <3>1. k \in 0 .. (o - 1)
      BY <2>1, <2>4
    <3>. QED BY <1>2, <3>1 DEF Below
  <2>. QED BY <2>2, <2>3, <2>4
<1>. QED BY <1>2 DEF Below

(* The receive of hgic_ota_device.                                         *)
LEMMA OtaRecvStep == ASSUME HInv, NEW p \in Tools, HgOtaRecv(p) PROVE HInv'
<1>1. /\ tl \in [Tools -> ToolRecs] /\ tl[p] \in ToolRecs /\ inbox \in [Tools -> Seq(Heard)]
      /\ tl[p].tab \in Tables /\ tl[p].off \in Nat /\ tl[p].sid \in Nat /\ tl[p].retry \in Nat
      /\ tl[p].clean \in BOOLEAN /\ calls \in Nat
      /\ ToolOk(tl[p], stored, calls) /\ tmp \in Tables /\ air \in [Stations -> Seq(AirFrames)]
      /\ \A s \in Stations : \A i \in 1 .. Len(air[s]) : Queued(air[s][i], air[s])
      /\ \A q \in Tools : \A i \in 1 .. Len(inbox[q]) : Queued(inbox[q][i], inbox[q])
  BY ToolFacts
<1>2. tl[p].pc = "otarx" /\ UNCHANGED <<tmp, air, stored, param, calls>>
  BY DEF HgOtaRecv
<1>3. /\ tl[p].sid \in 1 .. calls /\ tl[p].to \in Stations /\ tl[p].img \in DOMAIN Images
      /\ hgic_read_firmware(Images[tl[p].img])
      /\ (tl[p].to \in DOMAIN tl[p].tab => tl[p].tab[tl[p].to].next = 0)
  BY <1>1, <1>2 DEF ToolOk
<1>4. Tot(tl[p]) \in Int /\ BlockSize \in Nat \ {0}
  BY <1>3, HgOtaAssumption DEF Tot, fwinfo_get_fw_length, fwinfo_get
<1>5. ASSUME NEW t \in Tables, NEW m \in Nat, NEW o \in Nat, NEW cl \in BOOLEAN, cl => tl[p].clean,
             tl' = [tl EXCEPT ![p].pc = "ota", ![p].tab = t, ![p].retry = m, ![p].off = o, ![p].clean = cl],
             cl /\ o > 0 => Below(tl[p].sid, o, stored[tl[p].to]),
             cl => (\E q \in Nat : o = q * BlockSize) \/ o >= Tot(tl[p]),
             inbox' \in [Tools -> Seq(Heard)],
             \A q \in Tools : \A i \in 1 .. Len(inbox'[q]) : Queued(inbox'[q][i], inbox[q])
      PROVE  HInv'
  <2>. DEFINE a == [tl[p] EXCEPT !.pc = "ota"]
              b == [a EXCEPT !.tab = t]
              c == [b EXCEPT !.retry = m]
              d == [c EXCEPT !.off = o]
              v == [d EXCEPT !.clean = cl]
  <2>1. tl' = [tl EXCEPT ![p] = v]
    BY <1>1, <1>5
  <2>2. a \in ToolRecs /\ SameCall(tl[p], a) /\ a.pc = "ota"
    <3>1. "ota" \in Pcs
      BY DEF Pcs
    <3>. QED BY <1>1, <3>1, SetPc
  <2>. HIDE DEF a
  <2>3. b \in ToolRecs /\ SameCall(a, b) /\ b.pc = a.pc
    BY <2>2, SetTab
  <2>. HIDE DEF b
  <2>4. c \in ToolRecs /\ SameCall(b, c) /\ c.pc = b.pc
    BY <2>3, SetRetry
  <2>. HIDE DEF c
  <2>5. d \in ToolRecs /\ SameCall(c, d) /\ d.pc = c.pc /\ d.off = o
    BY <2>4, SetOff
  <2>. HIDE DEF d
  <2>6. v \in ToolRecs /\ SameCall(d, v) /\ v.pc = d.pc /\ v.off = d.off /\ v.clean = cl
    BY <2>5, SetClean
  <2>. HIDE DEF v
  <2>7. SameCall(tl[p], v) /\ v.pc = "ota" /\ v.off = o
    BY <2>2, <2>3, <2>4, <2>5, <2>6 DEF SameCall
  <2>8. ToolOk(v, stored, calls)
    <3>1. v.sid = tl[p].sid /\ v.to = tl[p].to /\ v.img = tl[p].img /\ Tot(v) = Tot(tl[p])
      BY <2>7 DEF SameCall, Tot
    <3>2. v.sid <= calls /\ v.sid > 0
      BY <1>3, <3>1
    <3>. QED BY <1>3, <1>5, <2>6, <2>7, <3>1, <3>2 DEF ToolOk
  <2>9. tl' \in [Tools -> ToolRecs] /\ tl'[p] = v /\ \A q \in Tools \ {p} : tl'[q] = tl[q]
    BY <1>1, <2>1, <2>6, Replaced, Zenon
  <2>10. /\ tl'[p].sid = tl[p].sid /\ tl'[p].to = tl[p].to /\ tl'[p].img = tl[p].img
         /\ (tl'[p].clean => tl[p].clean) /\ ToolOk(tl'[p], stored, calls)
    BY <1>5, <2>6, <2>7, <2>8, <2>9 DEF SameCall
  <2>11. /\ tmp' \in Tables /\ air' \in [Stations -> Seq(AirFrames)]
         /\ \A s \in Stations : \A i \in 1 .. Len(air'[s]) :
              Queued(air'[s][i], air[s]) \/ OnAir(air'[s][i], s, tl, stored, calls)
    BY <1>1, <1>2
  <2>. QED BY <1>2, <1>5, <2>9, <2>10, <2>11, ToolTurn, Zenon
<1>6. \E q \in Nat : 0 = q * BlockSize
  <2>1. 0 \in Nat /\ 0 = 0 * BlockSize
    BY <1>4
  <2>. QED BY <2>1
<1>7. CASE inbox[p] # <<>> /\ inbox' = [inbox EXCEPT ![p] = Tail(inbox[p])]
  <2>. DEFINE f == Head(inbox[p])
              r == libota_rx_proc(tl[p].tab, f)
              t == r.tab
              m == IF r.ret = "FW_STATUS" THEN 0 ELSE tl[p].retry + 1
              o == libota_sta_nexoff(t, tl[p].to)
              cl == tl[p].clean /\ (f.kind = "data" /\ f.src = tl[p].to => f.sid = tl[p].sid)
  <2>1. tl' = [tl EXCEPT ![p].pc = "ota", ![p].tab = t, ![p].retry = m, ![p].off = o, ![p].clean = cl]
    BY <1>1, <1>7 DEF HgOtaRecv
  <2>0. f \in Heard /\ Queued(f, inbox[p]) /\ inbox' \in [Tools -> Seq(Heard)] /\ Kept(inbox', inbox, Tools)
    BY <1>1, <1>7, InboxFacts, Zenon
  <2>2. f \in Heard /\ Queued(f, inbox[p]) /\ inbox' \in [Tools -> Seq(Heard)]
        /\ \A q \in Tools : \A i \in 1 .. Len(inbox'[q]) : Queued(inbox'[q][i], inbox[q])
    BY <2>0 DEF Kept
  <2>. HIDE DEF f
  <2>3. /\ t \in Tables
        /\ o = 0 \/ (o = f.off + f.len /\ f.kind = "data" /\ f.src = tl[p].to /\ f.status # 255)
    BY <1>1, <1>3, <2>2, RxFacts
  <2>4. f.kind = "data" => f.off \in Nat /\ f.len \in Nat
    BY <2>2 DEF Heard
  <2>5. m \in Nat /\ cl \in BOOLEAN /\ (cl => tl[p].clean)
    BY <1>1
  <2>6. o \in Nat
    BY <2>3, <2>4
  <2>7. cl /\ f.kind = "data" /\ f.src = tl[p].to => tl[p].clean /\ f.sid = tl[p].sid
    OBVIOUS
  <2>. HIDE DEF r, t, m, o, cl
  <2>8. Answering(f, tl, stored, calls)
    BY <2>2 DEF HInv, Queued
  <2>9. ASSUME cl
        PROVE  /\ (o > 0 => Below(tl[p].sid, o, stored[tl[p].to]))
               /\ (\E q \in Nat : o = q * BlockSize) \/ o >= Tot(tl[p])
    <3>1. CASE o = 0
      BY <1>6, <3>1
    <3>2. CASE o = f.off + f.len /\ f.kind = "data" /\ f.src = tl[p].to /\ f.status # 255
      <4>1. tl[p].clean /\ f.sid = tl[p].sid
        BY <2>7, <2>9, <3>2
      <4>2. Sent(f, tl[p].to, tl, stored, calls) /\ <<f.sid, f.off>> \in stored[tl[p].to]
        BY <2>8, <3>2 DEF Answering
      <4>3. /\ Below(f.sid, f.off, stored[tl[p].to]) /\ \E q \in Nat : f.off = q * BlockSize
            /\ f.len <= BlockSize /\ (f.len = BlockSize \/ f.off + f.len >= Tot(tl[p]))
        BY <4>1, <4>2 DEF Sent
      <4>4. PICK q \in Nat : f.off = q * BlockSize
        BY <4>3
      <4>5. f.off \in Nat /\ f.len \in Nat
        BY <2>4, <3>2
      <4>6. Below(tl[p].sid, o, stored[tl[p].to])
        <5>1. f.len <= BlockSize /\ Below(f.sid, f.off, stored[tl[p].to]) /\ <<f.sid, f.off>> \in stored[tl[p].to]
          BY <4>2, <4>3
        <5>2. Below(f.sid, f.off + f.len, stored[tl[p].to])
          BY <4>4, <4>5, <5>1, BelowNext, Zenon
        <5>. QED BY <3>2, <4>1, <5>2
      <4>7. CASE f.len = BlockSize
        <5>1. q + 1 \in Nat /\ q * BlockSize + BlockSize = (q + 1) * BlockSize
          BY <1>4
        <5>2. o = (q + 1) * BlockSize
          BY <3>2, <4>4, <4>7, <5>1
        <5>. QED BY <4>6, <5>1, <5>2
      <4>8. CASE f.off + f.len >= Tot(tl[p])
        BY <3>2, <4>6, <4>8
      <4>. QED BY <4>3, <4>7, <4>8
    <3>. QED BY <2>3, <3>1, <3>2
  <2>10. /\ cl => tl[p].clean
         /\ cl /\ o > 0 => Below(tl[p].sid, o, stored[tl[p].to])
         /\ cl => (\E q \in Nat : o = q * BlockSize) \/ o >= Tot(tl[p])
    BY <2>5, <2>9, Zenon
  <2>11. t \in Tables /\ m \in Nat /\ cl \in BOOLEAN
    BY <2>3, <2>5, Zenon
  <2>. QED BY <1>5, <2>1, <2>2, <2>6, <2>10, <2>11, Zenon
<1>8. CASE /\ UNCHANGED inbox
           /\ tl' = [tl EXCEPT ![p].pc = "ota", ![p].retry = @ + 1,
                               ![p].off = libota_sta_nexoff(tl[p].tab, tl[p].to)]
  <2>1. libota_sta_nexoff(tl[p].tab, tl[p].to) = 0
    BY <1>3 DEF libota_sta_nexoff
  <2>2. tl[p].retry + 1 \in Nat
    BY <1>1
  <2>3. tl' = [tl EXCEPT ![p].pc = "ota", ![p].tab = tl[p].tab, ![p].retry = tl[p].retry + 1, ![p].off = 0,
                         ![p].clean = tl[p].clean]
    <3>. DEFINE u == tl[p]
                a == [u EXCEPT !.pc = "ota", !.retry = u.retry + 1, !.off = 0]
                b == [u EXCEPT !.pc = "ota", !.tab = u.tab, !.retry = u.retry + 1, !.off = 0, !.clean = u.clean]
    <3>1. u \in ToolRecs
      BY <1>1
    <3>2. a = b
      BY <3>1 DEF ToolRecs
    <3>3. tl' = [tl EXCEPT ![p] = a]
      BY <1>1, <1>8, <2>1
    <3>. QED BY <1>1, <3>2, <3>3
  <2>4. 0 \in Nat /\ ~(0 > 0) /\ (tl[p].clean => tl[p].clean)
    OBVIOUS
  <2>5. /\ inbox' \in [Tools -> Seq(Heard)]
        /\ \A q \in Tools : \A i \in 1 .. Len(inbox'[q]) : Queued(inbox'[q][i], inbox[q])
    BY <1>1, <1>8
  <2>6. tl[p].tab \in Tables /\ tl[p].clean \in BOOLEAN
    BY <1>1
  <2>. DEFINE m == tl[p].retry + 1
  <2>. HIDE DEF m
  <2>7. m \in Nat /\ tl' = [tl EXCEPT ![p].pc = "ota", ![p].tab = tl[p].tab, ![p].retry = m, ![p].off = 0,
                                     ![p].clean = tl[p].clean]
    BY <2>2, <2>3 DEF m
  <2>. QED BY <1>5, <1>6, <2>4, <2>5, <2>6, <2>7, Zenon
<1>. QED BY <1>7, <1>8 DEF HgOtaRecv

(* A step of a station or of the air: the tools stay, the stations have    *)
(* accepted more.                                                          *)
LEMMA AirTurn ==
  ASSUME HInv, UNCHANGED <<tl, tmp, calls>>,
         stored' \in [Stations -> SUBSET (Nat \X Nat)], \A s \in Stations : stored[s] \subseteq stored'[s],
         param' \in [Stations -> Pars],
         air' \in [Stations -> Seq(AirFrames)], inbox' \in [Tools -> Seq(Heard)],
         \A s \in Stations : \A i \in 1 .. Len(air'[s]) : Queued(air'[s][i], air[s]),
         \A q \in Tools : \A i \in 1 .. Len(inbox'[q]) :
           Queued(inbox'[q][i], inbox[q]) \/ Answering(inbox'[q][i], tl, stored', calls)
  PROVE  HInv'
<1>1. HTypes' /\ calls \in Nat /\ calls <= calls /\ inbox \in [Tools -> Seq(Heard)]
  BY DEF HInv, HTypes
<1>2. ASSUME NEW f, NEW s \in Stations, Sent(f, s, tl, stored, calls) PROVE Sent(f, s, tl, stored', calls)
  <2>1. stored[s] \subseteq stored'[s]
    OBVIOUS
  <2>. QED BY <1>1, <1>2, <2>1, SentGrows, Zenon
<1>3. \A s \in Stations : \A i \in 1 .. Len(air'[s]) : OnAir(air'[s][i], s, tl, stored', calls)
  <2>1. \A s \in Stations : \A i \in 1 .. Len(air'[s]) : OnAir(air'[s][i], s, tl, stored, calls)
    BY DEF HInv, Queued
  <2>. QED BY <1>2, <2>1 DEF OnAir
<1>4. \A q \in Tools : \A i \in 1 .. Len(inbox[q]) : Answering(inbox[q][i], tl, stored', calls)
  <2>. SUFFICES ASSUME NEW q \in Tools, NEW i \in 1 .. Len(inbox[q]), inbox[q][i].kind = "data"
                PROVE  /\ Sent(inbox[q][i], inbox[q][i].src, tl, stored', calls)
                       /\ inbox[q][i].status # 255 =>
                            <<inbox[q][i].sid, inbox[q][i].off>> \in stored'[inbox[q][i].src]
    BY DEF Answering
  <2>. DEFINE f == inbox[q][i]
  <2>1. f \in Heard
    <3>1. inbox[q] \in Seq(Heard)
      BY <1>1
    <3>. QED BY <3>1
  <2>2. Answering(f, tl, stored, calls) /\ f.kind = "data"
    BY DEF HInv
  <2>. HIDE DEF f
  <2>3. f.src \in Stations
    BY <2>1 DEF Heard
  <2>4. /\ Sent(f, f.src, tl, stored', calls)
        /\ (f.status # 255 => <<f.sid, f.off>> \in stored'[f.src])
    BY <1>2, <2>2, <2>3 DEF Answering
  <2>. QED BY <2>4 DEF f
<1>5. \A q \in Tools : \A i \in 1 .. Len(inbox'[q]) : Answering(inbox'[q][i], tl, stored', calls)
  BY <1>4 DEF Queued
<1>6. \A q \in Tools : ToolOk(tl[q], stored', calls)
  <2>. SUFFICES ASSUME NEW q \in Tools PROVE ToolOk(tl[q], stored', calls)
    OBVIOUS
  <2>1. tl[q].sid \in Nat /\ tl[q].off \in Nat /\ ToolOk(tl[q], stored, calls)
    BY ToolFacts
  <2>. QED BY <1>1, <2>1, ToolKept, Zenon
<1>7. \A p, q \in Tools : tl[p].sid = tl[q].sid /\ tl[p].sid > 0 => p = q
  BY DEF HInv
<1>. QED BY <1>1, <1>3, <1>5, <1>6, <1>7 DEF HInv

(* The sockets that are open hear h.                                       *)
LEMMA HearFacts ==
  ASSUME HInv, NEW h \in Heard, Hear(h)
  PROVE  inbox' \in [Tools -> Seq(Heard)] /\ \A q \in Tools : Adds(inbox'[q], inbox[q], h)
<1>1. inbox \in [Tools -> Seq(Heard)]
  BY DEF HInv, HTypes
<1>2. ASSUME NEW q \in Tools PROVE inbox'[q] \in Seq(Heard) /\ Adds(inbox'[q], inbox[q], h)
  <2>. DEFINE r == inbox'[q]
              b == inbox[q]
  <2>1. b \in Seq(Heard) /\ (r = b \/ r = Append(b, h))
    BY <1>1 DEF Hear
  <2>. HIDE DEF r, b
  <2>2. ASSUME r = b PROVE r \in Seq(Heard) /\ Adds(r, b, h)
    BY <2>1, <2>2 DEF Adds, Queued
  <2>3. ASSUME r = Append(b, h) PROVE r \in Seq(Heard) /\ Adds(r, b, h)
    <3>1. /\ r \in Seq(Heard) /\ Len(r) = Len(b) + 1 /\ r[Len(b) + 1] = h
          /\ \A i \in 1 .. Len(b) : r[i] = b[i]
      BY <2>1, <2>3
    <3>2. \A i \in 1 .. Len(r) : i \in 1 .. Len(b) \/ i = Len(b) + 1
      BY <2>1, <3>1
    <3>. QED BY <3>1, <3>2 DEF Adds, Queued
  <2>4. r \in Seq(Heard) /\ Adds(r, b, h)
    BY <2>1, <2>2, <2>3
  <2>. QED BY <2>4 DEF r, b
<1>3. inbox' = [q \in Tools |-> inbox'[q]]
  BY DEF Hear
<1>. QED BY <1>2, <1>3

(* A frame is lost.                                                        *)
LEMMA LoseStep == ASSUME HInv, NEW s \in Stations, AirLose(s) PROVE HInv'
<1>1. /\ air \in [Stations -> Seq(AirFrames)] /\ inbox \in [Tools -> Seq(Heard)]
      /\ stored \in [Stations -> SUBSET (Nat \X Nat)] /\ param \in [Stations -> Pars]
  BY DEF HInv, HTypes
<1>2. /\ air[s] # <<>> /\ air' = [air EXCEPT ![s] = Tail(air[s])]
      /\ UNCHANGED <<tl, tmp, inbox, stored, param, calls>>
  BY DEF AirLose
<1>3. /\ air' \in [Stations -> Seq(AirFrames)]
      /\ \A x \in Stations : \A i \in 1 .. Len(air'[x]) : Queued(air'[x][i], air[x])
  <2>1. air' \in [Stations -> Seq(AirFrames)] /\ Kept(air', air, Stations)
    BY <1>1, <1>2, AirFacts, Zenon
  <2>. QED BY <2>1 DEF Kept
<1>4. \A q \in Tools : \A i \in 1 .. Len(inbox'[q]) : Queued(inbox'[q][i], inbox[q])
  BY <1>2 DEF Queued
<1>. QED BY <1>1, <1>2, <1>3, <1>4, AirTurn

(* A station answers the frame it has received.                            *)
LEMMA StationStep == ASSUME HInv, NEW s \in Stations, StaAnswer(s) PROVE HInv'
<1>1. /\ air \in [Stations -> Seq(AirFrames)] /\ inbox \in [Tools -> Seq(Heard)]
      /\ stored \in [Stations -> SUBSET (Nat \X Nat)] /\ param \in [Stations -> Pars]
  BY DEF HInv, HTypes
<1>. DEFINE f == Head(air[s])
<1>2. air[s] # <<>> /\ air' = [air EXCEPT ![s] = Tail(air[s])] /\ UNCHANGED <<tl, tmp, calls>>
  BY DEF StaAnswer
<1>3. /\ f \in AirFrames /\ Queued(f, air[s]) /\ air' \in [Stations -> Seq(AirFrames)]
      /\ Kept(air', air, Stations)
  BY <1>1, <1>2, AirFacts, Zenon
<1>4. \A x \in Stations : \A i \in 1 .. Len(air'[x]) : Queued(air'[x][i], air[x])
  BY <1>3 DEF Kept
<1>5. OnAir(f, s, tl, stored, calls)
  BY <1>3 DEF HInv, Queued
<1>6. ASSUME NEW h \in Heard, Hear(h), Answering(h, tl, stored', calls),
             stored' \in [Stations -> SUBSET (Nat \X Nat)], \A x \in Stations : stored[x] \subseteq stored'[x],
             param' = param
      PROVE  HInv'
  <2>1. inbox' \in [Tools -> Seq(Heard)] /\ \A q \in Tools : Adds(inbox'[q], inbox[q], h)
    BY <1>6, HearFacts
  <2>2. \A q \in Tools : \A i \in 1 .. Len(inbox'[q]) :
          Queued(inbox'[q][i], inbox[q]) \/ Answering(inbox'[q][i], tl, stored', calls)
    BY <1>6, <2>1 DEF Adds
  <2>3. param' \in [Stations -> Pars]
    BY <1>1, <1>6
  <2>. QED BY <1>2, <1>3, <1>4, <1>6, <2>1, <2>2, <2>3, AirTurn, Zenon
<1>7. stored' = stored => /\ stored' \in [Stations -> SUBSET (Nat \X Nat)]
                          /\ \A x \in Stations : stored[x] \subseteq stored'[x]
  BY <1>1
<1>8. CASE f.kind = "scan"
  <2>. DEFINE h == [kind |-> "report", src |-> s, svn |-> Svn[s]]
  <2>1. Hear(h) /\ stored' = stored /\ param' = param
    BY <1>8 DEF StaAnswer
  <2>2. h \in Heard /\ h.kind = "report"
    BY DEF Heard, Svns
  <2>. HIDE DEF h
  <2>3. Answering(h, tl, stored', calls)
    BY <2>2 DEF Answering
  <2>. QED BY <1>6, <1>7, <2>1, <2>2, <2>3
<1>9. CASE f.kind = "getparam"
  <2>1. PICK ok \in BOOLEAN : Hear([kind |-> "param", src |-> s, par |-> param[s], sumok |-> ok])
    BY <1>9 DEF StaAnswer
  <2>. DEFINE h == [kind |-> "param", src |-> s, par |-> param[s], sumok |-> ok]
  <2>2. stored' = stored /\ param' = param
    BY <1>9 DEF StaAnswer
  <2>3. h \in Heard /\ h.kind = "param" /\ Hear(h)
    BY <1>1, <2>1 DEF Heard
  <2>. HIDE DEF h
  <2>4. Answering(h, tl, stored', calls)
    BY <2>3 DEF Answering
  <2>. QED BY <1>6, <1>7, <2>2, <2>3, <2>4
<1>10. CASE f.kind = "reboot"
  <2>1. /\ param' = [param EXCEPT ![s] = IF f.loaddef THEN "default" ELSE @]
        /\ inbox' = inbox /\ stored' = stored
    BY <1>10 DEF StaAnswer
  <2>2. param' \in [Stations -> Pars]
    BY <1>1, <2>1 DEF Pars
  <2>3. \A q \in Tools : \A i \in 1 .. Len(inbox'[q]) : Queued(inbox'[q][i], inbox[q])
    BY <2>1 DEF Queued
  <2>4. inbox' \in [Tools -> Seq(Heard)]
    BY <1>1, <2>1
  <2>5. /\ stored' \in [Stations -> SUBSET (Nat \X Nat)] /\ \A x \in Stations : stored[x] \subseteq stored'[x]
        /\ \A q \in Tools : \A i \in 1 .. Len(inbox'[q]) :
             Queued(inbox'[q][i], inbox[q]) \/ Answering(inbox'[q][i], tl, stored', calls)
    BY <1>7, <2>1, <2>3
  <2>. QED BY <1>2, <1>3, <1>4, <2>2, <2>4, <2>5, AirTurn, Zenon
<1>11. CASE f.kind = "data"
  <2>1. f.sid \in Nat /\ f.off \in Nat /\ f.len \in Nat
    BY <1>3, <1>11 DEF AirFrames
  <2>2. PICK st \in {0, 255} :
          /\ Hear([kind |-> "data", src |-> s, sid |-> f.sid, off |-> f.off, len |-> f.len, status |-> st])
          /\ IF st = 255 THEN stored' = stored
                         ELSE stored' = [stored EXCEPT ![s] = stored[s] \union {<<f.sid, f.off>>}]
    <3>. DEFINE H(st) == [kind |-> "data", src |-> s, sid |-> f.sid, off |-> f.off, len |-> f.len, status |-> st]
    <3>1. \/ Hear(H(0)) /\ stored' = [stored EXCEPT ![s] = stored[s] \union {<<f.sid, f.off>>}]
          \/ Hear(H(255)) /\ stored' = stored
      BY <1>11 DEF StaAnswer
    <3>. HIDE DEF H
    <3>2. \E st \in {0, 255} : /\ Hear(H(st))
                               /\ IF st = 255 THEN stored' = stored
                                  ELSE stored' = [stored EXCEPT ![s] = stored[s] \union {<<f.sid, f.off>>}]
      BY <3>1
    <3>. QED BY <3>2 DEF H
  <2>. DEFINE h == [kind |-> "data", src |-> s, sid |-> f.sid, off |-> f.off, len |-> f.len, status |-> st]
  <2>3. param' = param
    BY <1>11 DEF StaAnswer
  <2>4. /\ h \in Heard /\ h.kind = "data" /\ h.src = s /\ h.sid = f.sid /\ h.off = f.off /\ h.len = f.len
        /\ h.status = st /\ Hear(h)
    BY <2>1, <2>2 DEF Heard
  <2>5. /\ stored' \in [Stations -> SUBSET (Nat \X Nat)] /\ \A x \in Stations : stored[x] \subseteq stored'[x]
        /\ (st # 255 => <<f.sid, f.off>> \in stored'[s])
    <3>1. CASE stored' = stored /\ st = 255
      BY <1>7, <3>1
    <3>2. CASE stored' = [stored EXCEPT ![s] = stored[s] \union {<<f.sid, f.off>>}]
      <4>. DEFINE e == <<f.sid, f.off>>
      <4>1. e \in Nat \X Nat
        BY <2>1
      <4>2. stored' = [stored EXCEPT ![s] = stored[s] \union {e}]
        BY <3>2
      <4>. HIDE DEF e
      <4>3. /\ stored' \in [Stations -> SUBSET (Nat \X Nat)] /\ stored'[s] = stored[s] \union {e}
            /\ \A x \in Stations \ {s} : stored'[x] = stored[x]
        BY <1>1, <4>1, <4>2
      <4>4. e \in stored'[s] /\ \A x \in Stations : stored[x] \subseteq stored'[x]
        BY <4>3
      <4>. QED BY <4>3, <4>4 DEF e
    <3>. QED BY <2>2, <3>1, <3>2
  <2>. HIDE DEF f, h
  <2>6. Sent(f, s, tl, stored, calls)
    BY <1>5, <1>11 DEF OnAir
  <2>7. Sent(f, s, tl, stored', calls)
    <3>1. calls \in Nat
      BY DEF HInv, HTypes
    <3>2. stored[s] \subseteq stored'[s]
      BY <2>5
    <3>. QED BY <2>6, <3>1, <3>2, SentGrows, Zenon
  <2>8. Sent(h, s, tl, stored', calls)
    BY <2>4, <2>7 DEF Sent
  <2>9. Answering(h, tl, stored', calls)
    BY <2>4, <2>5, <2>8 DEF Answering
  <2>. QED BY <1>6, <2>3, <2>4, <2>5, <2>9
<1>. QED
  <2>1. f.kind \in {"scan", "getparam", "reboot", "data"}
    BY <1>3 DEF AirFrames
  <2>. QED BY <1>8, <1>9, <1>10, <1>11, <2>1

(* An invocation begins, with a number of its own.                         *)
LEMMA MainStep == ASSUME HInv, NEW p \in Tools, HgMain(p) PROVE HInv'
<1>1. /\ tl \in [Tools -> ToolRecs] /\ inbox \in [Tools -> Seq(Heard)] /\ tmp \in Tables /\ calls \in Nat
      /\ air \in [Stations -> Seq(AirFrames)]
      /\ \A s \in Stations : \A i \in 1 .. Len(air[s]) : Queued(air[s][i], air[s])
      /\ \A q \in Tools : ToolOk(tl[q], stored, calls) /\ tl[q].sid \in Nat /\ tl[q].off \in Nat
  BY ToolFacts
<1>2. calls < Len(Invocations) /\ calls' = calls + 1 /\ UNCHANGED <<tmp, inbox, stored, param>>
  BY DEF HgMain
<1>. DEFINE Begun(c, pc) ==
              [pc |-> pc, cmd |-> c.cmd, to |-> c.to, img |-> c.img, off |-> 0,
               tab |-> IF c.cmd = "SCAN" \/ pc = "done" THEN NoTable ELSE tmp, retry |-> 0,
               n |-> 0, shown |-> "", sid |-> calls + 1, clean |-> TRUE]
<1>3. PICK c \in Invocations[calls + 1] :
        /\ c.cmd \in {"SCAN", "GETCFG", "REBOOT", "LDDEF", "OTA"}
        /\ c.cmd = "SCAN" => tl' = [tl EXCEPT ![p] = Begun(c, "scan")] /\ Broadcast([kind |-> "scan"])
        /\ c.cmd = "GETCFG" => tl' = [tl EXCEPT ![p] = Begun(c, "cfgrx")] /\ Broadcast([kind |-> "getparam"])
        /\ c.cmd = "REBOOT" => /\ tl' = [tl EXCEPT ![p] = Begun(c, "done")]
                               /\ Unicast(c.to, [kind |-> "reboot", loaddef |-> FALSE])
        /\ c.cmd = "LDDEF" => /\ tl' = [tl EXCEPT ![p] = Begun(c, "done")]
                              /\ Unicast(c.to, [kind |-> "reboot", loaddef |-> TRUE])
        /\ c.cmd = "OTA" => /\ UNCHANGED air
                            /\ \/ tl' = [tl EXCEPT ![p] = Begun(c, "done")]
                               \/ tl' = [tl EXCEPT ![p] = Begun(c, "ota")] /\ hgic_read_firmware(Images[c.img])
  <2>1. \A c \in Invocations[calls + 1] : c.cmd \in {"SCAN", "GETCFG", "REBOOT", "LDDEF", "OTA"}
    BY <1>1, <1>2, HgOtaAssumption
  <2>. QED BY <2>1 DEF HgMain
<1>4. c.to \in Stations /\ c.img \in DOMAIN Images
  BY <1>1, <1>2, HgOtaAssumption
<1>5. PICK pc \in {"scan", "cfgrx", "done", "ota"} :
        /\ tl' = [tl EXCEPT ![p] = Begun(c, pc)]
        /\ pc = "ota" => hgic_read_firmware(Images[c.img])
  BY <1>3
<1>. DEFINE v == Begun(c, pc)
<1>6. /\ v \in ToolRecs /\ v.pc = pc /\ v.to = c.to /\ v.img = c.img /\ v.off = 0 /\ v.sid = calls + 1
  <2>1. pc \in Pcs /\ "" \in Shown
    BY DEF Pcs, Shown
  <2>2. c.cmd \in {"", "SCAN", "GETCFG", "REBOOT", "LDDEF", "OTA"}
    BY <1>3
  <2>3. c.to \in Stations \cup {""} /\ c.img \in DOMAIN Images \cup {""}
    BY <1>4
  <2>. DEFINE t == IF c.cmd = "SCAN" \/ pc = "done" THEN NoTable ELSE tmp
              k == calls + 1
  <2>4. t \in Tables /\ k \in Nat
    BY <1>1, NoTableFacts
  <2>5. v = [pc |-> pc, cmd |-> c.cmd, to |-> c.to, img |-> c.img, off |-> 0, tab |-> t, retry |-> 0,
             n |-> 0, shown |-> "", sid |-> k, clean |-> TRUE]
    OBVIOUS
  <2>. HIDE DEF t, k, v, Begun
  <2>6. v \in ToolRecs
    BY <2>1, <2>2, <2>3, <2>4, <2>5 DEF ToolRecs
  <2>7. v.pc = pc /\ v.to = c.to /\ v.img = c.img /\ v.off = 0 /\ v.sid = k
    BY <2>5
  <2>. QED BY <2>6, <2>7 DEF k
<1>7. tl' = [tl EXCEPT ![p] = v]
  BY <1>5
<1>. HIDE DEF v, Begun
<1>8. tl' \in [Tools -> ToolRecs] /\ tl'[p] = v /\ \A q \in Tools \ {p} : tl'[q] = tl[q]
  BY <1>1, <1>6, <1>7, Replaced, Zenon
<1>9. /\ air' \in [Stations -> Seq(AirFrames)]
      /\ \A s \in Stations : \A i \in 1 .. Len(air'[s]) : Queued(air'[s][i], air[s]) \/ air'[s][i].kind # "data"
  <2>1. ASSUME NEW g \in AirFrames, g.kind # "data", Broadcast(g)
        PROVE  /\ air' \in [Stations -> Seq(AirFrames)]
               /\ \A s \in Stations : \A i \in 1 .. Len(air'[s]) :
                    Queued(air'[s][i], air[s]) \/ air'[s][i].kind # "data"
    <3>1. \A s \in Stations : Queue(air[s], g) \in Seq(AirFrames) /\ Adds(Queue(air[s], g), air[s], g)
      <4>1. \A s \in Stations : air[s] \in Seq(AirFrames)
        BY <1>1
      <4>. QED BY <2>1, <4>1, QueueFacts, Zenon
    <3>2. air' = [s \in Stations |-> Queue(air[s], g)]
      BY <2>1 DEF Broadcast
    <3>3. air' \in [Stations -> Seq(AirFrames)] /\ \A s \in Stations : Adds(air'[s], air[s], g)
      BY <3>1, <3>2
    <3>. QED BY <2>1, <3>3 DEF Adds
  <2>2. ASSUME NEW g \in AirFrames, g.kind # "data", Unicast(c.to, g)
        PROVE  /\ air' \in [Stations -> Seq(AirFrames)]
               /\ \A s \in Stations : \A i \in 1 .. Len(air'[s]) :
                    Queued(air'[s][i], air[s]) \/ air'[s][i].kind # "data"
    <3>1. air' = [air EXCEPT ![c.to] = Queue(air[c.to], g)]
      BY <2>2 DEF Unicast
    <3>2. /\ air' \in [Stations -> Seq(AirFrames)] /\ Adds(air'[c.to], air[c.to], g)
          /\ \A x \in Stations \ {c.to} : air'[x] = air[x]
      <4>. DEFINE to == c.to
      <4>1. to \in Stations /\ air' = [air EXCEPT ![to] = Queue(air[to], g)]
        BY <1>4, <3>1
      <4>2. air \in [Stations -> Seq(AirFrames)]
        BY <1>1
      <4>. HIDE DEF to
      <4>3. /\ air' \in [Stations -> Seq(AirFrames)] /\ Adds(air'[to], air[to], g)
            /\ \A x \in Stations \ {to} : air'[x] = air[x]
        BY <2>2, <4>1, <4>2, UnicastFacts, Zenon
      <4>. QED BY <4>3 DEF to
    <3>. QED BY <1>1, <2>2, <3>2 DEF Adds
  <2>3. CASE c.cmd = "SCAN"
    <3>. DEFINE g == [kind |-> "scan"]
    <3>1. g \in AirFrames /\ g.kind # "data" /\ Broadcast(g)
      BY <1>3, <2>3 DEF AirFrames
    <3>. QED BY <2>1, <3>1
  <2>4. CASE c.cmd = "GETCFG"
    <3>. DEFINE g == [kind |-> "getparam"]
    <3>1. g \in AirFrames /\ g.kind # "data" /\ Broadcast(g)
      BY <1>3, <2>4 DEF AirFrames
    <3>. QED BY <2>1, <3>1
  <2>5. CASE c.cmd \in {"REBOOT", "LDDEF"}
    <3>1. PICK b \in BOOLEAN : Unicast(c.to, [kind |-> "reboot", loaddef |-> b])
      BY <1>3, <2>5
    <3>. DEFINE g == [kind |-> "reboot", loaddef |-> b]
    <3>2. g \in AirFrames /\ g.kind # "data" /\ Unicast(c.to, g)
      BY <3>1 DEF AirFrames
    <3>. QED BY <2>2, <3>2
  <2>6. CASE c.cmd = "OTA"
    BY <1>1, <1>3, <2>6
  <2>. QED BY <1>3, <2>3, <2>4, <2>5, <2>6
<1>10. HTypes'
  BY <1>1, <1>2, <1>8, <1>9 DEF HInv, HTypes
<1>11. ASSUME NEW f, NEW s, Sent(f, s, tl, stored, calls) PROVE Sent(f, s, tl', stored, calls + 1)
  <2>1. \A q \in Tools : \/ /\ tl'[q].sid = tl[q].sid /\ tl'[q].to = tl[q].to /\ tl'[q].img = tl[q].img
                            /\ tl'[q].clean => tl[q].clean
                         \/ tl'[q].sid = calls + 1
    BY <1>6, <1>8
  <2>2. calls + 1 \in Nat /\ calls <= calls + 1 /\ stored[s] \subseteq stored[s]
    BY <1>1
  <2>. QED BY <1>1, <1>11, <2>1, <2>2, SentKept, Zenon
<1>12. \A s \in Stations : \A i \in 1 .. Len(air'[s]) : OnAir(air'[s][i], s, tl', stored', calls')
  <2>1. \A s \in Stations : \A i \in 1 .. Len(air'[s]) : OnAir(air'[s][i], s, tl, stored, calls)
    BY <1>9 DEF HInv, Queued, OnAir
  <2>. QED BY <1>2, <1>11, <2>1 DEF OnAir
<1>13. \A q \in Tools : \A i \in 1 .. Len(inbox'[q]) : Answering(inbox'[q][i], tl', stored', calls')
  <2>1. \A q \in Tools : \A i \in 1 .. Len(inbox[q]) : Answering(inbox[q][i], tl, stored, calls)
    BY DEF HInv
  <2>. QED BY <1>2, <1>11, <2>1 DEF Answering
<1>14. \A q \in Tools : ToolOk(tl'[q], stored', calls')
  <2>1. ASSUME NEW q \in Tools \ {p} PROVE ToolOk(tl[q], stored, calls + 1)
    <3>1. calls + 1 \in Nat /\ calls <= calls + 1 /\ \A s \in Stations : stored[s] \subseteq stored[s]
      BY <1>1
    <3>2. ToolOk(tl[q], stored, calls) /\ tl[q].sid \in Nat /\ tl[q].off \in Nat
      BY <1>1
    <3>. QED BY <1>1, <3>1, <3>2, ToolKept, Zenon
  <2>2. ToolOk(v, stored, calls + 1)
    <3>1. v.sid <= calls + 1 /\ v.sid > 0 /\ ~(v.off > 0) /\ v.pc # "otarx"
      BY <1>1, <1>6
    <3>2. \E q \in Nat : v.off = q * BlockSize
      <4>1. 0 \in Nat /\ 0 = 0 * BlockSize
        BY HgOtaAssumption
      <4>. QED BY <1>6, <4>1
    <3>. QED BY <1>4, <1>5, <1>6, <3>1, <3>2 DEF ToolOk
  <2>. QED BY <1>2, <1>8, <2>1, <2>2
<1>15. \A q, r \in Tools : tl'[q].sid = tl'[r].sid /\ tl'[q].sid > 0 => q = r
  <2>1. \A q \in Tools : tl[q].sid # calls + 1
    <3>1. \A q \in Tools : tl[q].sid <= calls
      BY <1>1 DEF ToolOk
    <3>. QED BY <1>1, <3>1
  <2>2. \A q, r \in Tools : tl[q].sid = tl[r].sid /\ tl[q].sid > 0 => q = r
    BY DEF HInv
  <2>. QED BY <1>6, <1>8, <2>1, <2>2
<1>. QED BY <1>10, <1>12, <1>13, <1>14, <1>15 DEF HInv

(* The invariant of the upgrades holds throughout.                         *)
LEMMA UpgradesHold == UpSpec => []HInv
<1>1. UpInit => HInv
  <2>. SUFFICES ASSUME HgInit PROVE HInv
    BY DEF UpInit
  <2>. DEFINE u0 == [pc |-> "idle", cmd |-> "", to |-> "", img |-> "", tab |-> NoTable, off |-> 0,
                     retry |-> 0, n |-> 0, shown |-> "", sid |-> 0, clean |-> TRUE]
  <2>1. u0 \in ToolRecs /\ u0.pc = "idle" /\ u0.sid = 0 /\ u0.off = 0
    <3>1. "idle" \in Pcs /\ "" \in Shown /\ NoTable \in Tables
      BY NoTableFacts DEF Pcs, Shown
    <3>. QED BY <3>1 DEF ToolRecs
  <2>2. tl = [p \in Tools |-> u0]
    BY Zenon DEF HgInit
  <2>. HIDE DEF u0
  <2>3. tl \in [Tools -> ToolRecs] /\ \A p \in Tools : tl[p] = u0
    BY <2>1, <2>2
  <2>4. tmp \in Tables
    <3>1. PICK known \in Saved : tmp = [s \in known |-> [svn |-> Svn[s], next |-> 0, par |-> "zeros"]]
      BY DEF HgInit
    <3>2. known \subseteq Stations
      BY HgOtaAssumption
    <3>3. \A s \in known : [svn |-> Svn[s], next |-> 0, par |-> "zeros"] \in Entries
      BY <3>2 DEF Entries, Svns, Pars
    <3>4. DOMAIN tmp = known /\ tmp \in [known -> Entries]
      BY <3>1, <3>3
    <3>. QED BY <3>2, <3>4, TableFacts
  <2>5. /\ air \in [Stations -> Seq(AirFrames)] /\ inbox \in [Tools -> Seq(Heard)]
        /\ (\A s \in Stations : \A i \in 1 .. Len(air[s]) : FALSE)
        /\ (\A p \in Tools : \A i \in 1 .. Len(inbox[p]) : FALSE)
    <3>1. <<>> \in Seq(AirFrames) /\ <<>> \in Seq(Heard) /\ \A i \in 1 .. Len(<<>>) : FALSE
      BY EmptyFacts
    <3>2. air = [s \in Stations |-> <<>>] /\ inbox = [p \in Tools |-> <<>>]
      BY DEF HgInit
    <3>3. \A s \in Stations : air[s] = <<>>
      BY <3>2
    <3>4. \A p \in Tools : inbox[p] = <<>>
      BY <3>2
    <3>5. air \in [Stations -> Seq(AirFrames)] /\ inbox \in [Tools -> Seq(Heard)]
      BY <3>1, <3>2
    <3>. QED BY <3>1, <3>3, <3>4, <3>5, Zenon
  <2>6. /\ stored \in [Stations -> SUBSET (Nat \X Nat)] /\ param \in [Stations -> Pars] /\ calls = 0
    BY DEF HgInit, Pars
  <2>7. HTypes
    BY <2>3, <2>4, <2>5, <2>6 DEF HTypes
  <2>8. ToolOk(u0, stored, calls)
    <3>1. 0 \in Nat /\ 0 = 0 * BlockSize
      BY HgOtaAssumption
    <3>2. \E q \in Nat : u0.off = q * BlockSize
      BY <2>1, <3>1
    <3>3. u0.sid <= calls /\ ~(u0.off > 0)
      BY <2>1, <2>6
    <3>. QED BY <2>1, <3>2, <3>3 DEF ToolOk
  <2>9. \A p \in Tools : ~(tl[p].sid > 0)
    BY <2>1, <2>3
  <2>. QED BY <2>3, <2>5, <2>7, <2>8, <2>9 DEF HInv
<1>2. HInv /\ [UpNext]_upvars => HInv'
  <2>. SUFFICES ASSUME HInv, [UpNext]_upvars PROVE HInv'
    OBVIOUS
  <2>1. CASE UNCHANGED airvars
    BY <2>1 DEF airvars, HInv, HTypes
  <2>2. CASE HgNext
    BY <2>2, MainStep, ScanStep, SaveStep, OtaSendStep, OtaRecvStep, GetConfigStep, StationStep, LoseStep
       DEF HgNext, ToolStep
  <2>. QED BY <2>1, <2>2 DEF UpNext, ByDriver, upvars
<1>. QED BY <1>1, <1>2, PTL DEF UpSpec

(* An upgrade over the air that ended at 100 % and took only the answers   *)
(* to its own blocks has had every block of a file with a right CRC        *)
(* accepted by its station.                                                *)
THEOREM UpgradesAreComplete == UpSpec => []UpgradeComplete
<1>1. ASSUME HInv PROVE UpgradeComplete
  <2>. SUFFICES ASSUME NEW p \in Tools, tl[p].off > 0, tl[p].off >= Tot(tl[p]), tl[p].clean
                PROVE  /\ \A k \in 0 .. (Tot(tl[p]) - 1) :
                            k % BlockSize = 0 => <<tl[p].sid, k>> \in stored[tl[p].to]
                       /\ hgic_read_firmware(Images[tl[p].img])
    BY DEF UpgradeComplete, Tot
  <2>1. ToolOk(tl[p], stored, calls) /\ tl[p].off \in Nat
    BY <1>1, ToolFacts
  <2>2. /\ Below(tl[p].sid, tl[p].off, stored[tl[p].to]) /\ hgic_read_firmware(Images[tl[p].img])
        /\ tl[p].img \in DOMAIN Images
    BY <2>1 DEF ToolOk
  <2>3. Tot(tl[p]) \in Int
    BY <2>2, HgOtaAssumption DEF Tot, fwinfo_get_fw_length, fwinfo_get
  <2>4. \A k \in 0 .. (Tot(tl[p]) - 1) : k \in 0 .. (tl[p].off - 1)
    BY <2>1, <2>3
  <2>. QED BY <2>2, <2>4 DEF Below
<1>. QED BY <1>1, UpgradesHold, PTL
=============================================================================
