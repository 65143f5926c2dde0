----------------------------- MODULE MCDataPath -----------------------------
(***************************************************************************)
(* DataPath for TLC.  With IfAgg = 18 and HdrLen = 8 the first frame sent  *)
(* and the last two can share an aggregate, and the second fits behind     *)
(* none.  Aggregates received hold up to two frames, the header may claim  *)
(* less or more than there is, and a frame in them may be damaged.         *)
(***************************************************************************)
EXTENDS DataPath

MCFrameLens == <<4, 5, 4, 4>>

Sub(ok, length, flags) == [ok |-> ok, length |-> length, flags |-> flags, end |-> length]
Subs == {Sub(TRUE, 8, 0), Sub(TRUE, 9, 0), Sub(TRUE, 12, 3), Sub(FALSE, 9, 0)}
Buf(pad, type, length, len, flags, subs) ==
  [pad |-> pad, magic |-> TRUE, type |-> type, length |-> length, len |-> len, flags |-> flags, subs |-> subs]
Pairs == {<<s, [t EXCEPT !.end = s.length + t.length]>> : s, t \in Subs}
Claim(subs) == 8 + (IF subs = <<>> THEN 0 ELSE subs[2].end)
Aggs == {Buf(0, "AGGFRM", Claim(subs) - cut, Claim(subs) + more, 0, subs) :
           subs \in {<<>>} \cup Pairs, cut \in {0, 1}, more \in {-1, 0, 3}}
MCBuffers == Aggs \cup {Buf(pad, "FRM2", 10 + flags, 10 + flags + pad, flags, <<>>) : pad \in {0, 3, 4}, flags \in {0, 2}}
               \cup {Buf(0, "FRM2", 8, 8, 0, <<>>), [Buf(0, "FRM2", 10, 10, 0, <<>>) EXCEPT !.magic = FALSE]}
               \cup {Buf(0, type, 10, len, 0, <<>>) : type \in {"CMD", "BOOTDL", "TEST2"}, len \in {9, 10, 12}}
=============================================================================
