------------------------------- MODULE RxPath -------------------------------
(***************************************************************************)
(* The receive side of hgic_fmac/core.c: the bus hands every buffer it     *)
(* reads to hgicf_rx_data, which sorts it by its type and takes aggregates *)
(* apart, while delay_init creates the network interface.                  *)
(*                                                                         *)
(* A buffer has a header [magic, type, length] behind pad bytes of 0xFF,   *)
(* len bytes in all, and in an aggregate the frames subs, each with a      *)
(* header of its own: [ok, length, flags, end], ok for magic and type,     *)
(* flags the number of bytes it is padded with, end where it ends, counted *)
(* from the aggregate's header: each begins where the one before it ends.  *)
(***************************************************************************)
EXTENDS Integers, Sequences, Functions

CONSTANTS
  Buffers,    \* the buffers the module may send
  RxHdr,      \* sizeof(struct hgic_hdr) and of struct hgic_frm_hdr2
  MaxRx,      \* bound on the number of buffers
  MaxNoMem    \* bound on failing allocations and registrations

ASSUME RxAssumption ==
  /\ RxHdr \in Nat \ {0} /\ MaxRx \in Nat /\ MaxNoMem \in Nat
  /\ \A b \in Buffers :
       /\ b.length \in Nat /\ b.flags \in Nat
       /\ DOMAIN b.subs = 1 .. Len(b.subs) /\ Len(b.subs) \in Nat
       /\ \A i \in DOMAIN b.subs :
            /\ b.subs[i].length \in Nat /\ b.subs[i].flags \in Nat /\ b.subs[i].end \in Nat
            /\ b.subs[i].length >= RxHdr + b.subs[i].flags
            /\ b.subs[i].end = b.subs[i].length + (IF i = 1 THEN 0 ELSE b.subs[i - 1].end)

VARIABLES
  iftest,     \* the module parameter if_test: data are counted, not delivered
  vif,        \* "none", "registered" by hgicf_create_iface, or "set" as hg->vif
  rxbuf,      \* the buffer hgicf_rx_agg_frm is taking apart, or NoBuf
  left,       \* its len
  next,       \* the frame at its data
  got,        \* what netif_rx was given: [rx, sub, len]
  ctrlq,      \* lengths of the frames given to hgic_fwctrl_rx
  rxs, nomem, \* buffers received and allocations failed so far
  want, lost  \* the frames the buffers accepted so far hold, and those without memory

rxvars == <<iftest, vif, rxbuf, left, next, got, ctrlq, rxs, nomem, want, lost>>

NoBuf == [type |-> "NONE"]
CtrlTypes == {"CMD", "CMD2", "EVENT", "EVENT2", "OTA", "BOOTDL"}

-----------------------------------------------------------------------------
\* What an aggregate of length bytes holds, by its layout: the frames before
\* the first that is not one, or that ends past the aggregate.  A frame with
\* a header and nothing else holds nothing.
Frm(n, k, s) == [rx |-> n, sub |-> k, len |-> s.length - RxHdr - s.flags]
Whole(b, k) == /\ \A j \in 1 .. k : b.subs[j].ok /\ b.subs[j].end <= b.length - RxHdr
               /\ b.subs[k].length > RxHdr
Holds(b, n) == {Frm(n, k, b.subs[k]) : k \in {j \in DOMAIN b.subs : Whole(b, j)}}

-----------------------------------------------------------------------------
\* hgic_skip_padding takes three bytes at most.
hgic_skip_padding(b) == IF b.pad > 3 THEN 3 ELSE b.pad
RxLen(b) == b.len - hgic_skip_padding(b)

\* The tests of hgicf_rx_data: behind more padding there is no magic.
Accepted(b) == b.magic /\ b.pad <= 3 /\ (RxLen(b) >= b.length \/ b.type = "BOOTDL")

\* hgicf_rx_single_frm: the frame without its header and its padding goes to
\* the network layer, if there is memory for it.
hgicf_rx_single_frm(n, k, s) ==
  IF vif = "set" /\ s.length > RxHdr
  THEN \/ got' = Append(got, Frm(n, k, s)) /\ UNCHANGED <<nomem, lost>>
       \/ nomem < MaxNoMem /\ nomem' = nomem + 1 /\ lost' = lost \union {Frm(n, k, s)} /\ UNCHANGED got
  ELSE UNCHANGED <<got, nomem, lost>>

\* hgicf_rx_data: a buffer that is refused, a control frame, an aggregate, a
\* single frame, or test data.
RxRefused(b) == ~Accepted(b) /\ UNCHANGED <<rxbuf, left, next, got, nomem, ctrlq, want, lost>>
RxCtrl(b) ==
  /\ Accepted(b) /\ b.type \in CtrlTypes
  /\ ctrlq' = Append(ctrlq, IF RxLen(b) < b.length THEN RxLen(b) ELSE b.length)
  /\ UNCHANGED <<rxbuf, left, next, got, nomem, want, lost>>
RxFrames(b) ==
  /\ Accepted(b) /\ vif = "set" /\ ~iftest
  /\ \/ /\ b.type = "AGGFRM"
        /\ rxbuf' = b /\ left' = b.length - RxHdr /\ next' = 1
        /\ want' = want \union Holds(b, rxs + 1)
        /\ UNCHANGED <<got, nomem, lost>>
     \/ /\ b.type = "FRM2" /\ hgicf_rx_single_frm(rxs + 1, 0, b)
        /\ want' = IF b.length > RxHdr THEN want \union {Frm(rxs + 1, 0, b)} ELSE want
        /\ UNCHANGED <<rxbuf, left, next>>
  /\ UNCHANGED ctrlq
RxIgnored(b) ==
  /\ Accepted(b) /\ b.type \notin CtrlTypes
  /\ b.type \in {"AGGFRM", "FRM2"} => vif # "set" \/ iftest
  /\ UNCHANGED <<rxbuf, left, next, got, nomem, ctrlq, want, lost>>
RxData(b) ==
  /\ rxbuf = NoBuf /\ rxs < MaxRx /\ rxs' = rxs + 1
  /\ RxRefused(b) \/ RxCtrl(b) \/ RxFrames(b) \/ RxIgnored(b)
  /\ UNCHANGED <<iftest, vif>>

\* Mutant: the last frame of an aggregate is taken for a cut one.
FitsStrictly(s) == left > s.length
SubFits(s) == left >= s.length

\* One turn of hgicf_rx_agg_frm's loop.
RxAgg ==
  /\ rxbuf # NoBuf
  /\ IF /\ left > RxHdr /\ next <= Len(rxbuf.subs)
        /\ rxbuf.subs[next].ok /\ SubFits(rxbuf.subs[next])
     THEN /\ hgicf_rx_single_frm(rxs, next, rxbuf.subs[next])
          /\ left' = left - rxbuf.subs[next].length /\ next' = next + 1
          /\ UNCHANGED rxbuf
     ELSE rxbuf' = NoBuf /\ left' = 0 /\ next' = 0 /\ UNCHANGED <<got, nomem, lost>>
  /\ UNCHANGED <<iftest, vif, ctrlq, rxs, want>>

\* hgicf_create_iface registers the interface, delay_init stores it; without
\* memory or when the registration fails a later run tries again.
CreateIface ==
  /\ vif = "none"
  /\ \/ vif' = "registered" /\ UNCHANGED nomem
     \/ nomem < MaxNoMem /\ nomem' = nomem + 1 /\ UNCHANGED vif
  /\ UNCHANGED <<iftest, rxbuf, left, next, got, ctrlq, rxs, want, lost>>
SetVif == /\ vif = "registered" /\ vif' = "set"
          /\ UNCHANGED <<iftest, rxbuf, left, next, got, ctrlq, rxs, nomem, want, lost>>

RxInit == /\ iftest \in BOOLEAN /\ vif = "none" /\ rxbuf = NoBuf /\ left = 0 /\ next = 0 /\ got = <<>>
          /\ ctrlq = <<>> /\ rxs = 0 /\ nomem = 0 /\ want = {} /\ lost = {}
RxNext == (\E b \in Buffers : RxData(b)) \/ RxAgg \/ CreateIface \/ SetVif

-----------------------------------------------------------------------------
Before(f, g) == f.rx < g.rx \/ (f.rx = g.rx /\ f.sub < g.sub)

(* The network layer is given exactly the frames that the buffers hold,    *)
(* each once, in their order and without header and padding: those of an   *)
(* aggregate up to the first that is damaged or does not fit, less those   *)
(* for which there was no memory, and nothing of what came before the      *)
(* interface was set.                                                      *)
RxDelivers ==
  rxbuf = NoBuf => /\ Range(got) = want \ lost
                   /\ \A i, j \in DOMAIN got : i < j => Before(got[i], got[j])
=============================================================================
