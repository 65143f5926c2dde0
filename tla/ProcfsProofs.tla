---------------------------- MODULE ProcfsProofs ----------------------------
(***************************************************************************)
(* The two services of /proc/hgicf: the invariants of EvtQueue for any     *)
(* number of readers and events and any EventMax, and those of ConfigPath  *)
(* for any callers, plans and faults.                                      *)
(***************************************************************************)
EXTENDS EvtQueue, ConfigPath, FiniteSetTheorems, TLAPS

(* The producer has numbered an event that is not yet in the list.         *)
Fresh == prod \in {"room", "add"}

(* What makes the invariants inductive: the reads that found nothing have  *)
(* used up permits of dropped events; between the test of the length and   *)
(* the queueing only readers touch the list; the event about to be queued  *)
(* is newer than everything in the list.                                   *)
IInv ==
  /\ TypeOK
  /\ PermitBalance
  /\ empty <= dropped
  /\ removed => list = <<>> /\ prod = "idle" /\ holders = {}
  /\ Len(list) <= EventMax + 1
  /\ prod = "add" => Len(list) <= EventMax
  /\ InOrder
  /\ \A i \in 1 .. Len(list) : list[i] <= recvd /\ (Fresh => list[i] < recvd)
  /\ last <= recvd /\ (Fresh => last < recvd)

-----------------------------------------------------------------------------
(* The readers that hold a permit are finitely many, so that adding or     *)
(* removing one changes their number by one.                               *)
LEMMA HoldersCount ==
  ASSUME holders \in SUBSET Readers
  PROVE  /\ IsFiniteSet(holders)
         /\ Cardinality(holders) \in Nat
         /\ \A r \in Readers :
              /\ r \notin holders =>
                   Cardinality(holders \cup {r}) = Cardinality(holders) + 1
              /\ r \in holders =>
                   /\ Cardinality(holders \ {r}) = Cardinality(holders) - 1
                   /\ Cardinality(holders) > 0
<1>1. IsFiniteSet(holders)
  BY ReadersAssumption, FS_Subset
<1>2. Cardinality(holders) \in Nat
  BY <1>1, FS_CardinalityType
<1>3. ASSUME NEW r \in Readers, r \notin holders
      PROVE  Cardinality(holders \cup {r}) = Cardinality(holders) + 1
  BY <1>1, <1>3, FS_AddElement
<1>4. ASSUME NEW r \in Readers, r \in holders
      PROVE  /\ Cardinality(holders \ {r}) = Cardinality(holders) - 1
             /\ Cardinality(holders) > 0
  <2>1. Cardinality(holders \ {r}) = Cardinality(holders) - 1
    BY <1>1, <1>4, FS_RemoveElement
  <2>2. Cardinality(holders) # 0
    BY <1>1, <1>4, FS_EmptySet
  <2>. QED BY <2>1, <2>2, <1>2
<1>. QED BY <1>1, <1>2, <1>3, <1>4

-----------------------------------------------------------------------------
(* The state after Init satisfies the inductive invariant.                 *)
LEMMA InitIInv == Init => IInv
<1>. SUFFICES ASSUME Init PROVE IInv
  OBVIOUS
<1>1. Cardinality(holders) = 0
  BY FS_EmptySet DEF Init
<1>2. TypeOK /\ Len(list) = 0
  <2>1. list \in Seq(Nat) /\ Len(list) = 0
    BY DEF Init
  <2>2. holders \in SUBSET Readers
    BY DEF Init
  <2>. QED BY <2>1, <2>2 DEF Init, TypeOK
<1>3. PermitBalance /\ InOrder
  BY <1>1, <1>2 DEF Init, PermitBalance, Unposted, InOrder
<1>. QED BY <1>2, <1>3, EventAssumption DEF Init, IInv, Fresh

(* Every step preserves it.                                                *)
LEMMA NextIInv == IInv /\ [Next]_vars => IInv'
<1>. SUFFICES ASSUME IInv, [Next]_vars PROVE IInv'
  OBVIOUS
<1>. USE EventAssumption
<1>0. holders \in SUBSET Readers
  BY DEF IInv, TypeOK
<1>c. Cardinality(holders) \in Nat
  BY <1>0, HoldersCount
<1>1. CASE RecvIgnored
  <2>1. /\ prod = "idle" /\ recvd' = recvd + 1 /\ ~removed
        /\ UNCHANGED <<list, sema, prod, dropped, holders, empty, last, removed>>
    BY <1>1 DEF RecvIgnored
  <2>2. TypeOK' /\ InOrder'
    BY <2>1 DEF IInv, TypeOK, InOrder
  <2>3. Unposted' = Unposted
    BY <2>1 DEF Unposted
  <2>4. PermitBalance'
    BY <2>1, <2>3 DEF IInv, PermitBalance
  <2>5. \A i \in 1 .. Len(list) : list[i] \in Nat /\ list[i] <= recvd /\ recvd \in Nat
    BY DEF IInv, TypeOK
  <2>. QED BY <2>1, <2>2, <2>4, <2>5 DEF IInv, TypeOK, Fresh
<1>2. CASE Recv
  <2>1. /\ prod = "idle" /\ recvd' = recvd + 1 /\ ~removed
        /\ prod' = "room" \/ (prod' = "add" /\ Len(list) <= EventMax)
        /\ UNCHANGED <<list, sema, dropped, holders, empty, last, removed>>
    BY <1>2 DEF Recv, ListFull, IInv, TypeOK
  <2>2. TypeOK' /\ InOrder'
    BY <2>1 DEF IInv, TypeOK, InOrder
  <2>3. Unposted' = Unposted
    BY <2>1 DEF Unposted
  <2>4. PermitBalance'
    BY <2>1, <2>3 DEF IInv, PermitBalance
  <2>5. \A i \in 1 .. Len(list) : list[i] \in Nat /\ list[i] <= recvd /\ recvd \in Nat
    BY DEF IInv, TypeOK
  <2>. QED BY <2>1, <2>2, <2>4, <2>5 DEF IInv, TypeOK, Fresh
<1>3. CASE DropOldest
  <2>1. CASE list = <<>>
    <3>1. /\ prod = "room" /\ prod' = "add"
          /\ UNCHANGED <<list, dropped, sema, recvd, holders, empty, last, removed>>
      BY <1>3, <2>1 DEF DropOldest
    <3>2. TypeOK' /\ InOrder'
      BY <3>1 DEF IInv, TypeOK, InOrder
    <3>3. Unposted' = Unposted
      BY <3>1 DEF Unposted
    <3>4. PermitBalance'
      BY <3>1, <3>3 DEF IInv, PermitBalance
    <3>. QED BY <3>1, <3>2, <3>4, <2>1 DEF IInv, TypeOK, Fresh
  <2>2. CASE list # <<>>
    <3>1. /\ list' = Tail(list) /\ dropped' = dropped + 1 /\ prod' = "add"
          /\ UNCHANGED <<sema, recvd, holders, empty, last, removed>>
          /\ prod = "room" /\ list \in Seq(Nat)
      BY <1>3, <2>2 DEF DropOldest, IInv, TypeOK
    <3>2. /\ list' \in Seq(Nat) /\ Len(list') = Len(list) - 1 /\ Len(list) > 0
          /\ \A i \in 1 .. Len(list') : i + 1 \in 1 .. Len(list) /\ list'[i] = list[i + 1]
      BY <3>1, <2>2
    <3>3. PermitBalance' /\ empty' <= dropped' /\ ~removed'
      BY <3>1, <3>2, <1>c, <2>2 DEF IInv, TypeOK, PermitBalance, Unposted
    <3>4. InOrder'
      BY <3>1, <3>2 DEF IInv, InOrder
    <3>. QED
      BY <3>1, <3>2, <3>3, <3>4 DEF IInv, TypeOK, Fresh
  <2>. QED BY <2>1, <2>2
<1>4. CASE AddTail
  <2>1. /\ prod = "add" /\ list' = Append(list, recvd) /\ prod' = "up"
        /\ UNCHANGED <<sema, recvd, dropped, holders, empty, last, removed>>
        /\ list \in Seq(Nat) /\ recvd \in Nat
    BY <1>4 DEF AddTail, QueueTail, IInv, TypeOK
  <2>2. /\ list' \in Seq(Nat) /\ Len(list') = Len(list) + 1
        /\ \A i \in 1 .. Len(list) : list'[i] = list[i]
        /\ list'[Len(list) + 1] = recvd
    BY <2>1
  <2>3. ~removed
    BY <1>4 DEF AddTail, IInv
  <2>4. PermitBalance' /\ empty' <= dropped'
    BY <2>1, <2>2, <1>c DEF IInv, TypeOK, PermitBalance, Unposted
  <2>5. InOrder'
    BY <2>1, <2>2 DEF IInv, TypeOK, InOrder, Fresh
  <2>. QED
    BY <2>1, <2>2, <2>3, <2>4, <2>5 DEF IInv, TypeOK, Fresh
<1>5. CASE UpSema
  <2>1. /\ prod = "up" /\ prod' = "idle" /\ sema' = sema + 1
        /\ UNCHANGED <<list, recvd, dropped, holders, empty, last, removed>>
    BY <1>5 DEF UpSema, SemaUp
  <2>2. TypeOK' /\ InOrder'
    BY <2>1 DEF IInv, TypeOK, InOrder
  <2>3. Unposted = 1 /\ Unposted' = 0
    BY <2>1 DEF Unposted
  <2>4. PermitBalance'
    <3>1. sema \in Nat /\ empty \in Nat
      BY DEF IInv, TypeOK
    <3>2. sema + Cardinality(holders) + 1 + empty = (sema + 1) + Cardinality(holders) + 0 + empty
      BY <3>1, <1>c
    <3>. QED BY <2>1, <2>3, <3>2 DEF IInv, PermitBalance
  <2>. QED BY <2>1, <2>2, <2>4 DEF IInv, TypeOK, Fresh
<1>6. ASSUME NEW r \in Readers, Down(r)
      PROVE  IInv'
  <2>1. Cardinality(holders') = Cardinality(holders) + 1
    BY <1>6, <1>0, HoldersCount DEF Down
  <2>2. PermitBalance' /\ sema' \in Nat
    BY <1>6, <1>c, <2>1 DEF Down, PermitAvailable, IInv, TypeOK, PermitBalance, Unposted
  <2>. QED
    BY <1>6, <2>2 DEF Down, IInv, TypeOK, InOrder, Fresh
<1>7. ASSUME NEW r \in Readers, ReadEvent(r)
      PROVE  IInv'
  <2>1. Cardinality(holders') = Cardinality(holders) - 1
    BY <1>7, <1>0, HoldersCount DEF ReadEvent
  <2>2. /\ list \in Seq(Nat) /\ list # <<>> /\ list' = Tail(list) /\ last' = Head(list)
        /\ UNCHANGED <<sema, prod, recvd, dropped, empty, removed>>
    BY <1>7 DEF ReadEvent, IInv, TypeOK
  <2>3. /\ list' \in Seq(Nat) /\ Len(list') = Len(list) - 1 /\ Len(list) > 0
        /\ last' = list[1] /\ last' \in Nat
        /\ \A i \in 1 .. Len(list') : i + 1 \in 1 .. Len(list) /\ list'[i] = list[i + 1]
    BY <2>2
  <2>4. PermitBalance' /\ ~removed'
    <3>1. ~removed /\ ~removed'
      BY <2>2 DEF IInv
    <3>2. sema + Cardinality(holders) + Unposted + empty = Len(list) + dropped
      BY <3>1 DEF IInv, PermitBalance
    <3>3. Unposted' = Unposted /\ Unposted \in Nat
      BY <2>2 DEF Unposted
    <3>4. sema' + Cardinality(holders') + Unposted' + empty' = Len(list') + dropped'
      <4>1. sema \in Nat /\ empty \in Nat /\ dropped \in Nat /\ Len(list) \in Nat
        BY <2>2 DEF IInv, TypeOK
      <4>2. sema' = sema /\ empty' = empty /\ dropped' = dropped /\ Len(list') = Len(list) - 1
        BY <2>2, <2>3
      <4>3. sema + (Cardinality(holders) - 1) + Unposted + empty = (Len(list) - 1) + dropped
        BY <1>c, <3>2, <3>3, <4>1 DEF Unposted
      <4>. QED BY <2>1, <3>3, <4>2, <4>3, Zenon
    <3>. QED BY <3>1, <3>4 DEF PermitBalance
  <2>5. InOrder'
    BY <2>2, <2>3 DEF IInv, TypeOK, InOrder
  <2>6. holders' \in SUBSET Readers
    BY <1>7, <1>0 DEF ReadEvent
  <2>. QED
    BY <2>2, <2>3, <2>4, <2>5, <2>6 DEF IInv, TypeOK, Fresh
<1>8. ASSUME NEW r \in Readers, ReadEmpty(r)
      PROVE  IInv'
  <2>1. /\ Cardinality(holders') = Cardinality(holders) - 1
        /\ Cardinality(holders) > 0
    BY <1>8, <1>0, HoldersCount DEF ReadEmpty
  <2>2. PermitBalance' /\ empty' <= dropped'
    BY <1>8, <1>c, <2>1 DEF ReadEmpty, IInv, TypeOK, PermitBalance, Unposted
  <2>. QED
    BY <1>8, <2>2 DEF ReadEmpty, IInv, TypeOK, InOrder, Fresh
<1>9. CASE EvtRemove
  BY <1>9 DEF EvtRemove, IInv, TypeOK, PermitBalance, InOrder, Fresh
<1>10. CASE UNCHANGED vars
  BY <1>10 DEF vars, IInv, TypeOK, PermitBalance, Unposted, InOrder, Fresh
<1>. QED
  BY <1>1, <1>2, <1>3, <1>4, <1>5, <1>6, <1>7, <1>8, <1>9, <1>10 DEF Next, Produce

(* The inductive invariant always holds.                                   *)
LEMMA Inductive == Spec => []IInv
<1>. QED BY InitIInv, NextIInv, PTL DEF Spec

-----------------------------------------------------------------------------
(* The variables of hgicf_rx_fw_event and hgicf_fwevent_read keep their    *)
(* types.                                                                  *)
THEOREM TypeCorrect == Spec => []TypeOK
<1>1. IInv => TypeOK
  BY DEF IInv
<1>. QED BY <1>1, Inductive, PTL

(* No event is stranded in evt_list: permits, permit holders and the       *)
(* permit about to be given cover it, for any number of readers.           *)
THEOREM EventsCovered == Spec => []PermitsCoverEvents
<1>1. IInv => PermitsCoverEvents
  <2>. SUFFICES ASSUME IInv PROVE PermitsCoverEvents
    OBVIOUS
  <2>1. Cardinality(holders) \in Nat
    BY HoldersCount DEF IInv, TypeOK
  <2>2. Unposted \in Nat
    BY DEF Unposted
  <2>3. CASE removed
    BY <2>1, <2>2, <2>3 DEF IInv, TypeOK, PermitsCoverEvents
  <2>4. CASE ~removed
    BY <2>1, <2>2, <2>4 DEF IInv, TypeOK, PermitBalance, PermitsCoverEvents
  <2>. QED BY <2>3, <2>4
<1>. QED BY <1>1, Inductive, PTL

(* evt_sema neither loses nor invents permits.                             *)
THEOREM PermitsBalanced == Spec => []PermitBalance
<1>1. IInv => PermitBalance
  BY DEF IInv
<1>. QED BY <1>1, Inductive, PTL

(* evt_list holds at most HGIC_EVENT_MAX + 1 events, although its length   *)
(* is tested in one critical section and changed in another.               *)
THEOREM ListIsBounded == Spec => []ListBounded
<1>1. IInv => ListBounded
  BY DEF IInv, ListBounded
<1>. QED BY <1>1, Inductive, PTL

(* Readers get the events in the order in which the firmware sent them.    *)
THEOREM EventsInOrder == Spec => []InOrder
<1>1. IInv => InOrder
  BY DEF IInv
<1>. QED BY <1>1, Inductive, PTL

-----------------------------------------------------------------------------
(* ConfigPath.  What a frame may carry: the command and the arguments of a *)
(* call some plan makes, where a radio call passes on any byte.            *)
SentArgs(cl, v) == IF IsRadio(Dispatch(cl)) THEN [nums |-> <<v>>, bytes |-> <<>>] ELSE Dispatch(cl).args
Body(cl, v) == [cmd |-> CmdOf(cl), payload |-> Payload(Cmds[Dispatch(cl).wrap], SentArgs(cl, v)), args |-> cl.args]
Senders == {cl \in Calls : Dispatch(cl).wrap # ""}
Bodies == {Body(cl, v) : cl \in Senders, v \in 0 .. 255}
BodyOf(f) == [cmd |-> f.cmd, payload |-> f.payload, args |-> f.args]
CmdFrames == {f \in [id : Nat, client : Clients, cmd : {b.cmd : b \in Bodies},
                     payload : {b.payload : b \in Bodies}, args : {b.args : b \in Bodies}] : BodyOf(f) \in Bodies}

(* A call and the steps it goes through.                                   *)
CallFields == {"call", "disp", "pc", "id", "out", "ran", "seen", "answered"}
Ids == Nat \union {-1}
CallOK(r) ==
  \/ r = Idle
  \/ /\ DOMAIN r = CallFields
     /\ r.call \in Calls /\ r.disp = Dispatch(r.call)
     /\ r.pc \in {"send", "wait", "done"} /\ r.answered \in BOOLEAN
     /\ r.id \in Ids
     /\ r.pc = "send" => IsRadio(r.disp) /\ r.id = -1 /\ r.ran = <<>> /\ r.seen = <<>> /\ r.answered = FALSE
     /\ r.pc = "wait" => r.id # -1 /\ r.answered = FALSE
     /\ r.id # -1 => r.disp.wrap # ""
     /\ r.pc = "done" /\ r.id = -1 => r.disp.wrap = ""
CallsInv == DOMAIN call = Clients /\ \A c \in Clients : CallOK(call[c]) /\ (call[c] # Idle => call[c].id < nid)

PlanTypes ==
  /\ faults \in Nat /\ mixed \in BOOLEAN /\ plan \in DOMAIN Plans /\ radio \in 0 .. 255 /\ DOMAIN left = Clients
  /\ \A c \in Clients : left[c] \in 0 .. Len(Plans[plan][c])
QueueTypes ==
  /\ nid \in Nat /\ txq \in Seq(CmdFrames)
  /\ \A a \in answers : a.id \in Nat
  /\ \A cmd \in DOMAIN latest : /\ DOMAIN latest[cmd] = {"frame", "acked"}
                                /\ latest[cmd].frame \in CmdFrames /\ latest[cmd].acked \in BOOLEAN
CfgTypes == PlanTypes /\ QueueTypes

(* The commands leave in the order of their ids, and the answers on their  *)
(* way are to older ones.                                                  *)
InTurn ==
  /\ \A i \in 1 .. Len(txq) : txq[i].id < nid
  /\ \A i, j \in 1 .. Len(txq) : i < j => txq[i].id < txq[j].id
  /\ \A a \in answers : a.id < nid /\ \A i \in 1 .. Len(txq) : a.id < txq[i].id

(* The last set of a parameter is behind all others of it in the queue; it *)
(* has been done when it was answered.                                     *)
DoneLast(cmd) == /\ cmd \in DOMAIN regs /\ regs[cmd].payload = latest[cmd].frame.payload
                 /\ \A i \in 1 .. Len(txq) : txq[i].cmd # cmd
LastOf(cmd) ==
  /\ latest[cmd].frame.cmd = cmd /\ latest[cmd].frame.id < nid /\ Writes(cmd)
  /\ \A i \in 1 .. Len(txq) : /\ txq[i].id = latest[cmd].frame.id => txq[i] = latest[cmd].frame
                              /\ txq[i].cmd = cmd => txq[i].id <= latest[cmd].frame.id
  /\ latest[cmd].acked => DoneLast(cmd)
  /\ \A a \in answers : a.id = latest[cmd].frame.id => DoneLast(cmd)
LatestInv == \A cmd \in DOMAIN latest : LastOf(cmd)

(* c issues the command f, and its call becomes q.                         *)
Issuing(c, f, q) ==
  /\ DOMAIN q = CallFields /\ q.call \in Calls /\ q.disp = Dispatch(q.call) /\ q.disp.wrap \in DOMAIN Cmds
  /\ q.disp.wrap # "" /\ q.id = nid /\ q.ran = <<>> /\ q.seen = <<>> /\ q.answered = FALSE
  /\ q.pc = IF Cmds[q.disp.wrap].sync THEN "wait" ELSE "done"
  /\ call' = [call EXCEPT ![c] = q]
  /\ f \in CmdFrames /\ f.id = nid /\ f.client = c /\ f.args = q.call.args /\ f.cmd = CmdOf(q.call)
  /\ \E v \in 0 .. 255 : f.payload = Payload(Cmds[q.disp.wrap], SentArgs(q.call, v))
  /\ txq' = Append(txq, f) /\ nid' = nid + 1
  /\ loaded' = IF c = Conf THEN loaded \union {f} ELSE loaded
  /\ latest' = IF Writes(f.cmd) THEN Put(latest, f.cmd, [frame |-> f, acked |-> FALSE]) ELSE latest

-----------------------------------------------------------------------------
(* The steps, by what they do.                                             *)

LEMMA PlannedCall ==
  ASSUME NEW p \in DOMAIN Plans, NEW c \in Clients, NEW i \in 1 .. Len(Plans[p][c]), NEW cl \in Plans[p][c][i]
  PROVE  cl \in Calls
<1>1. DOMAIN Plans[p][c] = 1 .. Len(Plans[p][c])
  BY PlanAssumption
<1>. QED BY <1>1 DEF Calls

(* What a call sends is one of the bodies.                                 *)
LEMMA BodyMade ==
  ASSUME NEW cl \in Senders, NEW v \in 0 .. 255
  PROVE  Body(cl, v) \in Bodies
BY DEF Bodies

(* The frame built for a call is well-formed.                              *)
LEMMA FrameMade ==
  ASSUME NEW c \in Clients, NEW r, r.call \in Calls, Dispatch(r.call).wrap # "", NEW v \in 0 .. 255, nid \in Nat
  PROVE  /\ CmdFrame(c, r, Dispatch(r.call).wrap, SentArgs(r.call, v)) \in CmdFrames
         /\ BodyOf(CmdFrame(c, r, Dispatch(r.call).wrap, SentArgs(r.call, v))) = Body(r.call, v)
<1>. DEFINE f == CmdFrame(c, r, Dispatch(r.call).wrap, SentArgs(r.call, v))
            b == Body(r.call, v)
<1>1. b \in Bodies
  BY BodyMade DEF Senders
<1>2. /\ f.id = nid /\ f.client = c /\ f.cmd = b.cmd /\ f.payload = b.payload /\ f.args = b.args
      /\ BodyOf(f) = b
  BY DEF CmdFrame, Body, BodyOf, CmdOf
<1>3. f \in [id : Nat, client : Clients, cmd : {x.cmd : x \in Bodies},
             payload : {x.payload : x \in Bodies}, args : {x.args : x \in Bodies}]
  <2>1. /\ b.cmd \in {x.cmd : x \in Bodies} /\ b.payload \in {x.payload : x \in Bodies}
        /\ b.args \in {x.args : x \in Bodies}
    BY <1>1
  <2>. QED BY <1>2, <2>1 DEF CmdFrame
<1>. QED BY <1>1, <1>2, <1>3 DEF CmdFrames

(* hgic_fwctrl_do_cmd and send_hci_data issue one command.                 *)
LEMMA EnqueueIssues ==
  ASSUME CfgTypes, NEW c \in Clients, NEW r, DOMAIN r = CallFields, r.call \in Calls, r.disp = Dispatch(r.call),
         r.disp.wrap # "", r.ran = <<>>, r.seen = <<>>, r.answered = FALSE,
         NEW v \in 0 .. 255, Enqueue(c, r, r.disp.wrap, SentArgs(r.call, v))
  PROVE  \E f, q : /\ Issuing(c, f, q) /\ q.call = r.call
                   /\ f.payload = Payload(Cmds[r.disp.wrap], SentArgs(r.call, v))
<1>. DEFINE w == r.disp.wrap
            f == CmdFrame(c, r, w, SentArgs(r.call, v))
<1>1. w \in DOMAIN Cmds
  BY WrapAssumption
<1>2. /\ f \in CmdFrames /\ f.id = nid /\ f.client = c /\ f.args = r.call.args /\ f.cmd = CmdOf(r.call)
      /\ f.payload = Payload(Cmds[w], SentArgs(r.call, v))
  <2>0. w = Dispatch(r.call).wrap /\ nid \in Nat /\ w # ""
    BY DEF CfgTypes, PlanTypes, QueueTypes
  <2>1. f \in CmdFrames
    BY <2>0, FrameMade
  <2>2. f.id = nid /\ f.client = c /\ f.args = r.call.args /\ f.cmd = CmdOf(r.call) /\ f.payload = Payload(Cmds[w], SentArgs(r.call, v))
    BY DEF CmdFrame, CmdOf
  <2>. QED BY <2>1, <2>2
<1>3. /\ txq' = Append(txq, f) /\ nid' = nid + 1
      /\ loaded' = IF c = Conf THEN loaded \union {f} ELSE loaded
      /\ latest' = IF Writes(f.cmd) THEN Put(latest, f.cmd, [frame |-> f, acked |-> FALSE]) ELSE latest
  <2>1. f.cmd = Cmds[w].cmd
    BY DEF CmdFrame
  <2>. QED BY <2>1 DEF Enqueue, Queued
<1>4. CASE Cmds[w].sync
  <2>. DEFINE q == [r EXCEPT !.pc = "wait", !.id = nid]
  <2>1. call' = [call EXCEPT ![c] = q]
    BY <1>4 DEF Enqueue
  <2>2. /\ DOMAIN q = CallFields /\ q.call = r.call /\ q.disp = r.disp /\ q.id = nid /\ q.ran = <<>> /\ q.seen = <<>>
        /\ q.answered = FALSE /\ q.pc = "wait"
    BY DEF CallFields
  <2>. HIDE DEF q, f
  <2>3. Issuing(c, f, q)
    BY <1>1, <1>2, <1>3, <1>4, <2>1, <2>2 DEF Issuing
  <2>. QED BY <1>2, <2>2, <2>3
<1>5. CASE ~Cmds[w].sync
  <2>. DEFINE q == [[r EXCEPT !.id = nid] EXCEPT !.pc = "done", !.out = Outcome(0, <<>>, <<>>)]
  <2>1. call' = [call EXCEPT ![c] = q]
    BY <1>5 DEF Enqueue, Done
  <2>2. /\ DOMAIN q = CallFields /\ q.call = r.call /\ q.disp = r.disp /\ q.id = nid /\ q.ran = <<>> /\ q.seen = <<>>
        /\ q.answered = FALSE /\ q.pc = "done"
    BY DEF CallFields
  <2>. HIDE DEF q, f
  <2>3. Issuing(c, f, q)
    BY <1>1, <1>2, <1>3, <1>5, <2>1, <2>2 DEF Issuing
  <2>. QED BY <1>2, <2>2, <2>3
<1>. QED BY <1>4, <1>5

(* A call of c as it begins, and one that ends without a command.          *)
NewCall(cl) == [call |-> cl, disp |-> Dispatch(cl), pc |-> "send", id |-> -1, out |-> Outcome(0, <<>>, <<>>),
                ran |-> <<>>, seen |-> <<>>, answered |-> FALSE]
Ended(q, cl) == /\ DOMAIN q = CallFields /\ q.call = cl /\ q.disp = Dispatch(cl) /\ q.pc = "done" /\ q.id = -1
                /\ q.ran = <<>> /\ q.seen = <<>> /\ q.answered = FALSE
Quiet == UNCHANGED <<txq, nid, loaded, latest>>
BeginsWith(c, cl) ==
  /\ Free(c) /\ left[c] > 0 /\ cl \in Calls
  /\ cl.via = "ndo" => rtnl = ""
  /\ rtnl' = IF cl.via = "ndo" THEN c ELSE rtnl
  /\ mixed' = (mixed \/ (IsRadio(Dispatch(cl)) /\ RadioBusy))
  /\ radio' = IF IsRadio(Dispatch(cl)) THEN Dispatch(cl).args.nums[1] ELSE radio
  /\ \/ Dispatch(cl).wrap = "" /\ Quiet /\ \E q : Ended(q, cl) /\ call' = [call EXCEPT ![c] = q]
     \/ IsRadio(Dispatch(cl)) /\ Quiet /\ call' = [call EXCEPT ![c] = NewCall(cl)]
     \/ ~IsRadio(Dispatch(cl)) /\ \E f, q : /\ Issuing(c, f, q) /\ q.call = cl
                                            /\ f.payload = Payload(Cmds[Dispatch(cl).wrap], Dispatch(cl).args)
  /\ left' = [left EXCEPT ![c] = @ - 1]
  /\ UNCHANGED <<plan, answers, regs, saved, hostmac, reload, faults, resets>>

(* A call begins: refused, kept for the radio field, or issued.            *)
LEMMA BeginSteps ==
  ASSUME CfgTypes, NEW c \in Clients, Begin(c)
  PROVE  \E cl : /\ BeginsWith(c, cl)
                 /\ Len(Plans[plan][c]) - left[c] + 1 \in DOMAIN Plans[plan][c]
                 /\ cl \in Plans[plan][c][Len(Plans[plan][c]) - left[c] + 1]
<1>. DEFINE i == Len(Plans[plan][c]) - left[c] + 1
<1>1. /\ Free(c) /\ left[c] > 0 /\ left' = [left EXCEPT ![c] = @ - 1] /\ plan \in DOMAIN Plans
      /\ UNCHANGED <<plan, answers, regs, saved, hostmac, reload, faults, resets>>
      /\ left[c] \in 0 .. Len(Plans[plan][c])
  BY DEF Begin, CfgTypes, PlanTypes
<1>2. DOMAIN Plans[plan][c] = 1 .. Len(Plans[plan][c]) /\ Len(Plans[plan][c]) \in Nat
  BY <1>1, PlanAssumption
<1>3. i \in 1 .. Len(Plans[plan][c])
  BY <1>1, <1>2
<1>. HIDE DEF i
<1>4. PICK cl \in Plans[plan][c][i] :
        /\ cl.via = "ndo" => rtnl = ""
        /\ rtnl' = IF cl.via = "ndo" THEN c ELSE rtnl
        /\ mixed' = (mixed \/ (IsRadio(Dispatch(cl)) /\ RadioBusy))
        /\ radio' = IF IsRadio(Dispatch(cl)) THEN Dispatch(cl).args.nums[1] ELSE radio
        /\ CASE Dispatch(cl).wrap = "" ->
                  /\ Done(c, NewCall(cl), ByReply(cl, Reply(Dispatch(cl).err, "none", <<>>, <<>>)))
                  /\ UNCHANGED <<txq, nid, loaded, latest>>
             [] IsRadio(Dispatch(cl)) -> call' = [call EXCEPT ![c] = NewCall(cl)] /\ UNCHANGED <<txq, nid, loaded, latest>>
             [] OTHER -> Enqueue(c, NewCall(cl), Dispatch(cl).wrap, Dispatch(cl).args)
  BY Zenon DEF Begin, NewCall, i
<1>5. cl \in Calls
  BY <1>1, <1>3, PlannedCall
<1>6. \/ Dispatch(cl).wrap = "" /\ Quiet /\ \E q : Ended(q, cl) /\ call' = [call EXCEPT ![c] = q]
      \/ IsRadio(Dispatch(cl)) /\ Quiet /\ call' = [call EXCEPT ![c] = NewCall(cl)]
      \/ ~IsRadio(Dispatch(cl)) /\ \E f, q : /\ Issuing(c, f, q) /\ q.call = cl
                                             /\ f.payload = Payload(Cmds[Dispatch(cl).wrap], Dispatch(cl).args)
  <2>0. /\ DOMAIN NewCall(cl) = CallFields /\ NewCall(cl).call = cl /\ NewCall(cl).disp = Dispatch(cl)
        /\ NewCall(cl).ran = <<>> /\ NewCall(cl).seen = <<>> /\ NewCall(cl).answered = FALSE /\ NewCall(cl).id = -1
    BY DEF NewCall, CallFields
  <2>1. CASE Dispatch(cl).wrap = ""
    <3>. DEFINE q == [NewCall(cl) EXCEPT !.pc = "done", !.out = ByReply(cl, Reply(Dispatch(cl).err, "none", <<>>, <<>>))]
    <3>0. ~IsRadio(Dispatch(cl))
      BY <2>1 DEF IsRadio
    <3>1. call' = [call EXCEPT ![c] = q] /\ Quiet
      BY <1>4, <2>1, <3>0 DEF Done, Quiet
    <3>2. Ended(q, cl)
      BY <2>0 DEF Ended, CallFields
    <3>. QED BY <2>1, <3>1, <3>2
  <2>2. CASE IsRadio(Dispatch(cl))
    <3>1. Dispatch(cl).wrap # ""
      BY <2>2 DEF IsRadio
    <3>. QED BY <1>4, <2>2, <3>1 DEF Quiet
  <2>3. CASE Dispatch(cl).wrap # "" /\ ~IsRadio(Dispatch(cl))
    <3>1. Enqueue(c, NewCall(cl), Dispatch(cl).wrap, Dispatch(cl).args)
      BY <1>4, <2>3
    <3>2. SentArgs(cl, 0) = Dispatch(cl).args
      BY <2>3 DEF SentArgs, IsRadio
    <3>. DEFINE r == NewCall(cl)
    <3>. HIDE DEF r
    <3>3. /\ DOMAIN r = CallFields /\ r.call = cl /\ r.disp = Dispatch(r.call) /\ r.disp.wrap # ""
          /\ r.ran = <<>> /\ r.seen = <<>> /\ r.answered = FALSE /\ r.call \in Calls
          /\ Enqueue(c, r, r.disp.wrap, SentArgs(r.call, 0))
      BY <1>5, <2>0, <2>3, <3>1, <3>2 DEF r
    <3>4. 0 \in 0 .. 255
      OBVIOUS
    <3>5. \E f, q : /\ Issuing(c, f, q) /\ q.call = r.call
                    /\ f.payload = Payload(Cmds[r.disp.wrap], SentArgs(r.call, 0))
      BY <3>3, <3>4, EnqueueIssues
    <3>. QED BY <2>3, <3>2, <3>3, <3>5
  <2>. QED BY <2>1, <2>2, <2>3
<1>7. BeginsWith(c, cl)
  BY <1>1, <1>4, <1>5, <1>6 DEF BeginsWith
<1>. QED BY <1>2, <1>3, <1>7 DEF i

(* The radio call is issued, with the shared value or its own.             *)
LEMMA SendSteps ==
  ASSUME CfgTypes, CallsInv, NEW c \in Clients, SendRadio(c)
  PROVE  /\ call[c].pc = "send" /\ IsRadio(call[c].disp) /\ call[c].call \in Calls /\ call[c].disp = Dispatch(call[c].call)
         /\ \E f, q : /\ Issuing(c, f, q) /\ q.call = call[c].call /\ f.cmd = "RADIO_ONOFF"
                      /\ \E v \in {radio, call[c].disp.args.nums[1]} : f.payload = <<v>>
         /\ UNCHANGED <<plan, left, answers, regs, saved, radio, hostmac, rtnl, reload, faults, resets, mixed>>
<1>1. /\ call[c].pc = "send" /\ CallOK(call[c])
      /\ UNCHANGED <<plan, left, answers, regs, saved, radio, hostmac, rtnl, reload, faults, resets, mixed>>
  BY DEF SendRadio, CallsInv
<1>. DEFINE r == call[c]
<1>2. /\ DOMAIN r = CallFields /\ r.call \in Calls /\ r.disp = Dispatch(r.call) /\ IsRadio(r.disp)
      /\ r.ran = <<>> /\ r.seen = <<>> /\ r.answered = FALSE
  <2>1. r # Idle
    BY <1>1 DEF Idle
  <2>2. CallOK(r) /\ r.pc = "send"
    BY <1>1
  <2>. HIDE DEF r
  <2>. QED BY <2>1, <2>2 DEF CallOK
<1>3. r.disp.wrap = "radio_onoff" /\ r.disp.wrap # ""
  BY <1>2 DEF IsRadio
<1>4. PICK v \in {radio, r.disp.args.nums[1]} : Enqueue(c, r, "radio_onoff", [nums |-> <<v>>, bytes |-> <<>>])
  BY DEF SendRadio
<1>5. v \in 0 .. 255
  BY <1>2, <1>4, RadioAssumption DEF CfgTypes, PlanTypes, QueueTypes
<1>6. SentArgs(r.call, v) = [nums |-> <<v>>, bytes |-> <<>>]
  BY <1>2 DEF SentArgs
<1>. HIDE DEF r
<1>7. PICK f, q : /\ Issuing(c, f, q) /\ q.call = r.call
                  /\ f.payload = Payload(Cmds[r.disp.wrap], SentArgs(r.call, v))
  <2>1. Enqueue(c, r, r.disp.wrap, SentArgs(r.call, v))
    BY <1>3, <1>4, <1>6
  <2>. QED BY <1>2, <1>3, <1>5, <2>1, EnqueueIssues
<1>8. f.payload = <<v>>
  BY <1>3, <1>5, <1>6, <1>7, RadioAssumption
<1>9. f.cmd = "RADIO_ONOFF"
  BY <1>2, <1>3, <1>7, RadioAssumption DEF Issuing, CmdOf
<1>. QED BY <1>1, <1>2, <1>4, <1>7, <1>8, <1>9 DEF r

(* The call r goes on as q: what it asked for stays.                       *)
Continues(q, r) == /\ DOMAIN q = CallFields /\ q.call = r.call /\ q.disp = r.disp /\ q.id = r.id
Waiting(r) == /\ CallOK(r) /\ r # Idle /\ DOMAIN r = CallFields /\ r.pc = "wait" /\ r.id \in Nat /\ r.answered = FALSE
              /\ r.call \in Calls /\ r.disp = Dispatch(r.call) /\ r.disp.wrap # "" /\ r.disp.wrap \in DOMAIN Cmds

(* A waiting call has issued a command.                                    *)
LEMMA WaitingFacts ==
  ASSUME CallsInv, NEW c \in Clients, call[c].pc = "wait"
  PROVE  Waiting(call[c])
<1>. DEFINE r == call[c]
<1>1. CallOK(r) /\ r.pc = "wait"
  BY DEF CallsInv
<1>2. r # Idle
  BY <1>1 DEF Idle
<1>. HIDE DEF r
<1>3. /\ DOMAIN r = CallFields /\ r.id \in Ids /\ r.id # -1 /\ r.answered = FALSE
      /\ r.call \in Calls /\ r.disp = Dispatch(r.call) /\ r.disp.wrap # ""
  BY <1>1, <1>2 DEF CallOK
<1>4. r.disp.wrap \in DOMAIN Cmds /\ r.id \in Nat
  BY <1>3, WrapAssumption DEF Ids
<1>5. Waiting(r)
  BY <1>1, <1>2, <1>3, <1>4 DEF Waiting
<1>. QED BY <1>5 DEF r

Acked(a) == latest' = [x \in DOMAIN latest |-> [latest[x] EXCEPT !.acked = @ \/ latest[x].frame.id = a.id]]
(* An answer ends the call that waits for it.                              *)
LEMMA AnswerSteps ==
  ASSUME CallsInv, NEW c \in Clients, Answer(c)
  PROVE  /\ Waiting(call[c])
         /\ \E a \in answers : \E q :
               /\ a.id = call[c].id /\ answers' = answers \ {a} /\ Acked(a) /\ Leave(c, a.answer.status)
               /\ call' = [call EXCEPT ![c] = q] /\ Continues(q, call[c]) /\ q.pc = "done" /\ q.answered = TRUE
               /\ q.ran = call[c].ran /\ q.seen = call[c].seen /\ q.out = Finish(call[c].call, a.answer)
         /\ UNCHANGED <<plan, left, txq, regs, saved, radio, reload, nid, faults, resets, loaded, mixed>>
<1>1. /\ Waiting(call[c])
      /\ UNCHANGED <<plan, left, txq, regs, saved, radio, reload, nid, faults, resets, loaded, mixed>>
  BY WaitingFacts DEF Answer
<1>2. PICK a \in answers : /\ a.id = call[c].id /\ answers' = answers \ {a} /\ Acked(a) /\ Leave(c, a.answer.status)
                           /\ Done(c, [call[c] EXCEPT !.answered = TRUE], Finish(call[c].call, a.answer))
  BY DEF Answer, Acked
<1>. DEFINE q == [[call[c] EXCEPT !.answered = TRUE] EXCEPT !.pc = "done", !.out = Finish(call[c].call, a.answer)]
<1>3. call' = [call EXCEPT ![c] = q]
  BY <1>2 DEF Done
<1>4. /\ Continues(q, call[c]) /\ q.pc = "done" /\ q.answered = TRUE
      /\ q.ran = call[c].ran /\ q.seen = call[c].seen /\ q.out = Finish(call[c].call, a.answer)
  BY <1>1 DEF Continues, Waiting, CallFields
<1>. HIDE DEF q
<1>. QED BY <1>1, <1>2, <1>3, <1>4

(* A timeout ends the call without an answer.                              *)
LEMMA TimeoutSteps ==
  ASSUME CallsInv, NEW c \in Clients, Timeout(c)
  PROVE  /\ Waiting(call[c]) /\ Leave(c, -1)
         /\ \E q : /\ call' = [call EXCEPT ![c] = q] /\ Continues(q, call[c]) /\ q.pc = "done" /\ q.answered = FALSE
                   /\ q.ran = call[c].ran /\ q.seen = call[c].seen /\ q.out = Finish(call[c].call, NoAnswer)
         /\ faults' = IF Pending(call[c].id) THEN faults + 1 ELSE faults
         /\ UNCHANGED <<plan, left, txq, answers, regs, saved, radio, reload, nid, resets, loaded, latest, mixed>>
<1>1. /\ Waiting(call[c]) /\ Leave(c, -1)
      /\ faults' = IF Pending(call[c].id) THEN faults + 1 ELSE faults
      /\ UNCHANGED <<plan, left, txq, answers, regs, saved, radio, reload, nid, resets, loaded, latest, mixed>>
  BY WaitingFacts DEF Timeout
<1>. DEFINE q == [call[c] EXCEPT !.pc = "done", !.out = Finish(call[c].call, NoAnswer)]
<1>2. call' = [call EXCEPT ![c] = q]
  BY DEF Timeout, Done
<1>3. /\ Continues(q, call[c]) /\ q.pc = "done" /\ q.answered = FALSE
      /\ q.ran = call[c].ran /\ q.seen = call[c].seen /\ q.out = Finish(call[c].call, NoAnswer)
  BY <1>1 DEF Continues, Waiting, CallFields
<1>. HIDE DEF q
<1>. QED BY <1>1, <1>2, <1>3

(* The firmware does the first command; if it is that of the call c is in, *)
(* the call is told.                                                       *)
Told(c, f) ==
  \E q : /\ call' = [call EXCEPT ![c] = q] /\ Continues(q, call[c]) /\ q.pc = call[c].pc
         /\ q.answered = call[c].answered /\ q.out = call[c].out
         /\ q.ran = Append(call[c].ran, [cmd |-> f.cmd, payload |-> f.payload]) /\ q.seen = Truth(f.cmd)
Mine(c, f) == call[c].pc # "idle" /\ call[c].id = f.id
(* The firmware does the first command of the queue.                       *)
LEMMA ExecuteSteps ==
  ASSUME CfgTypes, CallsInv, Execute
  PROVE  /\ txq # <<>> /\ txq' = Tail(txq) /\ txq[1] \in CmdFrames
         /\ regs' = IF Writes(txq[1].cmd)
                    THEN Put(regs, txq[1].cmd, [payload |-> txq[1].payload, args |-> txq[1].args]) ELSE regs
         /\ saved' = IF txq[1].cmd = "SAVE_CFG" THEN regs ELSE saved
         /\ answers' \in {answers, answers \union {[id |-> txq[1].id, answer |-> DeviceAnswer(txq[1].cmd)]}}
         /\ Mine(txq[1].client, txq[1]) => Told(txq[1].client, txq[1])
         /\ ~Mine(txq[1].client, txq[1]) => call' = call
         /\ UNCHANGED <<plan, left, radio, hostmac, rtnl, reload, nid, faults, resets, loaded, latest, mixed>>
<1>. DEFINE f == txq[1]
            c == f.client
<1>1. txq # <<>> /\ txq' = Tail(txq) /\ f \in CmdFrames /\ Head(txq) = f
  BY DEF CfgTypes, PlanTypes, QueueTypes, Execute
<1>2. c \in Clients
  BY <1>1 DEF CmdFrames
<1>. HIDE DEF f
<1>3. /\ regs' = IF Writes(f.cmd) THEN Put(regs, f.cmd, [payload |-> f.payload, args |-> f.args]) ELSE regs
      /\ saved' = IF f.cmd = "SAVE_CFG" THEN regs ELSE saved
      /\ answers' \in {answers, answers \union {[id |-> f.id, answer |-> DeviceAnswer(f.cmd)]}}
      /\ call' = IF Mine(c, f)
                 THEN [call EXCEPT ![c].ran = Append(@, [cmd |-> f.cmd, payload |-> f.payload]),
                                   ![c].seen = Truth(f.cmd)] ELSE call
      /\ UNCHANGED <<plan, left, radio, hostmac, rtnl, reload, nid, faults, resets, loaded, latest, mixed>>
  BY <1>1 DEF Execute, Mine
<1>4. Mine(c, f) => Told(c, f)
  <2>. SUFFICES ASSUME Mine(c, f) PROVE Told(c, f)
    OBVIOUS
  <2>. DEFINE q == [call[c] EXCEPT !.ran = Append(@, [cmd |-> f.cmd, payload |-> f.payload]), !.seen = Truth(f.cmd)]
  <2>1. DOMAIN call[c] = CallFields /\ c \in DOMAIN call
    <3>1. CallOK(call[c]) /\ call[c] # Idle
      BY <1>2 DEF CallsInv, Mine, Idle
    <3>. QED BY <1>2, <3>1 DEF CallOK, CallsInv
  <2>2. call' = [call EXCEPT ![c] = q]
    BY <1>3, <2>1 DEF CallFields
  <2>3. /\ Continues(q, call[c]) /\ q.pc = call[c].pc /\ q.answered = call[c].answered /\ q.out = call[c].out
        /\ q.ran = Append(call[c].ran, [cmd |-> f.cmd, payload |-> f.payload]) /\ q.seen = Truth(f.cmd)
    BY <2>1 DEF Continues, CallFields
  <2>. HIDE DEF q
  <2>. QED BY <2>2, <2>3 DEF Told
<1>. QED BY <1>1, <1>3, <1>4 DEF f

-----------------------------------------------------------------------------
(* The types of the calls and of the plan.                                 *)
LEMMA IdFacts ==
  ASSUME NEW r, CallOK(r), r # Idle
  PROVE  r.id \in Ids /\ r.id \in Int /\ r.id >= -1 /\ (r.id # -1 => r.id \in Nat)
<1>1. r.id \in Ids
  BY DEF CallOK
<1>. DEFINE i == r.id
<1>. HIDE DEF i
<1>2. i \in Ids
  BY <1>1 DEF i
<1>3. i \in Int /\ i >= -1 /\ (i # -1 => i \in Nat)
  BY <1>2 DEF Ids
<1>. QED BY <1>1, <1>3 DEF i

(* -1 is no id of a command.                                               *)
LEMMA NoId == -1 \in Ids /\ \A n \in Nat : n \in Ids /\ n # -1
BY DEF Ids

(* One call changes, the ids only grow.                                    *)
LEMMA CallsUpdate ==
  ASSUME CallsInv, NEW c \in Clients, NEW q, call' = [call EXCEPT ![c] = q], CallOK(q), q.id < nid',
         nid \in Nat, nid' \in Nat, nid <= nid'
  PROVE  CallsInv'
<1>1. DOMAIN call' = Clients /\ \A d \in Clients : call'[d] = IF d = c THEN q ELSE call[d]
  BY DEF CallsInv
<1>2. ASSUME NEW d \in Clients PROVE CallOK(call'[d]) /\ (call'[d] # Idle => call'[d].id < nid')
  <2>1. CASE d = c
    BY <1>1, <2>1
  <2>2. CASE d # c
    <3>1. call'[d] = call[d] /\ CallOK(call[d]) /\ (call[d] # Idle => call[d].id < nid)
      BY <1>1, <2>2 DEF CallsInv
    <3>2. call[d] # Idle => call[d].id \in Int
      BY <3>1, IdFacts
    <3>. QED BY <3>1, <3>2
  <2>. QED BY <2>1, <2>2
<1>3. \A d \in Clients : CallOK(call[d])' /\ (call[d] # Idle => call[d].id < nid)'
  BY <1>2 DEF CallOK
<1>. QED BY <1>1, <1>3 DEF CallsInv

(* A call that issues a command is well-formed.                            *)
LEMMA IssueCalls ==
  ASSUME CallsInv, nid \in Nat, NEW c \in Clients, NEW f, NEW q, Issuing(c, f, q)
  PROVE  CallsInv'
<1>1. /\ call' = [call EXCEPT ![c] = q] /\ nid' = nid + 1 /\ q.id = nid
  BY DEF Issuing
<1>2. CallOK(q)
  <2>1. nid \in Ids /\ nid # -1
    BY NoId
  <2>. QED BY <2>1 DEF Issuing, CallOK
<1>3. nid' \in Nat /\ nid <= nid' /\ q.id < nid'
  BY <1>1
<1>. QED BY <1>1, <1>2, <1>3, CallsUpdate, Zenon

(* Every step keeps the calls well-formed.                                 *)
LEMMA CallsStep ==
  ASSUME CfgTypes, CallsInv, [CfgNext]_cfgvars
  PROVE  CallsInv'
<1>0. nid \in Nat
  BY DEF CfgTypes, QueueTypes
<1>1. ASSUME NEW c \in Clients, Begin(c) PROVE CallsInv'
  <2>1. PICK cl : BeginsWith(c, cl)
    BY <1>1, BeginSteps
  <2>2. ASSUME Dispatch(cl).wrap = "", NEW q, Ended(q, cl), call' = [call EXCEPT ![c] = q], Quiet PROVE CallsInv'
    <3>1. CallOK(q) /\ q.id = -1 /\ nid' = nid
      BY <2>1, <2>2, NoId DEF CallOK, Ended, Quiet, BeginsWith
    <3>2. nid' \in Nat /\ nid <= nid' /\ q.id < nid'
      BY <1>0, <3>1
    <3>. QED BY <1>0, <2>2, <3>1, <3>2, CallsUpdate, Zenon
  <2>3. ASSUME IsRadio(Dispatch(cl)), Quiet, call' = [call EXCEPT ![c] = NewCall(cl)] PROVE CallsInv'
    <3>1. CallOK(NewCall(cl)) /\ NewCall(cl).id = -1 /\ nid' = nid
      BY <2>1, <2>3, NoId DEF CallOK, NewCall, Quiet, BeginsWith, CallFields
    <3>2. nid' \in Nat /\ nid <= nid' /\ NewCall(cl).id < nid'
      BY <1>0, <3>1
    <3>. QED BY <1>0, <2>3, <3>1, <3>2, CallsUpdate, Zenon
  <2>. QED BY <1>0, <2>1, <2>2, <2>3, IssueCalls DEF BeginsWith
<1>2. ASSUME NEW c \in Clients, SendRadio(c) PROVE CallsInv'
  BY <1>0, <1>2, SendSteps, IssueCalls
<1>3. ASSUME NEW c \in Clients, Answer(c) \/ Timeout(c) PROVE CallsInv'
  <2>1. PICK q : /\ call' = [call EXCEPT ![c] = q] /\ Continues(q, call[c]) /\ q.pc = "done" /\ q.answered \in BOOLEAN
    BY <1>3, AnswerSteps, TimeoutSteps
  <2>2. Waiting(call[c]) /\ nid' = nid /\ call[c].id < nid
    BY <1>3, AnswerSteps, TimeoutSteps DEF CallsInv, Waiting
  <2>3. CallOK(q) /\ q.id = call[c].id
    BY <2>1, <2>2, NoId DEF CallOK, Continues, Waiting
  <2>4. nid' \in Nat /\ nid <= nid' /\ q.id < nid'
    BY <1>0, <2>2, <2>3
  <2>. QED BY <1>0, <1>3, <2>1, <2>3, <2>4, CallsUpdate, Zenon
<1>4. CASE Execute
  <2>. DEFINE f == txq[1]
              c == f.client
  <2>1. f \in CmdFrames /\ nid' = nid /\ (call' = call \/ (Mine(c, f) /\ Told(c, f)))
    BY <1>4, ExecuteSteps
  <2>2. c \in Clients
    BY <2>1 DEF CmdFrames
  <2>. HIDE DEF f
  <2>3. CASE call' = call
    BY <2>1, <2>3 DEF CallsInv, CallOK
  <2>4. CASE Mine(c, f) /\ Told(c, f)
    <3>1. PICK q : /\ call' = [call EXCEPT ![c] = q] /\ Continues(q, call[c]) /\ q.pc = call[c].pc
                   /\ q.answered = call[c].answered
      BY <2>4 DEF Told
    <3>2. call[c] # Idle /\ CallOK(call[c]) /\ call[c].id < nid /\ call[c].id = f.id /\ f.id \in Nat
      BY <2>1, <2>2, <2>4 DEF Mine, Idle, CallsInv, CmdFrames
    <3>3. CallOK(q) /\ q.id = call[c].id
      <4>1. call[c].pc # "send" \/ call[c].id = -1
        BY <3>2 DEF CallOK
      <4>2. call[c].id # -1
        BY <3>2
      <4>. QED BY <3>1, <3>2, <4>1, <4>2, Zenon DEF CallOK, Continues
    <3>4. nid' \in Nat /\ nid <= nid' /\ q.id < nid'
      BY <1>0, <2>1, <3>2, <3>3
    <3>. QED BY <1>0, <2>2, <3>1, <3>3, <3>4, CallsUpdate, Zenon
  <2>. QED BY <2>1, <2>3, <2>4
<1>5. CASE UNCHANGED <<call, nid>>
  BY <1>5 DEF CallsInv, CallOK
<1>. QED BY <1>1, <1>2, <1>3, <1>4, <1>5 DEF CfgNext, cfgvars, Lose, Stray, Reset, Reload, Finished

(* Every step keeps the types of the plan's variables.                     *)
LEMMA PlanStep ==
  ASSUME CfgTypes, CallsInv, [CfgNext]_cfgvars
  PROVE  PlanTypes'
<1>0. PlanTypes
  BY DEF CfgTypes
<1>1. ASSUME NEW c \in Clients, Begin(c) PROVE PlanTypes'
  <2>1. PICK cl : BeginsWith(c, cl)
    BY <1>1, BeginSteps
  <2>2. radio' \in 0 .. 255 /\ mixed' \in BOOLEAN
    BY <1>0, <2>1, RadioAssumption DEF BeginsWith, PlanTypes
  <2>3. left' = [left EXCEPT ![c] = left[c] - 1] /\ left[c] > 0 /\ UNCHANGED <<plan, faults>>
    BY <2>1 DEF BeginsWith
  <2>4. \A d \in Clients : left'[d] \in 0 .. Len(Plans[plan'][d])
    <3>1. \A d \in Clients : left'[d] = IF d = c THEN left[d] - 1 ELSE left[d]
      BY <1>0, <2>3 DEF PlanTypes
    <3>2. \A d \in Clients : left[d] \in 0 .. Len(Plans[plan][d]) /\ Len(Plans[plan][d]) \in Nat
      BY <1>0, PlanAssumption DEF PlanTypes
    <3>. QED BY <2>3, <3>1, <3>2
  <2>. QED BY <1>0, <2>2, <2>3, <2>4 DEF PlanTypes
<1>2. CASE UNCHANGED <<plan, radio, left, mixed>> /\ faults' \in Nat
  BY <1>0, <1>2 DEF PlanTypes
<1>3. CASE Reload
  <2>1. left' = [left EXCEPT ![Conf] = Len(Plans[plan][Conf])] /\ UNCHANGED <<plan, radio, faults, mixed>>
    BY <1>3 DEF Reload
  <2>2. \A d \in Clients : left'[d] \in 0 .. Len(Plans[plan'][d])
    <3>1. \A d \in Clients : left'[d] = IF d = Conf THEN Len(Plans[plan][Conf]) ELSE left[d]
      BY <1>0, <2>1 DEF PlanTypes
    <3>2. \A d \in Clients : left[d] \in 0 .. Len(Plans[plan][d]) /\ Len(Plans[plan][d]) \in Nat
      BY <1>0, PlanAssumption DEF PlanTypes
    <3>. QED BY <2>1, <3>1, <3>2
  <2>. QED BY <1>0, <2>1, <2>2 DEF PlanTypes
<1>4. ASSUME NEW c \in Clients, SendRadio(c) \/ Answer(c) \/ Timeout(c)
      PROVE  UNCHANGED <<plan, radio, left, mixed>> /\ faults' \in Nat
  BY <1>0, <1>4 DEF PlanTypes, SendRadio, Answer, Timeout
<1>5. CASE Execute \/ Lose \/ Stray \/ Reset \/ Finished \/ UNCHANGED cfgvars
  <2>1. UNCHANGED <<plan, radio, left, mixed>> /\ faults' \in Nat
    BY <1>0, <1>5 DEF PlanTypes, Execute, Lose, Stray, Reset, Finished, cfgvars
  <2>. QED BY <1>2, <2>1
<1>. QED BY <1>1, <1>2, <1>3, <1>4, <1>5 DEF CfgNext

-----------------------------------------------------------------------------
(* What a step does to the commands and answers on their way: one is       *)
(* issued, one is done, some are lost, taken or acknowledged, or the       *)
(* firmware restarts.                                                      *)
Popped(n) == /\ n \in {0, 1} /\ txq' \in Seq(CmdFrames) /\ Len(txq') = Len(txq) - n
             /\ \A i \in 1 .. Len(txq') : i + n \in 1 .. Len(txq) /\ txq'[i] = txq[i + n]
IssueMove == (\E c \in Clients : \E f, q : Issuing(c, f, q)) /\ UNCHANGED <<answers, regs>>
DoMove ==
  /\ txq # <<>> /\ txq[1] \in CmdFrames /\ Popped(1) /\ UNCHANGED <<nid, latest>>
  /\ regs' = IF Writes(txq[1].cmd)
             THEN Put(regs, txq[1].cmd, [payload |-> txq[1].payload, args |-> txq[1].args]) ELSE regs
  /\ \A a \in answers' : a \in answers \/ a.id = txq[1].id
LossMove ==
  /\ Popped(0) \/ Popped(1)
  /\ answers' \subseteq answers /\ UNCHANGED <<nid, regs>>
  /\ latest' = latest \/ \E a \in answers : Acked(a)
RestartMove == answers' = {} /\ latest' = <<>> /\ UNCHANGED <<nid, txq>>

(* The queue without its first command.                                    *)
LEMMA TailPops ==
  ASSUME txq \in Seq(CmdFrames), txq # <<>>, txq' = Tail(txq)
  PROVE  Popped(1)
BY DEF Popped

(* The queue as it is.                                                     *)
LEMMA SamePops ==
  ASSUME txq \in Seq(CmdFrames), txq' = txq
  PROVE  Popped(0)
BY DEF Popped

(* For the queue every step is one of four moves.                          *)
LEMMA QueueMoves ==
  ASSUME CfgTypes, CallsInv, [CfgNext]_cfgvars
  PROVE  IssueMove \/ DoMove \/ LossMove \/ RestartMove
<1>0. txq \in Seq(CmdFrames)
  BY DEF CfgTypes, QueueTypes
<1>q. ASSUME UNCHANGED <<txq, answers, regs, nid, latest>> PROVE LossMove
  BY <1>0, <1>q, SamePops DEF LossMove
<1>1. ASSUME NEW c \in Clients, Begin(c) PROVE IssueMove \/ LossMove
  <2>1. PICK cl : BeginsWith(c, cl)
    BY <1>1, BeginSteps
  <2>2. CASE Quiet
    <3>1. UNCHANGED <<txq, answers, regs, nid, latest>>
      BY <2>1, <2>2 DEF Quiet, BeginsWith
    <3>. QED BY <1>q, <3>1
  <2>3. CASE \E f, q : Issuing(c, f, q)
    BY <2>1, <2>3 DEF BeginsWith, IssueMove
  <2>. QED BY <2>1, <2>2, <2>3 DEF BeginsWith
<1>2. ASSUME NEW c \in Clients, SendRadio(c) PROVE IssueMove
  BY <1>2, SendSteps DEF IssueMove
<1>3. ASSUME NEW c \in Clients, Answer(c) PROVE LossMove
  <2>1. Popped(0)
    BY <1>0, <1>3, SamePops DEF Answer
  <2>2. PICK a \in answers : Acked(a) /\ answers' = answers \ {a} /\ UNCHANGED <<nid, regs>>
    BY <1>3, AnswerSteps
  <2>. QED BY <2>1, <2>2 DEF LossMove
<1>4. CASE Execute
  <2>1. txq # <<>> /\ Popped(1)
    BY <1>0, <1>4, ExecuteSteps, TailPops
  <2>2. \A a \in answers' : a \in answers \/ a.id = txq[1].id
    <3>1. answers' \in {answers, answers \union {[id |-> txq[1].id, answer |-> DeviceAnswer(txq[1].cmd)]}}
      BY <1>4, ExecuteSteps
    <3>. QED BY <3>1
  <2>. QED BY <1>4, <2>1, <2>2, ExecuteSteps DEF DoMove
<1>5. CASE Lose
  <2>1. UNCHANGED <<nid, regs, latest>>
    BY <1>5 DEF Lose
  <2>2. CASE txq # <<>> /\ txq' = Tail(txq) /\ UNCHANGED answers
    BY <1>0, <2>1, <2>2, TailPops DEF LossMove
  <2>3. CASE \E a \in answers : answers' = answers \ {a} /\ UNCHANGED txq
    BY <1>0, <2>1, <2>3, SamePops DEF LossMove
  <2>. QED BY <1>5, <2>2, <2>3 DEF Lose
<1>6. CASE Stray
  <2>1. Popped(0) /\ answers' \subseteq answers /\ UNCHANGED <<nid, regs, latest>>
    BY <1>0, <1>6, SamePops DEF Stray
  <2>. QED BY <2>1 DEF LossMove
<1>7. CASE Reset
  BY <1>7 DEF Reset, RestartMove
<1>8. ASSUME \/ \E c \in Clients : Timeout(c)
             \/ Reload \/ Finished \/ UNCHANGED cfgvars
      PROVE  UNCHANGED <<txq, answers, regs, nid, latest>>
  BY <1>8 DEF Timeout, Reload, Finished, cfgvars
<1>. QED BY <1>q, <1>1, <1>2, <1>3, <1>4, <1>5, <1>6, <1>7, <1>8 DEF CfgNext

(* The types of the commands on their way.                                 *)
LEMMA PutFacts ==
  ASSUME NEW f, NEW x, NEW v
  PROVE  /\ DOMAIN Put(f, x, v) = DOMAIN f \union {x}
         /\ Put(f, x, v)[x] = v
         /\ \A y \in DOMAIN f : y # x => Put(f, x, v)[y] = f[y]
BY DEF Put

(* An acknowledgement changes the marks only.                              *)
LEMMA AckedFacts ==
  ASSUME QueueTypes, NEW a, Acked(a)
  PROVE  /\ DOMAIN latest' = DOMAIN latest
         /\ \A x \in DOMAIN latest : /\ latest'[x].frame = latest[x].frame
                                     /\ DOMAIN latest'[x] = {"frame", "acked"}
                                     /\ latest'[x].acked = (latest[x].acked \/ latest[x].frame.id = a.id)
<1>. SUFFICES ASSUME NEW x \in DOMAIN latest
              PROVE  /\ latest'[x].frame = latest[x].frame
                     /\ DOMAIN latest'[x] = {"frame", "acked"}
                     /\ latest'[x].acked = (latest[x].acked \/ latest[x].frame.id = a.id)
  BY DEF Acked
<1>1. latest'[x] = [latest[x] EXCEPT !.acked = @ \/ latest[x].frame.id = a.id]
  BY DEF Acked
<1>2. DOMAIN latest[x] = {"frame", "acked"}
  BY DEF QueueTypes
<1>. QED BY <1>1, <1>2

(* A queue with one more command at its end.                               *)
LEMMA AppendFacts ==
  ASSUME txq \in Seq(CmdFrames), NEW f \in CmdFrames, txq' = Append(txq, f)
  PROVE  /\ txq' \in Seq(CmdFrames) /\ Len(txq') = Len(txq) + 1 /\ Len(txq) \in Nat
         /\ \A i \in 1 .. Len(txq') : \/ i \in 1 .. Len(txq) /\ txq'[i] = txq[i]
                                      \/ i = Len(txq) + 1 /\ txq'[i] = f
OBVIOUS

(* What issuing does to the queue and to the last sets.                    *)
LEMMA IssueFacts ==
  ASSUME QueueTypes, NEW c \in Clients, NEW f, NEW q, Issuing(c, f, q)
  PROVE  /\ f \in CmdFrames /\ f.id = nid /\ nid \in Nat /\ nid' = nid + 1
         /\ txq' \in Seq(CmdFrames) /\ Len(txq') = Len(txq) + 1 /\ Len(txq) \in Nat
         /\ \A i \in 1 .. Len(txq') : \/ i \in 1 .. Len(txq) /\ txq'[i] = txq[i]
                                      \/ i = Len(txq) + 1 /\ txq'[i] = f
         /\ \A cmd \in DOMAIN latest' :
               \/ cmd \in DOMAIN latest /\ latest'[cmd] = latest[cmd] /\ (cmd = f.cmd => ~Writes(cmd))
               \/ cmd = f.cmd /\ Writes(cmd) /\ latest'[cmd] = [frame |-> f, acked |-> FALSE]
         /\ \A cmd \in DOMAIN latest : cmd \in DOMAIN latest'
<1>1. /\ f \in CmdFrames /\ f.id = nid /\ nid \in Nat /\ nid' = nid + 1 /\ txq \in Seq(CmdFrames)
      /\ txq' = Append(txq, f)
      /\ latest' = IF Writes(f.cmd) THEN Put(latest, f.cmd, [frame |-> f, acked |-> FALSE]) ELSE latest
  BY DEF QueueTypes, Issuing
<1>. DEFINE e == [frame |-> f, acked |-> FALSE]
            g == Put(latest, f.cmd, e)
<1>p. DOMAIN g = DOMAIN latest \union {f.cmd} /\ g[f.cmd] = e /\ \A y \in DOMAIN latest : y # f.cmd => g[y] = latest[y]
  BY DEF Put
<1>i. latest' = IF Writes(f.cmd) THEN g ELSE latest
  BY <1>1
<1>. HIDE DEF e, g
<1>2. \A cmd \in DOMAIN latest' :
         \/ cmd \in DOMAIN latest /\ latest'[cmd] = latest[cmd] /\ (cmd = f.cmd => ~Writes(cmd))
         \/ cmd = f.cmd /\ Writes(cmd) /\ latest'[cmd] = e
  BY <1>i, <1>p
<1>3. \A cmd \in DOMAIN latest : cmd \in DOMAIN latest'
  BY <1>i, <1>p
<1>. USE DEF e
<1>. QED BY <1>1, <1>2, <1>3, AppendFacts

(* The moves keep the types of the queue and of the last sets.             *)
LEMMA QueueTypesStep ==
  ASSUME QueueTypes, IssueMove \/ DoMove \/ LossMove \/ RestartMove
  PROVE  QueueTypes'
<1>1. CASE IssueMove
  <2>1. PICK c, f, q : c \in Clients /\ Issuing(c, f, q) /\ answers' = answers
    BY <1>1 DEF IssueMove
  <2>2. /\ f \in CmdFrames /\ nid' \in Nat /\ txq' \in Seq(CmdFrames)
        /\ \A cmd \in DOMAIN latest' : \/ cmd \in DOMAIN latest /\ latest'[cmd] = latest[cmd]
                                       \/ latest'[cmd] = [frame |-> f, acked |-> FALSE]
    BY <2>1, IssueFacts
  <2>3. ASSUME NEW cmd \in DOMAIN latest'
        PROVE  /\ DOMAIN latest'[cmd] = {"frame", "acked"}
               /\ latest'[cmd].frame \in CmdFrames /\ latest'[cmd].acked \in BOOLEAN
    <3>1. CASE cmd \in DOMAIN latest /\ latest'[cmd] = latest[cmd]
      BY <3>1 DEF QueueTypes
    <3>2. CASE latest'[cmd] = [frame |-> f, acked |-> FALSE]
      BY <2>2, <3>2
    <3>. QED BY <2>2, <3>1, <3>2
  <2>. QED BY <2>1, <2>2, <2>3 DEF QueueTypes
<1>2. CASE DoMove
  <2>1. /\ nid' = nid /\ txq' \in Seq(CmdFrames) /\ latest' = latest /\ txq[1].id \in Nat
        /\ \A a \in answers' : a \in answers \/ a.id = txq[1].id
    BY <1>2 DEF DoMove, Popped, CmdFrames
  <2>2. \A a \in answers' : a.id \in Nat
    BY <2>1 DEF QueueTypes
  <2>. QED BY <2>1, <2>2 DEF QueueTypes
<1>3. CASE LossMove
  <2>1. /\ nid' = nid /\ txq' \in Seq(CmdFrames) /\ answers' \subseteq answers
        /\ latest' = latest \/ \E a \in answers : Acked(a)
    BY <1>3 DEF LossMove, Popped
  <2>2. \A cmd \in DOMAIN latest' : /\ DOMAIN latest'[cmd] = {"frame", "acked"}
                                    /\ latest'[cmd].frame \in CmdFrames /\ latest'[cmd].acked \in BOOLEAN
    <3>1. CASE latest' = latest
      BY <3>1 DEF QueueTypes
    <3>2. ASSUME NEW a \in answers, Acked(a), NEW cmd \in DOMAIN latest'
          PROVE  /\ DOMAIN latest'[cmd] = {"frame", "acked"}
                 /\ latest'[cmd].frame \in CmdFrames /\ latest'[cmd].acked \in BOOLEAN
      BY <3>2, AckedFacts DEF QueueTypes
    <3>. QED BY <2>1, <3>1, <3>2
  <2>. QED BY <2>1, <2>2 DEF QueueTypes
<1>4. CASE RestartMove
  <2>1. DOMAIN latest' = {}
    BY <1>4 DEF RestartMove
  <2>. QED BY <1>4, <2>1 DEF RestartMove, QueueTypes
<1>. QED BY <1>1, <1>2, <1>3, <1>4

(* The order of the ids.                                                   *)
LEMMA QueueIds ==
  ASSUME QueueTypes
  PROVE  /\ nid \in Nat /\ Len(txq) \in Nat
         /\ \A i \in 1 .. Len(txq) : txq[i] \in CmdFrames /\ txq[i].id \in Nat
         /\ \A a \in answers : a.id \in Nat
<1>1. txq \in Seq(CmdFrames) /\ nid \in Nat /\ \A a \in answers : a.id \in Nat
  BY DEF QueueTypes
<1>2. \A f \in CmdFrames : f.id \in Nat
  BY DEF CmdFrames
<1>. QED BY <1>1, <1>2

(* The moves keep the ids in the order of the queue.                       *)
LEMMA InTurnStep ==
  ASSUME QueueTypes, InTurn, IssueMove \/ DoMove \/ LossMove \/ RestartMove
  PROVE  InTurn'
<1>0. /\ nid \in Nat /\ Len(txq) \in Nat
      /\ \A i \in 1 .. Len(txq) : txq[i] \in CmdFrames /\ txq[i].id \in Nat
      /\ \A a \in answers : a.id \in Nat
  BY QueueIds
<1>1. CASE IssueMove
  <2>1. PICK c, f, q : c \in Clients /\ Issuing(c, f, q) /\ answers' = answers
    BY <1>1 DEF IssueMove
  <2>2. /\ f.id = nid /\ nid' = nid + 1 /\ Len(txq') = Len(txq) + 1
        /\ \A i \in 1 .. Len(txq') : \/ i \in 1 .. Len(txq) /\ txq'[i] = txq[i]
                                     \/ i = Len(txq) + 1 /\ txq'[i] = f
    BY <2>1, IssueFacts
  <2>3. \A i \in 1 .. Len(txq') : txq'[i].id < nid'
    BY <1>0, <2>2 DEF InTurn
  <2>4. \A i, j \in 1 .. Len(txq') : i < j => txq'[i].id < txq'[j].id
    BY <1>0, <2>2 DEF InTurn
  <2>5. \A a \in answers' : a.id < nid' /\ \A i \in 1 .. Len(txq') : a.id < txq'[i].id
    BY <1>0, <2>1, <2>2 DEF InTurn
  <2>. QED BY <2>3, <2>4, <2>5 DEF InTurn
<1>2. ASSUME NEW n, Popped(n), nid' = nid, NEW A, answers' = A,
             \A a \in A : a \in answers \/ (n = 1 /\ txq # <<>> /\ a.id = txq[1].id)
      PROVE  InTurn'
  <2>1. \A i \in 1 .. Len(txq') : i + n \in 1 .. Len(txq) /\ txq'[i] = txq[i + n]
    BY <1>2 DEF Popped
  <2>2. n \in Nat /\ Len(txq') \in Nat
    BY <1>2, <1>0 DEF Popped
  <2>3. \A i \in 1 .. Len(txq') : txq'[i].id < nid'
    BY <1>2, <2>1 DEF InTurn
  <2>4. \A i, j \in 1 .. Len(txq') : i < j => txq'[i].id < txq'[j].id
    BY <2>1, <2>2 DEF InTurn
  <2>5. ASSUME NEW a \in A PROVE a.id < nid' /\ \A i \in 1 .. Len(txq') : a.id < txq'[i].id
    <3>1. CASE a \in answers
      BY <1>2, <2>1, <3>1 DEF InTurn
    <3>2. CASE n = 1 /\ txq # <<>> /\ a.id = txq[1].id
      <4>1. 1 \in 1 .. Len(txq)
        <5>1. txq \in Seq(CmdFrames)
          BY DEF QueueTypes
        <5>. QED BY <3>2, <5>1
      <4>. QED BY <1>2, <2>1, <2>2, <3>2, <4>1 DEF InTurn
    <3>. QED BY <1>2, <3>1, <3>2
  <2>. QED BY <1>2, <2>3, <2>4, <2>5 DEF InTurn
<1>3. CASE DoMove
  <2>1. Popped(1) /\ nid' = nid /\ txq # <<>> /\ \A a \in answers' : a \in answers \/ a.id = txq[1].id
    BY <1>3 DEF DoMove
  <2>. QED BY <1>2, <2>1
<1>4. CASE LossMove
  <2>1. nid' = nid /\ (Popped(0) \/ Popped(1)) /\ answers' \subseteq answers
    BY <1>4 DEF LossMove
  <2>. QED BY <1>2, <2>1
<1>5. CASE RestartMove
  BY <1>5 DEF RestartMove, InTurn
<1>. QED BY <1>1, <1>3, <1>4, <1>5

(* The last set of each parameter.                                         *)
LEMMA LatestIssue ==
  ASSUME QueueTypes, InTurn, LatestInv, IssueMove
  PROVE  LatestInv'
<1>0. /\ nid \in Nat /\ Len(txq) \in Nat
      /\ \A i \in 1 .. Len(txq) : txq[i] \in CmdFrames /\ txq[i].id \in Nat
      /\ \A a \in answers : a.id \in Nat
  BY QueueIds
<1>1. PICK c, f, q : c \in Clients /\ Issuing(c, f, q) /\ answers' = answers /\ regs' = regs
  BY DEF IssueMove
<1>2. /\ f \in CmdFrames /\ f.id = nid /\ nid' = nid + 1 /\ Len(txq') = Len(txq) + 1
      /\ \A i \in 1 .. Len(txq') : \/ i \in 1 .. Len(txq) /\ txq'[i] = txq[i]
                                   \/ i = Len(txq) + 1 /\ txq'[i] = f
      /\ \A cmd \in DOMAIN latest' :
            \/ cmd \in DOMAIN latest /\ latest'[cmd] = latest[cmd] /\ (cmd = f.cmd => ~Writes(cmd))
            \/ cmd = f.cmd /\ Writes(cmd) /\ latest'[cmd] = [frame |-> f, acked |-> FALSE]
  BY <1>1, IssueFacts
<1>3. ASSUME NEW cmd \in DOMAIN latest' PROVE LastOf(cmd)'
  <2>1. CASE cmd = f.cmd /\ Writes(cmd) /\ latest'[cmd] = [frame |-> f, acked |-> FALSE]
    <3>1. latest'[cmd].frame = f /\ latest'[cmd].acked = FALSE
      BY <2>1
    <3>2. \A i \in 1 .. Len(txq') : /\ txq'[i].id = f.id => txq'[i] = f
                                    /\ txq'[i].cmd = cmd => txq'[i].id <= f.id
      BY <1>0, <1>2 DEF InTurn
    <3>3. \A a \in answers' : a.id # f.id
      BY <1>0, <1>1, <1>2 DEF InTurn
    <3>4. f.id < nid'
      BY <1>0, <1>2
    <3>. QED BY <2>1, <3>1, <3>2, <3>3, <3>4 DEF LastOf
  <2>2. CASE cmd \in DOMAIN latest /\ latest'[cmd] = latest[cmd] /\ (cmd = f.cmd => ~Writes(cmd))
    <3>. DEFINE g == latest[cmd].frame
    <3>1. /\ LastOf(cmd) /\ latest'[cmd].frame = g /\ latest'[cmd].acked = latest[cmd].acked
          /\ f.cmd # cmd /\ g.id \in Nat
      <4>1. LastOf(cmd) /\ latest'[cmd].frame = g /\ latest'[cmd].acked = latest[cmd].acked
        BY <2>2 DEF LatestInv
      <4>2. f.cmd # cmd
        BY <2>2, <4>1 DEF LastOf
      <4>3. g.id \in Nat
        BY <2>2 DEF QueueTypes, CmdFrames
      <4>. QED BY <4>1, <4>2, <4>3
    <3>2. g.cmd = cmd /\ g.id < nid /\ Writes(cmd)
      BY <3>1 DEF LastOf
    <3>3. \A i \in 1 .. Len(txq') : /\ txq'[i].id = g.id => txq'[i] = g
                                    /\ txq'[i].cmd = cmd => txq'[i].id <= g.id
      <4>1. \A i \in 1 .. Len(txq) : /\ txq[i].id = g.id => txq[i] = g
                                     /\ txq[i].cmd = cmd => txq[i].id <= g.id
        BY <3>1 DEF LastOf
      <4>2. f.id # g.id /\ f.cmd # cmd
        BY <1>0, <1>2, <3>1, <3>2
      <4>. HIDE DEF g
      <4>. QED BY <1>2, <4>1, <4>2
    <3>4. DoneLast(cmd) => DoneLast(cmd)'
      BY <1>1, <1>2, <3>1 DEF DoneLast
    <3>5. g.id < nid'
      BY <1>0, <1>2, <3>1, <3>2
    <3>6. /\ latest'[cmd].acked => DoneLast(cmd)'
          /\ \A a \in answers' : a.id = g.id => DoneLast(cmd)'
      BY <1>1, <3>1, <3>4 DEF LastOf
    <3>. QED BY <3>1, <3>2, <3>3, <3>5, <3>6 DEF LastOf
  <2>. QED BY <1>2, <2>1, <2>2
<1>4. \A cmd \in DOMAIN latest' : LastOf(cmd)'
  BY <1>3
<1>. QED BY <1>4 DEF LatestInv

(* ... when the firmware does a command.                                   *)
LEMMA LatestDo ==
  ASSUME QueueTypes, InTurn, LatestInv, DoMove
  PROVE  LatestInv'
<1>0. /\ nid \in Nat /\ Len(txq) \in Nat
      /\ \A i \in 1 .. Len(txq) : txq[i] \in CmdFrames /\ txq[i].id \in Nat
      /\ \A a \in answers : a.id \in Nat
  BY QueueIds
<1>1. /\ txq # <<>> /\ Len(txq') = Len(txq) - 1 /\ nid' = nid /\ latest' = latest
      /\ \A i \in 1 .. Len(txq') : i + 1 \in 1 .. Len(txq) /\ txq'[i] = txq[i + 1]
      /\ \A a \in answers' : a \in answers \/ a.id = txq[1].id
  BY DEF DoMove, Popped
<1>2. 1 \in 1 .. Len(txq)
  <2>1. txq \in Seq(CmdFrames)
    BY DEF QueueTypes
  <2>. QED BY <1>1, <2>1
<1>3. ASSUME NEW cmd \in DOMAIN latest' PROVE LastOf(cmd)'
  <2>. DEFINE g == latest[cmd].frame
              f == txq[1]
  <2>1. /\ LastOf(cmd) /\ latest'[cmd] = latest[cmd] /\ g.id \in Nat
    BY <1>1, <1>3 DEF LatestInv, QueueTypes, CmdFrames
  <2>2. g.cmd = cmd /\ g.id < nid /\ Writes(cmd)
    BY <2>1 DEF LastOf
  <2>3. \A i \in 1 .. Len(txq) : /\ txq[i].id = g.id => txq[i] = g
                                 /\ txq[i].cmd = cmd => txq[i].id <= g.id
    BY <2>1 DEF LastOf
  <2>4. \A i \in 1 .. Len(txq') : /\ txq'[i].id = g.id => txq'[i] = g
                                  /\ txq'[i].cmd = cmd => txq'[i].id <= g.id
    <3>. HIDE DEF g
    <3>. QED BY <1>1, <2>3
  <2>5. DoneLast(cmd) => DoneLast(cmd)'
    <3>. SUFFICES ASSUME DoneLast(cmd) PROVE DoneLast(cmd)'
      OBVIOUS
    <3>1. f.cmd # cmd /\ cmd \in DOMAIN regs /\ regs[cmd].payload = g.payload
      BY <1>2 DEF DoneLast
    <3>2. cmd \in DOMAIN regs' /\ regs'[cmd] = regs[cmd]
      BY <3>1 DEF DoMove, Put
    <3>3. \A i \in 1 .. Len(txq') : txq'[i].cmd # cmd
      BY <1>1 DEF DoneLast
    <3>. QED BY <2>1, <3>1, <3>2, <3>3 DEF DoneLast
  <2>6. ASSUME NEW a \in answers', a.id = g.id PROVE DoneLast(cmd)'
    <3>1. CASE a \in answers
      BY <2>1, <2>5, <2>6, <3>1 DEF LastOf
    <3>2. CASE a.id = f.id
      <4>1. f = g
        BY <1>2, <2>3, <2>6, <3>2
      <4>2. cmd \in DOMAIN regs' /\ regs'[cmd].payload = g.payload
        BY <2>2, <4>1 DEF DoMove, Put
      <4>3. ASSUME NEW i \in 1 .. Len(txq'), txq'[i].cmd = cmd PROVE FALSE
        <5>1. i + 1 \in 1 .. Len(txq) /\ txq'[i] = txq[i + 1] /\ 1 < i + 1
          BY <1>0, <1>1, <4>3
        <5>2. txq[i + 1].id <= g.id /\ txq[1].id < txq[i + 1].id
          BY <1>2, <2>3, <4>3, <5>1 DEF InTurn
        <5>3. txq[i + 1].id \in Nat /\ txq[1].id = g.id
          BY <1>0, <4>1, <5>1
        <5>. QED BY <2>1, <5>2, <5>3
      <4>. QED BY <2>1, <4>2, <4>3 DEF DoneLast
    <3>. QED BY <1>1, <2>6, <3>1, <3>2
  <2>7. latest'[cmd].acked => DoneLast(cmd)'
    BY <2>1, <2>5 DEF LastOf
  <2>8. latest'[cmd].frame = g
    BY <2>1
  <2>. HIDE DEF g
  <2>. QED BY <1>1, <2>2, <2>4, <2>6, <2>7, <2>8 DEF LastOf
<1>4. \A cmd \in DOMAIN latest' : LastOf(cmd)'
  BY <1>3
<1>. QED BY <1>4 DEF LatestInv

(* ... when a command or an answer is lost.                                *)
LEMMA LatestLoss ==
  ASSUME QueueTypes, LatestInv, LossMove
  PROVE  LatestInv'
<1>1. /\ nid' = nid /\ regs' = regs /\ answers' \subseteq answers
      /\ latest' = latest \/ \E a \in answers : Acked(a)
  BY DEF LossMove
<1>2. PICK n : \A i \in 1 .. Len(txq') : i + n \in 1 .. Len(txq) /\ txq'[i] = txq[i + n]
  BY DEF LossMove, Popped
<1>3. /\ DOMAIN latest' = DOMAIN latest
      /\ \A x \in DOMAIN latest :
            /\ latest'[x].frame = latest[x].frame
            /\ latest'[x].acked => latest[x].acked \/ \E a \in answers : a.id = latest[x].frame.id
  <2>1. CASE latest' = latest
    BY <2>1
  <2>2. ASSUME NEW a \in answers, Acked(a)
        PROVE  /\ DOMAIN latest' = DOMAIN latest
               /\ \A x \in DOMAIN latest :
                     /\ latest'[x].frame = latest[x].frame
                     /\ latest'[x].acked => latest[x].acked \/ \E b \in answers : b.id = latest[x].frame.id
    BY <2>2, AckedFacts
  <2>. QED BY <1>1, <2>1, <2>2
<1>4. ASSUME NEW cmd \in DOMAIN latest' PROVE LastOf(cmd)'
  <2>. DEFINE g == latest[cmd].frame
  <2>1. LastOf(cmd) /\ latest'[cmd].frame = g /\ cmd \in DOMAIN latest
    BY <1>3, <1>4 DEF LatestInv
  <2>2. g.cmd = cmd /\ g.id < nid /\ Writes(cmd)
    BY <2>1 DEF LastOf
  <2>3. \A i \in 1 .. Len(txq') : /\ txq'[i].id = g.id => txq'[i] = g
                                  /\ txq'[i].cmd = cmd => txq'[i].id <= g.id
    <3>1. \A i \in 1 .. Len(txq) : /\ txq[i].id = g.id => txq[i] = g
                                   /\ txq[i].cmd = cmd => txq[i].id <= g.id
      BY <2>1 DEF LastOf
    <3>. HIDE DEF g
    <3>. QED BY <1>2, <3>1
  <2>4. DoneLast(cmd) => DoneLast(cmd)'
    BY <1>1, <1>2, <2>1 DEF DoneLast
  <2>5. \A a \in answers' : a.id = g.id => DoneLast(cmd)'
    BY <1>1, <2>1, <2>4 DEF LastOf
  <2>6. latest'[cmd].acked => DoneLast(cmd)'
    BY <1>3, <2>1, <2>4 DEF LastOf
  <2>. HIDE DEF g
  <2>. QED BY <1>1, <2>1, <2>2, <2>3, <2>5, <2>6 DEF LastOf
<1>5. \A cmd \in DOMAIN latest' : LastOf(cmd)'
  BY <1>4
<1>. QED BY <1>5 DEF LatestInv

(* Every move keeps what is known of the last sets.                        *)
LEMMA LatestStep ==
  ASSUME QueueTypes, InTurn, LatestInv, IssueMove \/ DoMove \/ LossMove \/ RestartMove
  PROVE  LatestInv'
<1>1. CASE RestartMove
  <2>1. DOMAIN latest' = {}
    BY <1>1 DEF RestartMove
  <2>. QED BY <2>1 DEF LatestInv
<1>. QED BY <1>1, LatestIssue, LatestDo, LatestLoss

-----------------------------------------------------------------------------
(* The first part of the inductive invariant.                              *)
CfgInv == CfgTypes /\ CallsInv /\ InTurn /\ LatestInv

(* The invariant holds at first.                                           *)
LEMMA InitCfgInv == CfgInit => CfgInv
<1>. SUFFICES ASSUME CfgInit PROVE CfgInv
  OBVIOUS
<1>1. CallsInv
  <2>1. DOMAIN call = Clients /\ \A c \in Clients : call[c] = Idle
    BY DEF CfgInit
  <2>. QED BY <2>1 DEF CallsInv, CallOK
<1>2. PlanTypes
  <2>1. plan \in DOMAIN Plans /\ faults = 0 /\ mixed = FALSE /\ radio = 1 /\ left = [c \in Clients |-> Len(Plans[plan][c])]
    BY DEF CfgInit
  <2>2. \A c \in Clients : Len(Plans[plan][c]) \in Nat
    BY <2>1, PlanAssumption
  <2>3. mixed \in BOOLEAN
    BY <2>1
  <2>4. faults \in Nat /\ radio \in 0 .. 255
    BY <2>1
  <2>5. DOMAIN left = Clients /\ \A c \in Clients : left[c] \in 0 .. Len(Plans[plan][c])
    BY <2>1, <2>2
  <2>. QED BY <2>1, <2>3, <2>4, <2>5, Zenon DEF PlanTypes
<1>3. QueueTypes /\ InTurn /\ LatestInv
  <2>1. nid = 0 /\ txq = <<>> /\ answers = {} /\ latest = <<>>
    BY DEF CfgInit
  <2>2. DOMAIN latest = {} /\ Len(txq) = 0
    BY <2>1
  <2>. QED BY <2>1, <2>2 DEF QueueTypes, InTurn, LatestInv
<1>. QED BY <1>1, <1>2, <1>3 DEF CfgInv, CfgTypes

(* Every step preserves it.                                                *)
LEMMA NextCfgInv == CfgInv /\ [CfgNext]_cfgvars => CfgInv'
<1>. SUFFICES ASSUME CfgInv, [CfgNext]_cfgvars PROVE CfgInv'
  OBVIOUS
<1>1. CfgTypes /\ CallsInv /\ InTurn /\ LatestInv /\ QueueTypes
  BY DEF CfgInv, CfgTypes
<1>2. CallsInv' /\ PlanTypes'
  BY <1>1, CallsStep, PlanStep
<1>3. IssueMove \/ DoMove \/ LossMove \/ RestartMove
  BY <1>1, QueueMoves
<1>4. QueueTypes' /\ InTurn' /\ LatestInv'
  BY <1>1, <1>3, QueueTypesStep, InTurnStep, LatestStep
<1>. QED BY <1>2, <1>4 DEF CfgInv, CfgTypes

(* Hence it always holds.                                                  *)
LEMMA CfgInductive == CfgSpec => []CfgInv
<1>. QED BY InitCfgInv, NextCfgInv, PTL DEF CfgSpec

(* A set that was acknowledged stays in force until a later one is issued: *)
(* the commands are queued and done in one order, so the command of a call *)
(* that gave up is not done after a later one, whatever is lost on the bus *)
(* and whoever times out.                                                  *)
THEOREM AcknowledgedStays == CfgSpec => []LastSuccessWins
<1>1. CfgInv => LastSuccessWins
  BY DEF CfgInv, LatestInv, LastOf, DoneLast, LastSuccessWins
<1>. QED BY <1>1, CfgInductive, PTL

-----------------------------------------------------------------------------
(* The driver's copies.  Unless radio calls overlapped there is one at a   *)
(* time; between its two steps ctrl->radio_onoff is the value it passes    *)
(* on, and then the value of the last command.                             *)
Busy(c) == ~Free(c) /\ IsRadio(call[c].disp)
Sending(c) == call[c].pc = "send"
RadioInv ==
  mixed = FALSE =>
     /\ \A c, d \in Clients : Busy(c) /\ Busy(d) => c = d
     /\ \A c \in Clients : Sending(c) => radio = call[c].disp.args.nums[1]
     /\ (\A c \in Clients : ~Sending(c)) /\ "RADIO_ONOFF" \in DOMAIN latest
           => latest["RADIO_ONOFF"].frame.payload = <<radio>>

(* The one call that changes, and the others.                              *)
LEMMA CallAt ==
  ASSUME CallsInv, NEW c \in Clients, NEW q, call' = [call EXCEPT ![c] = q]
  PROVE  call'[c] = q /\ \A d \in Clients : d # c => call'[d] = call[d]
BY DEF CallsInv

(* A call about to read the shared field is busy.                          *)
LEMMA SendingBusy ==
  ASSUME CallsInv, NEW c \in Clients, Sending(c)
  PROVE  Busy(c) /\ call[c] # Idle
<1>. DEFINE r == call[c]
<1>1. CallOK(r) /\ r.pc = "send"
  BY DEF CallsInv, Sending
<1>2. r # Idle
  BY <1>1 DEF Idle
<1>. HIDE DEF r
<1>3. IsRadio(r.disp)
  BY <1>1, <1>2 DEF CallOK
<1>. QED BY <1>1, <1>2, <1>3 DEF r, Busy, Free

(* A step that starts no radio call and sends none.                        *)
LEMMA RadioKeep ==
  ASSUME RadioInv, UNCHANGED <<radio, mixed>>,
         \A d \in Clients : Busy(d)' => Busy(d),
         \A d \in Clients : Sending(d)' => Sending(d) /\ call'[d].disp = call[d].disp,
         \A d \in Clients : Sending(d) => Sending(d)',
         "RADIO_ONOFF" \in DOMAIN latest' => /\ "RADIO_ONOFF" \in DOMAIN latest
                                             /\ latest'["RADIO_ONOFF"].frame = latest["RADIO_ONOFF"].frame
  PROVE  RadioInv'
<1>. SUFFICES ASSUME mixed = FALSE
              PROVE  /\ \A c, d \in Clients : Busy(c)' /\ Busy(d)' => c = d
                     /\ \A c \in Clients : Sending(c)' => radio = call'[c].disp.args.nums[1]
                     /\ (\A c \in Clients : ~Sending(c)') /\ "RADIO_ONOFF" \in DOMAIN latest'
                           => latest'["RADIO_ONOFF"].frame.payload = <<radio>>
  BY DEF RadioInv
<1>1. \A c, d \in Clients : Busy(c)' /\ Busy(d)' => c = d
  BY DEF RadioInv
<1>2. \A c \in Clients : Sending(c)' => radio = call'[c].disp.args.nums[1]
  BY DEF RadioInv
<1>3. (\A c \in Clients : ~Sending(c)') /\ "RADIO_ONOFF" \in DOMAIN latest'
           => latest'["RADIO_ONOFF"].frame.payload = <<radio>>
  BY DEF RadioInv
<1>. QED BY <1>1, <1>2, <1>3

(* A call that ends, or is no radio call, makes no client busy.            *)
LEMMA OneCallKept ==
  ASSUME CallsInv, NEW c \in Clients, NEW q, call' = [call EXCEPT ![c] = q],
         ~Sending(c), q.pc # "send",
         q.pc = "done" \/ ~IsRadio(q.disp) \/ (q.pc = call[c].pc /\ q.disp = call[c].disp)
  PROVE  /\ \A d \in Clients : Busy(d)' => Busy(d)
         /\ \A d \in Clients : Sending(d)' => Sending(d) /\ call'[d].disp = call[d].disp
         /\ \A d \in Clients : Sending(d) => Sending(d)'
<1>1. call'[c] = q /\ \A d \in Clients : d # c => call'[d] = call[d]
  BY CallAt
<1>2. \A d \in Clients : Busy(d)' => Busy(d)
  BY <1>1 DEF Busy, Free
<1>3. \A d \in Clients : Sending(d)' => Sending(d) /\ call'[d].disp = call[d].disp
  BY <1>1 DEF Sending
<1>4. \A d \in Clients : Sending(d) => Sending(d)'
  BY <1>1 DEF Sending
<1>. QED BY <1>2, <1>3, <1>4

(* A second radio call while one is busy is recorded in mixed.             *)
LEMMA RadioBegin ==
  ASSUME CfgTypes, CallsInv, RadioInv, NEW c \in Clients, Begin(c)
  PROVE  RadioInv'
<1>1. PICK cl : BeginsWith(c, cl)
  BY BeginSteps
<1>2. Free(c) /\ ~Sending(c) /\ ~Busy(c)
  BY <1>1 DEF BeginsWith, Free, Sending, Busy
<1>3. ASSUME Dispatch(cl).wrap = "", Quiet, NEW q, Ended(q, cl), call' = [call EXCEPT ![c] = q] PROVE RadioInv'
  <2>1. ~IsRadio(Dispatch(cl))
    BY <1>3 DEF IsRadio
  <2>2. UNCHANGED <<radio, latest, mixed>>
    BY <1>1, <1>3, <2>1 DEF BeginsWith, Quiet, CfgTypes, PlanTypes
  <2>3. q.pc = "done" /\ q.pc # "send"
    BY <1>3 DEF Ended
  <2>. QED BY <1>2, <1>3, <2>2, <2>3, OneCallKept, RadioKeep
<1>4. ASSUME IsRadio(Dispatch(cl)), Quiet, call' = [call EXCEPT ![c] = NewCall(cl)] PROVE RadioInv'
  <2>. SUFFICES ASSUME mixed' = FALSE
                PROVE  /\ \A d, e \in Clients : Busy(d)' /\ Busy(e)' => d = e
                       /\ \A d \in Clients : Sending(d)' => radio' = call'[d].disp.args.nums[1]
                       /\ \E d \in Clients : Sending(d)'
    BY DEF RadioInv
  <2>1. radio' = Dispatch(cl).args.nums[1] /\ ~RadioBusy
    BY <1>1, <1>4 DEF BeginsWith
  <2>2. \A d \in Clients : ~Busy(d)
    BY <2>1 DEF RadioBusy, Busy
  <2>3. \A d \in Clients : ~Sending(d)
    BY <2>2, SendingBusy
  <2>4. call'[c] = NewCall(cl) /\ \A d \in Clients : d # c => call'[d] = call[d]
    BY <1>4, CallAt
  <2>5. call'[c].pc = "send" /\ call'[c].disp = Dispatch(cl)
    BY <2>4 DEF NewCall
  <2>6. \A d \in Clients : d # c => ~Busy(d)' /\ ~Sending(d)'
    BY <2>2, <2>3, <2>4 DEF Busy, Sending, Free
  <2>. QED BY <2>1, <2>5, <2>6 DEF Sending
<1>5. ASSUME ~IsRadio(Dispatch(cl)), NEW f, NEW q, Issuing(c, f, q), q.call = cl PROVE RadioInv'
  <2>1. UNCHANGED <<radio, mixed>>
    BY <1>1, <1>5 DEF BeginsWith, CfgTypes, PlanTypes
  <2>2. /\ q.pc # "send" /\ q.disp = Dispatch(cl) /\ call' = [call EXCEPT ![c] = q]
        /\ q.disp.wrap \in DOMAIN Cmds /\ f.cmd = Cmds[q.disp.wrap].cmd
    BY <1>5 DEF Issuing, CmdOf
  <2>3. f.cmd # "RADIO_ONOFF"
    BY <1>5, <2>2, RadioAssumption DEF IsRadio
  <2>4. "RADIO_ONOFF" \in DOMAIN latest' => /\ "RADIO_ONOFF" \in DOMAIN latest
                                            /\ latest'["RADIO_ONOFF"].frame = latest["RADIO_ONOFF"].frame
    BY <1>5, <2>3, IssueFacts DEF CfgTypes
  <2>. QED BY <1>2, <1>5, <2>1, <2>2, <2>4, OneCallKept, RadioKeep
<1>. QED BY <1>1, <1>3, <1>4, <1>5, Zenon DEF BeginsWith

(* The only sender passes on the value it stored.                          *)
LEMMA RadioSend ==
  ASSUME CfgTypes, CallsInv, RadioInv, NEW c \in Clients, SendRadio(c)
  PROVE  RadioInv'
<1>1. PICK f, q : /\ Issuing(c, f, q) /\ q.call = call[c].call /\ f.cmd = "RADIO_ONOFF"
                  /\ \E v \in {radio, call[c].disp.args.nums[1]} : f.payload = <<v>>
  BY SendSteps
<1>2. UNCHANGED <<radio, mixed>> /\ Sending(c)
  BY SendSteps DEF Sending
<1>. SUFFICES ASSUME mixed = FALSE
              PROVE  /\ \A d, e \in Clients : Busy(d)' /\ Busy(e)' => d = e
                     /\ \A d \in Clients : ~Sending(d)'
                     /\ "RADIO_ONOFF" \in DOMAIN latest' => latest'["RADIO_ONOFF"].frame.payload = <<radio>>
  BY <1>2 DEF RadioInv
<1>3. f.payload = <<radio>>
  BY <1>1, <1>2 DEF RadioInv
<1>4. \A d \in Clients : d # c => ~Busy(d)
  BY <1>2, SendingBusy DEF RadioInv
<1>5. \A d \in Clients : d # c => ~Sending(d)
  BY <1>4, SendingBusy
<1>6. call'[c] = q /\ \A d \in Clients : d # c => call'[d] = call[d]
  BY <1>1, CallAt DEF Issuing
<1>7. q.pc # "send"
  BY <1>1 DEF Issuing
<1>8. \A d \in Clients : ~Sending(d)'
  BY <1>5, <1>6, <1>7 DEF Sending
<1>9. \A d \in Clients : d # c => ~Busy(d)'
  BY <1>4, <1>6 DEF Busy, Free
<1>10. "RADIO_ONOFF" \in DOMAIN latest' => latest'["RADIO_ONOFF"].frame = f
  <2>. DEFINE x == f.cmd
  <2>1. x \in DOMAIN latest' => \/ x = f.cmd => ~Writes(x)
                                \/ latest'[x] = [frame |-> f, acked |-> FALSE]
    BY <1>1, IssueFacts DEF CfgTypes
  <2>2. Writes(x) /\ x = "RADIO_ONOFF"
    BY <1>1, RadioAssumption
  <2>. QED BY <2>1, <2>2
<1>. QED BY <1>3, <1>8, <1>9, <1>10

(* Every step keeps the radio field in step with the last command.         *)
LEMMA RadioStep ==
  ASSUME CfgTypes, CallsInv, RadioInv, [CfgNext]_cfgvars
  PROVE  RadioInv'
<1>1. ASSUME NEW c \in Clients, Answer(c) \/ Timeout(c) PROVE RadioInv'
  <2>1. PICK q : call' = [call EXCEPT ![c] = q] /\ q.pc = "done"
    BY <1>1, AnswerSteps, TimeoutSteps
  <2>2. UNCHANGED <<radio, mixed>> /\ ~Sending(c)
    BY <1>1 DEF Answer, Timeout, Sending
  <2>3. "RADIO_ONOFF" \in DOMAIN latest' => /\ "RADIO_ONOFF" \in DOMAIN latest
                                            /\ latest'["RADIO_ONOFF"].frame = latest["RADIO_ONOFF"].frame
    <3>1. latest' = latest \/ \E a \in answers : Acked(a)
      BY <1>1, AnswerSteps, TimeoutSteps
    <3>2. ASSUME NEW a \in answers, Acked(a)
          PROVE  "RADIO_ONOFF" \in DOMAIN latest' => /\ "RADIO_ONOFF" \in DOMAIN latest
                                                     /\ latest'["RADIO_ONOFF"].frame = latest["RADIO_ONOFF"].frame
      BY <3>2, AckedFacts DEF CfgTypes
    <3>. QED BY <3>1, <3>2
  <2>4. q.pc # "send"
    BY <2>1
  <2>. QED BY <1>1, <2>1, <2>2, <2>3, <2>4, OneCallKept, RadioKeep
<1>2. CASE Execute
  <2>. DEFINE f == txq[1]
              c == f.client
  <2>1. /\ f \in CmdFrames /\ UNCHANGED <<radio, mixed, latest>>
        /\ (Mine(c, f) => Told(c, f)) /\ (~Mine(c, f) => call' = call)
    BY <1>2, ExecuteSteps
  <2>2. c \in Clients
    BY <2>1 DEF CmdFrames
  <2>. HIDE DEF f
  <2>3. CASE call' = call
    BY <2>1, <2>3, RadioKeep DEF Busy, Sending, Free
  <2>4. CASE Mine(c, f)
    <3>1. PICK q : /\ call' = [call EXCEPT ![c] = q] /\ Continues(q, call[c]) /\ q.pc = call[c].pc
      BY <2>1, <2>4 DEF Told
    <3>2. call[c] # Idle /\ CallOK(call[c]) /\ call[c].id # -1
      <4>1. call[c] # Idle /\ CallOK(call[c]) /\ call[c].id = f.id /\ f.id \in Nat
        BY <2>1, <2>2, <2>4 DEF Mine, Idle, CallsInv, CmdFrames
      <4>. QED BY <4>1
    <3>3. ~Sending(c)
      BY <3>2 DEF Sending, CallOK
    <3>4. q.pc # "send" /\ q.disp = call[c].disp
      BY <3>1, <3>3 DEF Continues, Sending
    <3>. QED BY <2>1, <2>2, <3>1, <3>3, <3>4, OneCallKept, RadioKeep
  <2>. QED BY <2>1, <2>3, <2>4
<1>3. ASSUME UNCHANGED <<call, radio, mixed>>, latest' = latest \/ latest' = <<>> PROVE RadioInv'
  <2>1. "RADIO_ONOFF" \in DOMAIN latest' => /\ "RADIO_ONOFF" \in DOMAIN latest
                                            /\ latest'["RADIO_ONOFF"].frame = latest["RADIO_ONOFF"].frame
    BY <1>3
  <2>. QED BY <1>3, <2>1, RadioKeep DEF Busy, Sending, Free
<1>4. CASE Lose \/ Stray \/ Reset \/ Reload \/ Finished \/ UNCHANGED cfgvars
  <2>1. UNCHANGED <<call, radio, mixed>> /\ (latest' = latest \/ latest' = <<>>)
    BY <1>4 DEF Lose, Stray, Reset, Reload, Finished, cfgvars
  <2>. QED BY <1>3, <2>1
<1>. QED BY <1>1, <1>2, <1>4, RadioBegin, RadioSend DEF CfgNext

(* The calls whose command is a parameter's last set made it; the frames   *)
(* and calls of a step that issues nothing are the ones before.            *)
OwnLatest ==
  \A c \in Clients : \A cmd \in DOMAIN latest :
     call[c] # Idle /\ call[c].id = latest[cmd].frame.id
        => latest[cmd].frame.args = call[c].call.args /\ cmd = CmdOf(call[c].call)
LatestKept == \A cmd \in DOMAIN latest' : cmd \in DOMAIN latest /\ latest'[cmd].frame = latest[cmd].frame
CallsKept ==
  \A c \in Clients : call'[c] # Idle /\ call'[c].id # -1
     => call[c] # Idle /\ call'[c].id = call[c].id /\ call'[c].call = call[c].call

(* The end of a call leaves ids and last sets alone.                       *)
LEMMA AnswerKeeps ==
  ASSUME CfgTypes, CallsInv, NEW c \in Clients, Answer(c) \/ Timeout(c)
  PROVE  LatestKept /\ CallsKept
<1>1. PICK q : call' = [call EXCEPT ![c] = q] /\ Continues(q, call[c])
  BY AnswerSteps, TimeoutSteps
<1>2. Waiting(call[c])
  BY AnswerSteps, TimeoutSteps
<1>3. call'[c] = q /\ \A d \in Clients : d # c => call'[d] = call[d]
  BY <1>1, CallAt
<1>4. CallsKept
  BY <1>1, <1>2, <1>3 DEF CallsKept, Continues, Waiting
<1>5. LatestKept
  <2>1. latest' = latest \/ \E a \in answers : Acked(a)
    BY AnswerSteps, TimeoutSteps
  <2>2. ASSUME NEW a \in answers, Acked(a) PROVE LatestKept
    BY <2>2, AckedFacts DEF LatestKept, CfgTypes
  <2>. QED BY <2>1, <2>2 DEF LatestKept
<1>. QED BY <1>4, <1>5

(* So does the firmware; the call keeps its state.                         *)
LEMMA ExecuteKeeps ==
  ASSUME CfgTypes, CallsInv, Execute
  PROVE  /\ LatestKept /\ CallsKept
         /\ \A d \in Clients : /\ call'[d] = Idle <=> call[d] = Idle
                               /\ call'[d].pc = call[d].pc
                               /\ call[d] # Idle => /\ call'[d].id = call[d].id /\ call'[d].call = call[d].call
                                                    /\ call'[d].disp = call[d].disp
                                                    /\ call'[d].answered = call[d].answered
                                                    /\ call'[d].out = call[d].out
<1>. DEFINE f == txq[1]
            c == f.client
<1>1. /\ f \in CmdFrames /\ UNCHANGED latest
      /\ (Mine(c, f) => Told(c, f)) /\ (~Mine(c, f) => call' = call)
  BY ExecuteSteps
<1>2. c \in Clients
  BY <1>1 DEF CmdFrames
<1>. HIDE DEF f
<1>3. CASE call' = call
  BY <1>1, <1>3 DEF LatestKept, CallsKept
<1>4. CASE Mine(c, f)
  <2>1. PICK q : /\ call' = [call EXCEPT ![c] = q] /\ Continues(q, call[c]) /\ q.pc = call[c].pc
                 /\ q.answered = call[c].answered /\ q.out = call[c].out
    BY <1>1, <1>4 DEF Told
  <2>2. call[c] # Idle /\ call[c].pc # "idle"
    BY <1>4 DEF Mine, Idle
  <2>3. call'[c] = q /\ \A d \in Clients : d # c => call'[d] = call[d]
    BY <1>2, <2>1, CallAt
  <2>4. q # Idle
    BY <2>1, <2>2 DEF Idle
  <2>5. CallsKept
    BY <2>1, <2>2, <2>3 DEF CallsKept, Continues
  <2>6. LatestKept
    BY <1>1 DEF LatestKept
  <2>. QED BY <2>1, <2>2, <2>3, <2>4, <2>5, <2>6 DEF Continues
<1>. QED BY <1>1, <1>3, <1>4

(* A step issues a command or leaves ids and last sets alone.              *)
LEMMA CallMoves ==
  ASSUME CfgTypes, CallsInv, [CfgNext]_cfgvars
  PROVE  (\E c \in Clients : \E f, q : Issuing(c, f, q)) \/ (LatestKept /\ CallsKept)
<1>1. ASSUME NEW c \in Clients, Begin(c)
      PROVE  (\E f, q : Issuing(c, f, q)) \/ (LatestKept /\ CallsKept)
  <2>1. PICK cl : BeginsWith(c, cl)
    BY <1>1, BeginSteps
  <2>2. ASSUME Quiet, NEW q, call' = [call EXCEPT ![c] = q], q.id = -1 PROVE LatestKept /\ CallsKept
    <3>1. call'[c] = q /\ \A d \in Clients : d # c => call'[d] = call[d]
      BY <1>1, <2>2, CallAt
    <3>. QED BY <2>2, <3>1 DEF Quiet, LatestKept, CallsKept
  <2>3. NewCall(cl).id = -1
    BY DEF NewCall
  <2>4. \A q : Ended(q, cl) => q.id = -1
    BY DEF Ended
  <2>. QED BY <2>1, <2>2, <2>3, <2>4, Zenon DEF BeginsWith
<1>2. ASSUME NEW c \in Clients, SendRadio(c) PROVE \E f, q : Issuing(c, f, q)
  BY <1>2, SendSteps
<1>3. CASE Lose \/ Stray \/ Reset \/ Reload \/ Finished \/ UNCHANGED cfgvars
  <2>1. UNCHANGED call /\ (latest' = latest \/ latest' = <<>>)
    BY <1>3 DEF Lose, Stray, Reset, Reload, Finished, cfgvars
  <2>. QED BY <2>1 DEF LatestKept, CallsKept
<1>. QED BY <1>1, <1>2, <1>3, AnswerKeeps, ExecuteKeeps DEF CfgNext

(* Every step keeps the last sets with the calls that issued them.         *)
LEMMA OwnLatestStep ==
  ASSUME CfgInv, OwnLatest, [CfgNext]_cfgvars
  PROVE  OwnLatest'
<1>0. CfgTypes /\ CallsInv /\ QueueTypes /\ nid \in Nat
  BY DEF CfgInv, CfgTypes, QueueTypes
<1>1. \A cmd \in DOMAIN latest : latest[cmd].frame.id \in Nat /\ latest[cmd].frame.id < nid
  BY DEF CfgInv, CfgTypes, QueueTypes, CmdFrames, LatestInv, LastOf
<1>2. ASSUME NEW c \in Clients, NEW f, NEW q, Issuing(c, f, q) PROVE OwnLatest'
  <2>1. /\ f.id = nid /\ f.args = q.call.args /\ f.cmd = CmdOf(q.call) /\ q.id = nid
        /\ call'[c] = q /\ \A d \in Clients : d # c => call'[d] = call[d]
    BY <1>0, <1>2, CallAt DEF Issuing
  <2>2. \A d \in Clients : call[d] # Idle => call[d].id < nid /\ call[d].id \in Int
    BY <1>0, IdFacts DEF CallsInv
  <2>. SUFFICES ASSUME NEW d \in Clients, NEW cmd \in DOMAIN latest',
                       call'[d] # Idle, call'[d].id = latest'[cmd].frame.id
                PROVE  latest'[cmd].frame.args = call'[d].call.args /\ cmd = CmdOf(call'[d].call)
    BY DEF OwnLatest, CmdOf
  <2>3. CASE cmd \in DOMAIN latest /\ latest'[cmd] = latest[cmd]
    <3>1. d # c
      BY <1>0, <1>1, <2>1, <2>3
    <3>. QED BY <2>1, <2>3, <3>1 DEF OwnLatest
  <2>4. CASE cmd = f.cmd /\ latest'[cmd] = [frame |-> f, acked |-> FALSE]
    <3>1. latest'[cmd].frame = f
      BY <2>4
    <3>2. d = c
      BY <1>0, <2>1, <2>2, <3>1
    <3>. QED BY <2>1, <2>4, <3>1, <3>2
  <2>. QED BY <1>0, <1>2, <2>3, <2>4, IssueFacts
<1>3. ASSUME LatestKept, CallsKept PROVE OwnLatest'
  <2>. SUFFICES ASSUME NEW d \in Clients, NEW cmd \in DOMAIN latest',
                       call'[d] # Idle, call'[d].id = latest'[cmd].frame.id
                PROVE  latest'[cmd].frame.args = call'[d].call.args /\ cmd = CmdOf(call'[d].call)
    BY DEF OwnLatest, CmdOf
  <2>1. cmd \in DOMAIN latest /\ latest'[cmd].frame = latest[cmd].frame
    BY <1>3 DEF LatestKept
  <2>2. call'[d].id # -1
    <3>1. latest'[cmd].frame.id \in Nat
      BY <1>1, <2>1
    <3>. QED BY <3>1
  <2>3. call[d] # Idle /\ call'[d].id = call[d].id /\ call'[d].call = call[d].call
    BY <1>3, <2>2 DEF CallsKept
  <2>. QED BY <2>1, <2>3 DEF OwnLatest
<1>. QED BY <1>0, <1>2, <1>3, CallMoves

(* ndo_set_mac_address runs under rtnl_lock, so the command of the call    *)
(* that waits is the last SET_MAC; every set is answered with status 0,    *)
(* and an acknowledged address is the interface's.                         *)
NdoWaits(c) == call[c].pc = "wait" /\ call[c].call.via = "ndo"
LastMac == latest["SET_MAC"].frame
MacWaits == \A c \in Clients : NdoWaits(c) => rtnl = c /\ ("SET_MAC" \in DOMAIN latest => LastMac.id = call[c].id)
SetsAnswered == \A a \in answers : \A cmd \in DOMAIN latest : a.id = latest[cmd].frame.id => a.answer.status = 0
MacKept == "SET_MAC" \in DOMAIN latest /\ latest["SET_MAC"].acked => hostmac = LastMac.args.bytes
SameMac == "SET_MAC" \in DOMAIN latest' => "SET_MAC" \in DOMAIN latest /\ LastMac' = LastMac

(* A SET_MAC command begins with the address of the call.                  *)
LEMMA MacFrames ==
  ASSUME NEW f \in CmdFrames, f.cmd = "SET_MAC"
  PROVE  Take(f.payload, 6) = f.args.bytes
<1>1. BodyOf(f) \in Bodies
  BY DEF CmdFrames
<1>2. PICK cl \in Senders, v \in 0 .. 255 : BodyOf(f) = Body(cl, v)
  BY <1>1 DEF Bodies
<1>3. /\ f.cmd = CmdOf(cl) /\ f.payload = Payload(Cmds[Dispatch(cl).wrap], SentArgs(cl, v)) /\ f.args = cl.args
  BY <1>2 DEF BodyOf, Body
<1>4. cl \in Calls /\ Dispatch(cl).wrap \in DOMAIN Cmds
  BY WrapAssumption DEF Senders
<1>5. Dispatch(cl).wrap = "set_mac"
  BY <1>3, <1>4, MacAssumption DEF CmdOf
<1>6. SentArgs(cl, v) = Dispatch(cl).args
  BY <1>5 DEF SentArgs, IsRadio
<1>. QED BY <1>3, <1>4, <1>5, <1>6, MacAssumption

(* A step that starts no ndo call and keeps the lock.                      *)
LEMMA MacWaitsKeep ==
  ASSUME MacWaits, SameMac,
         \A d \in Clients : NdoWaits(d)' => NdoWaits(d) /\ call'[d].id = call[d].id /\ (rtnl = d => rtnl' = rtnl)
  PROVE  MacWaits'
<1>. SUFFICES ASSUME NEW c \in Clients, NdoWaits(c)'
              PROVE  rtnl' = c /\ ("SET_MAC" \in DOMAIN latest' => LastMac' = LastMac /\ LastMac.id = call'[c].id)
  BY DEF MacWaits
<1>1. NdoWaits(c) /\ call'[c].id = call[c].id /\ (rtnl = c => rtnl' = rtnl)
  OBVIOUS
<1>2. rtnl = c /\ ("SET_MAC" \in DOMAIN latest => LastMac.id = call[c].id)
  BY <1>1 DEF MacWaits
<1>. QED BY <1>1, <1>2 DEF SameMac

(* What issuing does to the last SET_MAC.                                  *)
LEMMA IssueMac ==
  ASSUME QueueTypes, LatestInv, NEW c \in Clients, NEW f, NEW q, Issuing(c, f, q)
  PROVE  /\ f.cmd # "SET_MAC" => SameMac
         /\ f.cmd # "SET_MAC" /\ "SET_MAC" \in DOMAIN latest' => latest'["SET_MAC"] = latest["SET_MAC"]
         /\ f.cmd = "SET_MAC" /\ "SET_MAC" \in DOMAIN latest' => latest'["SET_MAC"] = [frame |-> f, acked |-> FALSE]
<1>. DEFINE x == "SET_MAC"
<1>1. x \in DOMAIN latest' => \/ x \in DOMAIN latest /\ latest'[x] = latest[x] /\ (x = f.cmd => ~Writes(x))
                              \/ x = f.cmd /\ Writes(x) /\ latest'[x] = [frame |-> f, acked |-> FALSE]
  BY IssueFacts
<1>2. x \in DOMAIN latest => Writes(x)
  BY DEF LatestInv, LastOf
<1>. QED BY <1>1, <1>2 DEF SameMac, LastMac

(* The lock lets one ndo call in at a time.                                *)
LEMMA MacBegin ==
  ASSUME CfgInv, MacWaits, MacKept, NEW c \in Clients, Begin(c)
  PROVE  MacWaits' /\ MacKept'
<1>0. CfgTypes /\ CallsInv /\ QueueTypes /\ LatestInv
  BY DEF CfgInv, CfgTypes
<1>1. PICK cl : BeginsWith(c, cl)
  BY <1>0, BeginSteps
<1>2. Free(c) /\ cl \in Calls /\ hostmac' = hostmac /\ rtnl' = (IF cl.via = "ndo" THEN c ELSE rtnl) /\ (cl.via = "ndo" => rtnl = "")
  BY <1>1 DEF BeginsWith
<1>3. ASSUME NEW q, call' = [call EXCEPT ![c] = q], q.pc # "wait" \/ (q.call = cl /\ cl.via # "ndo"),
             Quiet \/ SameMac, cl.via # "ndo"
      PROVE  MacWaits'
  <2>1. call'[c] = q /\ \A d \in Clients : d # c => call'[d] = call[d]
    BY <1>0, <1>3, CallAt
  <2>2. SameMac /\ rtnl' = rtnl
    BY <1>2, <1>3 DEF Quiet, SameMac, LastMac
  <2>3. \A d \in Clients : NdoWaits(d)' => NdoWaits(d) /\ call'[d].id = call[d].id
    BY <1>3, <2>1 DEF NdoWaits
  <2>. QED BY <2>2, <2>3, MacWaitsKeep
<1>4. ASSUME NEW q, Dispatch(cl).wrap = "", Quiet, Ended(q, cl), call' = [call EXCEPT ![c] = q] PROVE MacWaits' /\ MacKept'
  <2>1. q.pc # "wait"
    BY <1>4 DEF Ended
  <2>2. cl.via # "ndo"
    BY <1>2, <1>4, MacAssumption
  <2>3. MacKept'
    BY <1>2, <1>4 DEF MacKept, Quiet, LastMac
  <2>. QED BY <1>3, <1>4, <2>1, <2>2, <2>3
<1>5. ASSUME IsRadio(Dispatch(cl)), Quiet, call' = [call EXCEPT ![c] = NewCall(cl)] PROVE MacWaits' /\ MacKept'
  <2>1. NewCall(cl).pc # "wait"
    BY DEF NewCall
  <2>2. cl.via # "ndo"
    BY <1>2, <1>5, MacAssumption DEF IsRadio
  <2>3. MacKept'
    BY <1>2, <1>5 DEF MacKept, Quiet, LastMac
  <2>. QED BY <1>3, <1>5, <2>1, <2>2, <2>3
<1>6. ASSUME NEW f, NEW q, Issuing(c, f, q), q.call = cl PROVE MacWaits' /\ MacKept'
  <2>1. /\ call' = [call EXCEPT ![c] = q] /\ f.cmd = Cmds[Dispatch(cl).wrap].cmd /\ Dispatch(cl).wrap \in DOMAIN Cmds
        /\ f.id = nid /\ q.id = nid
    BY <1>6 DEF Issuing, CmdOf
  <2>2. f.cmd = "SET_MAC" <=> cl.via = "ndo"
    BY <1>2, <2>1, MacAssumption
  <2>3. CASE cl.via # "ndo"
    <3>1. SameMac /\ ("SET_MAC" \in DOMAIN latest' => latest'["SET_MAC"] = latest["SET_MAC"])
      BY <1>0, <1>6, <2>2, <2>3, IssueMac
    <3>2. MacKept'
      BY <1>2, <3>1 DEF MacKept, SameMac, LastMac
    <3>. QED BY <1>3, <1>6, <2>1, <2>3, <3>1, <3>2
  <2>4. CASE cl.via = "ndo"
    <3>1. "SET_MAC" \in DOMAIN latest' => latest'["SET_MAC"] = [frame |-> f, acked |-> FALSE]
      BY <1>0, <1>6, <2>2, <2>4, IssueMac
    <3>2. MacKept'
      BY <3>1 DEF MacKept
    <3>3. call'[c] = q /\ \A d \in Clients : d # c => call'[d] = call[d]
      BY <1>0, <2>1, CallAt
    <3>4. \A d \in Clients : ~NdoWaits(d)
      <4>1. rtnl = "" /\ "" \notin Clients
        BY <1>2, <2>4, ConfAssumption
      <4>. QED BY <4>1 DEF MacWaits
    <3>5. \A d \in Clients : NdoWaits(d)' => d = c
      BY <3>3, <3>4 DEF NdoWaits
    <3>6. "SET_MAC" \in DOMAIN latest' => LastMac' = f
      BY <3>1 DEF LastMac
    <3>. QED BY <1>2, <2>1, <2>4, <3>2, <3>3, <3>5, <3>6 DEF MacWaits
  <2>. QED BY <2>3, <2>4
<1>. QED BY <1>1, <1>4, <1>5, <1>6, Zenon DEF BeginsWith

(* A radio call touches neither the lock nor the address.                  *)
LEMMA MacSend ==
  ASSUME CfgInv, MacWaits, MacKept, NEW c \in Clients, SendRadio(c)
  PROVE  MacWaits' /\ MacKept'
<1>0. CfgTypes /\ CallsInv /\ QueueTypes /\ LatestInv
  BY DEF CfgInv, CfgTypes
<1>1. PICK f, q : Issuing(c, f, q) /\ q.call = call[c].call /\ f.cmd = "RADIO_ONOFF"
  BY <1>0, SendSteps
<1>2. UNCHANGED <<rtnl, hostmac>> /\ call[c].call \in Calls /\ Dispatch(call[c].call).wrap = "radio_onoff"
  BY <1>0, SendSteps DEF IsRadio
<1>3. f.cmd # "SET_MAC" /\ q.call.via # "ndo"
  BY <1>1, <1>2, MacAssumption
<1>4. SameMac /\ ("SET_MAC" \in DOMAIN latest' => latest'["SET_MAC"] = latest["SET_MAC"])
  BY <1>0, <1>1, <1>3, IssueMac
<1>5. call'[c] = q /\ \A d \in Clients : d # c => call'[d] = call[d]
  BY <1>0, <1>1, CallAt DEF Issuing
<1>6. \A d \in Clients : NdoWaits(d)' => NdoWaits(d) /\ call'[d].id = call[d].id
  BY <1>3, <1>5 DEF NdoWaits
<1>7. MacKept'
  BY <1>2, <1>4 DEF MacKept, SameMac, LastMac
<1>. QED BY <1>2, <1>4, <1>6, <1>7, MacWaitsKeep

(* The end of a call releases its own lock only.                           *)
LEMMA MacEnds ==
  ASSUME CfgInv, MacWaits, NEW c \in Clients, Answer(c) \/ Timeout(c)
  PROVE  MacWaits' /\ SameMac
<1>0. CfgTypes /\ CallsInv
  BY DEF CfgInv
<1>1. PICK q : call' = [call EXCEPT ![c] = q] /\ q.pc = "done"
  BY <1>0, AnswerSteps, TimeoutSteps
<1>2. rtnl' = IF rtnl = c THEN "" ELSE rtnl
  BY <1>0, AnswerSteps, TimeoutSteps DEF Leave
<1>3. SameMac
  BY <1>0, AnswerKeeps DEF LatestKept, SameMac, LastMac
<1>4. call'[c] = q /\ \A d \in Clients : d # c => call'[d] = call[d]
  BY <1>0, <1>1, CallAt
<1>5. ASSUME NEW d \in Clients, NdoWaits(d)'
      PROVE  NdoWaits(d) /\ call'[d].id = call[d].id /\ (rtnl = d => rtnl' = rtnl)
  <2>1. d # c
    BY <1>1, <1>4, <1>5 DEF NdoWaits
  <2>. QED BY <1>2, <1>4, <1>5, <2>1 DEF NdoWaits
<1>. QED BY <1>3, <1>5, MacWaitsKeep

(* The acknowledged address is the one change_mac keeps.                   *)
LEMMA MacAnswer ==
  ASSUME CfgInv, OwnLatest, MacWaits, SetsAnswered, MacKept, NEW c \in Clients, Answer(c)
  PROVE  MacKept'
<1>0. CfgTypes /\ CallsInv /\ QueueTypes
  BY DEF CfgInv, CfgTypes
<1>1. PICK a \in answers : a.id = call[c].id /\ Acked(a) /\ Leave(c, a.answer.status)
  BY <1>0, AnswerSteps
<1>2. Waiting(call[c])
  BY <1>0, AnswerSteps
<1>. SUFFICES ASSUME "SET_MAC" \in DOMAIN latest', latest'["SET_MAC"].acked
              PROVE  hostmac' = LastMac'.args.bytes
  BY DEF MacKept
<1>3. /\ "SET_MAC" \in DOMAIN latest /\ LastMac' = LastMac
      /\ latest["SET_MAC"].acked \/ LastMac.id = a.id
  BY <1>0, <1>1, AckedFacts DEF LastMac
<1>4. hostmac' = IF call[c].call.via = "ndo" /\ call[c].call.api = "set_mac" /\ a.answer.status = 0
                 THEN call[c].call.args.bytes ELSE hostmac
  BY <1>1 DEF Leave
<1>5. CASE LastMac.id = a.id
  <2>1. LastMac.args = call[c].call.args /\ CmdOf(call[c].call) = "SET_MAC"
    BY <1>1, <1>2, <1>3, <1>5 DEF OwnLatest, LastMac, Waiting
  <2>2. call[c].call \in Calls /\ Dispatch(call[c].call).wrap \in DOMAIN Cmds
    BY <1>2 DEF Waiting
  <2>3. call[c].call.via = "ndo" /\ call[c].call.api = "set_mac"
    BY <2>1, <2>2, MacAssumption DEF CmdOf
  <2>4. a.answer.status = 0
    BY <1>3, <1>5 DEF SetsAnswered, LastMac
  <2>. QED BY <1>3, <1>4, <2>1, <2>3, <2>4
<1>6. CASE LastMac.id # a.id
  <2>1. ~NdoWaits(c)
    BY <1>1, <1>3, <1>6 DEF MacWaits
  <2>2. call[c].call.via # "ndo"
    BY <1>2, <2>1 DEF NdoWaits, Waiting
  <2>3. hostmac' = hostmac
    BY <1>4, <2>2
  <2>. QED BY <1>3, <1>6, <2>3 DEF MacKept
<1>. QED BY <1>5, <1>6

(* A call that gives up keeps the old address.                             *)
LEMMA MacTimeout ==
  ASSUME CfgInv, MacKept, NEW c \in Clients, Timeout(c)
  PROVE  MacKept'
<1>1. Leave(c, -1) /\ latest' = latest
  BY TimeoutSteps DEF CfgInv
<1>2. hostmac' = hostmac
  <2>1. (-1) # 0
    OBVIOUS
  <2>. QED BY <1>1, <2>1, Zenon DEF Leave
<1>. QED BY <1>1, <1>2 DEF MacKept, LastMac

(* The firmware's step leaves lock and address alone.                      *)
LEMMA MacExecute ==
  ASSUME CfgInv, MacWaits, MacKept, Execute
  PROVE  MacWaits' /\ MacKept'
<1>0. CfgTypes /\ CallsInv
  BY DEF CfgInv
<1>1. UNCHANGED <<rtnl, hostmac, latest>>
  BY <1>0, ExecuteSteps
<1>2. ASSUME NEW d \in Clients, NdoWaits(d)' PROVE NdoWaits(d) /\ call'[d].id = call[d].id
  <2>1. call'[d].pc = call[d].pc /\ (call[d] # Idle => call'[d].id = call[d].id /\ call'[d].call = call[d].call)
    BY <1>0, ExecuteKeeps
  <2>2. call[d].pc = "wait" /\ call[d] # Idle
    BY <1>2, <2>1 DEF NdoWaits, Idle
  <2>. QED BY <1>2, <2>1, <2>2 DEF NdoWaits
<1>3. SameMac /\ MacKept'
  BY <1>1 DEF SameMac, LastMac, MacKept
<1>. QED BY <1>1, <1>2, <1>3, MacWaitsKeep

(* Every step keeps lock, last SET_MAC and address together.               *)
LEMMA MacStep ==
  ASSUME CfgInv, OwnLatest, MacWaits, SetsAnswered, MacKept, [CfgNext]_cfgvars
  PROVE  MacWaits' /\ MacKept'
<1>1. CASE Lose \/ Stray \/ Reset \/ Reload \/ Finished \/ UNCHANGED cfgvars
  <2>1. UNCHANGED <<call, rtnl, hostmac>> /\ (latest' = latest \/ latest' = <<>>)
    BY <1>1 DEF Lose, Stray, Reset, Reload, Finished, cfgvars
  <2>2. SameMac /\ MacKept'
    BY <2>1 DEF SameMac, LastMac, MacKept
  <2>3. \A d \in Clients : NdoWaits(d)' => NdoWaits(d) /\ call'[d].id = call[d].id
    BY <2>1 DEF NdoWaits
  <2>. QED BY <2>1, <2>2, <2>3, MacWaitsKeep
<1>. QED BY <1>1, MacBegin, MacSend, MacEnds, MacAnswer, MacTimeout, MacExecute DEF CfgNext

(* A set is answered with status 0.                                        *)
LEMMA SetsAnsweredStep ==
  ASSUME CfgInv, SetsAnswered, [CfgNext]_cfgvars
  PROVE  SetsAnswered'
<1>0. CfgTypes /\ CallsInv /\ QueueTypes /\ InTurn /\ LatestInv
  BY DEF CfgInv, CfgTypes
<1>1. ASSUME answers' \subseteq answers, LatestKept PROVE SetsAnswered'
  BY <1>1 DEF SetsAnswered, LatestKept
<1>2. CASE IssueMove
  <2>1. PICK c, f, q : c \in Clients /\ Issuing(c, f, q) /\ answers' = answers
    BY <1>2 DEF IssueMove
  <2>2. ASSUME NEW a \in answers', NEW cmd \in DOMAIN latest', a.id = latest'[cmd].frame.id
        PROVE  a.answer.status = 0
    <3>1. \/ cmd \in DOMAIN latest /\ latest'[cmd] = latest[cmd]
          \/ latest'[cmd] = [frame |-> f, acked |-> FALSE]
      BY <1>0, <2>1, IssueFacts
    <3>2. a.id < nid /\ f.id = nid /\ a.id \in Nat /\ nid \in Nat
      BY <1>0, <2>1, IssueFacts, QueueIds DEF InTurn
    <3>3. latest'[cmd] # [frame |-> f, acked |-> FALSE]
      BY <2>2, <3>2
    <3>. QED BY <2>1, <2>2, <3>1, <3>3 DEF SetsAnswered
  <2>. QED BY <2>2 DEF SetsAnswered
<1>3. CASE Execute
  <2>. DEFINE f == txq[1]
              b == [id |-> f.id, answer |-> DeviceAnswer(f.cmd)]
  <2>1. /\ latest' = latest /\ answers' \in {answers, answers \union {b}} /\ txq # <<>> /\ f \in CmdFrames
    BY <1>0, <1>3, ExecuteSteps
  <2>2. 1 \in 1 .. Len(txq)
    BY <1>0, <2>1 DEF QueueTypes
  <2>3. ASSUME NEW cmd \in DOMAIN latest, f.id = latest[cmd].frame.id PROVE DeviceAnswer(f.cmd).status = 0
    <3>1. f.cmd = cmd /\ Writes(cmd)
      BY <1>0, <2>2, <2>3 DEF LatestInv, LastOf
    <3>. QED BY <3>1 DEF DeviceAnswer, AnswerWith
  <2>4. ASSUME NEW a \in answers', NEW cmd \in DOMAIN latest', a.id = latest'[cmd].frame.id
        PROVE  a.answer.status = 0
    <3>1. CASE a \in answers
      BY <2>1, <2>4, <3>1 DEF SetsAnswered
    <3>2. CASE a = b
      <4>1. a.id = f.id /\ a.answer = DeviceAnswer(f.cmd)
        BY <3>2
      <4>. QED BY <2>1, <2>3, <2>4, <4>1
    <3>. QED BY <2>1, <2>4, <3>1, <3>2
  <2>. QED BY <2>4 DEF SetsAnswered
<1>4. ASSUME NEW c \in Clients, Begin(c) \/ SendRadio(c) PROVE SetsAnswered'
  <2>1. answers' = answers /\ regs' = regs
    BY <1>4 DEF Begin, SendRadio
  <2>. QED BY <1>0, <1>1, <1>2, <2>1, CallMoves DEF IssueMove
<1>5. ASSUME NEW c \in Clients, Answer(c) \/ Timeout(c) PROVE SetsAnswered'
  <2>1. answers' \subseteq answers
    BY <1>0, <1>5, AnswerSteps, TimeoutSteps
  <2>. QED BY <1>0, <1>1, <1>5, <2>1, AnswerKeeps
<1>6. CASE Lose \/ Stray \/ Reset \/ Reload \/ Finished \/ UNCHANGED cfgvars
  <2>1. answers' \subseteq answers /\ (latest' = latest \/ latest' = <<>>)
    BY <1>6 DEF Lose, Stray, Reset, Reload, Finished, cfgvars
  <2>2. LatestKept
    BY <2>1 DEF LatestKept
  <2>. QED BY <1>1, <2>1, <2>2
<1>. QED BY <1>3, <1>4, <1>5, <1>6 DEF CfgNext

MirrorInv == CfgInv /\ RadioInv /\ OwnLatest /\ MacWaits /\ SetsAnswered /\ MacKept

(* The invariant holds at first.                                           *)
LEMMA InitMirrorInv == CfgInit => MirrorInv
<1>. SUFFICES ASSUME CfgInit PROVE MirrorInv
  OBVIOUS
<1>1. latest = <<>> /\ answers = {} /\ \A c \in Clients : call[c] = Idle
  BY DEF CfgInit
<1>2. DOMAIN latest = {}
  BY <1>1
<1>3. \A c \in Clients : Free(c) /\ ~Sending(c) /\ ~NdoWaits(c)
  BY <1>1 DEF Idle, Free, Sending, NdoWaits
<1>4. RadioInv /\ MacWaits
  BY <1>2, <1>3 DEF RadioInv, Busy, MacWaits
<1>5. OwnLatest /\ SetsAnswered /\ MacKept
  BY <1>1, <1>2 DEF OwnLatest, SetsAnswered, MacKept
<1>. QED BY <1>4, <1>5, InitCfgInv DEF MirrorInv

(* Every step preserves it.                                                *)
LEMMA NextMirrorInv == MirrorInv /\ [CfgNext]_cfgvars => MirrorInv'
<1>. SUFFICES ASSUME MirrorInv, [CfgNext]_cfgvars PROVE MirrorInv'
  OBVIOUS
<1>1. CfgInv /\ RadioInv /\ OwnLatest /\ MacWaits /\ SetsAnswered /\ MacKept /\ CfgTypes /\ CallsInv
  BY DEF MirrorInv, CfgInv
<1>. QED BY <1>1, NextCfgInv, RadioStep, OwnLatestStep, MacStep, SetsAnsweredStep DEF MirrorInv

(* Hence it always holds.                                                  *)
LEMMA MirrorInductive == CfgSpec => []MirrorInv
<1>. QED BY InitMirrorInv, NextMirrorInv, PTL DEF CfgSpec

(* ctrl->radio_onoff and the address of the interface are the firmware's   *)
(* once the last call that changes them was acknowledged, unless two radio *)
(* calls overlapped: the address because of rtnl_lock, the radio state     *)
(* although nothing protects it.                                           *)
THEOREM CopiesAgree == CfgSpec => []MirrorsAgree
<1>1. MirrorInv => MirrorsAgree
  <2>. SUFFICES ASSUME MirrorInv PROVE MirrorsAgree
    OBVIOUS
  <2>0. CfgInv /\ RadioInv /\ MacKept /\ LatestInv /\ CallsInv /\ CfgTypes /\ QueueTypes
    BY DEF MirrorInv, CfgInv, CfgTypes
  <2>1. \A cmd \in DOMAIN latest : latest[cmd].acked => regs[cmd].payload = latest[cmd].frame.payload
    BY <2>0 DEF LatestInv, LastOf, DoneLast
  <2>2. ASSUME "RADIO_ONOFF" \in DOMAIN latest, latest["RADIO_ONOFF"].acked, ~RadioBusy, ~mixed
        PROVE  regs["RADIO_ONOFF"].payload = <<radio>>
    <3>1. \A c \in Clients : ~Sending(c)
      BY <2>0, <2>2, SendingBusy DEF RadioBusy, Busy
    <3>2. mixed = FALSE
      BY <2>0, <2>2 DEF CfgTypes, PlanTypes
    <3>3. latest["RADIO_ONOFF"].frame.payload = <<radio>>
      BY <2>0, <2>2, <3>1, <3>2 DEF RadioInv
    <3>. QED BY <2>1, <2>2, <3>3
  <2>3. ASSUME "SET_MAC" \in DOMAIN latest, latest["SET_MAC"].acked
        PROVE  Take(regs["SET_MAC"].payload, 6) = hostmac
    <3>1. LastMac \in CmdFrames /\ LastMac.cmd = "SET_MAC"
      BY <2>0, <2>3 DEF LastMac, QueueTypes, LatestInv, LastOf
    <3>2. Take(LastMac.payload, 6) = LastMac.args.bytes
      BY <3>1, MacFrames
    <3>3. hostmac = LastMac.args.bytes /\ regs["SET_MAC"].payload = LastMac.payload
      BY <2>0, <2>1, <2>3 DEF MacKept, LastMac
    <3>. QED BY <3>2, <3>3
  <2>. QED BY <2>2, <2>3 DEF MirrorsAgree
<1>. QED BY <1>1, MirrorInductive, PTL

-----------------------------------------------------------------------------
(* load_config.  Every line of the file has been made or is still to be    *)
(* made; while nothing is lost, the command of a line is the one the file  *)
(* still waits for, or is done and in force unless someone else has set    *)
(* the parameter since.                                                    *)
Lines == Plans[plan][Conf]
Made == Len(Lines) - left[Conf]
LineMade(f) == \E i \in 1 .. Made : \E cl \in Lines[i] : f.cmd = CmdOf(cl)
InFlight(f) == /\ \E i \in 1 .. Len(txq) : txq[i] = f
               /\ call[Conf].pc = "wait" /\ call[Conf].id = f.id
Applied(f) == /\ \A i \in 1 .. Len(txq) : txq[i].id > f.id
              /\ f.cmd \in DOMAIN regs
              /\ regs[f.cmd].payload = f.payload \/ latest[f.cmd].frame.client # Conf
InForce(f) ==
  /\ f.cmd \in DOMAIN latest /\ latest[f.cmd].frame.id >= f.id
  /\ latest[f.cmd].frame.client = Conf => latest[f.cmd].frame = f
  /\ InFlight(f) \/ Applied(f)
NoRadioLine == call[Conf] # Idle => ~IsRadio(call[Conf].disp)
LoadedInv ==
  /\ IsFiniteSet(loaded) /\ Cardinality(loaded) = Made
  /\ \A f \in loaded : f.client = Conf /\ f.id \in Nat /\ f.id < nid /\ LineMade(f)
FileInv == ~reload /\ faults = 0 => \A f \in loaded : InForce(f)

(* The last sets are commands with an id.                                  *)
LEMMA LatestIds ==
  ASSUME QueueTypes
  PROVE  \A cmd \in DOMAIN latest : latest[cmd].frame \in CmdFrames /\ latest[cmd].frame.id \in Nat
BY DEF QueueTypes, CmdFrames

(* A line of the file is issued and waited for.                            *)
LEMMA ConfBegin ==
  ASSUME CfgInv, Begin(Conf)
  PROVE  \E cl, f, q : /\ Issuing(Conf, f, q) /\ q.call = cl /\ q.pc = "wait" /\ f.cmd = CmdOf(cl) /\ Writes(f.cmd)
                       /\ Made + 1 \in DOMAIN Lines /\ cl \in Lines[Made + 1] /\ ~IsRadio(q.disp)
                       /\ Free(Conf) /\ UNCHANGED <<plan, regs, reload, faults>>
                       /\ left'[Conf] = left[Conf] - 1 /\ loaded' = loaded \union {f}
<1>0. CfgTypes /\ Conf \in Clients
  BY ConfAssumption DEF CfgInv
<1>1. PICK cl : /\ BeginsWith(Conf, cl)
                /\ Len(Plans[plan][Conf]) - left[Conf] + 1 \in DOMAIN Plans[plan][Conf]
                /\ cl \in Plans[plan][Conf][Len(Plans[plan][Conf]) - left[Conf] + 1]
  BY <1>0, BeginSteps
<1>2. Made + 1 \in DOMAIN Lines /\ cl \in Lines[Made + 1]
  BY <1>1 DEF Made, Lines
<1>3. plan \in DOMAIN Plans /\ DOMAIN left = Clients
  BY <1>0 DEF CfgTypes, PlanTypes
<1>4. /\ Dispatch(cl).wrap # "" /\ Dispatch(cl).wrap # "radio_onoff"
      /\ Cmds[Dispatch(cl).wrap].sync /\ Writes(CmdOf(cl))
  BY <1>2, <1>3, FileAssumption DEF Lines
<1>5. PICK f, q : Issuing(Conf, f, q) /\ q.call = cl
  BY <1>1, <1>4 DEF BeginsWith, IsRadio
<1>6. /\ q.disp = Dispatch(cl) /\ q.pc = "wait" /\ f.cmd = CmdOf(cl) /\ loaded' = loaded \union {f}
  BY <1>4, <1>5 DEF Issuing
<1>7. /\ Free(Conf) /\ UNCHANGED <<plan, regs, reload, faults>> /\ left'[Conf] = left[Conf] - 1
  BY <1>0, <1>1, <1>3 DEF BeginsWith
<1>. QED BY <1>2, <1>4, <1>5, <1>6, <1>7 DEF IsRadio

(* A line stays in force when another command is issued.                   *)
LEMMA ForceIssue ==
  ASSUME CfgInv, NEW c \in Clients, NEW e, NEW q, Issuing(c, e, q), UNCHANGED regs,
         NEW f, f.id \in Nat, f.id < nid, InForce(f),
         c # Conf \/ (e.cmd # f.cmd /\ call[Conf].pc # "wait")
  PROVE  InForce(f)'
<1>0. CfgTypes /\ CallsInv /\ QueueTypes /\ Conf \in Clients
  BY ConfAssumption DEF CfgInv, CfgTypes
<1>1. /\ e.id = nid /\ nid \in Nat /\ Len(txq') = Len(txq) + 1 /\ Len(txq) \in Nat
      /\ \A i \in 1 .. Len(txq') : \/ i \in 1 .. Len(txq) /\ txq'[i] = txq[i]
                                   \/ i = Len(txq) + 1 /\ txq'[i] = e
      /\ \A cmd \in DOMAIN latest' :
            \/ cmd \in DOMAIN latest /\ latest'[cmd] = latest[cmd]
            \/ cmd = e.cmd /\ latest'[cmd] = [frame |-> e, acked |-> FALSE]
      /\ \A cmd \in DOMAIN latest : cmd \in DOMAIN latest'
  BY <1>0, IssueFacts
<1>2. e.client = c
  BY DEF Issuing
<1>3. f.cmd \in DOMAIN latest' /\ f.cmd \in DOMAIN latest
  BY <1>1 DEF InForce
<1>4. \/ latest'[f.cmd].frame = latest[f.cmd].frame
      \/ c # Conf /\ latest'[f.cmd].frame = e
  <2>1. CASE latest'[f.cmd] = latest[f.cmd]
    BY <2>1
  <2>2. CASE f.cmd = e.cmd /\ latest'[f.cmd] = [frame |-> e, acked |-> FALSE]
    BY <2>2
  <2>. QED BY <1>1, <1>3, <2>1, <2>2
<1>5. latest'[f.cmd].frame.id >= f.id
  <2>1. CASE latest'[f.cmd].frame = latest[f.cmd].frame
    BY <2>1 DEF InForce
  <2>2. CASE latest'[f.cmd].frame = e
    BY <1>1, <2>2
  <2>. QED BY <1>4, <2>1, <2>2
<1>6. latest'[f.cmd].frame.client = Conf => latest'[f.cmd].frame = f
  BY <1>2, <1>4 DEF InForce
<1>7. CASE InFlight(f)
  <2>1. c # Conf /\ call'[Conf] = call[Conf]
    <3>1. c # Conf
      BY <1>7 DEF InFlight
    <3>2. call' = [call EXCEPT ![c] = q]
      BY DEF Issuing
    <3>. QED BY <1>0, <3>1, <3>2, CallAt
  <2>2. PICK i \in 1 .. Len(txq) : txq[i] = f
    BY <1>7 DEF InFlight
  <2>3. i \in 1 .. Len(txq') /\ txq'[i] = f
    BY <1>1, <2>2
  <2>4. InFlight(f)'
    BY <1>7, <2>1, <2>3 DEF InFlight
  <2>. QED BY <1>3, <1>5, <1>6, <2>4 DEF InForce
<1>8. CASE Applied(f)
  <2>1. \A i \in 1 .. Len(txq') : txq'[i].id > f.id
    BY <1>1, <1>8 DEF Applied
  <2>2. regs'[f.cmd].payload = f.payload \/ latest'[f.cmd].frame.client # Conf
    BY <1>2, <1>4, <1>8 DEF Applied
  <2>3. Applied(f)'
    BY <1>8, <2>1, <2>2 DEF Applied
  <2>. QED BY <1>3, <1>5, <1>6, <2>3 DEF InForce
<1>. QED BY <1>7, <1>8 DEF InForce

(* ... when the firmware does a command.                                   *)
LEMMA ForceExecute ==
  ASSUME CfgInv, Execute, NEW f, f.id \in Nat, InForce(f)
  PROVE  InForce(f)'
<1>0. CfgTypes /\ CallsInv /\ QueueTypes /\ LatestInv /\ InTurn /\ Conf \in Clients
  BY ConfAssumption DEF CfgInv, CfgTypes
<1>. DEFINE e == txq[1]
<1>1. /\ txq # <<>> /\ latest' = latest /\ txq \in Seq(CmdFrames) /\ txq' = Tail(txq)
      /\ regs' = IF Writes(e.cmd) THEN Put(regs, e.cmd, [payload |-> e.payload, args |-> e.args]) ELSE regs
  BY <1>0, ExecuteSteps DEF QueueTypes
<1>2. /\ 1 \in 1 .. Len(txq) /\ Len(txq) \in Nat /\ Len(txq') = Len(txq) - 1
      /\ \A i \in 1 .. Len(txq') : i + 1 \in 1 .. Len(txq) /\ txq'[i] = txq[i + 1]
  BY <1>1
<1>3. /\ f.cmd \in DOMAIN latest /\ latest[f.cmd].frame.id >= f.id /\ latest[f.cmd].frame.id \in Nat
      /\ latest[f.cmd].frame.client = Conf => latest[f.cmd].frame = f
      /\ Writes(f.cmd)
  BY <1>0, LatestIds DEF InForce, LatestInv, LastOf
<1>4. \A i \in 1 .. Len(txq) : txq[i].id \in Nat
  BY <1>0, QueueIds
<1>. HIDE DEF e
<1>5. CASE InFlight(f)
  <2>1. PICK i \in 1 .. Len(txq) : txq[i] = f
    BY <1>5 DEF InFlight
  <2>2. CASE i = 1
    <3>1. e = f
      BY <2>1, <2>2 DEF e
    <3>2. f.cmd \in DOMAIN regs' /\ regs'[f.cmd].payload = f.payload
      BY <1>1, <1>3, <3>1 DEF Put
    <3>3. ASSUME NEW j \in 1 .. Len(txq') PROVE txq'[j].id > f.id
      <4>1. j + 1 \in 1 .. Len(txq) /\ txq'[j] = txq[j + 1] /\ 1 < j + 1
        BY <1>2
      <4>. QED BY <1>0, <1>2, <1>4, <2>1, <2>2, <4>1 DEF InTurn
    <3>4. Applied(f)'
      BY <3>2, <3>3 DEF Applied
    <3>. QED BY <1>1, <1>3, <3>4 DEF InForce
  <2>3. CASE i # 1
    <3>1. i - 1 \in 1 .. Len(txq')
      BY <1>2, <2>1, <2>3
    <3>2. txq'[i - 1] = f
      BY <1>2, <2>1, <3>1
    <3>3. call'[Conf].pc = "wait" /\ call'[Conf].id = f.id
      <4>1. call[Conf].pc = "wait" /\ call[Conf].id = f.id /\ call[Conf] # Idle
        BY <1>5 DEF InFlight, Idle
      <4>. QED BY <1>0, <4>1, ExecuteKeeps
    <3>4. InFlight(f)'
      BY <3>1, <3>2, <3>3 DEF InFlight
    <3>. QED BY <1>1, <1>3, <3>4 DEF InForce
  <2>. QED BY <2>2, <2>3
<1>6. CASE Applied(f)
  <2>1. \A i \in 1 .. Len(txq') : txq'[i].id > f.id
    BY <1>2, <1>6 DEF Applied
  <2>2. f.cmd \in DOMAIN regs' /\ (regs'[f.cmd].payload = f.payload \/ latest'[f.cmd].frame.client # Conf)
    <3>1. CASE e.cmd # f.cmd \/ ~Writes(e.cmd)
      BY <1>1, <1>6, <3>1 DEF Applied, Put
    <3>2. CASE e.cmd = f.cmd /\ Writes(e.cmd)
      <4>1. f.cmd \in DOMAIN regs'
        BY <1>1, <3>2 DEF Put
      <4>2. e.id > f.id /\ e.id <= latest[f.cmd].frame.id /\ e.id \in Nat
        <5>1. txq[1].cmd = f.cmd
          BY <3>2 DEF e
        <5>2. txq[1].id > f.id /\ txq[1].id <= latest[f.cmd].frame.id /\ txq[1].id \in Nat
          BY <1>0, <1>2, <1>3, <1>4, <1>6, <5>1 DEF Applied, LatestInv, LastOf
        <5>. QED BY <5>2 DEF e
      <4>3. latest[f.cmd].frame.id # f.id
        BY <1>3, <4>2
      <4>4. latest[f.cmd].frame.client # Conf
        BY <1>3, <4>3
      <4>. QED BY <1>1, <4>1, <4>4
    <3>. QED BY <3>1, <3>2
  <2>3. Applied(f)'
    BY <2>1, <2>2 DEF Applied
  <2>. QED BY <1>1, <1>3, <2>3 DEF InForce
<1>. QED BY <1>5, <1>6 DEF InForce

(* ... when queue and parameters do not change.                            *)
LEMMA ForceKept ==
  ASSUME LatestKept, DOMAIN latest' = DOMAIN latest, UNCHANGED <<txq, regs>>, NEW f, InForce(f),
         Applied(f) \/ (call'[Conf].pc = call[Conf].pc /\ call'[Conf].id = call[Conf].id)
  PROVE  InForce(f)'
<1>1. f.cmd \in DOMAIN latest /\ f.cmd \in DOMAIN latest' /\ latest'[f.cmd].frame = latest[f.cmd].frame
  BY DEF InForce, LatestKept
<1>2. CASE Applied(f)
  <2>1. Applied(f)'
    BY <1>1, <1>2 DEF Applied
  <2>. QED BY <1>1, <2>1 DEF InForce
<1>3. CASE InFlight(f) /\ call'[Conf].pc = call[Conf].pc /\ call'[Conf].id = call[Conf].id
  <2>1. InFlight(f)'
    BY <1>3 DEF InFlight
  <2>. QED BY <1>1, <2>1 DEF InForce
<1>. QED BY <1>2, <1>3 DEF InForce

(* ... when a call ends and nothing was lost.                              *)
LEMMA ForceEnds ==
  ASSUME CfgInv, NEW c \in Clients, Answer(c) \/ Timeout(c), faults' = 0, NEW f, f.id \in Nat, InForce(f)
  PROVE  InForce(f)' /\ faults = 0
<1>0. CfgTypes /\ CallsInv /\ QueueTypes /\ InTurn /\ Conf \in Clients /\ faults \in Nat
  BY ConfAssumption DEF CfgInv, CfgTypes, PlanTypes
<1>1. LatestKept /\ UNCHANGED <<txq, regs>>
  BY <1>0, AnswerKeeps, AnswerSteps, TimeoutSteps
<1>2. DOMAIN latest' = DOMAIN latest
  <2>1. latest' = latest \/ \E a \in answers : Acked(a)
    BY <1>0, AnswerSteps, TimeoutSteps
  <2>. QED BY <1>0, <2>1, AckedFacts
<1>3. faults = 0 /\ (Timeout(c) => ~Pending(call[c].id))
  <2>1. CASE Answer(c)
    <3>1. faults' = faults
      BY <1>0, <2>1, AnswerSteps
    <3>2. ~Timeout(c) \/ ~Pending(call[c].id)
      <4>1. Timeout(c) => faults' = IF Pending(call[c].id) THEN faults + 1 ELSE faults
        BY <1>0, TimeoutSteps
      <4>. QED BY <1>0, <3>1, <4>1
    <3>. QED BY <3>1, <3>2
  <2>2. CASE Timeout(c)
    <3>1. faults' = IF Pending(call[c].id) THEN faults + 1 ELSE faults
      BY <1>0, <2>2, TimeoutSteps
    <3>. QED BY <1>0, <3>1
  <2>. QED BY <2>1, <2>2
<1>4. CASE c # Conf
  <2>1. PICK q : call' = [call EXCEPT ![c] = q]
    BY <1>0, AnswerSteps, TimeoutSteps
  <2>2. call'[Conf] = call[Conf]
    BY <1>0, <1>4, <2>1, CallAt
  <2>. QED BY <1>1, <1>2, <1>3, <2>2, ForceKept
<1>5. CASE c = Conf
  <2>1. ~InFlight(f)
    <3>. SUFFICES ASSUME InFlight(f) PROVE FALSE
      OBVIOUS
    <3>1. PICK i \in 1 .. Len(txq) : txq[i] = f
      BY DEF InFlight
    <3>2. call[c].id = f.id /\ i \in DOMAIN txq
      <4>1. txq \in Seq(CmdFrames)
        BY <1>0 DEF QueueTypes
      <4>. QED BY <1>5, <3>1, <4>1 DEF InFlight
    <3>3. CASE Timeout(c)
      BY <1>3, <3>1, <3>2, <3>3 DEF Pending
    <3>4. CASE Answer(c)
      <4>1. PICK a \in answers : a.id = f.id
        BY <1>0, <3>2, <3>4, AnswerSteps
      <4>2. a.id < txq[i].id
        BY <1>0, <3>1, <4>1 DEF InTurn
      <4>. QED BY <3>1, <4>1, <4>2
    <3>. QED BY <3>3, <3>4
  <2>2. Applied(f)
    BY <2>1 DEF InForce
  <2>. QED BY <1>1, <1>2, <1>3, <2>2, ForceKept
<1>. QED BY <1>4, <1>5

(* What a step of another caller, or of the firmware, leaves of the file's *)
(* run.                                                                    *)
LoadKept == /\ loaded' = loaded /\ left'[Conf] = left[Conf] /\ plan' = plan
            /\ nid \in Nat /\ nid' \in Nat /\ nid <= nid'

(* The record of the lines made does not change by itself.                 *)
LEMMA LoadedKept ==
  ASSUME LoadedInv, LoadKept
  PROVE  LoadedInv'
<1>1. Made' = Made /\ Lines' = Lines
  BY DEF LoadKept, Made, Lines
<1>2. \A f \in loaded : LineMade(f)'
  <2>. SUFFICES ASSUME NEW f \in loaded PROVE \E i \in 1 .. Made' : \E cl \in Lines'[i] : f.cmd = CmdOf(cl)
    BY DEF LineMade, CmdOf
  <2>. QED BY <1>1 DEF LoadedInv, LineMade
<1>3. \A f \in loaded : f.id < nid'
  BY DEF LoadedInv, LoadKept
<1>. QED BY <1>1, <1>2, <1>3 DEF LoadedInv, LoadKept

(* load_config makes its next line.                                        *)
LEMMA LoadedBegin ==
  ASSUME CfgInv, LoadedInv, FileInv, Begin(Conf)
  PROVE  LoadedInv' /\ FileInv' /\ NoRadioLine'
<1>0. CfgTypes /\ CallsInv /\ QueueTypes /\ Conf \in Clients /\ plan \in DOMAIN Plans
  BY ConfAssumption DEF CfgInv, CfgTypes, PlanTypes
<1>1. PICK cl, e, q :
        /\ Issuing(Conf, e, q) /\ q.call = cl /\ q.pc = "wait" /\ e.cmd = CmdOf(cl) /\ Writes(e.cmd)
        /\ Made + 1 \in DOMAIN Lines /\ cl \in Lines[Made + 1] /\ ~IsRadio(q.disp)
        /\ Free(Conf) /\ UNCHANGED <<plan, regs, reload, faults>>
        /\ left'[Conf] = left[Conf] - 1 /\ loaded' = loaded \union {e}
  BY ConfBegin
<1>2. /\ e.id = nid /\ nid \in Nat /\ nid' = nid + 1 /\ e.client = Conf /\ q.id = nid
      /\ Len(txq') = Len(txq) + 1 /\ Len(txq) \in Nat /\ txq' = Append(txq, e) /\ txq \in Seq(CmdFrames)
  BY <1>0, <1>1, IssueFacts DEF Issuing, QueueTypes
<1>3. left[Conf] \in Int /\ Len(Lines) \in Nat /\ DOMAIN Lines = 1 .. Len(Lines) /\ Made \in Int
  <2>1. DOMAIN Lines = 1 .. Len(Lines) /\ Len(Lines) \in Nat
    BY <1>0, PlanAssumption DEF Lines
  <2>2. left[Conf] \in Int
    <3>1. left[Conf] \in 0 .. Len(Lines)
      BY <1>0 DEF CfgTypes, PlanTypes, Lines
    <3>. QED BY <2>1, <3>1
  <2>. QED BY <2>1, <2>2 DEF Made
<1>4. Lines' = Lines /\ Made' = Made + 1
  <2>1. Lines' = Lines
    BY <1>1 DEF Lines
  <2>. QED BY <1>1, <1>3, <2>1 DEF Made
<1>5. e \notin loaded
  BY <1>2 DEF LoadedInv
<1>6. IsFiniteSet(loaded') /\ Cardinality(loaded') = Made'
  <2>1. IsFiniteSet(loaded) /\ Cardinality(loaded) = Made
    BY DEF LoadedInv
  <2>2. IsFiniteSet(loaded \union {e}) /\ Cardinality(loaded \union {e}) = Cardinality(loaded) + 1
    BY <1>5, <2>1, FS_AddElement
  <2>. QED BY <1>1, <1>4, <2>1, <2>2
<1>7. ASSUME NEW f \in loaded' PROVE \E i \in 1 .. Made' : \E k \in Lines'[i] : f.cmd = CmdOf(k)
  <2>1. CASE f = e
    <3>1. Made + 1 \in 1 .. Made'
      BY <1>1, <1>3, <1>4
    <3>. QED BY <1>1, <1>4, <2>1, <3>1
  <2>2. CASE f \in loaded
    <3>1. PICK i \in 1 .. Made : \E k \in Lines[i] : f.cmd = CmdOf(k)
      BY <2>2 DEF LoadedInv, LineMade
    <3>2. i \in 1 .. Made'
      BY <1>3, <1>4, <3>1
    <3>. QED BY <1>4, <3>1, <3>2
  <2>. QED BY <1>1, <2>1, <2>2
<1>8. \A f \in loaded' : f.client = Conf /\ f.id \in Nat /\ f.id < nid'
  BY <1>1, <1>2 DEF LoadedInv
<1>9. LoadedInv'
  BY <1>6, <1>7, <1>8 DEF LoadedInv, LineMade, CmdOf
<1>10. call'[Conf] = q
  BY <1>0, <1>1, CallAt DEF Issuing
<1>11. NoRadioLine'
  BY <1>1, <1>10 DEF NoRadioLine
<1>12. ASSUME ~reload, faults = 0, NEW f \in loaded' PROVE InForce(f)'
  <2>1. CASE f = e
    <3>1. e.cmd \in DOMAIN latest' /\ latest'[e.cmd].frame = e
      BY <1>1 DEF Issuing, Put
    <3>2. Len(txq) + 1 \in 1 .. Len(txq') /\ txq'[Len(txq) + 1] = e
      BY <1>2
    <3>3. InFlight(e)'
      BY <1>1, <1>2, <1>10, <3>2 DEF InFlight
    <3>4. latest'[e.cmd].frame.id >= e.id
      BY <1>2, <3>1
    <3>. QED BY <2>1, <3>1, <3>3, <3>4 DEF InForce
  <2>2. CASE f \in loaded
    <3>1. InForce(f) /\ f.id \in Nat /\ f.id < nid
      BY <1>12, <2>2 DEF FileInv, LoadedInv
    <3>2. call[Conf].pc # "wait"
      BY <1>1 DEF Free
    <3>3. e.cmd # f.cmd
      <4>1. PICK i \in 1 .. Made : \E k \in Lines[i] : f.cmd = CmdOf(k)
        BY <2>2 DEF LoadedInv, LineMade
      <4>2. PICK k \in Lines[i] : f.cmd = CmdOf(k)
        BY <4>1
      <4>3. i \in DOMAIN Lines /\ i # Made + 1
        BY <1>1, <1>3, <4>1
      <4>. DEFINE j == Made + 1
      <4>4. j \in DOMAIN Plans[plan][Conf] /\ cl \in Plans[plan][Conf][j] /\ i # j
        BY <1>1, <4>3 DEF Lines
      <4>5. i \in DOMAIN Plans[plan][Conf] /\ k \in Plans[plan][Conf][i]
        BY <4>2, <4>3 DEF Lines
      <4>. HIDE DEF j
      <4>6. CmdOf(k) = CmdOf(cl) => j = i
        BY <1>0, <4>4, <4>5, FileAssumption
      <4>. QED BY <1>1, <4>2, <4>4, <4>6
    <3>. QED BY <1>0, <1>1, <3>1, <3>2, <3>3, ForceIssue
  <2>. QED BY <1>1, <2>1, <2>2
<1>13. FileInv'
  BY <1>1, <1>12 DEF FileInv
<1>. QED BY <1>9, <1>11, <1>13

(* Another client makes a call.                                            *)
LEMMA LoadedOthers ==
  ASSUME CfgInv, LoadedInv, FileInv, NoRadioLine, NEW c \in Clients, Begin(c) \/ SendRadio(c), c # Conf
  PROVE  LoadedInv' /\ FileInv' /\ NoRadioLine'
<1>0. CfgTypes /\ CallsInv /\ QueueTypes /\ Conf \in Clients /\ nid \in Nat /\ DOMAIN left = Clients
  BY ConfAssumption DEF CfgInv, CfgTypes, QueueTypes, PlanTypes
<1>1. UNCHANGED <<plan, regs, reload, faults>> /\ left'[Conf] = left[Conf]
  BY <1>0 DEF Begin, SendRadio
<1>2. \/ \E f, q : Issuing(c, f, q)
      \/ Quiet /\ \E q : call' = [call EXCEPT ![c] = q]
  <2>1. CASE SendRadio(c)
    BY <1>0, <2>1, SendSteps
  <2>2. CASE Begin(c)
    <3>1. PICK cl : BeginsWith(c, cl)
      BY <1>0, <2>2, BeginSteps
    <3>. QED BY <3>1, Zenon DEF BeginsWith
  <2>. QED BY <2>1, <2>2
<1>3. ASSUME NEW e, NEW q, Issuing(c, e, q) PROVE LoadedInv' /\ FileInv' /\ NoRadioLine'
  <2>1. call'[Conf] = call[Conf] /\ loaded' = loaded /\ nid' = nid + 1
    BY <1>0, <1>3, CallAt DEF Issuing
  <2>2. LoadedInv'
    BY <1>0, <1>1, <2>1, LoadedKept DEF LoadKept
  <2>3. ASSUME ~reload, faults = 0, NEW f \in loaded PROVE InForce(f)'
    <3>1. InForce(f) /\ f.id \in Nat /\ f.id < nid
      BY <2>3 DEF FileInv, LoadedInv
    <3>. QED BY <1>1, <1>3, <3>1, ForceIssue
  <2>. QED BY <1>1, <2>1, <2>2, <2>3 DEF FileInv, NoRadioLine
<1>4. ASSUME NEW q, Quiet, call' = [call EXCEPT ![c] = q] PROVE LoadedInv' /\ FileInv' /\ NoRadioLine'
  <2>1. call'[Conf] = call[Conf] /\ loaded' = loaded /\ nid' = nid /\ UNCHANGED <<txq, latest>>
    BY <1>0, <1>4, CallAt DEF Quiet
  <2>2. LoadedInv'
    BY <1>0, <1>1, <2>1, LoadedKept DEF LoadKept
  <2>3. ASSUME ~reload, faults = 0, NEW f \in loaded PROVE InForce(f)'
    <3>1. InForce(f) /\ LatestKept
      BY <2>1, <2>3 DEF FileInv, LatestKept
    <3>. QED BY <1>1, <2>1, <3>1, ForceKept
  <2>. QED BY <1>1, <2>1, <2>2, <2>3 DEF FileInv, NoRadioLine
<1>. QED BY <1>2, <1>3, <1>4

(* A call ends.                                                            *)
LEMMA LoadedEnds ==
  ASSUME CfgInv, LoadedInv, FileInv, NoRadioLine, NEW c \in Clients, Answer(c) \/ Timeout(c)
  PROVE  LoadedInv' /\ FileInv' /\ NoRadioLine'
<1>0. CfgTypes /\ CallsInv /\ Conf \in Clients /\ nid \in Nat /\ faults \in Nat
  BY ConfAssumption DEF CfgInv, CfgTypes, QueueTypes, PlanTypes
<1>1. UNCHANGED <<plan, left, reload, nid, loaded>>
  BY <1>0, AnswerSteps, TimeoutSteps
<1>2. LoadedInv'
  BY <1>0, <1>1, LoadedKept DEF LoadKept
<1>3. NoRadioLine'
  <2>1. PICK q : call' = [call EXCEPT ![c] = q] /\ Continues(q, call[c])
    BY <1>0, AnswerSteps, TimeoutSteps
  <2>2. call[c] # Idle
    BY <1>0, AnswerSteps, TimeoutSteps DEF Waiting
  <2>3. call'[c] = q /\ \A d \in Clients : d # c => call'[d] = call[d]
    BY <1>0, <2>1, CallAt
  <2>. QED BY <1>0, <2>1, <2>2, <2>3 DEF NoRadioLine, Continues
<1>4. faults' = 0 => faults = 0
  <2>1. faults' = faults \/ faults' = faults + 1
    BY <1>0, AnswerSteps, TimeoutSteps
  <2>. QED BY <1>0, <2>1
<1>5. ASSUME ~reload, faults' = 0, NEW f \in loaded PROVE InForce(f)'
  <2>1. InForce(f) /\ f.id \in Nat
    BY <1>4, <1>5 DEF FileInv, LoadedInv
  <2>. QED BY <1>5, <2>1, ForceEnds
<1>6. FileInv'
  BY <1>1, <1>5 DEF FileInv
<1>. QED BY <1>2, <1>3, <1>6

(* Every step keeps the record and the lines in force.                     *)
LEMMA LoadedStep ==
  ASSUME CfgInv, LoadedInv, FileInv, NoRadioLine, [CfgNext]_cfgvars
  PROVE  LoadedInv' /\ FileInv' /\ NoRadioLine'
<1>0. CfgTypes /\ CallsInv /\ Conf \in Clients /\ nid \in Nat /\ faults \in Nat /\ plan \in DOMAIN Plans /\ DOMAIN left = Clients
  BY ConfAssumption DEF CfgInv, CfgTypes, QueueTypes, PlanTypes
<1>1. ASSUME NEW c \in Clients, SendRadio(c) PROVE c # Conf
  BY <1>0, <1>1, SendSteps, SendingBusy DEF NoRadioLine, Sending, Busy
<1>2. CASE Execute
  <2>1. UNCHANGED <<plan, left, reload, nid, loaded, faults>>
    BY <1>0, <1>2, ExecuteSteps
  <2>2. LoadedInv'
    BY <1>0, <2>1, LoadedKept DEF LoadKept
  <2>3. NoRadioLine'
    BY <1>0, <1>2, ExecuteKeeps DEF NoRadioLine
  <2>4. ASSUME ~reload, faults = 0, NEW f \in loaded PROVE InForce(f)'
    <3>1. InForce(f) /\ f.id \in Nat
      BY <2>4 DEF FileInv, LoadedInv
    <3>. QED BY <1>2, <3>1, ForceExecute
  <2>. QED BY <2>1, <2>2, <2>3, <2>4 DEF FileInv
<1>3. CASE Lose \/ Reset
  <2>1. UNCHANGED <<plan, left, nid, loaded, call>> /\ (faults' = faults + 1 \/ reload' = TRUE)
    BY <1>3 DEF Lose, Reset
  <2>2. LoadedInv'
    BY <1>0, <2>1, LoadedKept DEF LoadKept
  <2>3. ~(~reload' /\ faults' = 0)
    BY <1>0, <2>1
  <2>. QED BY <2>1, <2>2, <2>3 DEF FileInv, NoRadioLine
<1>4. CASE Stray \/ Finished \/ UNCHANGED cfgvars
  <2>1. UNCHANGED <<plan, left, nid, loaded, call, faults, reload, txq, regs, latest>>
    BY <1>4 DEF Stray, Finished, cfgvars
  <2>2. LoadedInv'
    BY <1>0, <2>1, LoadedKept DEF LoadKept
  <2>3. ASSUME ~reload, faults = 0, NEW f \in loaded PROVE InForce(f)'
    <3>1. InForce(f) /\ LatestKept
      BY <2>1, <2>3 DEF FileInv, LatestKept
    <3>. QED BY <2>1, <3>1, ForceKept
  <2>. QED BY <2>1, <2>2, <2>3 DEF FileInv, NoRadioLine
<1>5. CASE Reload
  <2>1. loaded' = {} /\ call' = call /\ plan' = plan /\ left'[Conf] = Len(Lines)
    BY <1>0, <1>5 DEF Reload, Lines
  <2>2. Made' = 0
    <3>1. Len(Lines) \in Nat
      BY <1>0, PlanAssumption DEF Lines
    <3>. QED BY <2>1, <3>1 DEF Made, Lines
  <2>3. IsFiniteSet(loaded') /\ Cardinality(loaded') = 0
    BY <2>1, FS_EmptySet
  <2>. QED BY <2>1, <2>2, <2>3 DEF LoadedInv, FileInv, NoRadioLine
<1>. QED BY <1>1, <1>2, <1>3, <1>4, <1>5, LoadedBegin, LoadedOthers, LoadedEnds DEF CfgNext

LoadInv == CfgInv /\ LoadedInv /\ FileInv /\ NoRadioLine

(* The invariant holds at first.                                           *)
LEMMA InitLoadInv == CfgInit => LoadInv
<1>. SUFFICES ASSUME CfgInit PROVE LoadInv
  OBVIOUS
<1>1. /\ plan \in DOMAIN Plans /\ loaded = {} /\ call[Conf] = Idle /\ left[Conf] = Len(Lines)
  BY ConfAssumption DEF CfgInit, Lines
<1>2. Made = 0
  <2>1. Len(Lines) \in Nat
    BY <1>1, ConfAssumption, PlanAssumption DEF Lines
  <2>. QED BY <1>1, <2>1 DEF Made
<1>3. IsFiniteSet(loaded) /\ Cardinality(loaded) = 0
  BY <1>1, FS_EmptySet
<1>. QED BY <1>1, <1>2, <1>3, InitCfgInv DEF LoadInv, LoadedInv, FileInv, NoRadioLine

(* Every step preserves it.                                                *)
LEMMA NextLoadInv == LoadInv /\ [CfgNext]_cfgvars => LoadInv'
<1>. QED BY NextCfgInv, LoadedStep DEF LoadInv

(* Hence it always holds.                                                  *)
LEMMA LoadInductive == CfgSpec => []LoadInv
<1>. QED BY InitLoadInv, NextLoadInv, PTL DEF CfgSpec

(* When load_config has run to its last line after a (re)start of the      *)
(* firmware and nothing was lost, every line has been sent, and each       *)
(* parameter of the file has the file's value, or one that another caller  *)
(* has set since.                                                          *)
THEOREM FileTakesEffect == CfgSpec => []ConfApplied
<1>1. LoadInv => ConfApplied
  <2>. SUFFICES ASSUME LoadInv, ~reload, Free(Conf), left[Conf] = 0, faults = 0
                PROVE  /\ Cardinality(loaded) = Len(Plans[plan][Conf])
                       /\ \A f \in loaded : f.cmd \in DOMAIN regs /\ \/ regs[f.cmd].payload = f.payload
                                                                     \/ latest[f.cmd].frame.client # Conf
    BY DEF ConfApplied
  <2>1. Len(Lines) \in Nat
    BY ConfAssumption, PlanAssumption DEF Lines, LoadInv, CfgInv, CfgTypes, PlanTypes
  <2>2. Cardinality(loaded) = Len(Lines)
    BY <2>1 DEF LoadInv, LoadedInv, Made
  <2>3. \A f \in loaded : InForce(f) /\ ~InFlight(f)
    BY DEF LoadInv, FileInv, InFlight, Free
  <2>. QED BY <2>2, <2>3 DEF InForce, Applied, Lines
<1>. QED BY <1>1, LoadInductive, PTL

-----------------------------------------------------------------------------
(* What the firmware does for a call.  Meant(cl) is the payload the call   *)
(* asks for; overlapping radio calls may swap theirs.  A command in the    *)
(* queue has not been done and belongs to the call with its id; what is    *)
(* answered has been done; a call that gave up knows only NoAnswer.        *)
Meant(cl) == Payload(Cmds[Dispatch(cl).wrap], SentArgs(cl, Dispatch(cl).args.nums[1]))
Fits(cl, x, m) == x.cmd = CmdOf(cl) /\ (x.payload = Meant(cl) \/ (IsRadio(Dispatch(cl)) /\ m = TRUE))
GaveUp(r) == r.pc = "done" /\ r.answered = FALSE /\ r.id # -1 /\ Cmds[r.disp.wrap].sync
RanOK(r, c) ==
  /\ \A i \in 1 .. Len(txq) : txq[i].id = r.id => r.ran = <<>> /\ txq[i].client = c /\ Fits(r.call, txq[i], mixed)
  /\ r.ran = <<>> \/ (r.id # -1 /\ \E x : r.ran = <<x>> /\ x = [cmd |-> x.cmd, payload |-> x.payload] /\ Fits(r.call, x, mixed))
  /\ \A a \in answers : a.id = r.id => r.ran # <<>>
  /\ r.answered = TRUE => r.ran # <<>>
  /\ GaveUp(r) => r.out = Finish(r.call, NoAnswer)
RanInv == \A c \in Clients : call[c] # Idle => RanOK(call[c], c)

(* Once radio calls have overlapped they have.                             *)
LEMMA FitsKept ==
  ASSUME NEW m, NEW n, m = TRUE => n = TRUE, NEW cl, NEW x, Fits(cl, x, m)
  PROVE  Fits(cl, x, n)
BY DEF Fits

(* The state of a call, by its value.                                      *)
LEMMA RanPrime ==
  ASSUME NEW d \in Clients, NEW s, call'[d] = s, RanOK(s, d)'
  PROVE  RanOK(call[d], d)'
BY DEF RanOK, Fits

(* A step that adds no command and no answer for the call.                 *)
LEMMA RanFrame ==
  ASSUME NEW d \in Clients, NEW r, NEW s, RanOK(r, d), s.id = r.id, s.call = r.call, s.ran = r.ran,
         mixed = TRUE => mixed' = TRUE,
         \A i \in 1 .. Len(txq') : txq'[i].id = r.id => \E j \in 1 .. Len(txq) : txq[j] = txq'[i],
         \A a \in answers' : a.id = r.id => a \in answers,
         s.answered = TRUE => s.ran # <<>>,
         GaveUp(s) => s.out = Finish(s.call, NoAnswer)
  PROVE  RanOK(s, d)'
<1>1. ASSUME NEW i \in 1 .. Len(txq'), txq'[i].id = s.id
      PROVE  s.ran = <<>> /\ txq'[i].client = d /\ Fits(s.call, txq'[i], mixed')
  <2>1. PICK j \in 1 .. Len(txq) : txq[j] = txq'[i]
    BY <1>1
  <2>2. r.ran = <<>> /\ txq[j].client = d /\ Fits(r.call, txq[j], mixed)
    BY <1>1, <2>1 DEF RanOK
  <2>3. Fits(r.call, txq[j], mixed')
    BY <2>2, FitsKept
  <2>. QED BY <2>1, <2>2, <2>3
<1>2. s.ran = <<>> \/ (s.id # -1 /\ \E x : s.ran = <<x>> /\ x = [cmd |-> x.cmd, payload |-> x.payload] /\ Fits(s.call, x, mixed'))
  BY FitsKept DEF RanOK
<1>3. \A a \in answers' : a.id = s.id => s.ran # <<>>
  BY DEF RanOK
<1>. QED BY <1>1, <1>2, <1>3, Zenon DEF RanOK

(* A command is issued that fits its call.                                 *)
LEMMA RanIssue ==
  ASSUME CfgInv, RanInv, NEW c \in Clients, NEW f, NEW q, Issuing(c, f, q), answers' = answers,
         mixed = TRUE => mixed' = TRUE, Fits(q.call, f, mixed')
  PROVE  RanInv'
<1>0. CfgTypes /\ CallsInv /\ QueueTypes /\ InTurn /\ nid \in Nat
  BY DEF CfgInv, CfgTypes, QueueTypes
<1>1. /\ f.id = nid /\ Len(txq') = Len(txq) + 1 /\ Len(txq) \in Nat
      /\ \A i \in 1 .. Len(txq') : \/ i \in 1 .. Len(txq) /\ txq'[i] = txq[i]
                                   \/ i = Len(txq) + 1 /\ txq'[i] = f
  BY <1>0, IssueFacts
<1>2. /\ f.client = c /\ q.id = nid /\ q.ran = <<>> /\ q.answered = FALSE
      /\ q.pc = IF Cmds[q.disp.wrap].sync THEN "wait" ELSE "done"
      /\ call'[c] = q /\ \A d \in Clients : d # c => call'[d] = call[d]
  BY <1>0, CallAt DEF Issuing
<1>3. /\ \A i \in 1 .. Len(txq) : txq[i].id \in Nat /\ txq[i].id < nid
      /\ \A a \in answers : a.id \in Nat /\ a.id < nid
  BY <1>0, QueueIds DEF InTurn
<1>4. RanOK(q, c)'
  <2>1. \A i \in 1 .. Len(txq') : txq'[i].id = q.id => q.ran = <<>> /\ txq'[i].client = c /\ Fits(q.call, txq'[i], mixed')
    BY <1>0, <1>1, <1>2, <1>3
  <2>2. \A a \in answers' : a.id # q.id
    BY <1>0, <1>2, <1>3
  <2>3. ~GaveUp(q)
    BY <1>2 DEF GaveUp
  <2>. QED BY <1>2, <2>1, <2>2, <2>3 DEF RanOK
<1>5. ASSUME NEW d \in Clients, call'[d] # Idle PROVE RanOK(call[d], d)'
  <2>1. CASE d = c
    BY <1>2, <1>4, <2>1, RanPrime
  <2>2. CASE d # c
    <3>. DEFINE r == call[d]
    <3>1. call'[d] = r /\ r # Idle /\ RanOK(r, d) /\ CallOK(r) /\ r.id < nid
      BY <1>0, <1>2, <1>5, <2>2 DEF RanInv, CallsInv
    <3>2. r.id # nid
      <4>1. r.id \in Int
        BY <3>1, IdFacts
      <4>. QED BY <1>0, <3>1, <4>1
    <3>. HIDE DEF r
    <3>3. \A i \in 1 .. Len(txq') : txq'[i].id = r.id => \E j \in 1 .. Len(txq) : txq[j] = txq'[i]
      BY <1>1, <3>2
    <3>4. /\ r.answered = TRUE => r.ran # <<>>
          /\ GaveUp(r) => r.out = Finish(r.call, NoAnswer)
      BY <3>1 DEF RanOK
    <3>5. PICK s : s = r
      OBVIOUS
    <3>6. RanOK(s, d)'
      BY <3>1, <3>3, <3>4, <3>5, RanFrame
    <3>. QED BY <3>1, <3>5, <3>6, RanPrime
  <2>. QED BY <2>1, <2>2
<1>. QED BY <1>5 DEF RanInv

(* The same for a call that does not change.                               *)
LEMMA RanOthers ==
  ASSUME CfgInv, RanInv, NEW d \in Clients, call'[d] = call[d], call[d] # Idle, mixed = TRUE => mixed' = TRUE,
         \A i \in 1 .. Len(txq') : \E j \in 1 .. Len(txq) : txq[j] = txq'[i],
         \A a \in answers' : a.id = call[d].id => a \in answers
  PROVE  RanOK(call[d], d)'
<1>. DEFINE r == call[d]
<1>1. call'[d] = r /\ RanOK(r, d) /\ \A a \in answers' : a.id = r.id => a \in answers
  BY DEF RanInv
<1>. HIDE DEF r
<1>2. /\ r.answered = TRUE => r.ran # <<>>
      /\ GaveUp(r) => r.out = Finish(r.call, NoAnswer)
  BY <1>1 DEF RanOK
<1>3. PICK s : s = r
  OBVIOUS
<1>4. RanOK(s, d)'
  BY <1>1, <1>2, <1>3, RanFrame
<1>. QED BY <1>1, <1>3, <1>4, RanPrime

(* A call begins.                                                          *)
LEMMA RanBegin ==
  ASSUME CfgInv, RanInv, NEW c \in Clients, Begin(c)
  PROVE  RanInv'
<1>0. CfgTypes /\ CallsInv /\ QueueTypes
  BY DEF CfgInv, CfgTypes
<1>1. PICK cl : BeginsWith(c, cl)
  BY <1>0, BeginSteps
<1>2. answers' = answers /\ (mixed = TRUE => mixed' = TRUE)
  BY <1>0, <1>1 DEF BeginsWith, CfgTypes, PlanTypes
<1>3. ASSUME NEW q, Quiet, call' = [call EXCEPT ![c] = q], q.id = -1, q.ran = <<>>, q.answered = FALSE PROVE RanInv'
  <2>1. call'[c] = q /\ txq' = txq /\ \A d \in Clients : d # c => call'[d] = call[d]
    BY <1>0, <1>3, CallAt DEF Quiet
  <2>2. /\ \A i \in 1 .. Len(txq) : txq[i].id \in Nat
        /\ \A a \in answers : a.id \in Nat
    BY <1>0, QueueIds
  <2>3. /\ \A i \in 1 .. Len(txq') : txq'[i].id # q.id
        /\ \A a \in answers' : a.id # q.id
    <3>1. \A n \in Nat : n # q.id
      BY <1>3
    <3>. QED BY <1>2, <2>1, <2>2, <3>1
  <2>4. RanOK(q, c)'
    BY <1>3, <2>3 DEF RanOK, GaveUp
  <2>5. ASSUME NEW d \in Clients, call'[d] # Idle PROVE RanOK(call[d], d)'
    <3>1. CASE d = c
      BY <2>1, <2>4, <3>1, RanPrime
    <3>2. CASE d # c
      <4>1. call'[d] = call[d] /\ call[d] # Idle
        BY <2>1, <2>5, <3>2
      <4>. QED BY <1>2, <2>1, <4>1, RanOthers
    <3>. QED BY <3>1, <3>2
  <2>. QED BY <2>5 DEF RanInv
<1>4. ASSUME NEW q, Quiet, Ended(q, cl), call' = [call EXCEPT ![c] = q] PROVE RanInv'
  BY <1>3, <1>4 DEF Ended
<1>5. ASSUME Quiet, call' = [call EXCEPT ![c] = NewCall(cl)] PROVE RanInv'
  <2>1. NewCall(cl).id = -1 /\ NewCall(cl).ran = <<>> /\ NewCall(cl).answered = FALSE
    BY DEF NewCall
  <2>. QED BY <1>3, <1>5, <2>1
<1>6. ASSUME ~IsRadio(Dispatch(cl)), NEW f, NEW q, Issuing(c, f, q), q.call = cl,
             f.payload = Payload(Cmds[Dispatch(cl).wrap], Dispatch(cl).args)
      PROVE  RanInv'
  <2>1. f.cmd = CmdOf(cl)
    BY <1>6 DEF Issuing
  <2>2. f.payload = Meant(cl)
    BY <1>6 DEF Meant, SentArgs
  <2>3. Fits(q.call, f, mixed')
    BY <1>6, <2>1, <2>2 DEF Fits
  <2>. QED BY <1>2, <1>6, <2>3, RanIssue
<1>. QED BY <1>1, <1>4, <1>5, <1>6, Zenon DEF BeginsWith

(* A radio call is sent; without an overlap it has its own value.          *)
LEMMA RanSend ==
  ASSUME CfgInv, RadioInv, RanInv, NEW c \in Clients, SendRadio(c)
  PROVE  RanInv'
<1>0. CfgTypes /\ CallsInv /\ mixed \in BOOLEAN
  BY DEF CfgInv, CfgTypes, PlanTypes
<1>1. PICK f, q : /\ Issuing(c, f, q) /\ q.call = call[c].call
                  /\ \E v \in {radio, call[c].disp.args.nums[1]} : f.payload = <<v>>
  BY <1>0, SendSteps
<1>2. /\ UNCHANGED <<answers, mixed>> /\ Sending(c) /\ call[c].call \in Calls
      /\ IsRadio(call[c].disp) /\ call[c].disp = Dispatch(call[c].call)
  BY <1>0, SendSteps DEF Sending
<1>. DEFINE n == call[c].disp.args.nums[1]
<1>3. Meant(q.call) = <<n>>
  <2>1. n \in 0 .. 255
    BY <1>2, RadioAssumption
  <2>2. SentArgs(q.call, n) = [nums |-> <<n>>, bytes |-> <<>>] /\ Dispatch(q.call).wrap = "radio_onoff"
    BY <1>1, <1>2 DEF SentArgs, IsRadio
  <2>3. n = Dispatch(q.call).args.nums[1]
    BY <1>1, <1>2
  <2>. QED BY <2>1, <2>2, <2>3, RadioAssumption DEF Meant
<1>4. mixed = FALSE => f.payload = <<n>>
  BY <1>1, <1>2 DEF RadioInv
<1>5. f.cmd = CmdOf(q.call)
  BY <1>1 DEF Issuing
<1>6. Fits(q.call, f, mixed')
  BY <1>0, <1>1, <1>2, <1>3, <1>4, <1>5 DEF Fits
<1>. QED BY <1>1, <1>2, <1>6, RanIssue

(* An answered call was done; one that gave up knows NoAnswer.             *)
LEMMA RanEnds ==
  ASSUME CfgInv, RanInv, NEW c \in Clients, Answer(c) \/ Timeout(c)
  PROVE  RanInv'
<1>0. CfgTypes /\ CallsInv
  BY DEF CfgInv
<1>1. UNCHANGED <<txq, mixed>> /\ answers' \subseteq answers
  BY <1>0, AnswerSteps, TimeoutSteps
<1>2. PICK q : /\ call' = [call EXCEPT ![c] = q] /\ Continues(q, call[c]) /\ q.ran = call[c].ran
               /\ \/ q.answered = TRUE /\ \E a \in answers : a.id = call[c].id
                  \/ q.answered = FALSE /\ q.out = Finish(call[c].call, NoAnswer)
  BY <1>0, AnswerSteps, TimeoutSteps
<1>3. call[c] # Idle /\ RanOK(call[c], c)
  BY <1>0, AnswerSteps, TimeoutSteps DEF Waiting, RanInv
<1>4. call'[c] = q /\ \A d \in Clients : d # c => call'[d] = call[d]
  BY <1>0, <1>2, CallAt
<1>5. RanOK(q, c)'
  <2>. DEFINE r == call[c]
  <2>1. q.id = r.id /\ q.call = r.call /\ q.ran = r.ran /\ RanOK(r, c)
    BY <1>2, <1>3 DEF Continues
  <2>2. q.answered = TRUE => q.ran # <<>>
    BY <1>2, <1>3 DEF RanOK
  <2>3. GaveUp(q) => q.out = Finish(q.call, NoAnswer)
    BY <1>2, <2>1 DEF GaveUp
  <2>. HIDE DEF r
  <2>. QED BY <1>1, <2>1, <2>2, <2>3, RanFrame
<1>6. ASSUME NEW d \in Clients, call'[d] # Idle PROVE RanOK(call[d], d)'
  <2>1. CASE d = c
    BY <1>4, <1>5, <2>1, RanPrime
  <2>2. CASE d # c
    <3>1. call'[d] = call[d] /\ call[d] # Idle
      BY <1>4, <1>6, <2>2
    <3>. QED BY <1>1, <3>1, RanOthers
  <2>. QED BY <2>1, <2>2
<1>. QED BY <1>6 DEF RanInv

(* A command is done for the call with its id, which had none done.        *)
LEMMA RanExecute ==
  ASSUME CfgInv, RanInv, Execute
  PROVE  RanInv'
<1>0. CfgTypes /\ CallsInv /\ QueueTypes /\ InTurn /\ txq \in Seq(CmdFrames)
  BY DEF CfgInv, CfgTypes, QueueTypes
<1>. DEFINE f == txq[1]
            c == f.client
<1>1. /\ txq # <<>> /\ txq' = Tail(txq) /\ f \in CmdFrames /\ mixed' = mixed
      /\ (Mine(c, f) => Told(c, f)) /\ (~Mine(c, f) => call' = call)
      /\ \A a \in answers' : a \in answers \/ a.id = f.id
  <2>1. answers' \in {answers, answers \union {[id |-> f.id, answer |-> DeviceAnswer(f.cmd)]}}
    BY <1>0, ExecuteSteps
  <2>2. \A a \in answers' : a \in answers \/ a.id = f.id
    BY <2>1
  <2>. QED BY <1>0, <2>2, ExecuteSteps
<1>2. /\ 1 \in 1 .. Len(txq) /\ Len(txq) \in Nat
      /\ \A i \in 1 .. Len(txq') : i + 1 \in 1 .. Len(txq) /\ txq'[i] = txq[i + 1] /\ 1 < i + 1
  BY <1>0, <1>1
<1>3. c \in Clients /\ f.id \in Nat
  BY <1>1 DEF CmdFrames
<1>4. ASSUME NEW d \in Clients, call[d] # Idle, call[d].id = f.id PROVE d = c /\ Mine(c, f)
  <2>1. txq[1].client = d
    BY <1>2, <1>4 DEF RanInv, RanOK
  <2>2. call[d].pc # "idle"
    <3>1. CallOK(call[d])
      BY <1>0 DEF CallsInv
    <3>. QED BY <1>4, <3>1 DEF CallOK
  <2>. QED BY <1>4, <2>1, <2>2 DEF Mine
<1>5. \A i \in 1 .. Len(txq') : txq'[i].id # f.id
  <2>1. \A i \in 1 .. Len(txq) : txq[i].id \in Nat
    BY <1>0, QueueIds
  <2>2. ASSUME NEW i \in 1 .. Len(txq') PROVE txq'[i].id # f.id
    <3>1. txq[1].id < txq[i + 1].id /\ txq'[i] = txq[i + 1] /\ txq[1].id \in Nat /\ txq[i + 1].id \in Nat
      BY <1>0, <1>2, <2>1 DEF InTurn
    <3>. QED BY <3>1
  <2>. QED BY <2>2
<1>. HIDE DEF f
<1>6. ASSUME NEW d \in Clients, call[d] # Idle, call'[d] = call[d], call[d].id # f.id PROVE RanOK(call[d], d)'
  BY <1>1, <1>2, <1>6, RanOthers
<1>7. CASE call' = call
  <2>1. ASSUME NEW d \in Clients, call'[d] # Idle PROVE RanOK(call[d], d)'
    <3>1. call'[d] = call[d] /\ call[d] # Idle
      BY <1>7, <2>1
    <3>2. CASE call[d].id # f.id
      BY <1>6, <3>1, <3>2
    <3>3. CASE call[d].id = f.id /\ Mine(c, f) /\ d = c
      <4>1. PICK q : call' = [call EXCEPT ![c] = q] /\ q.ran = Append(call[c].ran, [cmd |-> f.cmd, payload |-> f.payload])
        BY <1>1, <3>3 DEF Told
      <4>2. call'[c] = q
        BY <1>0, <1>3, <4>1, CallAt
      <4>3. call[c].ran = <<>>
        <5>1. txq[1] = f
          BY DEF f
        <5>. QED BY <1>2, <3>1, <3>3, <5>1 DEF RanInv, RanOK
      <4>4. q.ran # <<>>
        BY <4>1, <4>3
      <4>. QED BY <1>7, <4>2, <4>3, <4>4
    <3>. QED BY <1>4, <3>1, <3>2, <3>3
  <2>. QED BY <2>1 DEF RanInv
<1>8. CASE Mine(c, f)
  <2>1. PICK q : /\ call' = [call EXCEPT ![c] = q] /\ Continues(q, call[c]) /\ q.pc = call[c].pc
                 /\ q.answered = call[c].answered /\ q.out = call[c].out
                 /\ q.ran = Append(call[c].ran, [cmd |-> f.cmd, payload |-> f.payload])
    BY <1>1, <1>8 DEF Told
  <2>2. call[c] # Idle /\ call[c].id = f.id /\ RanOK(call[c], c)
    BY <1>3, <1>8 DEF Mine, Idle, RanInv
  <2>3. call'[c] = q /\ \A d \in Clients : d # c => call'[d] = call[d]
    BY <1>0, <1>3, <2>1, CallAt
  <2>4. call[c].ran = <<>> /\ Fits(call[c].call, f, mixed)
    <3>1. txq[1] = f
      BY DEF f
    <3>. QED BY <1>2, <2>2, <3>1 DEF RanOK
  <2>. DEFINE x == [cmd |-> f.cmd, payload |-> f.payload]
  <2>5. q.ran = <<x>> /\ q.ran # <<>> /\ x = [cmd |-> x.cmd, payload |-> x.payload]
    BY <2>1, <2>4
  <2>6. Fits(q.call, x, mixed')
    BY <1>1, <2>1, <2>4 DEF Fits, Continues
  <2>7. q.id = f.id /\ q.id # -1
    <3>1. \A n \in Nat : n # -1
      OBVIOUS
    <3>. QED BY <1>3, <2>1, <2>2, <3>1 DEF Continues
  <2>8. GaveUp(q) => q.out = Finish(q.call, NoAnswer)
    <3>1. GaveUp(q) => GaveUp(call[c])
      BY <2>1 DEF GaveUp, Continues
    <3>. QED BY <2>1, <2>2, <3>1 DEF RanOK, Continues
  <2>. HIDE DEF x
  <2>9. ASSUME NEW d \in Clients, d = c PROVE RanOK(q, d)'
    <3>1. \A i \in 1 .. Len(txq') : txq'[i].id # q.id
      BY <1>5, <2>7
    <3>2. q.id # -1 /\ \E y : q.ran = <<y>> /\ y = [cmd |-> y.cmd, payload |-> y.payload] /\ Fits(q.call, y, mixed')
      BY <2>5, <2>6, <2>7, Zenon
    <3>. QED BY <2>5, <2>8, <3>1, <3>2, Zenon DEF RanOK
  <2>10. ASSUME NEW d \in Clients, call'[d] # Idle PROVE RanOK(call[d], d)'
    <3>1. CASE d = c
      BY <2>3, <2>9, <3>1, RanPrime
    <3>2. CASE d # c
      <4>1. call'[d] = call[d] /\ call[d] # Idle
        BY <2>3, <2>10, <3>2
      <4>2. call[d].id # f.id
        BY <1>4, <3>2, <4>1
      <4>. QED BY <1>6, <4>1, <4>2
    <3>. QED BY <3>1, <3>2
  <2>. QED BY <2>10 DEF RanInv
<1>. QED BY <1>1, <1>7, <1>8

(* Every step keeps what has been done for a call.                         *)
LEMMA RanStep ==
  ASSUME CfgInv, RadioInv, RanInv, [CfgNext]_cfgvars
  PROVE  RanInv'
<1>0. txq \in Seq(CmdFrames)
  BY DEF CfgInv, CfgTypes, QueueTypes
<1>1. CASE Lose \/ Stray \/ Reset \/ Reload \/ Finished \/ UNCHANGED cfgvars
  <2>1. UNCHANGED <<call, mixed>> /\ answers' \subseteq answers
    BY <1>1 DEF Lose, Stray, Reset, Reload, Finished, cfgvars
  <2>2. txq' = txq \/ (txq # <<>> /\ txq' = Tail(txq))
    BY <1>1 DEF Lose, Stray, Reset, Reload, Finished, cfgvars
  <2>3. \A i \in 1 .. Len(txq') : \E j \in 1 .. Len(txq) : txq[j] = txq'[i]
    <3>1. CASE txq' = txq
      BY <3>1
    <3>2. CASE txq # <<>> /\ txq' = Tail(txq)
      <4>1. \A i \in 1 .. Len(txq') : i + 1 \in 1 .. Len(txq) /\ txq'[i] = txq[i + 1]
        BY <1>0, <3>2
      <4>. QED BY <4>1
    <3>. QED BY <2>2, <3>1, <3>2
  <2>4. ASSUME NEW d \in Clients, call'[d] # Idle PROVE RanOK(call[d], d)'
    <3>1. call'[d] = call[d] /\ call[d] # Idle
      BY <2>1, <2>4
    <3>. QED BY <2>1, <2>3, <3>1, RanOthers
  <2>. QED BY <2>4 DEF RanInv
<1>. QED BY <1>1, RanBegin, RanSend, RanEnds, RanExecute DEF CfgNext

-----------------------------------------------------------------------------
(* What a caller is told when there is no answer.  The wrapper returns -1, *)
(* or 0 where it counts entries, and no data; a set passes that on.        *)
LEMMA UnansweredSet ==
  ASSUME NEW cl \in Calls, ~IsGet(cl)
  PROVE  Finish(cl, NoAnswer).ret < 0
<1>. DEFINE req == Request(cl.api, cl.args, cl.mode)
<1>1. ASSUME cl.via # "ndo" PROVE req.verb # "get"
  <2>1. Api[cl.api].verb # "get"
    BY <1>1 DEF IsGet
  <2>. QED BY <2>1 DEF Request
<1>2. NoAnswer.status = -1
  BY DEF NoAnswer
<1>3. Finish(cl, NoAnswer).ret \in {-1, -22}
  <2>. HIDE DEF req
  <2>1. \E v \in {-1, -22} : Finish(cl, NoAnswer) = Outcome(v, <<>>, <<>>)
    <3>. USE DEF req
    <3>1. ~(cl.via # "ndo" /\ req.verb = "get")
      BY <1>1
    <3>. QED BY <1>2, <3>1 DEF Finish
  <2>. QED BY <2>1 DEF Outcome
<1>. QED BY <1>3

(* The wrapper's result without an answer.                                 *)
LEMMA UnansweredResult ==
  ASSUME NEW row, NEW cap
  PROVE  /\ Result(row, NoAnswer, cap).ret \in {-1, 0}
         /\ Result(row, NoAnswer, cap).data = <<>>
         /\ row.ret \in {"status", "int", "data"} => Result(row, NoAnswer, cap).ret = -1
<1>1. NoAnswer.status = -1
  BY DEF NoAnswer
<1>2. Result(row, NoAnswer, cap).data = <<>>
  BY <1>1 DEF Result
<1>3. Result(row, NoAnswer, cap).ret =
        CASE row.ret = "int"     -> -1
          [] row.ret = "range"   -> 0
          [] row.ret = "u16s"    -> 0
          [] row.ret = "records" -> -1
          [] OTHER               -> -1
  BY <1>1 DEF Result
<1>. HIDE DEF NoAnswer
<1>. QED BY <1>2, <1>3

(* The handler's reply to a result without data: a number, the request     *)
(* itself with an error, or nothing.                                       *)
LEMMA UnansweredReply ==
  ASSUME NEW row, NEW r, NEW room, NEW b \in BOOLEAN, r.ret \in {-1, 0}, r.data = <<>>
  PROVE  /\ row.reply \in {"dec", "decof"} => HandlerReply(row, r, room, b) = DecReply(<<r.ret>>)
         /\ row.reply = "three" => HandlerReply(row, r, room, b) = Echo(0)
         /\ row.reply \in {"mac", "raw", "records", "info", "devices", "u16s", "range"}
              => HandlerReply(row, r, room, b) = NoReply
         /\ row.reply = "exact" /\ r.ret = -1 /\ row.cap \in Nat => HandlerReply(row, r, room, b) = Echo(-1)
<1>0. Len(<<>>) = 0 /\ BinReply(<<>>, room) = NoReply
  BY DEF BinReply
<1>1. CASE row.reply \in {"dec", "decof"}
  BY <1>1 DEF HandlerReply
<1>2. CASE row.reply = "three"
  BY <1>2 DEF HandlerReply
<1>3. CASE row.reply \in {"mac", "u16s", "range"}
  BY <1>3 DEF HandlerReply
<1>4. CASE row.reply \in {"raw", "records", "info"}
  BY <1>0, <1>4 DEF HandlerReply
<1>5. CASE row.reply = "devices"
  <2>1. Zeroed(r.data, 7 * r.ret) = <<>>
    BY DEF Zeroed
  <2>. QED BY <1>0, <1>5, <2>1 DEF HandlerReply
<1>6. CASE row.reply = "exact" /\ r.ret = -1 /\ row.cap \in Nat
  <2>1. r.ret # row.cap
    BY <1>6
  <2>. QED BY <1>6, <2>1 DEF HandlerReply
<1>. QED BY <1>1, <1>2, <1>3, <1>4, <1>5, <1>6

(* Every call but the silent gets says that it failed.                     *)
LEMMA Unanswered ==
  ASSUME NEW cl \in Calls, cl.api \notin SilentGets
  PROVE  SaysFailed(cl, Finish(cl, NoAnswer))
<1>1. CASE ~IsGet(cl)
  BY <1>1, UnansweredSet DEF SaysFailed
<1>2. CASE IsGet(cl)
  <2>. DEFINE req == Request(cl.api, cl.args, cl.mode)
              api == Api[cl.api]
              row == Gets[api.name]
              r == Result(Cmds[row.wrap], NoAnswer, row.cap)
              b == (req.text.nums = <<1>>)
              reply == HandlerReply(row, r, OutSize, b)
  <2>1. cl.via \in {"proc", "ioctl"} /\ cl.api \in DOMAIN Api \ SilentGets /\ api.verb = "get"
    BY <1>2, GetAssumption DEF IsGet
  <2>2. req.verb = "get" /\ req.name = api.name
    <3>1. cl.api \notin DOMAIN HciOcf
      BY <2>1, GetAssumption
    <3>. QED BY <2>1, <3>1 DEF Request
  <2>3. Finish(cl, NoAnswer) = ByReply(cl, reply)
    BY <2>1, <2>2 DEF Finish
  <2>4. /\ r.ret \in {-1, 0} /\ r.data = <<>>
        /\ Cmds[row.wrap].ret \in {"status", "int", "data"} => r.ret = -1
    BY UnansweredResult
  <2>5. \/ api.conv = "int" /\ row.reply \in {"dec", "decof"} /\ r.ret = -1
        \/ api.conv = "triple" /\ row.reply = "three"
        \/ api.conv = "mac" /\ row.reply = "mac"
        \/ api.conv \in {"buf", "struct"} /\ row.reply \in {"raw", "records", "info", "devices", "u16s", "range"}
        \/ api.conv \in {"buf", "struct"} /\ row.reply = "exact" /\ r.ret = -1 /\ row.cap \in Nat
    BY <2>1, <2>4, GetAssumption
  <2>6. b \in BOOLEAN
    OBVIOUS
  <2>7. /\ row.reply \in {"dec", "decof"} => reply = DecReply(<<r.ret>>)
        /\ row.reply = "three" => reply = Echo(0)
        /\ row.reply \in {"mac", "raw", "records", "info", "devices", "u16s", "range"} => reply = NoReply
        /\ row.reply = "exact" /\ r.ret = -1 /\ row.cap \in Nat => reply = Echo(-1)
    <3>. HIDE DEF b, r, row
    <3>. QED BY <2>4, <2>6, UnansweredReply
  <2>8. \/ api.conv = "int" /\ reply = Reply(0, "dec", <<-1>>, <<>>)
        \/ api.conv = "triple" /\ reply = Reply(0, "echo", <<>>, <<>>)
        \/ api.conv = "mac" /\ reply = Reply(0, "none", <<>>, <<>>)
        \/ api.conv \in {"buf", "struct"} /\ reply = Reply(0, "none", <<>>, <<>>)
        \/ api.conv \in {"buf", "struct"} /\ reply = Reply(-1, "echo", <<>>, <<>>)
    <3>. HIDE DEF b, r, row, reply
    <3>. QED BY <2>5, <2>7 DEF DecReply, Echo, NoReply
  <2>. HIDE DEF reply, api, req, row, r, b
  <2>9. CASE cl.via = "ioctl"
    <3>1. ByReply(cl, reply) = Outcome(reply.ret, reply.nums, reply.bytes)
      BY <2>9 DEF ByReply
    <3>2. reply.nums = <<-1>> \/ (reply.nums = <<>> /\ reply.bytes = <<>>)
      BY <2>8 DEF Reply
    <3>. QED BY <1>2, <2>3, <2>9, <3>1, <3>2 DEF SaysFailed, Outcome
  <2>10. CASE cl.via = "proc"
    <3>1. ByReply(cl, reply) = ToolResult(api, reply)
      BY <2>1, <2>10 DEF ByReply, api
    <3>2. /\ api.conv \in {"buf", "struct"} => ToolResult(api, reply).ret <= 0
          /\ api.conv \notin {"buf", "struct"} => ToolResult(api, reply).ret = -1
      <4>1. CASE api.conv = "int" /\ reply = Reply(0, "dec", <<-1>>, <<>>)
        BY <4>1 DEF ToolResult, Reply, Outcome
      <4>2. CASE api.conv = "triple" /\ reply = Reply(0, "echo", <<>>, <<>>)
        BY <4>2 DEF ToolResult, Reply, Outcome
      <4>3. CASE api.conv = "mac" /\ reply = Reply(0, "none", <<>>, <<>>)
        BY <4>3 DEF ToolResult, Reply, Outcome
      <4>4. CASE api.conv \in {"buf", "struct"} /\ reply = Reply(0, "none", <<>>, <<>>)
        BY <4>4 DEF ToolResult, Reply, Outcome
      <4>5. CASE api.conv \in {"buf", "struct"} /\ reply = Reply(-1, "echo", <<>>, <<>>)
        BY <4>5 DEF ToolResult, Reply, Outcome
      <4>. QED BY <2>8, <4>1, <4>2, <4>3, <4>4, <4>5
    <3>3. cl.via # "ioctl"
      BY <2>10
    <3>4. SaysFailed(cl, ToolResult(api, reply))
      BY <1>2, <3>2, <3>3 DEF SaysFailed, api
    <3>. QED BY <2>3, <3>1, <3>4
  <2>. QED BY <2>1, <2>9, <2>10
<1>. QED BY <1>1, <1>2

-----------------------------------------------------------------------------
EffectInv == CfgInv /\ RadioInv /\ RanInv

(* The invariant holds at first.                                           *)
LEMMA InitEffectInv == CfgInit => EffectInv
<1>. SUFFICES ASSUME CfgInit PROVE EffectInv
  OBVIOUS
<1>1. CfgInv /\ RadioInv
  BY InitMirrorInv DEF MirrorInv
<1>2. RanInv
  BY DEF CfgInit, RanInv
<1>. QED BY <1>1, <1>2 DEF EffectInv

(* Every step preserves it.                                                *)
LEMMA NextEffectInv == EffectInv /\ [CfgNext]_cfgvars => EffectInv'
<1>. SUFFICES ASSUME EffectInv, [CfgNext]_cfgvars PROVE EffectInv'
  OBVIOUS
<1>1. CfgInv /\ RadioInv /\ RanInv /\ CfgTypes /\ CallsInv
  BY DEF EffectInv, CfgInv
<1>. QED BY <1>1, NextCfgInv, RadioStep, RanStep DEF EffectInv

(* Hence it always holds.                                                  *)
LEMMA EffectInductive == CfgSpec => []EffectInv
<1>. QED BY InitEffectInv, NextEffectInv, PTL DEF CfgSpec

(* A call that has returned: what it called, and what it knows.            *)
LEMMA ReturnedCall ==
  ASSUME EffectInv, NEW c \in Clients, call[c].pc = "done"
  PROVE  /\ call[c].call \in Calls /\ call[c].disp = Dispatch(call[c].call)
         /\ call[c].answered \in BOOLEAN /\ call[c].id \in Ids
         /\ call[c].id = -1 <=> call[c].disp.wrap = ""
         /\ RanOK(call[c], c)
<1>1. CallOK(call[c]) /\ call[c] # Idle
  BY DEF EffectInv, CfgInv, CallsInv, Idle
<1>2. RanOK(call[c], c)
  BY <1>1 DEF EffectInv, RanInv
<1>. QED BY <1>1, <1>2 DEF CallOK

(* A call whose command the firmware did not answer in time tells its      *)
(* caller so, whatever the other callers do and whatever arrives later.    *)
THEOREM FailureShows == CfgSpec => []FailureVisible
<1>1. EffectInv => FailureVisible
  <2>. SUFFICES ASSUME EffectInv, NEW c \in Clients, call[c].pc = "done", call[c].id >= 0, ~call[c].answered,
                       Cmds[call[c].disp.wrap].sync, call[c].call.api \notin SilentGets
                PROVE  SaysFailed(call[c].call, call[c].out)
    BY DEF FailureVisible
  <2>1. call[c].call \in Calls /\ call[c].answered = FALSE /\ RanOK(call[c], c)
    BY ReturnedCall
  <2>2. call[c].id # -1
    OBVIOUS
  <2>3. call[c].out = Finish(call[c].call, NoAnswer)
    BY <2>1, <2>2 DEF RanOK, GaveUp
  <2>. QED BY <2>1, <2>3, Unanswered
<1>. QED BY <1>1, EffectInductive, PTL

(* A call on its own: the command it leads to is the one the function is   *)
(* named after, with the caller's values, and it writes unless it is a     *)
(* get.  Only set_radio_onoff passes its value through the shared field.   *)
Named(cl) ==
  Dispatch(cl).wrap # "" /\ ~Astray(cl) =>
    /\ [cmd |-> CmdOf(cl), payload |-> Meant(cl)] = Expected(cl)
    /\ cl.api \notin Crossed => Writes(CmdOf(cl)) = ~IsGet(cl)
    /\ IsRadio(Dispatch(cl)) => cl.api = "set_radio_onoff"

(* When every call does on its own what it is named for, every call does   *)
(* so among the others: queued commands are not mixed up, done twice or    *)
(* done for another caller, and a set that returned 0 has been done.       *)
THEOREM EffectKept ==
  ASSUME \A cl \in Calls : Named(cl)
  PROVE  CfgSpec => []EffectAsNamed
<1>1. EffectInv => EffectAsNamed
  <2>. SUFFICES ASSUME EffectInv, NEW c \in Clients, call[c].pc = "done", ~Astray(call[c].call)
                PROVE  LET cl == call[c].call
                           swapped == mixed /\ cl.api = "set_radio_onoff"
                       IN  /\ swapped \/ call[c].ran = <<>> \/ call[c].ran = <<Expected(cl)>>
                           /\ call[c].out.ret = 0 /\ ~IsGet(cl) /\ ~Refuses(cl) /\ Cmds[call[c].disp.wrap].sync
                                  => Len(call[c].ran) = 1
                           /\ cl.api \notin Crossed =>
                                  \A i \in DOMAIN call[c].ran : Writes(call[c].ran[i].cmd) = ~IsGet(cl)
    BY DEF EffectAsNamed
  <2>. DEFINE r == call[c]
              cl == r.call
  <2>0. ~Astray(cl)
    OBVIOUS
  <2>1. /\ cl \in Calls /\ r.disp = Dispatch(cl) /\ r.answered \in BOOLEAN
        /\ r.id = -1 <=> r.disp.wrap = ""
        /\ RanOK(r, c) /\ r.pc = "done"
    BY ReturnedCall
  <2>2. r.ran = <<>> \/ \E x : r.ran = <<x>> /\ x = [cmd |-> x.cmd, payload |-> x.payload] /\ Fits(cl, x, mixed)
                               /\ r.id # -1
    BY <2>1 DEF RanOK
  <2>. HIDE DEF r
  <2>3. ASSUME NEW x, r.ran = <<x>>, x = [cmd |-> x.cmd, payload |-> x.payload], Fits(cl, x, mixed), r.id # -1
        PROVE  /\ (mixed /\ cl.api = "set_radio_onoff") \/ r.ran = <<Expected(cl)>>
               /\ cl.api \notin Crossed => Writes(x.cmd) = ~IsGet(cl)
    <3>1. Dispatch(cl).wrap # ""
      BY <2>1, <2>3
    <3>2. /\ [cmd |-> CmdOf(cl), payload |-> Meant(cl)] = Expected(cl)
          /\ cl.api \notin Crossed => Writes(CmdOf(cl)) = ~IsGet(cl)
          /\ IsRadio(Dispatch(cl)) => cl.api = "set_radio_onoff"
      BY <2>0, <2>1, <3>1 DEF Named
    <3>3. x.cmd = CmdOf(cl) /\ (x.payload = Meant(cl) \/ (IsRadio(Dispatch(cl)) /\ mixed = TRUE))
      BY <2>3 DEF Fits
    <3>4. CASE x.payload = Meant(cl)
      <4>1. x = Expected(cl)
        BY <2>3, <3>2, <3>3, <3>4
      <4>. QED BY <2>3, <3>2, <3>3, <4>1
    <3>5. CASE IsRadio(Dispatch(cl)) /\ mixed = TRUE
      BY <3>2, <3>3, <3>5
    <3>. QED BY <3>3, <3>4, <3>5
  <2>4. r.out.ret = 0 /\ ~IsGet(cl) /\ ~Refuses(cl) /\ Cmds[r.disp.wrap].sync => r.ran # <<>>
    <3>. SUFFICES ASSUME r.out.ret = 0, ~IsGet(cl), ~Refuses(cl), Cmds[r.disp.wrap].sync, r.ran = <<>> PROVE FALSE
      OBVIOUS
    <3>1. r.answered = FALSE /\ r.id # -1
      BY <2>1 DEF RanOK, Refuses
    <3>2. r.out = Finish(cl, NoAnswer)
      BY <2>1, <3>1 DEF RanOK, GaveUp
    <3>3. Finish(cl, NoAnswer).ret < 0
      BY <2>1, UnansweredSet
    <3>. QED BY <3>2, <3>3
  <2>5. CASE r.ran = <<>>
    BY <2>4, <2>5 DEF r
  <2>6. CASE r.ran # <<>>
    <3>1. PICK x : r.ran = <<x>> /\ x = [cmd |-> x.cmd, payload |-> x.payload] /\ Fits(cl, x, mixed) /\ r.id # -1
      BY <2>2, <2>6
    <3>2. Len(r.ran) = 1 /\ \A i \in DOMAIN r.ran : r.ran[i] = x
      BY <3>1
    <3>3. /\ (mixed /\ cl.api = "set_radio_onoff") \/ r.ran = <<Expected(cl)>>
          /\ cl.api \notin Crossed => Writes(x.cmd) = ~IsGet(cl)
      BY <2>3, <3>1
    <3>4. cl.api \notin Crossed => \A i \in DOMAIN r.ran : Writes(r.ran[i].cmd) = ~IsGet(cl)
      BY <3>2, <3>3
    <3>. QED BY <3>2, <3>3, <3>4 DEF r
  <2>. QED BY <2>5, <2>6
<1>. QED BY <1>1, EffectInductive, PTL

-----------------------------------------------------------------------------
(* What a query returns.  The parameters, and those in the flash, are what *)
(* some call has set; the answer to a query is made of the parameter it    *)
(* has seen, and the caller gets what its function makes of that answer.   *)
Stored(cmd, e) == \E b \in Bodies : b.cmd = cmd /\ b.payload = e.payload /\ b.args = e.args
Kept(f) == \A cmd \in DOMAIN f : Stored(cmd, f[cmd])
AnswerFrom(cmd, b) == AnswerWith(cmd, Content(cmd, b.payload))
Known(cl, seen, x) ==
  \/ seen = <<>>
  \/ \E b \in Bodies : /\ CmdOf(cl) \in DOMAIN ReadOf /\ b.cmd = ReadOf[CmdOf(cl)]
                       /\ seen = <<b.args>> /\ x = AnswerFrom(CmdOf(cl), b)
SeenOK(r, as) ==
  /\ \A a \in as : a.id = r.id => Known(r.call, r.seen, a.answer)
  /\ r.answered = TRUE => \E x : Known(r.call, r.seen, x) /\ r.out = Finish(r.call, x)
SeenInv == Kept(regs) /\ Kept(saved) /\ \A c \in Clients : call[c] # Idle => SeenOK(call[c], answers)

(* An answer that goes away is no harm.                                    *)
LEMMA SeenFewer ==
  ASSUME NEW r, NEW as, NEW bs, SeenOK(r, as), \A a \in bs : a.id = r.id => a \in as
  PROVE  SeenOK(r, bs)
BY DEF SeenOK

(* One call changes and no answer is added.                                *)
LEMMA SeenOthers ==
  ASSUME SeenInv, CallsInv, NEW c \in Clients, NEW q, call' = [call EXCEPT ![c] = q], SeenOK(q, answers'),
         answers' \subseteq answers, UNCHANGED <<regs, saved>>
  PROVE  SeenInv'
<1>1. call'[c] = q /\ \A d \in Clients : d # c => call'[d] = call[d]
  BY CallAt
<1>2. ASSUME NEW d \in Clients, call'[d] # Idle PROVE SeenOK(call'[d], answers')
  <2>1. CASE d = c
    BY <1>1, <2>1
  <2>2. CASE d # c
    <3>1. call'[d] = call[d] /\ SeenOK(call[d], answers)
      BY <1>1, <1>2, <2>2 DEF SeenInv
    <3>2. SeenOK(call[d], answers')
      BY <3>1, SeenFewer
    <3>. QED BY <3>1, <3>2
  <2>. QED BY <2>1, <2>2
<1>3. Kept(regs') /\ Kept(saved')
  BY DEF SeenInv
<1>. QED BY <1>2, <1>3 DEF SeenInv

(* A call that has just begun has seen nothing.                            *)
LEMMA SeenFresh ==
  ASSUME NEW q, q.seen = <<>>, q.answered = FALSE, NEW as
  PROVE  SeenOK(q, as)
BY DEF SeenOK, Known

(* A call begins or is sent.                                               *)
LEMMA SeenBegin ==
  ASSUME CfgInv, SeenInv, NEW c \in Clients, Begin(c) \/ SendRadio(c)
  PROVE  SeenInv'
<1>0. CfgTypes /\ CallsInv
  BY DEF CfgInv
<1>1. \E q : call' = [call EXCEPT ![c] = q] /\ q.seen = <<>> /\ q.answered = FALSE
  <2>1. CASE Begin(c)
    <3>1. PICK cl : BeginsWith(c, cl)
      BY <1>0, <2>1, BeginSteps
    <3>2. NewCall(cl).seen = <<>> /\ NewCall(cl).answered = FALSE
      BY DEF NewCall
    <3>. QED BY <3>1, <3>2 DEF BeginsWith, Ended, Issuing
  <2>2. CASE SendRadio(c)
    <3>1. PICK f, q : Issuing(c, f, q)
      BY <1>0, <2>2, SendSteps
    <3>2. call' = [call EXCEPT ![c] = q] /\ q.seen = <<>> /\ q.answered = FALSE
      BY <3>1 DEF Issuing
    <3>. QED BY <3>2
  <2>. QED BY <2>1, <2>2
<1>2. UNCHANGED <<answers, regs, saved>>
  BY DEF Begin, SendRadio
<1>3. PICK q : call' = [call EXCEPT ![c] = q] /\ q.seen = <<>> /\ q.answered = FALSE
  BY <1>1
<1>4. SeenOK(q, answers')
  BY <1>3, SeenFresh
<1>. QED BY <1>0, <1>2, <1>3, <1>4, SeenOthers

(* A call ends with what its function makes of the answer.                 *)
LEMMA SeenEnds ==
  ASSUME CfgInv, SeenInv, NEW c \in Clients, Answer(c) \/ Timeout(c)
  PROVE  SeenInv'
<1>0. CfgTypes /\ CallsInv
  BY DEF CfgInv
<1>. DEFINE r == call[c]
<1>1. SeenOK(r, answers)
  BY <1>0, AnswerSteps, TimeoutSteps DEF Waiting, SeenInv
<1>2. answers' \subseteq answers /\ UNCHANGED <<regs, saved>>
  BY <1>0, AnswerSteps, TimeoutSteps
<1>3. PICK q : /\ call' = [call EXCEPT ![c] = q] /\ q.id = r.id /\ q.call = r.call /\ q.seen = r.seen
               /\ \/ q.answered = FALSE
                  \/ \E a \in answers : a.id = r.id /\ q.out = Finish(r.call, a.answer)
  BY <1>0, AnswerSteps, TimeoutSteps DEF Continues
<1>4. SeenOK(q, answers')
  BY <1>1, <1>2, <1>3 DEF SeenOK
<1>. QED BY <1>0, <1>2, <1>3, <1>4, SeenOthers

(* The answer is made of the parameter as the firmware has it.             *)
LEMMA SeenExecute ==
  ASSUME CfgInv, RanInv, SeenInv, Execute
  PROVE  SeenInv'
<1>0. CfgTypes /\ CallsInv /\ QueueTypes /\ txq \in Seq(CmdFrames)
  BY DEF CfgInv, CfgTypes, QueueTypes
<1>. DEFINE f == txq[1]
            c == f.client
<1>1. /\ txq # <<>> /\ f \in CmdFrames
      /\ regs' = IF Writes(f.cmd) THEN Put(regs, f.cmd, [payload |-> f.payload, args |-> f.args]) ELSE regs
      /\ saved' = IF f.cmd = "SAVE_CFG" THEN regs ELSE saved
      /\ answers' \in {answers, answers \union {[id |-> f.id, answer |-> DeviceAnswer(f.cmd)]}}
      /\ (Mine(c, f) => Told(c, f)) /\ (~Mine(c, f) => call' = call)
  BY <1>0, ExecuteSteps
<1>2. c \in Clients /\ BodyOf(f) \in Bodies
  BY <1>1 DEF CmdFrames
<1>3. 1 \in 1 .. Len(txq)
  BY <1>0, <1>1
<1>4. ASSUME NEW d \in Clients, call[d] # Idle, call[d].id = f.id
      PROVE  d = c /\ Mine(c, f) /\ call[d].ran = <<>> /\ f.cmd = CmdOf(call[d].call) /\ RanOK(call[d], d)
  <2>1. txq[1].client = d /\ call[d].ran = <<>> /\ Fits(call[d].call, f, mixed) /\ RanOK(call[d], d)
    BY <1>3, <1>4 DEF RanInv, RanOK
  <2>2. call[d].pc # "idle"
    <3>1. CallOK(call[d])
      BY <1>0 DEF CallsInv
    <3>. QED BY <1>4, <3>1 DEF CallOK
  <2>. QED BY <1>4, <2>1, <2>2 DEF Mine, Fits
<1>. HIDE DEF f
<1>5. Kept(regs') /\ Kept(saved')
  <2>1. Stored(f.cmd, [payload |-> f.payload, args |-> f.args])
    BY <1>2 DEF BodyOf, Stored
  <2>2. Kept(Put(regs, f.cmd, [payload |-> f.payload, args |-> f.args]))
    BY <2>1 DEF SeenInv, Kept, Put
  <2>. QED BY <1>1, <2>2 DEF SeenInv
<1>6. \A a \in answers' : a \in answers \/ (a.id = f.id /\ a.answer = DeviceAnswer(f.cmd))
  BY <1>1
<1>7. Truth(f.cmd) = <<>> \/ \E b \in Bodies : /\ f.cmd \in DOMAIN ReadOf /\ b.cmd = ReadOf[f.cmd]
                                               /\ Truth(f.cmd) = <<b.args>> /\ DeviceAnswer(f.cmd) = AnswerFrom(f.cmd, b)
  <2>1. CASE IsSet(f.cmd)
    <3>1. f.cmd \in DOMAIN ReadOf /\ Stored(ReadOf[f.cmd], regs[ReadOf[f.cmd]])
      BY <2>1 DEF IsSet, SeenInv, Kept
    <3>2. PICK b \in Bodies : /\ b.cmd = ReadOf[f.cmd] /\ b.payload = regs[ReadOf[f.cmd]].payload
                              /\ b.args = regs[ReadOf[f.cmd]].args
      BY <3>1 DEF Stored
    <3>3. Truth(f.cmd) = <<b.args>> /\ DeviceAnswer(f.cmd) = AnswerFrom(f.cmd, b)
      BY <2>1, <3>2 DEF Truth, DeviceAnswer, AnswerFrom
    <3>. QED BY <3>1, <3>2, <3>3
  <2>2. CASE ~IsSet(f.cmd)
    BY <2>2 DEF Truth
  <2>. QED BY <2>1, <2>2
<1>8. ASSUME NEW d \in Clients, call[d] # Idle, call'[d] = call[d], call[d].id # f.id PROVE SeenOK(call'[d], answers')
  <2>1. SeenOK(call[d], answers)
    BY <1>8 DEF SeenInv
  <2>. QED BY <1>6, <1>8, <2>1, SeenFewer
<1>9. CASE ~Mine(c, f)
  <2>1. call' = call
    BY <1>1, <1>9
  <2>2. ASSUME NEW d \in Clients, call'[d] # Idle PROVE SeenOK(call'[d], answers')
    BY <1>4, <1>8, <1>9, <2>1, <2>2
  <2>. QED BY <1>5, <2>2 DEF SeenInv
<1>10. CASE Mine(c, f)
  <2>1. PICK q : /\ call' = [call EXCEPT ![c] = q] /\ Continues(q, call[c]) /\ q.answered = call[c].answered
                 /\ q.seen = Truth(f.cmd)
    BY <1>1, <1>10 DEF Told
  <2>2. call[c] # Idle /\ call[c].id = f.id
    BY <1>10 DEF Mine, Idle
  <2>3. call'[c] = q /\ \A d \in Clients : d # c => call'[d] = call[d]
    BY <1>0, <1>2, <2>1, CallAt
  <2>4. /\ call[c].ran = <<>> /\ f.cmd = CmdOf(call[c].call) /\ RanOK(call[c], c)
    BY <1>2, <1>4, <2>2
  <2>5. q.answered # TRUE /\ \A a \in answers : a.id # q.id
    BY <2>1, <2>2, <2>4 DEF RanOK, Continues
  <2>6. Known(q.call, q.seen, DeviceAnswer(f.cmd))
    <3>1. f.cmd = CmdOf(q.call)
      BY <2>1, <2>4 DEF Continues
    <3>. QED BY <1>7, <2>1, <3>1 DEF Known
  <2>7. SeenOK(q, answers')
    BY <1>6, <2>5, <2>6 DEF SeenOK
  <2>8. ASSUME NEW d \in Clients, call'[d] # Idle PROVE SeenOK(call'[d], answers')
    <3>1. CASE d = c
      BY <2>3, <2>7, <3>1
    <3>2. CASE d # c
      <4>1. call'[d] = call[d] /\ call[d] # Idle
        BY <2>3, <2>8, <3>2
      <4>2. call[d].id # f.id
        BY <1>4, <3>2, <4>1
      <4>. QED BY <1>8, <4>1, <4>2
    <3>. QED BY <3>1, <3>2
  <2>. QED BY <1>5, <2>8 DEF SeenInv
<1>. QED BY <1>9, <1>10

(* Every step keeps what the queries have seen.                            *)
LEMMA SeenStep ==
  ASSUME CfgInv, RanInv, SeenInv, [CfgNext]_cfgvars
  PROVE  SeenInv'
<1>1. CASE Lose \/ Stray \/ Reset \/ Reload \/ Finished \/ UNCHANGED cfgvars
  <2>1. call' = call /\ saved' = saved /\ answers' \subseteq answers /\ (regs' = regs \/ regs' = saved)
    BY <1>1 DEF Lose, Stray, Reset, Reload, Finished, cfgvars
  <2>2. ASSUME NEW d \in Clients, call'[d] # Idle PROVE SeenOK(call'[d], answers')
    <3>1. SeenOK(call[d], answers)
      BY <2>1, <2>2 DEF SeenInv
    <3>. QED BY <2>1, <3>1, SeenFewer
  <2>3. Kept(regs') /\ Kept(saved')
    BY <2>1 DEF SeenInv
  <2>. QED BY <2>2, <2>3 DEF SeenInv
<1>. QED BY <1>1, SeenBegin, SeenEnds, SeenExecute DEF CfgNext

(* Hence it always holds.                                                  *)
LEMMA SeenInductive == CfgSpec => [](EffectInv /\ SeenInv)
<1>1. CfgInit => SeenInv
  <2>. SUFFICES ASSUME CfgInit PROVE SeenInv
    OBVIOUS
  <2>1. regs = <<>> /\ saved = <<>> /\ \A c \in Clients : call[c] = Idle
    BY DEF CfgInit
  <2>2. DOMAIN regs = {} /\ DOMAIN saved = {}
    BY <2>1
  <2>. QED BY <2>1, <2>2 DEF SeenInv, Kept
<1>2. EffectInv /\ SeenInv /\ [CfgNext]_cfgvars => SeenInv'
  BY SeenStep DEF EffectInv
<1>. QED BY <1>1, <1>2, InitEffectInv, NextEffectInv, PTL DEF CfgSpec

(* A get on its own, of a parameter that the call k has set, returns what  *)
(* k has passed.                                                           *)
ReadsBack(cl, k) ==
  /\ Dispatch(cl).wrap # "" /\ Dispatch(k).wrap # ""
  /\ CmdOf(cl) \in DOMAIN ReadOf /\ CmdOf(k) = ReadOf[CmdOf(cl)]
  => Returns(cl, Finish(cl, AnswerWith(CmdOf(cl), Content(CmdOf(cl), Meant(k)))), k.args)

(* When every get returns, on its own, what a set has passed, then a get   *)
(* among other callers, losses and restarts returns what the parameter was *)
(* set to when the firmware answered it.                                   *)
THEOREM ReadsBackKept ==
  ASSUME \A cl, k \in Calls : ReadsBack(cl, k)
  PROVE  CfgSpec => []RoundTrip
<1>1. EffectInv /\ SeenInv => RoundTrip
  <2>. SUFFICES ASSUME EffectInv, SeenInv, NEW c \in Clients, call[c].pc = "done", call[c].answered, call[c].seen # <<>>
                PROVE  Returns(call[c].call, call[c].out, call[c].seen[1])
    BY DEF RoundTrip
  <2>. DEFINE r == call[c]
              cl == r.call
  <2>1. /\ cl \in Calls /\ r.answered = TRUE /\ (r.id = -1 <=> Dispatch(cl).wrap = "") /\ RanOK(r, c)
        /\ SeenOK(r, answers)
    <3>1. SeenOK(r, answers)
      BY DEF SeenInv, Idle
    <3>2. /\ cl \in Calls /\ r.answered \in BOOLEAN /\ r.answered /\ r.disp = Dispatch(cl)
          /\ (r.id = -1 <=> r.disp.wrap = "") /\ RanOK(r, c)
      BY ReturnedCall
    <3>. HIDE DEF r
    <3>. QED BY <3>1, <3>2
  <2>2. Dispatch(cl).wrap # ""
    BY <2>1 DEF RanOK
  <2>3. PICK b \in Bodies : /\ CmdOf(cl) \in DOMAIN ReadOf /\ b.cmd = ReadOf[CmdOf(cl)] /\ r.seen = <<b.args>>
                            /\ r.out = Finish(cl, AnswerFrom(CmdOf(cl), b))
    BY <2>1 DEF SeenOK, Known
  <2>. HIDE DEF r
  <2>4. PICK k \in Senders, v \in 0 .. 255 : b = Body(k, v)
    BY DEF Bodies
  <2>5. k \in Calls /\ Dispatch(k).wrap # "" /\ CmdOf(k) = ReadOf[CmdOf(cl)] /\ b.args = k.args
    BY <2>3, <2>4 DEF Body, Senders
  <2>6. ~IsRadio(Dispatch(k))
    <3>1. \A x \in DOMAIN ReadOf : ReadOf[x] # "RADIO_ONOFF"
      BY DEF ReadOf
    <3>2. IsRadio(Dispatch(k)) => CmdOf(k) = "RADIO_ONOFF"
      BY RadioAssumption DEF IsRadio, CmdOf
    <3>. QED BY <2>3, <2>5, <3>1, <3>2
  <2>7. b.payload = Meant(k)
    BY <2>4, <2>6 DEF Body, Meant, SentArgs
  <2>8. Returns(cl, Finish(cl, AnswerWith(CmdOf(cl), Content(CmdOf(cl), Meant(k)))), k.args)
    BY <2>1, <2>2, <2>3, <2>5 DEF ReadsBack
  <2>9. r.seen[1] = k.args /\ r.out = Finish(cl, AnswerWith(CmdOf(cl), Content(CmdOf(cl), Meant(k))))
    <3>1. AnswerFrom(CmdOf(cl), b) = AnswerWith(CmdOf(cl), Content(CmdOf(cl), Meant(k)))
      BY <2>7 DEF AnswerFrom
    <3>2. r.seen = <<k.args>>
      BY <2>3, <2>5
    <3>. QED BY <2>3, <3>1, <3>2
  <2>. QED BY <2>8, <2>9 DEF r
<1>. QED BY <1>1, SeenInductive, PTL
=============================================================================
