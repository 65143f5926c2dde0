------------------------------ MODULE EvtQueue ------------------------------
(***************************************************************************)
(* Firmware events on their way to user space: hgicf_rx_fw_event           *)
(* (hgic_fmac/event.c) runs on the fwctrl workqueue and queues events on   *)
(* evt_list, hgicf_fwevent_read (hgic_fmac/procfs.c) takes them off.  The  *)
(* semaphore evt_sema counts the events for the readers; the list has its  *)
(* own lock, and nothing covers the list and the semaphore together.       *)
(***************************************************************************)
EXTENDS Naturals, Sequences, FiniteSets

CONSTANTS
  Readers,    \* threads that read /proc/hgicf/fwevnt
  EventMax,   \* HGIC_EVENT_MAX
  MaxEvents   \* bound on the number of events of a behaviour

ASSUME ReadersAssumption == IsFiniteSet(Readers)
ASSUME EventAssumption   == EventMax \in Nat /\ MaxEvents \in Nat

VARIABLES
  list,      \* evt_list: the numbers of the queued events, oldest first
  sema,      \* evt_sema
  prod,      \* hgicf_rx_fw_event: "idle", "room", "add", "up"
  recvd,     \* events received so far, which numbers them
  dropped,   \* events dropped as the oldest of a full list
  holders,   \* readers between down_timeout and the dequeue
  empty,     \* reads that had a permit and found no event
  last,      \* the number of the last event that was read
  removed    \* hgicf_core_remove is done with the events

vars == <<list, sema, prod, recvd, dropped, holders, empty, last, removed>>

-----------------------------------------------------------------------------
(* hgicf_rx_fw_event.  Too short frames and FWDBG_INFO events are freed.   *)
RecvIgnored ==
  /\ prod = "idle" /\ ~removed /\ recvd < MaxEvents
  /\ recvd' = recvd + 1
  /\ UNCHANGED <<list, sema, prod, dropped, holders, empty, last, removed>>

\* Mutant: the length is not compared with the limit.
ListFullNever == FALSE

ListFull == Len(list) > EventMax

Recv ==
  /\ prod = "idle" /\ ~removed /\ recvd < MaxEvents
  /\ recvd' = recvd + 1
  /\ prod' = IF ListFull THEN "room" ELSE "add"
  /\ UNCHANGED <<list, sema, dropped, holders, empty, last, removed>>

(* Meanwhile the readers may have emptied the list.                        *)
DropOldest ==
  /\ prod = "room"
  /\ IF list = <<>> THEN UNCHANGED <<list, dropped>>
                    ELSE list' = Tail(list) /\ dropped' = dropped + 1
  /\ prod' = "add"
  /\ UNCHANGED <<sema, recvd, holders, empty, last, removed>>

\* Mutant: skb_queue_head instead of skb_queue_tail.
QueueHead == list' = <<recvd>> \o list

QueueTail == list' = Append(list, recvd)

AddTail ==
  /\ prod = "add"
  /\ QueueTail
  /\ prod' = "up"
  /\ UNCHANGED <<sema, recvd, dropped, holders, empty, last, removed>>

\* Mutant: no permit for an event that took the place of a dropped one.
SemaUpUnlessFull == sema' = IF Len(list) > EventMax THEN sema ELSE sema + 1

\* Mutant: only an event that finds the list empty gives a permit.
SemaUpIfFirst == sema' = IF Len(list) = 1 THEN sema + 1 ELSE sema

SemaUp == sema' = sema + 1

UpSema ==
  /\ prod = "up"
  /\ SemaUp
  /\ prod' = "idle"
  /\ UNCHANGED <<list, recvd, dropped, holders, empty, last, removed>>

-----------------------------------------------------------------------------

PermitAvailable == sema > 0

(* hgicf_fwevent_read.  A down_timeout that expires changes nothing.       *)
Down(r) ==
  /\ r \notin holders /\ PermitAvailable /\ ~removed
  /\ sema' = sema - 1
  /\ holders' = holders \cup {r}
  /\ UNCHANGED <<list, prod, recvd, dropped, empty, last, removed>>

ReadEvent(r) ==
  /\ r \in holders /\ list # <<>>
  /\ last' = Head(list)
  /\ list' = Tail(list)
  /\ holders' = holders \ {r}
  /\ UNCHANGED <<sema, prod, recvd, dropped, empty, removed>>

ReadEmpty(r) ==
  /\ r \in holders /\ list = <<>>
  /\ empty' = empty + 1
  /\ holders' = holders \ {r}
  /\ UNCHANGED <<list, sema, prod, recvd, dropped, last, removed>>

(* hgicf_core_remove: the /proc entry is gone (no readers are left), the   *)
(* fwctrl work is cancelled, the list is emptied.                          *)
EvtRemove ==
  /\ ~removed /\ holders = {} /\ prod = "idle"
  /\ removed' = TRUE
  /\ list' = <<>>
  /\ UNCHANGED <<sema, prod, recvd, dropped, holders, empty, last>>

-----------------------------------------------------------------------------
Init ==
  /\ list = <<>> /\ sema = 0
  /\ prod = "idle" /\ recvd = 0 /\ dropped = 0
  /\ holders = {} /\ empty = 0 /\ last = 0
  /\ removed = FALSE

Produce == RecvIgnored \/ Recv \/ DropOldest \/ AddTail \/ UpSema

Next ==
  \/ Produce
  \/ \E r \in Readers : Down(r) \/ ReadEvent(r) \/ ReadEmpty(r)
  \/ EvtRemove

Spec == Init /\ [][Next]_vars

-----------------------------------------------------------------------------
(* Properties.                                                             *)

(* Every variable has its type.                                            *)
TypeOK ==
  /\ list \in Seq(Nat) /\ sema \in Nat
  /\ prod \in {"idle", "room", "add", "up"}
  /\ recvd \in Nat /\ dropped \in Nat /\ empty \in Nat /\ last \in Nat
  /\ holders \in SUBSET Readers
  /\ removed \in BOOLEAN

Unposted == IF prod = "up" THEN 1 ELSE 0

(* No event lies in evt_list without a permit that will bring a reader to  *)
(* it: permits, readers that hold one, and the permit the producer is      *)
(* about to give cover the list, whatever was dropped or read empty.       *)
PermitsCoverEvents ==
  Len(list) <= sema + Cardinality(holders) + Unposted

(* A permit is not lost and not invented: the surplus over the queued      *)
(* events is exactly the number of events dropped from a full list, less   *)
(* the reads that used up a surplus permit and found the list empty.       *)
PermitBalance ==
  ~removed => sema + Cardinality(holders) + Unposted + empty = Len(list) + dropped

(* The list never holds more than EventMax + 1 events.                     *)
ListBounded == Len(list) <= EventMax + 1

(* Events are read in the order in which the firmware sent them: every     *)
(* queued event is newer than the last one read, and newer than the ones   *)
(* queued before it.                                                       *)
InOrder ==
  /\ \A i \in 1 .. Len(list) : list[i] > last
  /\ \A i, j \in 1 .. Len(list) : i < j => list[i] < list[j]
=============================================================================
