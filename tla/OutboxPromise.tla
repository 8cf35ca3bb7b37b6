--------------------------- MODULE OutboxPromise ---------------------------
(***************************************************************************)
(* What the transactional outbox promises its consumers, whatever engine   *)
(* stores it (contracts/outbox.ts, ADR 0018): every recorded event reaches *)
(* the bus at least once, and the first time it does every earlier version *)
(* of its aggregate has either reached the bus before it or been given up  *)
(* on (quarantined) before it.  Publishing an event again is a stutter:    *)
(* delivery is at least once.                                              *)
(***************************************************************************)
EXTENDS Naturals

CONSTANTS Events,    \* the domain events
          AggOf,     \* event.aggregate
          VersionOf  \* event.version, the aggregate's version it describes

VARIABLES recorded,  \* events written to the outbox
          delivered, \* events that reached the bus
          forgone    \* events the relay gave up on at least once

promiseVars == <<recorded, delivered, forgone>>

(* e is an earlier version of the aggregate f is about. *)
Earlier(e, f) == AggOf[e] = AggOf[f] /\ VersionOf[e] < VersionOf[f]

PInit == recorded = {} /\ delivered = {} /\ forgone = {}

(* A write emits the event of the aggregate's next version. *)
Record(e) ==
  /\ e \notin recorded
  /\ \A f \in Events : Earlier(f, e) => f \in recorded
  /\ recorded' = recorded \union {e}
  /\ UNCHANGED <<delivered, forgone>>

Deliver(e) ==
  /\ e \in recorded
  /\ \A f \in Events : Earlier(f, e) => f \in delivered \union forgone
  /\ delivered' = delivered \union {e}
  /\ UNCHANGED <<recorded, forgone>>

Forgo(e) ==
  /\ e \in recorded
  /\ forgone' = forgone \union {e}
  /\ UNCHANGED <<recorded, delivered>>

PNext == \E e \in Events : Record(e) \/ Deliver(e) \/ Forgo(e)

PSpec == PInit /\ [][PNext]_promiseVars
=============================================================================
