---------------------------- MODULE OutboxRelay ----------------------------
(***************************************************************************)
(* The Mongo outbox (mongo-client/src/outbox/store.ts) and the relay that  *)
(* drains it (transactions/src/engine/outbox-relay.ts).  Several drains    *)
(* run over one collection: the daemon's sweep, the inline drain of every  *)
(* request that has just committed, and those of other replicas.  A drain  *)
(* reads a batch once and then works from that snapshot: nothing locks an  *)
(* entry, so two drains may hold the same one.                             *)
(***************************************************************************)
EXTENDS Naturals, FiniteSets, FiniteSetsExt

CONSTANTS Events,      \* the domain events that may be emitted
          Aggregates,  \* aggregate keys, contracts/outbox.ts aggregateKey
          AggOf,       \* the aggregate each event is about
          VersionOf,   \* that aggregate's version the event describes
          AtOf,        \* event.at, which becomes createdAt
          Drains,      \* passes that may run at the same time
          Sweeper,     \* the daemon's pass, the one the relay keeps running
          NoEvent,     \* no entry in hand
          Batch,       \* entries read per pass (BATCH)
          MaxAttempts, \* publish attempts before quarantine
          MaxUpsets    \* bound: abandoned passes and repairs of a quarantined entry

ASSUME EventsAssumption ==
  /\ IsFiniteSet(Events)
  /\ NoEvent \notin Events
  /\ AggOf \in [Events -> Aggregates]
  /\ VersionOf \in [Events -> Nat]
  /\ AtOf \in [Events -> Nat]

ASSUME BoundsAssumption ==
  /\ IsFiniteSet(Drains)
  /\ Sweeper \in Drains
  /\ Batch \in Nat \ {0}
  /\ MaxAttempts \in Nat \ {0}
  /\ MaxUpsets \in Nat

VARIABLES
  (* the collection *)
  stored,      \* entries inserted
  sent,        \* entries with sent: true
  quarantined, \* entries with quarantined: true
  attempts,    \* entry.attempts
  (* one pass: its local variables *)
  pc,          \* idle | next | mark | fail
  todo,        \* entries of the batch the loop has not reached
  snap,        \* attempts of each entry as the pass read it
  cur,         \* the entry just published, or just refused
  held,        \* aggregates held back for the rest of the pass
  (* the bus, the history, the bounds *)
  published,   \* events that reached the bus
  skipped,     \* events that have been quarantined at least once
  upsets

store == <<stored, sent, quarantined, attempts>>
pass  == <<pc, todo, snap, cur, held>>
vars  == <<store, pass, published, skipped, upsets>>

-----------------------------------------------------------------------------
(* pending(): unsent, un-quarantined, sorted by createdAt then version, the *)
(* first Batch of them.  Entries that compare equal come in any order.      *)

Pending == stored \ (sent \union quarantined)

(* Mutant: sorted by createdAt alone, so that equal times come in any order. *)
BeforeByTimeOnly(e, f) == AtOf[e] < AtOf[f]

Before(e, f) == \/ AtOf[e] < AtOf[f]
                \/ AtOf[e] = AtOf[f] /\ VersionOf[e] < VersionOf[f]

IsBatchOf(S, P) ==
  /\ \A f \in S, e \in P : Before(e, f) => e \in S
  /\ Cardinality(S) = Min({Batch, Cardinality(P)})

(* The entries the loop has still to publish: `if (held.has(key)) continue`. *)
Unheld(d) == {e \in todo[d] : AggOf[e] \notin held[d]}

Earlier(e, f) == AggOf[e] = AggOf[f] /\ VersionOf[e] < VersionOf[f]

Init ==
  /\ stored = {} /\ sent = {} /\ quarantined = {}
  /\ attempts = [e \in Events |-> 0]
  /\ pc = [d \in Drains |-> "idle"]
  /\ todo = [d \in Drains |-> {}]
  /\ snap = [d \in Drains |-> [e \in Events |-> 0]]
  /\ cur = [d \in Drains |-> NoEvent]
  /\ held = [d \in Drains |-> {}]
  /\ published = {} /\ skipped = {}
  /\ upsets = 0

-----------------------------------------------------------------------------
(* Writers. *)

(* The write that produces version n of an aggregate commits with its event, *)
(* so versions are inserted in order.  A second insert of the same event id  *)
(* answers `duplicate` and changes nothing.                                  *)
Enqueue(e) ==
  /\ e \notin stored
  /\ \A f \in Events : Earlier(f, e) => f \in stored
  /\ stored' = stored \union {e}
  /\ UNCHANGED <<sent, quarantined, attempts, pass, published, skipped, upsets>>

(* reviveQuarantined: the filter is { eventId, quarantined: true }. *)
Revive(e) ==
  /\ upsets < MaxUpsets
  /\ e \in quarantined
  /\ sent' = sent \ {e}
  /\ quarantined' = quarantined \ {e}
  /\ attempts' = [attempts EXCEPT ![e] = 0]
  /\ upsets' = upsets + 1
  /\ UNCHANGED <<stored, pass, published, skipped>>

-----------------------------------------------------------------------------
(* One pass of drainOutbox. *)

StartPass(d) ==
  /\ pc[d] = "idle"
  /\ \E S \in SUBSET Pending :
       /\ IsBatchOf(S, Pending)
       /\ todo' = [todo EXCEPT ![d] = S]
       /\ snap' = [snap EXCEPT ![d] = [e \in Events |-> IF e \in S THEN attempts[e] ELSE 0]]
       /\ pc' = [pc EXCEPT ![d] = IF S = {} THEN "idle" ELSE "next"]
  /\ held' = [held EXCEPT ![d] = {}]
  /\ UNCHANGED <<store, cur, published, skipped, upsets>>

(* e is what the loop reaches next: no entry before it is still to publish. *)
IsHead(d, e) == e \in Unheld(d) /\ \A f \in Unheld(d) : ~Before(f, e)

Take(d, e, next) ==
  /\ pc[d] = "next"
  /\ IsHead(d, e)
  /\ pc' = [pc EXCEPT ![d] = next]
  /\ todo' = [todo EXCEPT ![d] = @ \ {e}]
  /\ cur' = [cur EXCEPT ![d] = e]

PublishOk(d) ==
  \E e \in Events :
    /\ Take(d, e, "mark")
    /\ published' = published \union {e}
    /\ UNCHANGED <<store, snap, held, skipped, upsets>>

(* Mutant: a refused publish is taken for a publish. *)
PublishFailsUnseen(d) ==
  \E e \in Events :
    /\ Take(d, e, "mark")
    /\ UNCHANGED <<store, snap, held, published, skipped, upsets>>

PublishFails(d) ==
  \E e \in Events :
    /\ Take(d, e, "fail")
    /\ UNCHANGED <<store, snap, held, published, skipped, upsets>>

(* Mutant: the loop goes on with the settled entry still in hand. *)
AdvanceKeepingEntry(d) ==
  /\ pc' = [pc EXCEPT ![d] = "next"]
  /\ UNCHANGED <<snap, cur>>

(* The entry in hand is settled and its copy dropped: on to the next one. *)
Advance(d) ==
  /\ pc' = [pc EXCEPT ![d] = "next"]
  /\ snap' = [snap EXCEPT ![d][cur[d]] = 0]
  /\ cur' = [cur EXCEPT ![d] = NoEvent]

(* The pass is over and its locals go. *)
Release(d) ==
  /\ pc' = [pc EXCEPT ![d] = "idle"]
  /\ todo' = [todo EXCEPT ![d] = {}]
  /\ snap' = [snap EXCEPT ![d] = [e \in Events |-> 0]]
  /\ cur' = [cur EXCEPT ![d] = NoEvent]
  /\ held' = [held EXCEPT ![d] = {}]

(* The loop goes on with the aggregates h held back, those it still meets,   *)
(* or ends where that leaves nothing to publish.                             *)
Proceed(d, h) ==
  IF \A e \in todo[d] : AggOf[e] \in h
    THEN Release(d)
    ELSE /\ Advance(d)
         /\ held' = [held EXCEPT ![d] = h \intersect {AggOf[e] : e \in todo[d]}]
         /\ UNCHANGED todo

MarkSent(d) ==
  /\ pc[d] = "mark"
  /\ sent' = sent \union {cur[d]}
  /\ Proceed(d, held[d])
  /\ UNCHANGED <<stored, quarantined, attempts, published, skipped, upsets>>

(* Mutant: one attempt more than the ceiling. *)
QuarantinesLate(d, e) == snap[d][e] + 1 > MaxAttempts

(* The verdict is taken from the entry as the pass read it. *)
Quarantines(d, e) == snap[d][e] + 1 >= MaxAttempts

(* Mutant: a failure does not hold its aggregate. *)
RecordFailureUnheld(d) ==
  LET e == cur[d] IN
  /\ pc[d] = "fail"
  /\ attempts' = [attempts EXCEPT ![e] = @ + 1]
  /\ quarantined' = IF Quarantines(d, e) THEN quarantined \union {e} ELSE quarantined \ {e}
  /\ skipped' = IF Quarantines(d, e) THEN skipped \union {e} ELSE skipped
  /\ Proceed(d, held[d])
  /\ UNCHANGED <<stored, sent, published, upsets>>

(* Mutant: the attempt is not counted. *)
RecordFailureUncounted(d) ==
  /\ pc[d] = "fail"
  /\ Proceed(d, held[d] \union {AggOf[cur[d]]})
  /\ UNCHANGED <<store, published, skipped, upsets>>

(* $inc attempts, $set quarantined: an absolute write of the verdict. *)
RecordFailure(d) ==
  LET e == cur[d] IN
  /\ pc[d] = "fail"
  /\ attempts' = [attempts EXCEPT ![e] = @ + 1]
  /\ IF Quarantines(d, e)
       THEN /\ quarantined' = quarantined \union {e}
            /\ skipped' = skipped \union {e}
            /\ Proceed(d, held[d])
       ELSE /\ quarantined' = quarantined \ {e}
            /\ skipped' = skipped
            /\ Proceed(d, held[d] \union {AggOf[e]})
  /\ UNCHANGED <<stored, sent, published, upsets>>

(* The pass ends early: a store failure (sweepFailed, drainFailed), the      *)
(* interrupt of the daemon at shutdown, or the death of the process.         *)
Abandon(d) ==
  /\ pc[d] # "idle"
  /\ upsets < MaxUpsets
  /\ upsets' = upsets + 1
  /\ Release(d)
  /\ UNCHANGED <<store, published, skipped>>

-----------------------------------------------------------------------------
Step(d) == \/ StartPass(d) \/ PublishOk(d) \/ PublishFails(d) \/ MarkSent(d)
           \/ RecordFailure(d)

Next == \/ \E e \in Events : Enqueue(e) \/ Revive(e)
        \/ \E d \in Drains : Step(d) \/ Abandon(d)

(* The daemon sweeps forever (delay |> forever); an inline drain may stall.  *)
(* Weak fairness of Step(Sweeper), with what enables it said outright: there *)
(* is a pass to go on with, or something for a new one to find.              *)
CanSweep == pc[Sweeper] # "idle" \/ Pending # {}
Fairness == []<>(~CanSweep) \/ []<><<Step(Sweeper)>>_vars

Spec == Init /\ [][Next]_vars
FairSpec == Spec /\ Fairness

-----------------------------------------------------------------------------
(* Properties. *)

(* Every variable keeps to its type: what each pass holds is an entry of the *)
(* collection, and it has one in hand exactly while it settles it.           *)
TypeOK ==
  /\ stored \subseteq Events
  /\ sent \subseteq stored
  /\ quarantined \subseteq stored
  /\ attempts \in [Events -> Nat]
  /\ pc \in [Drains -> {"idle", "next", "mark", "fail"}]
  /\ todo \in [Drains -> SUBSET stored]
  /\ snap \in [Drains -> [Events -> Nat]]
  /\ cur \in [Drains -> stored \union {NoEvent}]
  /\ \A d \in Drains : cur[d] # NoEvent <=> pc[d] \in {"mark", "fail"}
  /\ held \in [Drains -> SUBSET Aggregates]
  /\ published \subseteq stored
  /\ skipped \subseteq stored
  /\ upsets \in 0 .. MaxUpsets

(* Publication order (drainOutbox: "in order within each aggregate"): when   *)
(* an event has reached the bus, every earlier version of its aggregate has  *)
(* reached it too or was quarantined on the way, whatever passes overlapped, *)
(* failed or died.                                                           *)
OrderedFirstPublish ==
  \A e, f \in Events :
    Earlier(e, f) /\ f \in published => e \in published \union skipped

(* The clocks that stamped event.at agree with the versions: what the sort   *)
(* by createdAt rests on.                                                    *)
ClocksAgree == \A e, f \in Events : Earlier(e, f) => AtOf[e] <= AtOf[f]

(* A pass never holds a later version without the earlier one: an entry of   *)
(* its batch has its predecessors behind it on the bus or in quarantine, or  *)
(* still ahead in the same batch, or refused and holding the aggregate.      *)
BatchIsClosed ==
  \A d \in Drains : \A f \in todo[d] : \A e \in Events :
    Earlier(e, f) =>
      \/ e \in published \union skipped \union todo[d]
      \/ AggOf[e] \in held[d]
      \/ e = cur[d]

(* An entry leaves the pending set only by way of the bus or of quarantine:  *)
(* no crash, store failure or overlap marks an event sent that never went.   *)
NothingLost ==
  /\ sent \subseteq published
  /\ quarantined \subseteq skipped
  /\ \A d \in Drains : pc[d] = "mark" => cur[d] \in published

(* Writers insert an aggregate's versions in order. *)
StoredInOrder ==
  \A e, f \in Events : Earlier(e, f) /\ f \in stored => e \in stored

IInv == TypeOK /\ StoredInOrder /\ NothingLost /\ BatchIsClosed /\ OrderedFirstPublish

(* The ceiling holds although every pass decides from a stale count: the     *)
(* comment on recordFailure says $inc keeps two passes from stretching it    *)
(* indefinitely.  A pass that read the entry long ago adds one attempt and   *)
(* lifts the quarantine, and each time it is lifted every other pass can     *)
(* read the entry once more: quadratic in the passes, and no more.           *)
CeilingHolds ==
  LET n == Cardinality(Drains)
  IN \A e \in Events : attempts[e] <= MaxAttempts + (n - 2) + (n * (n + 1)) \div 2

(* The relay refines what the outbox promises: publishing again is a stutter.*)
Promise == INSTANCE OutboxPromise
             WITH recorded <- stored, delivered <- published, forgone <- skipped
RefinesPromise == Promise!PSpec

(* Every entry is settled for good: sent, or quarantined after MaxAttempts,  *)
(* although a failing head holds its aggregate back and may fill the batch.  *)
EventuallySettled == <>[](stored \subseteq sent \union quarantined)
=============================================================================
