------------------------- MODULE OutboxRelayProofs -------------------------
(***************************************************************************)
(* Proofs about OutboxRelay: its types, the order of first publication,    *)
(* the refinement of OutboxPromise and the ceiling on attempts, for any    *)
(* events, any number of passes, any batch size and any ceiling.  Order    *)
(* and the refinement rest on ClocksAgree; the types and the ceiling do    *)
(* not.                                                                    *)
(***************************************************************************)
EXTENDS OutboxRelay, FiniteSetTheorems, TLAPS

(* Going on keeps the pass's locals to their types. *)
LEMMA ProceedTyped ==
  ASSUME TypeOK, NEW d \in Drains, NEW H \in SUBSET Aggregates, Proceed(d, H), stored' = stored
  PROVE  /\ pc' \in [Drains -> {"idle", "next", "mark", "fail"}]
         /\ todo' \in [Drains -> SUBSET stored']
         /\ snap' \in [Drains -> [Events -> Nat]]
         /\ cur' \in [Drains -> stored' \union {NoEvent}]
         /\ \A c \in Drains : cur'[c] # NoEvent <=> pc'[c] \in {"mark", "fail"}
         /\ held' \in [Drains -> SUBSET Aggregates]
<1>1. CASE Release(d)
  BY <1>1 DEF Release, TypeOK
<1>2. CASE Advance(d) /\ todo' = todo
  <2>1. held' \in [Drains -> SUBSET Aggregates]
    BY <1>2 DEF Proceed, Release, TypeOK
  <2> QED
    BY <1>2, <2>1 DEF Advance, TypeOK
<1> QED
  BY <1>1, <1>2 DEF Proceed

(* Every reachable state is well typed: a pass holds only stored entries and *)
(* has one in hand exactly between its publish and its settlement.           *)
THEOREM TypeCorrect == Spec => []TypeOK
<1>1. Init => TypeOK
  BY EventsAssumption, BoundsAssumption DEF Init, TypeOK
<1>2. TypeOK /\ [Next]_vars => TypeOK'
  <2> SUFFICES ASSUME TypeOK, [Next]_vars PROVE TypeOK'
    OBVIOUS
  <2> USE EventsAssumption, BoundsAssumption DEF TypeOK
  <2>1. ASSUME NEW e \in Events, Enqueue(e) PROVE TypeOK'
    BY <2>1 DEF Enqueue, pass
  <2>2. ASSUME NEW e \in Events, Revive(e) PROVE TypeOK'
    BY <2>2 DEF Revive, pass
  <2>3. ASSUME NEW d \in Drains, StartPass(d) PROVE TypeOK'
    <3>1. PICK S \in SUBSET Pending :
            /\ todo' = [todo EXCEPT ![d] = S]
            /\ snap' = [snap EXCEPT ![d] = [e \in Events |-> IF e \in S THEN attempts[e] ELSE 0]]
      BY <2>3 DEF StartPass
    <3>2. S \in SUBSET stored
      BY DEF Pending
    <3>3. todo' \in [Drains -> SUBSET stored]
      BY <3>1, <3>2
    <3>4. [e \in Events |-> IF e \in S THEN attempts[e] ELSE 0] \in [Events -> Nat]
      OBVIOUS
    <3>5. snap' \in [Drains -> [Events -> Nat]]
      BY <3>1, <3>4
    <3> QED
      BY <2>3, <3>3, <3>5 DEF StartPass, store
  <2>4. ASSUME NEW d \in Drains, PublishOk(d) PROVE TypeOK'
    BY <2>4 DEF PublishOk, Take, IsHead, Unheld, store
  <2>5. ASSUME NEW d \in Drains, PublishFails(d) PROVE TypeOK'
    BY <2>5 DEF PublishFails, Take, IsHead, Unheld, store
  <2>6. ASSUME NEW d \in Drains, MarkSent(d) PROVE TypeOK'
    <3>1. held[d] \in SUBSET Aggregates /\ cur[d] \in stored
      BY <2>6 DEF MarkSent
    <3> QED
      BY <2>6, <3>1, ProceedTyped DEF MarkSent
  <2>7. ASSUME NEW d \in Drains, RecordFailure(d) PROVE TypeOK'
    <3>1. cur[d] \in stored /\ AggOf[cur[d]] \in Aggregates
      BY <2>7 DEF RecordFailure
    <3>2. PICK H \in SUBSET Aggregates : Proceed(d, H)
      BY <2>7, <3>1 DEF RecordFailure
    <3> QED
      BY <2>7, <3>1, <3>2, ProceedTyped DEF RecordFailure
  <2>8. ASSUME NEW d \in Drains, Abandon(d) PROVE TypeOK'
    BY <2>8 DEF Abandon, Release, store
  <2>9. CASE UNCHANGED vars
    BY <2>9 DEF vars, store, pass
  <2> QED
    BY <2>1, <2>2, <2>3, <2>4, <2>5, <2>6, <2>7, <2>8, <2>9 DEF Next, Step
<1> QED
  BY <1>1, <1>2, PTL DEF Spec

-----------------------------------------------------------------------------
(* No entry leaves the pending set but by way of the bus or of quarantine,   *)
(* whatever passes overlap, fail or die: markSent follows its own publish.   *)
THEOREM LosesNothing == Spec => []NothingLost
<1>1. Init => NothingLost
  BY BoundsAssumption DEF Init, NothingLost
<1>2. TypeOK /\ NothingLost /\ [Next]_vars => NothingLost'
  <2> SUFFICES ASSUME TypeOK, NothingLost, [Next]_vars PROVE NothingLost'
    OBVIOUS
  <2> USE DEF NothingLost
  <2>1. ASSUME NEW e \in Events, Enqueue(e) \/ Revive(e) PROVE NothingLost'
    BY <2>1 DEF Enqueue, Revive, pass
  <2>2. ASSUME NEW d \in Drains, StartPass(d) PROVE NothingLost'
    BY <2>2 DEF StartPass, store, TypeOK
  <2>3. ASSUME NEW d \in Drains, PublishOk(d) \/ PublishFails(d) PROVE NothingLost'
    BY <2>3 DEF PublishOk, PublishFails, Take, store, TypeOK
  <2>4. ASSUME NEW d \in Drains, MarkSent(d) PROVE NothingLost'
    BY <2>4 DEF MarkSent, Proceed, Advance, Release, TypeOK
  <2>5. ASSUME NEW d \in Drains, RecordFailure(d) PROVE NothingLost'
    <3>1. quarantined' \subseteq skipped' /\ UNCHANGED <<sent, published>>
      BY <2>5 DEF RecordFailure
    <3>2. pc'[d] # "mark" /\ \A c \in Drains : c # d => pc'[c] = pc[c] /\ cur'[c] = cur[c]
      BY <2>5 DEF RecordFailure, Proceed, Advance, Release, TypeOK
    <3> QED
      BY <3>1, <3>2
  <2>6. ASSUME NEW d \in Drains, Abandon(d) PROVE NothingLost'
    BY <2>6 DEF Abandon, Release, store, TypeOK
  <2>7. CASE UNCHANGED vars
    BY <2>7 DEF vars, store, pass
  <2> QED
    BY <2>1, <2>2, <2>3, <2>4, <2>5, <2>6, <2>7 DEF Next, Step
<1> QED
  BY <1>1, <1>2, TypeCorrect, PTL DEF Spec

-----------------------------------------------------------------------------
(* With agreeing clocks the sort of pending() puts versions in order. *)
LEMMA EarlierIsBefore ==
  ASSUME ClocksAgree, NEW e \in Events, NEW f \in Events, Earlier(e, f)
  PROVE  Before(e, f)
  BY EventsAssumption DEF ClocksAgree, Earlier, Before

(* When a pass reaches an event, the earlier versions of its aggregate are   *)
(* already on the bus or in quarantine.                                      *)
LEMMA HeadHasNoPredecessor ==
  ASSUME ClocksAgree, TypeOK, BatchIsClosed,
         NEW d \in Drains, pc[d] = "next",
         NEW f \in Events, IsHead(d, f),
         NEW e \in Events, Earlier(e, f)
  PROVE  e \in published \union skipped
<1>1. f \in todo[d] /\ AggOf[f] \notin held[d]
  BY DEF IsHead, Unheld
<1>2. AggOf[e] \notin held[d]
  BY <1>1 DEF Earlier
<1>3. e # cur[d]
  BY EventsAssumption DEF TypeOK
<1>4. e \notin todo[d]
  BY <1>2, EarlierIsBefore DEF IsHead, Unheld
<1> QED
  BY <1>1, <1>2, <1>3, <1>4 DEF BatchIsClosed

(* Going on with the entry in hand settled keeps what a pass holds closed.   *)
LEMMA ProceedClosed ==
  ASSUME TypeOK, BatchIsClosed, published \subseteq published', skipped \subseteq skipped',
         NEW d \in Drains, NEW H, Proceed(d, H), held[d] \subseteq H,
         cur[d] \in published' \union skipped' \/ AggOf[cur[d]] \in H
  PROVE  BatchIsClosed'
<1>1. \A c \in Drains : c # d => todo'[c] = todo[c] /\ cur'[c] = cur[c] /\ held'[c] = held[c]
  BY DEF Proceed, Advance, Release, TypeOK
<1>2. CASE \A e \in todo[d] : AggOf[e] \in H
  <2>1. todo'[d] = {}
    BY <1>2 DEF Proceed, Release, TypeOK
  <2> QED
    BY <1>1, <2>1 DEF BatchIsClosed, Earlier
<1>3. CASE ~(\A e \in todo[d] : AggOf[e] \in H)
  <2>1. todo' = todo /\ held'[d] = H \intersect {AggOf[e] : e \in todo[d]}
    BY <1>3 DEF Proceed, TypeOK
  <2>2. ASSUME NEW f \in todo[d], NEW e \in Events, Earlier(e, f)
        PROVE  e \in published' \union skipped' \union todo'[d] \/ AggOf[e] \in held'[d]
    BY <2>1, <2>2 DEF BatchIsClosed, Earlier
  <2> QED
    BY <1>1, <2>1, <2>2 DEF BatchIsClosed, Earlier
<1> QED
  BY <1>2, <1>3

(* The inductive invariant: what a pass holds is closed under earlier        *)
(* versions, and every entry that left the pending set went by way of the    *)
(* bus or of quarantine.                                                     *)
LEMMA OrderInductive ==
  ASSUME ClocksAgree, IInv, [Next]_vars, TypeOK'
  PROVE  IInv'
<1> USE EventsAssumption, BoundsAssumption DEF IInv
<1>1. ASSUME NEW e \in Events, Enqueue(e) PROVE IInv'
  <2>1. UNCHANGED <<sent, quarantined, todo, pc, cur, held, published, skipped>>
    BY <1>1 DEF Enqueue, pass
  <2>2. StoredInOrder'
    BY <1>1 DEF Enqueue, StoredInOrder, Earlier
  <2> QED
    BY <2>1, <2>2 DEF NothingLost, BatchIsClosed, OrderedFirstPublish, Earlier
<1>2. ASSUME NEW e \in Events, Revive(e) PROVE IInv'
  <2>1. UNCHANGED <<stored, todo, pc, cur, held, published, skipped>>
    BY <1>2 DEF Revive, pass
  <2>2. NothingLost'
    BY <1>2, <2>1 DEF Revive, NothingLost
  <2> QED
    BY <2>1, <2>2 DEF StoredInOrder, BatchIsClosed, OrderedFirstPublish, Earlier
<1>3. ASSUME NEW d \in Drains, StartPass(d) PROVE IInv'
  <2>1. UNCHANGED <<stored, sent, quarantined, cur, published, skipped>>
    BY <1>3 DEF StartPass, store
  <2>2. PICK S \in SUBSET Pending : IsBatchOf(S, Pending) /\ todo' = [todo EXCEPT ![d] = S]
    BY <1>3 DEF StartPass
  <2>3. ASSUME NEW f \in S, NEW e \in Events, Earlier(e, f)
        PROVE  e \in published \union skipped \union S
    <3>1. f \in stored /\ f \in Events /\ f \in Pending
      BY <2>2, <2>3 DEF Pending, TypeOK
    <3>2. e \in stored
      BY <2>3, <3>1 DEF StoredInOrder
    <3>3. Before(e, f)
      BY <2>3, <3>1, EarlierIsBefore
    <3>4. CASE e \in Pending
      BY <2>2, <3>3, <3>4 DEF IsBatchOf
    <3>5. CASE e \notin Pending
      BY <3>2, <3>5 DEF Pending, NothingLost
    <3> QED
      BY <3>4, <3>5
  <2>4. \A c \in Drains : c # d => todo'[c] = todo[c] /\ held'[c] = held[c] /\ pc'[c] = pc[c]
    BY <1>3 DEF StartPass, TypeOK
  <2>5. todo'[d] = S /\ pc'[d] # "mark"
    <3>1. PICK R \in SUBSET Pending : pc' = [pc EXCEPT ![d] = IF R = {} THEN "idle" ELSE "next"]
      BY <1>3 DEF StartPass
    <3> QED
      BY <2>2, <3>1 DEF TypeOK
  <2>6. BatchIsClosed'
    BY <2>1, <2>3, <2>4, <2>5 DEF BatchIsClosed, Earlier
  <2>7. NothingLost'
    BY <2>1, <2>4, <2>5 DEF NothingLost
  <2> QED
    BY <2>1, <2>6, <2>7 DEF StoredInOrder, OrderedFirstPublish, Earlier
<1>4. ASSUME NEW d \in Drains, PublishOk(d) PROVE IInv'
  <2>1. PICK h \in Events : Take(d, h, "mark") /\ published' = published \union {h}
    BY <1>4 DEF PublishOk
  <2>2. UNCHANGED <<stored, sent, quarantined, held, skipped>>
    BY <1>4 DEF PublishOk, store
  <2>3. OrderedFirstPublish'
    BY <2>1, <2>2, HeadHasNoPredecessor DEF Take, OrderedFirstPublish, Earlier
  <2>4. todo'[d] = todo[d] \ {h} /\ cur'[d] = h /\ cur[d] = NoEvent
    BY <2>1 DEF Take, TypeOK
  <2>5. \A c \in Drains : c # d => todo'[c] = todo[c] /\ cur'[c] = cur[c] /\ pc'[c] = pc[c]
    BY <2>1 DEF Take, TypeOK
  <2>6. BatchIsClosed'
    BY <2>1, <2>2, <2>4, <2>5 DEF BatchIsClosed, Earlier
  <2>7. NothingLost'
    BY <2>1, <2>2, <2>4, <2>5 DEF NothingLost
  <2> QED
    BY <2>2, <2>3, <2>6, <2>7 DEF StoredInOrder, Earlier
<1>5. ASSUME NEW d \in Drains, PublishFails(d) PROVE IInv'
  <2>1. PICK h \in Events : Take(d, h, "fail")
    BY <1>5 DEF PublishFails
  <2>2. UNCHANGED <<stored, sent, quarantined, held, published, skipped>>
    BY <1>5 DEF PublishFails, store
  <2>3. todo'[d] = todo[d] \ {h} /\ cur'[d] = h /\ cur[d] = NoEvent /\ pc'[d] = "fail"
    BY <2>1 DEF Take, TypeOK
  <2>4. \A c \in Drains : c # d => todo'[c] = todo[c] /\ cur'[c] = cur[c] /\ pc'[c] = pc[c]
    BY <2>1 DEF Take, TypeOK
  <2>5. BatchIsClosed'
    BY <2>2, <2>3, <2>4 DEF BatchIsClosed, Earlier
  <2>6. NothingLost'
    BY <2>2, <2>3, <2>4 DEF NothingLost
  <2> QED
    BY <2>2, <2>5, <2>6 DEF StoredInOrder, OrderedFirstPublish, Earlier
<1>6. ASSUME NEW d \in Drains, MarkSent(d) PROVE IInv'
  <2>1. UNCHANGED <<stored, quarantined, published, skipped>>
    BY <1>6 DEF MarkSent
  <2>2. sent' = sent \union {cur[d]} /\ pc[d] = "mark" /\ Proceed(d, held[d])
    BY <1>6 DEF MarkSent
  <2>3. cur[d] \in published
    BY <2>2 DEF NothingLost
  <2>4. pc'[d] # "mark" /\ \A c \in Drains : c # d => cur'[c] = cur[c] /\ pc'[c] = pc[c]
    BY <2>2 DEF Proceed, Advance, Release, TypeOK
  <2>5. NothingLost'
    BY <2>1, <2>2, <2>3, <2>4 DEF NothingLost
  <2>6. BatchIsClosed'
    BY <2>1, <2>2, <2>3, ProceedClosed
  <2> QED
    BY <2>1, <2>5, <2>6 DEF StoredInOrder, OrderedFirstPublish, Earlier
<1>7. ASSUME NEW d \in Drains, RecordFailure(d) PROVE IInv'
  <2> DEFINE h == cur[d]
  <2>1. UNCHANGED <<stored, sent, published>> /\ h \in Events
    BY <1>7 DEF RecordFailure, TypeOK
  <2>2. PICK H : /\ Proceed(d, H) /\ held[d] \subseteq H
                 /\ h \in skipped' \/ AggOf[h] \in H
    <3>1. CASE Quarantines(d, h)
      BY <1>7, <3>1 DEF RecordFailure
    <3>2. CASE ~Quarantines(d, h)
      BY <1>7, <3>2 DEF RecordFailure
    <3> QED
      BY <3>1, <3>2
  <2>3. skipped \subseteq skipped' /\ quarantined' \subseteq skipped'
    BY <1>7 DEF RecordFailure, NothingLost
  <2>4. pc'[d] # "mark" /\ \A c \in Drains : c # d => cur'[c] = cur[c] /\ pc'[c] = pc[c]
    BY <2>2 DEF Proceed, Advance, Release, TypeOK
  <2>5. NothingLost'
    BY <2>1, <2>3, <2>4 DEF NothingLost
  <2>6. BatchIsClosed'
    BY <2>1, <2>2, <2>3, ProceedClosed
  <2>7. OrderedFirstPublish'
    BY <2>1, <2>3 DEF OrderedFirstPublish, Earlier
  <2> QED
    BY <2>1, <2>5, <2>6, <2>7 DEF StoredInOrder, Earlier
<1>8. ASSUME NEW d \in Drains, Release(d),
             UNCHANGED <<store, published, skipped>>
      PROVE  IInv'
  <2>1. todo'[d] = {} /\ pc'[d] = "idle"
    BY <1>8 DEF Release, TypeOK
  <2>2. \A c \in Drains : c # d => /\ todo'[c] = todo[c] /\ cur'[c] = cur[c]
                                  /\ pc'[c] = pc[c] /\ held'[c] = held[c]
    BY <1>8 DEF Release, TypeOK
  <2>3. BatchIsClosed' /\ NothingLost'
    BY <1>8, <2>1, <2>2 DEF store, BatchIsClosed, NothingLost, Earlier
  <2> QED
    BY <1>8, <2>3 DEF store, StoredInOrder, OrderedFirstPublish, Earlier
<1>9. CASE UNCHANGED vars
  BY <1>9 DEF vars, store, pass, StoredInOrder, NothingLost, BatchIsClosed,
              OrderedFirstPublish, Earlier
<1> QED
  BY <1>1, <1>2, <1>3, <1>4, <1>5, <1>6, <1>7, <1>8, <1>9 DEF Next, Step, Abandon

(* Whatever passes overlap, fail or die, an event is first published after   *)
(* every earlier version of its aggregate was published or quarantined.      *)
THEOREM PublishesInOrder == ASSUME ClocksAgree PROVE Spec => []OrderedFirstPublish
<1>1. Init => IInv
  BY EventsAssumption, BoundsAssumption
     DEF Init, IInv, TypeOK, StoredInOrder, NothingLost, BatchIsClosed, OrderedFirstPublish
<1>2. IInv /\ TypeOK' /\ [Next]_vars => IInv'
  BY OrderInductive
<1>3. IInv => OrderedFirstPublish
  BY DEF IInv
<1> QED
  BY <1>1, <1>2, <1>3, TypeCorrect, PTL DEF Spec

(* A publish maps to Deliver or a stutter, a quarantine to Forgo or a        *)
(* stutter, an insert to Record; no other step moves the promise.            *)
LEMMA StepRefines ==
  ASSUME ClocksAgree, IInv, [Next]_vars
  PROVE  [Promise!PNext]_(Promise!promiseVars)
<1> USE DEF IInv
<1> DEFINE Same == UNCHANGED <<stored, published, skipped>>
<1>1. ASSUME Same PROVE [Promise!PNext]_(Promise!promiseVars)
  BY <1>1 DEF Promise!promiseVars
<1>2. ASSUME NEW e \in Events, Enqueue(e) PROVE Promise!Record(e)
  BY <1>2 DEF Enqueue, Promise!Record, Promise!Earlier, Earlier
<1>3. ASSUME NEW d \in Drains, NEW e \in Events, Take(d, e, "mark"),
             published' = published \union {e}, UNCHANGED <<store, skipped>>
      PROVE  Promise!Deliver(e)
  <2>1. pc[d] = "next" /\ IsHead(d, e) /\ e \in todo[d]
    BY <1>3 DEF Take, IsHead, Unheld
  <2>2. e \in stored
    BY <2>1 DEF TypeOK
  <2>3. \A f \in Events : Earlier(f, e) => f \in published \union skipped
    BY <2>1, HeadHasNoPredecessor
  <2> QED
    BY <1>3, <2>2, <2>3 DEF store, Promise!Deliver, Promise!Earlier, Earlier
<1>4. ASSUME NEW d \in Drains, RecordFailure(d), Quarantines(d, cur[d])
      PROVE  cur[d] \in Events /\ Promise!Forgo(cur[d])
  <2>1. cur[d] \in stored /\ cur[d] \in Events
    BY <1>4 DEF RecordFailure, TypeOK
  <2> QED
    BY <1>4, <2>1 DEF RecordFailure, Promise!Forgo
<1>5. ASSUME NEW d \in Drains, RecordFailure(d), ~Quarantines(d, cur[d]) PROVE Same
  BY <1>5 DEF RecordFailure
<1>6. ASSUME NEW d \in Drains,
             StartPass(d) \/ PublishFails(d) \/ MarkSent(d) \/ Abandon(d)
      PROVE  Same
  BY <1>6 DEF StartPass, PublishFails, MarkSent, Abandon, store
<1>7. ASSUME NEW e \in Events, Revive(e) PROVE Same
  BY <1>7 DEF Revive
<1>8. ASSUME UNCHANGED vars PROVE Same
  BY <1>8 DEF vars, store
<1>9. ASSUME NEW d \in Drains, PublishOk(d) PROVE Promise!PNext
  <2>1. PICK e \in Events : /\ Take(d, e, "mark") /\ published' = published \union {e}
                            /\ UNCHANGED <<store, skipped>>
    BY <1>9 DEF PublishOk
  <2> QED
    BY <1>3, <2>1 DEF Promise!PNext
<1> QED
  BY <1>1, <1>2, <1>4, <1>5, <1>6, <1>7, <1>8, <1>9 DEF Next, Step, Promise!PNext

(* The Mongo relay keeps the promise of the outbox, for any events and any   *)
(* number of overlapping passes, once the writers' clocks agree.             *)
THEOREM KeepsThePromise == ASSUME ClocksAgree PROVE Spec => RefinesPromise
<1>1. Init => Promise!PInit
  BY DEF Init, Promise!PInit
<1>2. Init => IInv
  BY EventsAssumption, BoundsAssumption
     DEF Init, IInv, TypeOK, StoredInOrder, NothingLost, BatchIsClosed, OrderedFirstPublish
<1>3. IInv /\ TypeOK' /\ [Next]_vars => IInv'
  BY OrderInductive
<1>4. IInv /\ [Next]_vars => [Promise!PNext]_(Promise!promiseVars)
  BY StepRefines
<1> QED
  BY <1>1, <1>2, <1>3, <1>4, TypeCorrect, PTL DEF Spec, RefinesPromise, Promise!PSpec

-----------------------------------------------------------------------------
(* The ceiling on attempts.  A pass that read an entry before its last       *)
(* attempts is stale: it adds one and lifts the quarantine.  The others      *)
(* quarantine it again, and each of them can read it once while it is        *)
(* pending.  Once the entry is at the ceiling, no pass becomes stale again:  *)
(* each stale pass is worth its own attempt and one window of the others.    *)

N == Cardinality(Drains)
Holds(d, e) == e \in todo[d] \/ cur[d] = e
Stale(e) == {d \in Drains : Holds(d, e) /\ ~Quarantines(d, e)}
Fresh(e) == {d \in Drains : Holds(d, e) /\ Quarantines(d, e)}

(* What may still be added, doubled: while the entry is pending any pass that *)
(* is not stale may come to it, else those that hold it.                      *)
Window(e) == IF e \in Pending THEN N - Cardinality(Stale(e)) ELSE Cardinality(Fresh(e))
Credit(s) == 2 * s * (N + 1) - s * (s - 1)
Twice(e) == 2 * attempts[e] + 2 * Window(e) + Credit(Cardinality(Stale(e)))
Ceiling == 2 * MaxAttempts + 2 * (N - 2) + N * (N + 1)
Covered(e) == attempts[e] >= MaxAttempts - 1 => Twice(e) <= Ceiling

CeilingInv ==
  /\ \A e \in Events \ stored : attempts[e] = 0
  /\ \A d \in Drains : cur[d] \notin todo[d] /\ (pc[d] = "idle" => todo[d] = {})
  /\ \A e \in Events : Covered(e)

(* There is a pass, and as many as a number says.                            *)
LEMMA PassesCounted == N \in Nat /\ N >= 1 /\ IsFiniteSet(Drains)
<1>1. N \in Nat /\ IsFiniteSet(Drains)
  BY BoundsAssumption, FS_CardinalityType DEF N
<1>2. N # 0
  BY BoundsAssumption, FS_EmptySet DEF N
<1> QED
  BY <1>1, <1>2

(* The passes that hold an entry are stale or fresh.                         *)
LEMMA HoldersCounted ==
  ASSUME NEW e
  PROVE  /\ IsFiniteSet(Stale(e)) /\ IsFiniteSet(Fresh(e))
         /\ Cardinality(Stale(e)) \in Nat /\ Cardinality(Fresh(e)) \in Nat
         /\ Cardinality(Stale(e)) + Cardinality(Fresh(e)) <= N
<1>1. Stale(e) \in SUBSET Drains /\ Fresh(e) \in SUBSET Drains /\ Stale(e) \intersect Fresh(e) = {}
  BY DEF Stale, Fresh
<1>2. IsFiniteSet(Stale(e)) /\ IsFiniteSet(Fresh(e))
  BY <1>1, PassesCounted, FS_Subset
<1>3. Cardinality(Stale(e) \union Fresh(e)) = Cardinality(Stale(e)) + Cardinality(Fresh(e))
  <2>1. /\ Cardinality(Stale(e) \union Fresh(e)) =
             Cardinality(Stale(e)) + Cardinality(Fresh(e)) - Cardinality(Stale(e) \intersect Fresh(e))
    BY <1>2, FS_Union
  <2>2. Cardinality(Stale(e) \intersect Fresh(e)) = 0
    BY <1>1, FS_EmptySet
  <2> QED
    BY <1>2, <2>1, <2>2, FS_CardinalityType
<1>4. Cardinality(Stale(e) \union Fresh(e)) <= N
  BY <1>1, PassesCounted, FS_Subset DEF N
<1> QED
  BY <1>2, <1>3, <1>4, FS_CardinalityType

(* What a stale pass is worth.                                               *)
LEMMA CreditFalls ==
  ASSUME NEW s \in Nat, s >= 1
  PROVE  Credit(s) = Credit(s - 1) + 2 * (N + 2 - s) /\ Credit(s) \in Int /\ Credit(s - 1) \in Int
<1>1. N \in Nat
  BY PassesCounted
<1>2. s * (s - 1) = (s - 1) * (s - 2) + 2 * (s - 1)
  OBVIOUS
<1>3. 2 * s * (N + 1) = 2 * (s - 1) * (N + 1) + 2 * (N + 1)
  BY <1>1
<1>4. (s - 1) - 1 = s - 2
  OBVIOUS
<1> QED
  BY <1>1, <1>2, <1>3, <1>4 DEF Credit

(* The credit and the window are numbers.                                    *)
Numbers == \A e \in Events :
  /\ Credit(Cardinality(Stale(e))) \in Int
  /\ Window(e) \in Nat /\ Window(e) >= Cardinality(Fresh(e))
  /\ Window(e) <= N - Cardinality(Stale(e))
  /\ Ceiling \in Int /\ attempts[e] \in Nat

(* The numbers of one event.                                                 *)
LEMMA CreditTyped ==
  ASSUME TypeOK, NEW e \in Events
  PROVE  /\ Credit(Cardinality(Stale(e))) \in Int
         /\ Window(e) \in Nat /\ Window(e) >= Cardinality(Fresh(e))
         /\ Window(e) <= N - Cardinality(Stale(e))
         /\ Ceiling \in Int /\ attempts[e] \in Nat
<1>1. Credit(Cardinality(Stale(e))) \in Int
  BY PassesCounted, HoldersCounted DEF Credit
<1>2. Window(e) \in Nat /\ Window(e) >= Cardinality(Fresh(e)) /\ Window(e) <= N - Cardinality(Stale(e))
  BY PassesCounted, HoldersCounted DEF Window
<1>3. Ceiling \in Int
  BY PassesCounted, BoundsAssumption DEF Ceiling
<1> QED
  BY <1>1, <1>2, <1>3 DEF TypeOK

(* ... in every state.                                                       *)
LEMMA NumbersHold == TypeOK => Numbers
BY CreditTyped DEF Numbers

(* An entry with no attempt is covered, whoever holds it.                    *)
CoveredIfNone == \A e \in Events : attempts[e] = 0 => Covered(e)

(* Its quarantine can still come, and everything it can add is under the     *)
(* ceiling: no pass that read it is stale.                                   *)
LEMMA CoveredAtZero ==
  ASSUME TypeOK, NEW e \in Events, attempts[e] = 0
  PROVE  Covered(e)
<1> SUFFICES ASSUME MaxAttempts = 1 PROVE Twice(e) <= Ceiling
  BY BoundsAssumption DEF Covered
<1>1. Stale(e) = {}
  <2>1. \A d \in Drains : snap[d][e] \in Nat
    BY DEF TypeOK
  <2> QED
    BY <2>1 DEF Stale, Quarantines
<1>2. Cardinality(Stale(e)) = 0
  BY <1>1, FS_EmptySet
<1>3. Credit(0) = 0
  BY PassesCounted DEF Credit
<1>4. Twice(e) <= 2 * N
  BY <1>2, <1>3, CreditTyped, PassesCounted DEF Twice
<1>5. 2 * N <= Ceiling
  <2>1. N * (N + 1) >= N + 1
    BY PassesCounted
  <2> QED
    BY <2>1, PassesCounted DEF Ceiling
<1>6. Twice(e) \in Int
  BY CreditTyped DEF Twice
<1> QED
  BY <1>4, <1>5, <1>6, CreditTyped, PassesCounted

(* ... in every state.                                                       *)
LEMMA NoneIsCovered == TypeOK => CoveredIfNone
BY CoveredAtZero DEF CoveredIfNone

(* An entry that reaches the ceiling by the failure of a pass is covered:    *)
(* that pass is not stale any more.                                          *)
CoveredIfReached == \A e \in Events, d \in Drains :
  d \notin Stale(e) /\ attempts[e] = MaxAttempts - 1 => Covered(e)

(* The last attempt before the quarantine, made by a pass that is not stale. *)
LEMMA CoveredAtCeiling ==
  ASSUME TypeOK, NEW e \in Events, NEW d \in Drains, d \notin Stale(e),
         attempts[e] = MaxAttempts - 1
  PROVE  Covered(e)
<1> DEFINE s == Cardinality(Stale(e))
<1>1. s \in Nat /\ s <= N - 1
  <2>1. Stale(e) \in SUBSET (Drains \ {d}) /\ IsFiniteSet(Drains \ {d})
    BY PassesCounted, FS_RemoveElement DEF Stale
  <2>2. s <= Cardinality(Drains \ {d})
    BY <2>1, FS_Subset
  <2>3. Cardinality(Drains \ {d}) = N - 1
    BY PassesCounted, FS_RemoveElement DEF N
  <2> QED
    BY <2>2, <2>3, HoldersCounted
<1>2. Twice(e) <= 2 * (MaxAttempts - 1) + 2 * (N - s) + Credit(s)
  BY CreditTyped, PassesCounted, BoundsAssumption, HoldersCounted DEF Twice
<1> HIDE DEF s
<1> DEFINE t == N - 1 - s
<1>3. t \in Nat /\ N \in Nat /\ N = s + t + 1
  BY <1>1, PassesCounted
<1> HIDE DEF t
<1>4. 2 * (N - s) + Credit(s) = 2 + 2 * t + s * s + 2 * (s * t) + 5 * s
  <2>1. 2 * s * (N + 1) = 2 * (s * s) + 2 * (s * t) + 4 * s
    BY <1>1, <1>3
  <2>2. s * (s - 1) = s * s - s
    BY <1>1
  <2> QED
    BY <1>1, <1>3, <2>1, <2>2 DEF Credit
<1>5. 2 * (N - 2) + N * (N + 1) = s * s + 2 * (s * t) + t * t + 5 * s + 5 * t
  <2>1. N * (N + 1) = (s + t + 1) * (s + t + 2)
    BY <1>1, <1>3
  <2>2. (s + t + 1) * (s + t + 2) = s * s + 2 * (s * t) + t * t + 3 * s + 3 * t + 2
    BY <1>1, <1>3
  <2> QED
    BY <1>1, <1>3, <2>1, <2>2
<1>6. t * t \in Nat /\ s * s \in Nat /\ s * t \in Nat
  BY <1>1, <1>3
<1> DEFINE A == s * s + 2 * (s * t) + 5 * s
<1>7. A \in Int /\ 2 * (N - s) + Credit(s) = 2 + 2 * t + A /\ Ceiling = 2 * MaxAttempts + A + t * t + 5 * t
  BY <1>1, <1>3, <1>4, <1>5, <1>6, BoundsAssumption DEF Ceiling
<1>8. Twice(e) <= 2 * (MaxAttempts - 1) + 2 + 2 * t + A /\ Twice(e) \in Int
  BY <1>1, <1>2, <1>3, <1>7, CreditTyped, BoundsAssumption DEF Twice, Credit
<1> HIDE DEF A
<1> QED
  BY <1>3, <1>6, <1>7, <1>8, BoundsAssumption DEF Covered

(* ... in every state.                                                       *)
LEMMA ReachedIsCovered == TypeOK => CoveredIfReached
BY CoveredAtCeiling DEF CoveredIfReached

(* A pass that lets an entry go leaves it covered.                           *)
LEMMA LetGo ==
  ASSUME TypeOK, Numbers', NEW e \in Events, NEW d \in Drains, Covered(e),
         Stale(e)' = Stale(e) \ {d}, Fresh(e)' = Fresh(e) \ {d},
         attempts'[e] = attempts[e], (e \in Pending)' => e \in Pending
  PROVE  Covered(e)'
<1> DEFINE s == Cardinality(Stale(e))
           f == Cardinality(Fresh(e))
           s2 == Cardinality(Stale(e) \ {d})
           f2 == Cardinality(Fresh(e) \ {d})
<1>1. s \in Nat /\ f \in Nat /\ s + f <= N /\ N \in Nat
  BY HoldersCounted, PassesCounted
<1>2. s2 \in {s, s - 1} /\ f2 \in {f, f - 1} /\ s2 \in Nat /\ f2 \in Nat /\ s2 + f2 <= N
  <2>1. s2 \in {s, s - 1} /\ f2 \in {f, f - 1}
    BY HoldersCounted, FS_RemoveElement
  <2>2. s2 \in Nat /\ f2 \in Nat
    BY HoldersCounted, FS_RemoveElement, FS_CardinalityType
  <2> QED
    BY <1>1, <2>1, <2>2
<1>3. Cardinality(Stale(e))' = s2 /\ Cardinality(Fresh(e))' = f2
  OBVIOUS
<1>4. Window(e)' = IF (e \in Pending)' THEN N - s2 ELSE f2
  BY <1>3 DEF Window, N
<1>5. Window(e) = IF e \in Pending THEN N - s ELSE f
  BY DEF Window
<1>6. Twice(e)' = 2 * attempts'[e] + 2 * Window(e)' + Credit(s2)
  BY <1>3 DEF Twice, Credit, N
<1>7. Twice(e) = 2 * attempts[e] + 2 * Window(e) + Credit(s) /\ Credit(s) \in Int /\ Window(e) \in Nat
        /\ attempts[e] \in Nat /\ Ceiling \in Int
  BY CreditTyped DEF Twice
<1>8. Ceiling' = Ceiling
  BY DEF Ceiling, N
<1> HIDE DEF s, f, s2, f2
<1>9. s2 = s - 1 => Credit(s) = Credit(s2) + 2 * (N + 2 - s) /\ Credit(s2) \in Int
  BY <1>1, <1>2, CreditFalls
<1>10. Window(e)' \in Nat
  BY <1>1, <1>2, <1>4
<1>11. 2 * Window(e)' + Credit(s2) <= 2 * Window(e) + Credit(s)
  <2>1. CASE s2 = s
    BY <1>1, <1>2, <1>4, <1>5, <1>7, <2>1
  <2>2. CASE s2 = s - 1
    BY <1>1, <1>2, <1>4, <1>5, <1>7, <1>9, <2>2
  <2> QED
    BY <1>2, <2>1, <2>2
<1> QED
  BY <1>2, <1>6, <1>7, <1>8, <1>9, <1>10, <1>11 DEF Covered

(* A pass whose publish of the entry failed leaves it covered: a stale one   *)
(* pays its attempt and the window it opens with its credit, a fresh one     *)
(* shuts the window.                                                         *)
LEMMA Failed ==
  ASSUME TypeOK, CoveredIfReached', NEW e \in Events, NEW d \in Drains, Covered(e),
         Holds(d, e),
         Stale(e)' = Stale(e) \ {d}, Fresh(e)' = Fresh(e) \ {d},
         attempts'[e] = attempts[e] + 1,
         Quarantines(d, e) => ~(e \in Pending)'
  PROVE  Covered(e)'
<1> DEFINE s == Cardinality(Stale(e))
           f == Cardinality(Fresh(e))
           s2 == Cardinality(Stale(e) \ {d})
           f2 == Cardinality(Fresh(e) \ {d})
<1>1. s \in Nat /\ f \in Nat /\ s + f <= N /\ N \in Nat
  BY HoldersCounted, PassesCounted
<1>2. /\ Quarantines(d, e) => s2 = s /\ f2 = f - 1
      /\ ~Quarantines(d, e) => s2 = s - 1 /\ f2 = f
      /\ s2 \in Nat /\ f2 \in Nat
  <2>1. Quarantines(d, e) => d \in Fresh(e) /\ d \notin Stale(e)
    BY DEF Fresh, Stale
  <2>2. ~Quarantines(d, e) => d \in Stale(e) /\ d \notin Fresh(e)
    BY DEF Fresh, Stale
  <2>3. /\ s2 = IF d \in Stale(e) THEN s - 1 ELSE s
        /\ f2 = IF d \in Fresh(e) THEN f - 1 ELSE f
        /\ s2 \in Nat /\ f2 \in Nat
    BY HoldersCounted, FS_RemoveElement, FS_CardinalityType
  <2> HIDE DEF s, f, s2, f2
  <2> QED
    BY <2>1, <2>2, <2>3
<1>3. Cardinality(Stale(e))' = s2 /\ Cardinality(Fresh(e))' = f2 /\ d \notin Stale(e)'
  OBVIOUS
<1>4. Window(e)' = IF (e \in Pending)' THEN N - s2 ELSE f2
  BY <1>3 DEF Window, N
<1>5. Window(e) = IF e \in Pending THEN N - s ELSE f
  BY DEF Window
<1>6. Twice(e)' = 2 * attempts'[e] + 2 * Window(e)' + Credit(s2)
  BY <1>3 DEF Twice, Credit, N
<1>7. Twice(e) = 2 * attempts[e] + 2 * Window(e) + Credit(s) /\ Credit(s) \in Int /\ Window(e) \in Nat
        /\ attempts[e] \in Nat /\ Ceiling \in Int
  BY CreditTyped DEF Twice
<1>8. Ceiling' = Ceiling
  BY DEF Ceiling, N
<1>9. CASE attempts[e] < MaxAttempts - 1
  <2>1. attempts'[e] = MaxAttempts - 1 => Covered(e)'
    BY <1>3 DEF CoveredIfReached
  <2>2. attempts'[e] < MaxAttempts - 1 => Covered(e)'
    BY <1>7, BoundsAssumption DEF Covered
  <2> QED
    BY <1>7, <1>9, <2>1, <2>2, BoundsAssumption
<1> HIDE DEF s, f, s2, f2
<1>10. CASE attempts[e] >= MaxAttempts - 1
  <2>1. Twice(e) <= Ceiling
    BY <1>10 DEF Covered
  <2>2. CASE Quarantines(d, e)
    <3>1. Window(e)' <= Window(e) - 1 /\ Window(e)' \in Nat /\ s2 = s
      BY <1>1, <1>2, <1>4, <1>5, <2>2
    <3> QED
      BY <1>6, <1>7, <1>8, <2>1, <3>1 DEF Covered
  <2>3. CASE ~Quarantines(d, e)
    <3>1. Credit(s) = Credit(s2) + 2 * (N + 2 - s) /\ Credit(s2) \in Int /\ s2 = s - 1
      BY <1>1, <1>2, <2>3, CreditFalls
    <3>2. Window(e)' <= N - s + 1 /\ Window(e)' \in Nat
      BY <1>1, <1>2, <1>4, <2>3
    <3> QED
      BY <1>1, <1>6, <1>7, <1>8, <2>1, <3>1, <3>2 DEF Covered
  <2> QED
    BY <2>2, <2>3
<1> QED
  BY <1>7, <1>9, <1>10, BoundsAssumption

(* An entry that no pass lets go, reads or counts stays covered, unless it    *)
(* becomes pending.                                                          *)
LEMMA Kept ==
  ASSUME TypeOK, NEW e \in Events, Covered(e),
         \A c \in Drains : Holds(c, e)' <=> Holds(c, e),
         \A c \in Drains : Holds(c, e) => snap'[c][e] = snap[c][e],
         attempts'[e] = attempts[e], (e \in Pending)' => e \in Pending
  PROVE  Covered(e)'
<1>1. Stale(e)' = Stale(e) /\ Fresh(e)' = Fresh(e)
  BY DEF Stale, Fresh, Quarantines
<1>2. Window(e) >= Cardinality(Fresh(e)) /\ Window(e) \in Nat /\ attempts[e] \in Nat
        /\ Credit(Cardinality(Stale(e))) \in Int /\ Ceiling \in Int
  BY CreditTyped
<1>3. Window(e)' = IF (e \in Pending)' THEN N - Cardinality(Stale(e)) ELSE Cardinality(Fresh(e))
  BY <1>1 DEF Window, N
<1>4. Window(e)' <= Window(e) /\ Window(e)' \in Int
  BY <1>2, <1>3, HoldersCounted, PassesCounted DEF Window
<1>5. Twice(e)' = 2 * attempts[e] + 2 * Window(e)' + Credit(Cardinality(Stale(e)))
  BY <1>1 DEF Twice, Credit, N
<1>6. Twice(e)' <= Twice(e) /\ Twice(e)' \in Int /\ Twice(e) \in Int
  BY <1>2, <1>4, <1>5 DEF Twice
<1>7. Ceiling' = Ceiling
  BY DEF Ceiling, N
<1> QED
  BY <1>2, <1>6, <1>7 DEF Covered

(* The passes but one hold an entry as they did.                             *)
LEMMA HeldButFor ==
  ASSUME NEW e, NEW d, ~Holds(d, e)',
         \A c \in Drains \ {d} : Holds(c, e)' <=> Holds(c, e),
         \A c \in Drains \ {d} : snap'[c][e] = snap[c][e]
  PROVE  Stale(e)' = Stale(e) \ {d} /\ Fresh(e)' = Fresh(e) \ {d}
BY DEF Stale, Fresh, Quarantines

(* An entry the other passes hold as they did stays covered, whether pass d  *)
(* lets it go or keeps it.                                                   *)
LEMMA LetGoOrKept ==
  ASSUME TypeOK, Numbers', NEW e \in Events, NEW d \in Drains, Covered(e),
         \A c \in Drains \ {d} : (Holds(c, e)' <=> Holds(c, e)) /\ snap'[c][e] = snap[c][e],
         ~Holds(d, e)' \/ ((Holds(d, e)' <=> Holds(d, e)) /\ snap'[d][e] = snap[d][e]),
         attempts'[e] = attempts[e], (e \in Pending)' => e \in Pending
  PROVE  Covered(e)'
<1>1. CASE ~Holds(d, e)'
  BY <1>1, HeldButFor, LetGo
<1>2. CASE (Holds(d, e)' <=> Holds(d, e)) /\ snap'[d][e] = snap[d][e]
  BY <1>2, Kept
<1> QED
  BY <1>1, <1>2

(* A pass that settles the entry it has in hand has let it go, and the rest  *)
(* of its batch with it where nothing of that is left to publish.            *)
LEMMA ProceedHolds ==
  ASSUME TypeOK, CeilingInv, NEW d \in Drains, pc[d] \in {"mark", "fail"},
         NEW H, Proceed(d, H), NEW h, h = cur[d]
  PROVE  /\ h \in Events /\ Holds(d, h) /\ ~Holds(d, h)'
         /\ \A c \in Drains \ {d}, e \in Events :
              (Holds(c, e)' <=> Holds(c, e)) /\ snap'[c][e] = snap[c][e]
         /\ \A e \in Events \ {h} :
              ~Holds(d, e)' \/ ((Holds(d, e)' <=> Holds(d, e)) /\ snap'[d][e] = snap[d][e])
         /\ \A c \in Drains : cur'[c] \notin todo'[c] /\ (pc'[c] = "idle" => todo'[c] = {})
<1>1. h # NoEvent /\ h \in Events /\ h \notin todo[d] /\ Holds(d, h)
  BY DEF TypeOK, CeilingInv, Holds
<1>2. \A c \in Drains : NoEvent \notin todo[c] /\ cur[c] \notin todo[c] /\ (pc[c] = "idle" => todo[c] = {})
  BY EventsAssumption DEF TypeOK, CeilingInv
<1>3. \A c \in Drains \ {d} : /\ todo'[c] = todo[c] /\ cur'[c] = cur[c]
                              /\ snap'[c] = snap[c] /\ pc'[c] = pc[c]
  BY DEF Proceed, Advance, Release, TypeOK
<1>4. cur'[d] = NoEvent
  BY DEF Proceed, Advance, Release, TypeOK
<1>5. CASE Release(d)
  <2>1. todo'[d] = {}
    BY <1>5 DEF Release, TypeOK
  <2>2. \A e \in Events : ~Holds(d, e)'
    BY <1>4, <2>1, EventsAssumption DEF Holds
  <2> QED
    BY <1>1, <1>2, <1>3, <1>4, <2>1, <2>2 DEF Holds
<1>6. CASE Advance(d) /\ todo' = todo
  <2>1. pc'[d] = "next" /\ \A e \in Events \ {h} : snap'[d][e] = snap[d][e]
    BY <1>1, <1>6 DEF Advance, TypeOK
  <2>2. ~Holds(d, h)' /\ \A e \in Events \ {h} : Holds(d, e)' <=> Holds(d, e)
    BY <1>1, <1>4, <1>6, EventsAssumption DEF Holds
  <2> QED
    BY <1>1, <1>2, <1>3, <1>4, <1>6, <2>1, <2>2 DEF Holds
<1> QED
  BY <1>5, <1>6 DEF Proceed

(* Every step keeps the entries covered.                                     *)
LEMMA CeilingStep ==
  ASSUME TypeOK, TypeOK', CeilingInv, [Next]_vars
  PROVE  CeilingInv'
<1> USE EventsAssumption, BoundsAssumption
<1>0. /\ Numbers' /\ CoveredIfNone' /\ CoveredIfReached'
      /\ \A e \in Events \ stored : attempts[e] = 0
      /\ \A d \in Drains : cur[d] \notin todo[d] /\ (pc[d] = "idle" => todo[d] = {})
      /\ \A e \in Events : Covered(e)
  <2>1. TypeOK' => Numbers' /\ CoveredIfNone' /\ CoveredIfReached'
    BY NumbersHold, NoneIsCovered, ReachedIsCovered, PTL
  <2> QED
    BY <2>1 DEF CeilingInv
<1>1. ASSUME NEW h \in Events, todo' = todo, cur' = cur, snap' = snap, pc' = pc,
             stored \subseteq stored', attempts'[h] = 0,
             \A e \in Events \ {h} : attempts'[e] = attempts[e] /\ ((e \in Pending)' => e \in Pending)
      PROVE  CeilingInv'
  <2>1. Covered(h)'
    BY <1>0, <1>1 DEF CoveredIfNone
  <2>2. ASSUME NEW e \in Events \ {h} PROVE Covered(e)'
    BY <1>0, <1>1, <2>2, Kept DEF Holds
  <2>3. \A e \in Events : Covered(e)'
    BY <2>1, <2>2
  <2>4. \A e \in Events \ stored' : attempts'[e] = 0
    BY <1>0, <1>1
  <2> QED
    BY <1>0, <1>1, <2>3, <2>4 DEF CeilingInv
<1>2. ASSUME NEW h \in Events, Enqueue(h) PROVE CeilingInv'
  <2>1. /\ todo' = todo /\ cur' = cur /\ snap' = snap /\ pc' = pc /\ attempts' = attempts
        /\ stored' = stored \union {h} /\ sent' = sent /\ quarantined' = quarantined /\ h \notin stored
    BY <1>2 DEF Enqueue, pass
  <2>2. \A e \in Events \ {h} : (e \in Pending)' => e \in Pending
    BY <2>1 DEF Pending
  <2> QED
    BY <1>0, <1>1, <2>1, <2>2
<1>3. ASSUME NEW h \in Events, Revive(h) PROVE CeilingInv'
  <2>1. /\ todo' = todo /\ cur' = cur /\ snap' = snap /\ pc' = pc /\ stored' = stored
        /\ sent' = sent \ {h} /\ quarantined' = quarantined \ {h}
    BY <1>3 DEF Revive, pass
  <2>2. attempts'[h] = 0 /\ \A e \in Events \ {h} : attempts'[e] = attempts[e]
    BY <1>3 DEF Revive, TypeOK
  <2>3. \A e \in Events \ {h} : (e \in Pending)' => e \in Pending
    BY <2>1 DEF Pending
  <2> QED
    BY <1>1, <2>1, <2>2, <2>3
<1>4. ASSUME NEW d \in Drains, StartPass(d) PROVE CeilingInv'
  <2>1. PICK S \in SUBSET Pending :
          /\ todo' = [todo EXCEPT ![d] = S]
          /\ snap' = [snap EXCEPT ![d] = [e \in Events |-> IF e \in S THEN attempts[e] ELSE 0]]
          /\ pc' = [pc EXCEPT ![d] = IF S = {} THEN "idle" ELSE "next"]
    BY <1>4 DEF StartPass
  <2>2. /\ stored' = stored /\ sent' = sent /\ quarantined' = quarantined /\ attempts' = attempts
        /\ cur' = cur /\ pc[d] = "idle"
    BY <1>4 DEF StartPass, store
  <2>3. /\ todo[d] = {} /\ cur[d] = NoEvent /\ todo'[d] = S /\ (pc'[d] = "idle" => S = {})
        /\ \A c \in Drains \ {d} : todo'[c] = todo[c] /\ snap'[c] = snap[c] /\ pc'[c] = pc[c]
        /\ \A e \in S : e \in Events => snap'[d][e] = attempts[e]
    BY <1>0, <2>1, <2>2 DEF TypeOK
  <2>4. Pending' = Pending /\ Pending \subseteq Events
    BY <2>2 DEF Pending, TypeOK
  <2>5. ASSUME NEW e \in Events, e \notin S PROVE Covered(e)'
    <3>1. \A c \in Drains : Holds(c, e)' <=> Holds(c, e)
      BY <2>2, <2>3, <2>5 DEF Holds
    <3>2. \A c \in Drains : Holds(c, e) => snap'[c][e] = snap[c][e]
      BY <2>3 DEF Holds
    <3> QED
      BY <1>0, <2>2, <2>4, <3>1, <3>2, Kept
  <2>6. ASSUME NEW e \in Events, e \in S, attempts[e] >= MaxAttempts - 1 PROVE Covered(e)'
    <3>1. snap'[d][e] + 1 >= MaxAttempts /\ ~Holds(d, e)
      BY <2>3, <2>6 DEF Holds, TypeOK
    <3>2. \A c \in Drains \ {d} : (Holds(c, e)' <=> Holds(c, e)) /\ snap'[c][e] = snap[c][e]
      BY <2>2, <2>3 DEF Holds
    <3>3. Stale(e)' = Stale(e)
      BY <3>1, <3>2 DEF Stale, Quarantines
    <3>4. e \in Pending /\ (e \in Pending)'
      BY <2>4, <2>6
    <3>5. Window(e)' = Window(e)
      BY <3>3, <3>4 DEF Window, N
    <3>6. Twice(e)' = Twice(e) /\ Ceiling' = Ceiling
      BY <2>2, <3>3, <3>5 DEF Twice, Credit, Ceiling, N
    <3> QED
      BY <1>0, <2>2, <3>6 DEF Covered
  <2>7. ASSUME NEW e \in Events, e \in S, ~(attempts[e] >= MaxAttempts - 1) PROVE Covered(e)'
    BY <2>2, <2>7 DEF Covered
  <2>8. \A c \in Drains : cur'[c] \notin todo'[c] /\ (pc'[c] = "idle" => todo'[c] = {})
    BY <1>0, <2>2, <2>3, <2>4
  <2>9. \A e \in Events : Covered(e)'
    BY <2>5, <2>6, <2>7
  <2> QED
    BY <1>0, <2>2, <2>8, <2>9 DEF CeilingInv
<1>5. ASSUME NEW d \in Drains, NEW h \in Events, NEW next \in {"mark", "fail"}, Take(d, h, next),
             UNCHANGED <<store, snap>>
      PROVE  CeilingInv'
  <2>1. /\ todo'[d] = todo[d] \ {h} /\ cur'[d] = h /\ pc'[d] = next /\ cur[d] = NoEvent /\ h \in todo[d]
        /\ \A c \in Drains \ {d} : todo'[c] = todo[c] /\ cur'[c] = cur[c] /\ pc'[c] = pc[c]
    BY <1>5 DEF Take, IsHead, Unheld, TypeOK
  <2>2. stored' = stored /\ attempts' = attempts /\ snap' = snap /\ sent' = sent /\ quarantined' = quarantined
    BY <1>5 DEF store
  <2>3. ASSUME NEW e \in Events, NEW c \in Drains PROVE Holds(c, e)' <=> Holds(c, e)
    BY <2>1 DEF Holds
  <2>4. \A e \in Events : Covered(e)'
    BY <1>0, <2>2, <2>3, Kept DEF Pending
  <2>5. \A c \in Drains : cur'[c] \notin todo'[c] /\ (pc'[c] = "idle" => todo'[c] = {})
    BY <1>0, <2>1
  <2> QED
    BY <1>0, <2>2, <2>4, <2>5 DEF CeilingInv
<1>6. ASSUME NEW d \in Drains, PublishOk(d) \/ PublishFails(d) PROVE CeilingInv'
  <2>1. PICK h \in Events, next \in {"mark", "fail"} : Take(d, h, next) /\ UNCHANGED <<store, snap>>
    BY <1>6 DEF PublishOk, PublishFails
  <2> QED
    BY <1>5, <2>1
<1>7. ASSUME NEW d \in Drains, MarkSent(d) PROVE CeilingInv'
  <2>1. PICK h : h = cur[d]
    OBVIOUS
  <2>2. /\ pc[d] = "mark" /\ Proceed(d, held[d]) /\ stored' = stored /\ attempts' = attempts
        /\ sent' = sent \union {h} /\ quarantined' = quarantined
    BY <1>7, <2>1 DEF MarkSent
  <2>3. /\ h \in Events /\ Holds(d, h) /\ ~Holds(d, h)'
        /\ \A c \in Drains \ {d}, e \in Events :
             (Holds(c, e)' <=> Holds(c, e)) /\ snap'[c][e] = snap[c][e]
        /\ \A e \in Events \ {h} :
             ~Holds(d, e)' \/ ((Holds(d, e)' <=> Holds(d, e)) /\ snap'[d][e] = snap[d][e])
        /\ \A c \in Drains : cur'[c] \notin todo'[c] /\ (pc'[c] = "idle" => todo'[c] = {})
    BY <2>1, <2>2, ProceedHolds
  <2>4. \A e \in Events : (e \in Pending)' => e \in Pending
    BY <2>2 DEF Pending
  <2>5. \A e \in Events : Covered(e)'
    BY <1>0, <2>2, <2>3, <2>4, LetGoOrKept
  <2> QED
    BY <1>0, <2>2, <2>3, <2>5 DEF CeilingInv
<1>8. ASSUME NEW d \in Drains, RecordFailure(d) PROVE CeilingInv'
  <2>1. PICK h : h = cur[d]
    OBVIOUS
  <2>2. /\ pc[d] = "fail" /\ stored' = stored /\ sent' = sent /\ \E H : Proceed(d, H)
        /\ attempts' = [attempts EXCEPT ![h] = @ + 1]
        /\ quarantined' = IF Quarantines(d, h) THEN quarantined \union {h} ELSE quarantined \ {h}
    <3>1. CASE Quarantines(d, h)
      BY <1>8, <2>1, <3>1 DEF RecordFailure
    <3>2. CASE ~Quarantines(d, h)
      BY <1>8, <2>1, <3>2 DEF RecordFailure
    <3> QED
      BY <3>1, <3>2
  <2>3. /\ h \in Events /\ Holds(d, h) /\ ~Holds(d, h)'
        /\ \A c \in Drains \ {d}, e \in Events :
             (Holds(c, e)' <=> Holds(c, e)) /\ snap'[c][e] = snap[c][e]
        /\ \A e \in Events \ {h} :
             ~Holds(d, e)' \/ ((Holds(d, e)' <=> Holds(d, e)) /\ snap'[d][e] = snap[d][e])
        /\ \A c \in Drains : cur'[c] \notin todo'[c] /\ (pc'[c] = "idle" => todo'[c] = {})
    BY <2>1, <2>2, ProceedHolds
  <2>4. \A e \in Events \ {h} : ((e \in Pending)' => e \in Pending) /\ attempts'[e] = attempts[e]
    BY <2>2 DEF Pending, TypeOK
  <2>5. attempts'[h] = attempts[h] + 1 /\ (Quarantines(d, h) => ~(h \in Pending)')
    BY <2>2, <2>3 DEF Pending, TypeOK
  <2>6. Stale(h)' = Stale(h) \ {d} /\ Fresh(h)' = Fresh(h) \ {d}
    BY <2>3, HeldButFor
  <2>7. Covered(h)'
    BY <1>0, <2>3, <2>5, <2>6, Failed
  <2>8. ASSUME NEW e \in Events \ {h} PROVE Covered(e)'
    BY <1>0, <2>3, <2>4, LetGoOrKept
  <2>9. \A e \in Events : Covered(e)'
    BY <2>7, <2>8
  <2>10. h \in stored
    BY <2>1, <2>2 DEF TypeOK
  <2>11. \A e \in Events \ stored' : attempts'[e] = 0
    BY <1>0, <2>2, <2>4, <2>10
  <2> QED
    BY <2>3, <2>9, <2>11 DEF CeilingInv
<1>9. ASSUME NEW d \in Drains, Release(d), UNCHANGED store PROVE CeilingInv'
  <2>1. /\ todo'[d] = {} /\ cur'[d] = NoEvent /\ pc'[d] = "idle"
        /\ \A c \in Drains \ {d} : /\ todo'[c] = todo[c] /\ cur'[c] = cur[c]
                                     /\ pc'[c] = pc[c] /\ snap'[c] = snap[c]
    BY <1>9 DEF Release, TypeOK
  <2>2. stored' = stored /\ attempts' = attempts /\ sent' = sent /\ quarantined' = quarantined
    BY <1>9 DEF store
  <2>3. ASSUME NEW e \in Events PROVE Covered(e)'
    <3>1. ~Holds(d, e)' /\ \A c \in Drains \ {d} : (Holds(c, e)' <=> Holds(c, e)) /\ snap'[c][e] = snap[c][e]
      BY <2>1 DEF Holds
    <3>2. Stale(e)' = Stale(e) \ {d} /\ Fresh(e)' = Fresh(e) \ {d}
      BY <3>1, HeldButFor
    <3> QED
      BY <1>0, <2>2, <3>2, LetGo DEF Pending
  <2>4. \A c \in Drains : cur'[c] \notin todo'[c] /\ (pc'[c] = "idle" => todo'[c] = {})
    BY <1>0, <2>1
  <2> QED
    BY <1>0, <2>2, <2>3, <2>4 DEF CeilingInv
<1>10. CASE UNCHANGED vars
  <2>1. /\ todo' = todo /\ cur' = cur /\ snap' = snap /\ pc' = pc /\ attempts' = attempts
        /\ stored' = stored /\ sent' = sent /\ quarantined' = quarantined
    BY <1>10 DEF vars, store, pass
  <2>2. \A e \in Events : Covered(e)'
    BY <1>0, <2>1, Kept DEF Holds, Pending
  <2> QED
    BY <1>0, <2>1, <2>2 DEF CeilingInv
<1> QED
  BY <1>2, <1>3, <1>4, <1>6, <1>7, <1>8, <1>9, <1>10 DEF Next, Step, Abandon

(* However many passes overlap, however stale what they read and whatever is *)
(* revived, an entry is attempted a bounded number of times: the ceiling, and *)
(* what the passes that were under way can add.                              *)
THEOREM HoldsTheCeiling == Spec => []CeilingHolds
<1>1. Init => CeilingInv
  <2> SUFFICES ASSUME Init PROVE CeilingInv
    OBVIOUS
  <2>1. TypeOK
    BY EventsAssumption, BoundsAssumption DEF Init, TypeOK
  <2>2. \A e \in Events : Covered(e)
    BY <2>1, CoveredAtZero DEF Init
  <2> QED
    BY <2>2, EventsAssumption DEF Init, CeilingInv
<1>2. TypeOK /\ TypeOK' /\ CeilingInv /\ [Next]_vars => CeilingInv'
  BY CeilingStep
<1>3. TypeOK /\ CeilingInv => CeilingHolds
  <2> SUFFICES ASSUME TypeOK, CeilingInv, NEW e \in Events
               PROVE  attempts[e] <= MaxAttempts + (N - 2) + (N * (N + 1)) \div 2
    BY DEF CeilingHolds, N
  <2>1. attempts[e] \in Nat /\ N \in Nat /\ N >= 1 /\ MaxAttempts \in Nat
    BY PassesCounted, BoundsAssumption DEF TypeOK
  <2>2. N * (N + 1) \in Nat /\ N * (N + 1) >= N + 1
    BY <2>1
  <2>3. Credit(Cardinality(Stale(e))) >= 0
    <3> DEFINE s == Cardinality(Stale(e))
    <3>1. s \in Nat /\ s <= N
      BY HoldersCounted, <2>1
    <3> HIDE DEF s
    <3>2. 2 * s * (N + 1) - s * (s - 1) = s * (N - s) + s * N + 3 * s
      BY <2>1, <3>1
    <3>3. s * (N - s) \in Nat /\ s * N \in Nat
      BY <2>1, <3>1
    <3>4. Credit(s) >= 0
      BY <3>1, <3>2, <3>3 DEF Credit
    <3> QED
      BY <3>4 DEF s
  <2>4. 2 * attempts[e] <= Ceiling
    <3>1. CASE attempts[e] >= MaxAttempts - 1
      <4>1. Twice(e) <= Ceiling
        BY <3>1 DEF CeilingInv, Covered
      <4> QED
        BY <2>3, <4>1, CreditTyped DEF Twice
    <3>2. CASE attempts[e] < MaxAttempts - 1
      BY <2>1, <2>2, <3>2 DEF Ceiling
    <3> QED
      BY <2>1, <3>1, <3>2
  <2>5. 2 * (attempts[e] - MaxAttempts - (N - 2)) <= N * (N + 1)
    BY <2>1, <2>2, <2>4 DEF Ceiling
  <2> DEFINE a == attempts[e] - MaxAttempts - (N - 2)
             b == N * (N + 1)
  <2>6. a \in Int /\ b \in Nat /\ 2 * a <= b
    BY <2>1, <2>2, <2>5
  <2>7. attempts[e] = MaxAttempts + (N - 2) + a
    BY <2>1
  <2> HIDE DEF a, b
  <2>8. a <= b \div 2 /\ b \div 2 \in Nat
    BY <2>6
  <2>9. attempts[e] <= MaxAttempts + (N - 2) + b \div 2
    BY <2>1, <2>6, <2>7, <2>8
  <2> QED
    BY <2>9 DEF b
<1> QED
  BY <1>1, <1>2, <1>3, TypeCorrect, PTL DEF Spec

=============================================================================
