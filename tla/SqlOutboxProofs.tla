-------------------------- MODULE SqlOutboxProofs --------------------------
(***************************************************************************)
(* Proofs about SqlOutbox: its types, the order of first publication, and  *)
(* that the lease keeps passes apart, for any events and aggregates, any   *)
(* number of passes, any batch size and any ceiling.                       *)
(***************************************************************************)
EXTENDS SqlOutbox, FiniteSetTheorems, TLAPS

(* A finite set of numbers that is not empty has a greatest element: a       *)
(* smallest part of it without one would have a smaller part without one.    *)
LEMMA MaxOfFinite ==
  ASSUME NEW S, S \subseteq Nat, IsFiniteSet(S), S # {}
  PROVE  Max(S) \in S /\ \A x \in S : Max(S) >= x
<1> DEFINE HasMax(X) == \E x \in X : \A y \in X : x >= y
           T == {X \in SUBSET S : X # {} /\ ~HasMax(X)}
           R == StrictSubsetOrdering(S)
<1>1. IsWellFoundedOn(R, SUBSET S)
  BY FS_StrictSubsetOrderingWellFounded, FS_FiniteSubsetsOfFinite
<1>2. T = {}
  <2> SUFFICES ASSUME T # {} PROVE FALSE
    OBVIOUS
  <2>1. T \subseteq SUBSET S
    OBVIOUS
  <2> HIDE DEF T
  <2>2. PICK M \in T : \A N \in T : <<N, M>> \notin R
    BY <1>1, <2>1, WFMin
  <2> USE DEF T
  <2>3. M \subseteq S /\ M # {} /\ ~HasMax(M)
    BY <2>2
  <2>4. PICK a \in M : TRUE
    BY <2>3
  <2> DEFINE N == M \ {a}
  <2>5. N \subseteq S /\ <<N, M>> \in R
    BY <2>3, <2>4 DEF StrictSubsetOrdering
  <2>6. N = {} \/ HasMax(N)
    BY <2>2, <2>5
  <2>7. CASE N = {}
    <3>1. \A y \in M : y = a /\ a \in Nat
      BY <2>3, <2>4, <2>7
    <3> QED
      BY <2>3, <2>4, <3>1
  <2>8. CASE HasMax(N)
    <3>1. PICK b \in N : \A y \in N : b >= y
      BY <2>8
    <3>2. a \in Nat /\ b \in Nat /\ b \in M /\ \A y \in M : y \in Nat
      BY <2>3, <2>4, <3>1
    <3>3. (\A y \in M : a >= y) \/ (\A y \in M : b >= y)
      BY <3>1, <3>2
    <3> QED
      BY <2>3, <2>4, <3>2, <3>3
  <2> QED
    BY <2>6, <2>7, <2>8
<1>3. HasMax(S)
  BY <1>2
<1> QED
  BY <1>3 DEF Max

-----------------------------------------------------------------------------
(* The rank of a new claim is above that of every live lease. *)
LEMMA NewLease ==
  ASSUME lease \in [Events -> Nat]
  PROVE  Max({lease[e] : e \in Events} \union {0}) \in Nat
<1> DEFINE L == {lease[e] : e \in Events} \union {0}
<1>1. IsFiniteSet({lease[e] : e \in Events})
  <2> DEFINE V == {lease[e] : e \in Events}
  <2>1. lease \in Surjection(Events, V)
    BY DEF Surjection
  <2> HIDE DEF V
  <2>2. IsFiniteSet(V)
    BY <2>1, SqlEventsAssumption, FS_Surjection
  <2> QED
    BY <2>2 DEF V
<1>2. IsFiniteSet(L) /\ L \subseteq Nat /\ L # {}
  BY <1>1, FS_AddElement
<1> HIDE DEF L
<1>3. Max(L) \in Nat
  BY <1>2, MaxOfFinite
<1> QED
  BY <1>3 DEF L

(* Every reachable state is well typed: a pass holds only stored entries and *)
(* has one in hand exactly between its publish and its settlement.           *)
THEOREM TypeCorrect == Spec => []TypeOK
<1>1. Init => TypeOK
  BY SqlEventsAssumption, SqlBoundsAssumption DEF Init, TypeOK
<1>2. TypeOK /\ [Next]_vars => TypeOK'
  <2> SUFFICES ASSUME TypeOK, [Next]_vars PROVE TypeOK'
    OBVIOUS
  <2> USE SqlEventsAssumption, SqlBoundsAssumption DEF TypeOK
  <2>1. ASSUME NEW e \in Events, Enqueue(e) PROVE TypeOK'
    BY <2>1 DEF Enqueue, pass, hist
  <2>2. CASE LeaseLapses
    BY <2>2 DEF LeaseLapses, rows, pass, InHand
  <2>3. ASSUME NEW d \in Drains, ReadPending(d) PROVE TypeOK'
    BY <2>3 DEF ReadPending, rows, hist, Claimable, Pending
  <2>13. ASSUME NEW d \in Drains, NEW e \in Events, Scan(d, e) \/ SkipLocked(d, e) PROVE TypeOK'
    <3>1. CASE Scan(d, e)
      <4>1. /\ view' = [view EXCEPT ![d] = @ \ {e}] /\ e \in stored
            /\ UNCHANGED <<pc, rows, lease, todo, snap, cur, held, hist, faults>>
            /\ \/ missed' = [missed EXCEPT ![d] = @ \union {e}] /\ picked' = picked
               \/ picked' = [picked EXCEPT ![d] = @ \union {e}] /\ missed' = missed
        BY <3>1 DEF Scan
      <4>2. view' \in [Drains -> SUBSET stored]
        BY <4>1
      <4>3. /\ [picked EXCEPT ![d] = @ \union {e}] \in [Drains -> SUBSET stored]
            /\ [missed EXCEPT ![d] = @ \union {e}] \in [Drains -> SUBSET stored]
        <5>1. picked[d] \union {e} \in SUBSET stored /\ missed[d] \union {e} \in SUBSET stored
          BY <4>1
        <5> QED
          BY <5>1
      <4>4. picked' \in [Drains -> SUBSET stored] /\ missed' \in [Drains -> SUBSET stored]
        BY <4>1, <4>3
      <4> QED
        BY <4>1, <4>2, <4>4 DEF rows, hist
    <3>2. CASE SkipLocked(d, e)
      BY <2>13, <3>2 DEF SkipLocked, rows, hist
    <3> QED
      BY <2>13, <3>1, <3>2
  <2>4. ASSUME NEW d \in Drains, ClaimPending(d) PROVE TypeOK'
    <3> DEFINE last == Max({lease[e] : e \in Events} \union {0})
    <3>1. last \in Nat
      BY NewLease
    <3> HIDE DEF last
    <3>2. PICK S \in SUBSET {e \in picked[d] \ missed[d] : e \in Pending /\ ~Live(e)} :
            /\ todo' = [todo EXCEPT ![d] = S]
            /\ lease' = [e \in Events |-> IF e \in S THEN last + 1 ELSE lease[e]]
            /\ raced' = raced \union {AggOf[e] : e \in {x \in S :
                           \E h \in Pending : AggOf[h] = AggOf[x] /\ Live(h)}}
            /\ passedOver' = passedOver \union {AggOf[e] : e \in {x \in S :
                           \E h \in missed[d] \intersect Pending : Earlier(h, x)}}
            /\ snap' = [snap EXCEPT ![d] = [e \in Events |-> IF e \in S THEN attempts[e] ELSE 0]]
      BY <2>4 DEF ClaimPending, last
    <3>3. S \in SUBSET stored /\ S \subseteq Events
      BY <3>2
    <3>4. todo' \in [Drains -> SUBSET stored] /\ lease' \in [Events -> Nat]
      BY <3>1, <3>2, <3>3
    <3>5. raced' \subseteq Aggregates /\ passedOver' \subseteq Aggregates
      BY <3>2, <3>3
    <3>6. [e \in Events |-> IF e \in S THEN attempts[e] ELSE 0] \in [Events -> Nat]
      OBVIOUS
    <3>7. snap' \in [Drains -> [Events -> Nat]]
      BY <3>2, <3>6
    <3> QED
      BY <2>4, <3>4, <3>5, <3>7 DEF ClaimPending, rows
  <2>5. ASSUME NEW d \in Drains, PublishOk(d) PROVE TypeOK'
    BY <2>5 DEF PublishOk, Take, IsHead, Unheld, rows, claim
  <2>6. ASSUME NEW d \in Drains, PublishFails(d) PROVE TypeOK'
    BY <2>6 DEF PublishFails, Take, IsHead, Unheld, rows, claim
  <2>7. ASSUME NEW d \in Drains, MarkSent(d) PROVE TypeOK'
    BY <2>7 DEF MarkSent, Advance, hist, claim
  <2>8. ASSUME NEW d \in Drains, RecordFailure(d) PROVE TypeOK'
    BY <2>8 DEF RecordFailure, Quarantines, claim
  <2>9. ASSUME NEW d \in Drains, GiveBack(d) PROVE TypeOK'
    BY <2>9 DEF GiveBack, Advance, rows, hist, claim
  <2>10. ASSUME NEW d \in Drains, EndPass(d) PROVE TypeOK'
    BY <2>10 DEF EndPass, Release, rows, hist
  <2>11. ASSUME NEW d \in Drains, Abandon(d) PROVE TypeOK'
    BY <2>11 DEF Abandon, Release, rows, InHand
  <2>12. CASE UNCHANGED vars
    BY <2>12 DEF vars, rows, pass, hist
  <2> QED
    BY <2>1, <2>2, <2>3, <2>4, <2>5, <2>6, <2>7, <2>8, <2>9, <2>10, <2>11, <2>12, <2>13
    DEF Next, Step
<1> QED
  BY <1>1, <1>2, PTL DEF Spec

-----------------------------------------------------------------------------
(* What the theorems assume of the events: the clocks that stamped           *)
(* created_at agree with the versions, and the versions of an aggregate      *)
(* differ.                                                                   *)
ClocksAgree == \A e, f \in Events : Earlier(e, f) => AtOf[e] <= AtOf[f]
VersionsDiffer ==
  \A e, f \in Events : AggOf[e] = AggOf[f] /\ VersionOf[e] = VersionOf[f] => e = f

-----------------------------------------------------------------------------
(* Order: what a pass reads, picks and has in hand is closed under earlier   *)
(* versions, which are on the bus or in quarantine if they are not with it.  *)

StoredInOrder == \A f \in stored, e \in Events : Earlier(e, f) => e \in stored

Gone == published \union skipped

LeftByTheBus ==
  /\ sent \subseteq published /\ quarantined \subseteq skipped
  /\ \A d \in Drains : pc[d] = "mark" => cur[d] \in published

ViewIsClosed ==
  \A d \in Drains :
    /\ pc[d] # "reading" => picked[d] = {}
    /\ pc[d] = "reading" =>
         \A f \in view[d] \union picked[d], e \in Events :
           Earlier(e, f) => e \in view[d] \union picked[d] \union missed[d] \union Gone

BatchIsClosed ==
  \A d \in Drains : \A f \in todo[d], e \in Events :
    Earlier(e, f) /\ AggOf[f] \notin raced \union passedOver \union held[d]
      => e \in Gone \union todo[d] \union {cur[d]}

EntryIsClosed ==
  \A d \in Drains : cur[d] # NoEvent /\ AggOf[cur[d]] \notin raced \union passedOver =>
    \A e \in Events : Earlier(e, cur[d]) => e \in Gone

(* A pass gives an aggregate back, and goes on with it, only for an entry    *)
(* that is in quarantine.                                                    *)
VerdictIsKept ==
  \A d \in Drains : pc[d] = "giveback" /\ Quarantines(d, cur[d]) => cur[d] \in skipped

OrderInv ==
  /\ TypeOK /\ StoredInOrder /\ LeftByTheBus /\ ViewIsClosed
  /\ BatchIsClosed /\ EntryIsClosed /\ VerdictIsKept
  /\ OrderedUnlessRaced

-----------------------------------------------------------------------------
(* The lease: an entry a pass will still publish or settle is leased and     *)
(* pending, and its aggregate in no other pass's hands, unless it is shared. *)

Hand(d) == Unheld(d) \union ({cur[d]} \ {NoEvent})

(* The entry in hand is behind the pass once it is in quarantine. *)
Ahead(d) == Unheld(d) \union {e \in {cur[d]} : e # NoEvent /\ (pc[d] = "giveback" => e \notin quarantined)}

HandIsTidy ==
  \A d \in Drains : cur[d] # NoEvent =>
    /\ cur[d] \notin todo[d] /\ AggOf[cur[d]] \notin held[d]
    /\ \A f \in todo[d] : AggOf[f] = AggOf[cur[d]] => ~Before(f, cur[d])

LeasedAndPending ==
  \A d \in Drains : \A e \in Ahead(d) : ~Shared(e) => Live(e) /\ e \in Pending

Apart ==
  \A d, c \in Drains : \A e \in Ahead(d), g \in Hand(c) :
    d # c /\ AggOf[e] = AggOf[g] => Shared(e)

OnTheBus ==
  \A e \in published : ~Shared(e) =>
    e \in sent \/ \E d \in Drains : cur[d] = e /\ pc[d] = "mark"

InQuarantine == \A e \in skipped : ~Shared(e) => e \in quarantined

LeaseInv ==
  /\ OrderInv /\ HandIsTidy /\ LeasedAndPending /\ Apart
  /\ OnTheBus /\ InQuarantine /\ TwiceOnlyIfShared

-----------------------------------------------------------------------------
(* With agreeing clocks the sort of pending() puts versions in order. *)
LEMMA EarlierIsBefore ==
  ASSUME ClocksAgree, NEW e \in Events, NEW f \in Events, Earlier(e, f)
  PROVE  Before(e, f)
  BY SqlEventsAssumption DEF ClocksAgree, Earlier, Before

(* When a pass reaches an entry of an aggregate no two claims overlapped on  *)
(* and no claim split, the earlier versions are already on the bus or in quarantine.             *)
LEMMA HeadHasNoPredecessor ==
  ASSUME ClocksAgree, TypeOK, BatchIsClosed, NEW d \in Drains, pc[d] = "next",
         NEW f \in Events, IsHead(d, f), AggOf[f] \notin raced \union passedOver,
         NEW e \in Events, Earlier(e, f)
  PROVE  e \in Gone
<1>1. f \in todo[d] /\ AggOf[f] \notin held[d]
  BY DEF IsHead, Unheld
<1>2. AggOf[e] \notin held[d]
  BY <1>1 DEF Earlier
<1>3. e # cur[d]
  BY SqlEventsAssumption DEF TypeOK
<1>4. e \notin todo[d]
  BY <1>2, EarlierIsBefore DEF IsHead, Unheld
<1> QED
  BY <1>1, <1>3, <1>4 DEF BatchIsClosed

(* What pending() locks is closed under earlier versions, unless the         *)
(* aggregate of one is under the live lease of another pass, or one was      *)
(* passed over.                                                              *)
LEMMA ClaimIsClosed ==
  ASSUME ClocksAgree, OrderInv, NEW d \in Drains, pc[d] = "reading", view[d] = {},
         NEW S, S \subseteq {e \in picked[d] \ missed[d] : e \in Pending /\ ~Live(e)},
         IsBatchOf(S, {e \in picked[d] \ missed[d] : e \in Pending /\ ~Live(e)}),
         NEW f \in S, NEW e \in Events, Earlier(e, f)
  PROVE  \/ e \in Gone \union S
         \/ e \in Pending /\ Live(e)
         \/ e \in missed[d] \intersect Pending
<1>1. f \in picked[d] /\ f \in Events
  BY DEF OrderInv, TypeOK
<1>2. e \in picked[d] \union missed[d] \union Gone
  BY <1>1 DEF OrderInv, ViewIsClosed
<1>3. e \in picked[d] \union missed[d] => e \in Pending \/ e \in Gone
  BY DEF OrderInv, TypeOK, Pending, LeftByTheBus, Gone
<1>4. Before(e, f)
  BY <1>1, EarlierIsBefore
<1> QED
  BY <1>2, <1>3, <1>4 DEF IsBatchOf

(* Every step keeps the order. *)
LEMMA OrderInductive ==
  ASSUME ClocksAgree, OrderInv, [Next]_vars, TypeOK'
  PROVE  OrderInv'
<1> USE SqlEventsAssumption, SqlBoundsAssumption DEF OrderInv
<1>1. ASSUME NEW e \in Events, Enqueue(e) PROVE OrderInv'
  <2>1. UNCHANGED <<sent, quarantined, pass, published, skipped, raced, passedOver>> /\ stored' = stored \union {e}
    BY <1>1 DEF Enqueue, hist
  <2>2. StoredInOrder'
    BY <1>1 DEF Enqueue, StoredInOrder, Earlier
  <2> QED
    BY <2>1, <2>2 DEF LeftByTheBus, ViewIsClosed, BatchIsClosed, EntryIsClosed, VerdictIsKept,
       OrderedUnlessRaced, Gone, Earlier, Quarantines, pass
<1>2. ASSUME UNCHANGED <<rows, pass, published, skipped, raced, passedOver>> PROVE OrderInv'
  BY <1>2 DEF StoredInOrder, LeftByTheBus, ViewIsClosed, BatchIsClosed, EntryIsClosed,
     VerdictIsKept, OrderedUnlessRaced, Gone, Earlier, Quarantines, rows, pass
<1>3. ASSUME NEW d \in Drains, ReadPending(d) PROVE OrderInv'
  <2>1. /\ UNCHANGED <<rows, picked, missed, todo, snap, cur, held, published, skipped, raced, passedOver>>
        /\ pc' = [pc EXCEPT ![d] = "reading"] /\ view' = [view EXCEPT ![d] = Claimable]
    BY <1>3 DEF ReadPending, hist
  <2>2. /\ pc'[d] = "reading" /\ view'[d] = Claimable
        /\ \A c \in Drains : c # d => pc'[c] = pc[c] /\ view'[c] = view[c]
    BY <2>1 DEF TypeOK
  <2>3. \A f \in Claimable, e \in Events : Earlier(e, f) => e \in Claimable \union Gone
    <3> SUFFICES ASSUME NEW f \in Claimable, NEW e \in Events, Earlier(e, f), e \notin Gone
                 PROVE  e \in Claimable
      OBVIOUS
    <3>1. f \in stored /\ ~\E h \in Pending : AggOf[h] = AggOf[f] /\ Live(h)
      BY DEF Claimable, Pending
    <3>2. e \in Pending
      BY <3>1 DEF StoredInOrder, Pending, LeftByTheBus, Gone
    <3> QED
      BY <3>1, <3>2 DEF Claimable, Earlier
  <2>4. ViewIsClosed'
    BY <1>3, <2>1, <2>2, <2>3 DEF ReadPending, ViewIsClosed, Gone, Earlier
  <2>5. LeftByTheBus' /\ VerdictIsKept'
    BY <2>1, <2>2 DEF LeftByTheBus, VerdictIsKept, Quarantines, rows
  <2> QED
    BY <2>1, <2>4, <2>5 DEF StoredInOrder, BatchIsClosed, EntryIsClosed, OrderedUnlessRaced, Gone,
       Earlier, rows
<1>4. ASSUME NEW d \in Drains, ClaimPending(d) PROVE OrderInv'
  <2> DEFINE free == {e \in picked[d] \ missed[d] : e \in Pending /\ ~Live(e)}
  <2>1. PICK S \in SUBSET free :
          /\ IsBatchOf(S, free) /\ todo' = [todo EXCEPT ![d] = S]
          /\ raced' = raced \union {AggOf[e] : e \in {x \in S :
                         \E h \in Pending : AggOf[h] = AggOf[x] /\ Live(h)}}
          /\ passedOver' = passedOver \union {AggOf[e] : e \in {x \in S :
                         \E h \in missed[d] \intersect Pending : Earlier(h, x)}}
          /\ snap' = [snap EXCEPT ![d] = [e \in Events |-> IF e \in S THEN attempts[e] ELSE 0]]
    BY <1>4 DEF ClaimPending
  <2>2. /\ UNCHANGED <<rows, view, cur, held, published, skipped>>
        /\ pc[d] = "reading" /\ view[d] = {} /\ pc' = [pc EXCEPT ![d] = "next"]
        /\ picked' = [picked EXCEPT ![d] = {}] /\ missed' = [missed EXCEPT ![d] = {}]
    BY <1>4 DEF ClaimPending
  <2>3. /\ pc'[d] = "next" /\ todo'[d] = S /\ picked'[d] = {}
        /\ \A c \in Drains : c # d =>
             /\ pc'[c] = pc[c] /\ picked'[c] = picked[c] /\ missed'[c] = missed[c]
             /\ todo'[c] = todo[c] /\ snap'[c] = snap[c]
    BY <2>1, <2>2 DEF TypeOK
  <2>4. raced \subseteq raced' /\ passedOver \subseteq passedOver'
    BY <2>1
  <2>5. ASSUME NEW f \in S, NEW e \in Events, Earlier(e, f),
               AggOf[f] \notin raced' \union passedOver'
        PROVE  e \in Gone \union S
    <3>1. \/ e \in Gone \union S
          \/ e \in Pending /\ Live(e)
          \/ e \in missed[d] \intersect Pending
      BY <2>1, <2>2, <2>5, ClaimIsClosed
    <3>2. e \in Pending /\ Live(e) => AggOf[f] \in raced'
      BY <2>1, <2>5 DEF Earlier
    <3>3. e \in missed[d] \intersect Pending => AggOf[f] \in passedOver'
      BY <2>1, <2>5
    <3> QED
      BY <2>5, <3>1, <3>2, <3>3
  <2> HIDE DEF free
  <2>6. BatchIsClosed'
    <3> SUFFICES ASSUME NEW c \in Drains, NEW f \in todo'[c], NEW e \in Events,
                        Earlier(e, f), AggOf[f] \notin raced' \union passedOver' \union held'[c]
                 PROVE  e \in Gone' \union todo'[c] \union {cur'[c]}
      BY DEF BatchIsClosed, Earlier
    <3>1. Gone' = Gone
      BY <2>2 DEF Gone
    <3>2. CASE c = d
      BY <2>3, <2>5, <3>1, <3>2
    <3>3. CASE c # d
      BY <2>2, <2>3, <2>4, <3>1, <3>3 DEF BatchIsClosed
    <3> QED
      BY <3>2, <3>3
  <2>7. ViewIsClosed'
    BY <2>2, <2>3 DEF ViewIsClosed, Gone, Earlier
  <2>8. LeftByTheBus' /\ VerdictIsKept'
    BY <2>2, <2>3 DEF LeftByTheBus, VerdictIsKept, Quarantines, rows
  <2> QED
    BY <2>2, <2>4, <2>6, <2>7, <2>8 DEF StoredInOrder, EntryIsClosed, OrderedUnlessRaced, Gone,
       Earlier, rows
<1>14. ASSUME NEW d \in Drains, NEW h \in Events, Scan(d, h) \/ SkipLocked(d, h) PROVE OrderInv'
  <2>1. UNCHANGED <<rows, pc, todo, snap, cur, held, published, skipped, raced, passedOver>>
       /\ pc[d] = "reading"
    BY <1>14 DEF Scan, SkipLocked, hist
  <2>2. /\ view'[d] \union picked'[d] \subseteq view[d] \union picked[d]
        /\ view[d] \union picked[d] \union missed[d]
             \subseteq view'[d] \union picked'[d] \union missed'[d]
        /\ \A c \in Drains : c # d => /\ view'[c] = view[c] /\ picked'[c] = picked[c]
                                     /\ missed'[c] = missed[c]
    BY <1>14 DEF Scan, SkipLocked, TypeOK
  <2>3. ViewIsClosed'
    BY <2>1, <2>2 DEF ViewIsClosed, Gone, Earlier
  <2>4. LeftByTheBus' /\ VerdictIsKept'
    BY <2>1 DEF LeftByTheBus, VerdictIsKept, Quarantines, rows
  <2> QED
    BY <2>1, <2>3, <2>4 DEF StoredInOrder, BatchIsClosed, EntryIsClosed, OrderedUnlessRaced, Gone,
       Earlier, rows
<1>5. ASSUME NEW d \in Drains, NEW h \in Events, NEW next \in {"mark", "fail"}, Take(d, h, next),
             published' = IF next = "mark" THEN published \union {h} ELSE published
      PROVE  OrderInv'
  <2>1. UNCHANGED <<rows, claim, snap, held, skipped, raced, passedOver>> /\ pc[d] = "next" /\ IsHead(d, h)
    BY <1>5 DEF Take
  <2>2. /\ pc'[d] = next /\ todo'[d] = todo[d] \ {h} /\ cur'[d] = h /\ cur[d] = NoEvent
        /\ \A c \in Drains : c # d => pc'[c] = pc[c] /\ todo'[c] = todo[c] /\ cur'[c] = cur[c]
    BY <1>5 DEF Take, TypeOK
  <2>3. Gone \subseteq Gone' /\ (next = "mark" => h \in published')
    BY <1>5, <2>1 DEF Gone
  <2>4. AggOf[h] \notin raced \union passedOver => \A e \in Events : Earlier(e, h) => e \in Gone
    BY <2>1, HeadHasNoPredecessor
  <2>5. OrderedUnlessRaced'
    BY <1>5, <2>1, <2>4 DEF OrderedUnlessRaced, Earlier, Gone
  <2>6. BatchIsClosed'
    BY <2>1, <2>2, <2>3 DEF BatchIsClosed, Earlier
  <2>7. EntryIsClosed'
    BY <2>1, <2>2, <2>3, <2>4 DEF EntryIsClosed, Earlier
  <2>8. ViewIsClosed'
    BY <2>1, <2>2, <2>3 DEF ViewIsClosed, Earlier, claim
  <2>9. LeftByTheBus'
    BY <1>5, <2>1, <2>2, <2>3 DEF LeftByTheBus, rows
  <2>10. VerdictIsKept'
    BY <2>1, <2>2 DEF VerdictIsKept, Quarantines
  <2>11. StoredInOrder'
    BY <2>1 DEF StoredInOrder, Earlier, rows
  <2> QED
    BY <2>5, <2>6, <2>7, <2>8, <2>9, <2>10, <2>11
<1>6. ASSUME NEW d \in Drains, MarkSent(d) PROVE OrderInv'
  <2>1. /\ UNCHANGED <<stored, quarantined, claim, todo, held, published, skipped, raced, passedOver>>
        /\ pc[d] = "mark" /\ sent' = sent \union {cur[d]}
    BY <1>6 DEF MarkSent, hist
  <2>2. /\ pc'[d] = "next" /\ cur'[d] = NoEvent
        /\ \A c \in Drains : c # d => pc'[c] = pc[c] /\ cur'[c] = cur[c] /\ snap'[c] = snap[c]
    BY <1>6 DEF MarkSent, Advance, TypeOK
  <2>3. cur[d] \in published
    BY <2>1 DEF LeftByTheBus
  <2>4. BatchIsClosed' /\ EntryIsClosed' /\ ViewIsClosed'
    BY <2>1, <2>2, <2>3 DEF BatchIsClosed, EntryIsClosed, ViewIsClosed, Gone, Earlier, claim
  <2>5. LeftByTheBus' /\ VerdictIsKept'
    BY <2>1, <2>2, <2>3 DEF LeftByTheBus, VerdictIsKept, Quarantines
  <2> QED
    BY <2>1, <2>4, <2>5 DEF StoredInOrder, OrderedUnlessRaced, Earlier
<1>7. ASSUME NEW d \in Drains, RecordFailure(d) PROVE OrderInv'
  <2>1. /\ UNCHANGED <<stored, sent, claim, todo, snap, cur, held, published, raced, passedOver>>
        /\ pc[d] = "fail" /\ skipped \subseteq skipped' /\ quarantined' \subseteq skipped'
        /\ Quarantines(d, cur[d]) => cur[d] \in skipped'
    BY <1>7 DEF RecordFailure, LeftByTheBus
  <2>2. /\ pc'[d] = "giveback" /\ \A c \in Drains : c # d => pc'[c] = pc[c]
    BY <1>7 DEF RecordFailure, TypeOK
  <2>3. Gone \subseteq Gone'
    BY <2>1 DEF Gone
  <2>4. BatchIsClosed' /\ EntryIsClosed' /\ ViewIsClosed'
    BY <2>1, <2>2, <2>3 DEF BatchIsClosed, EntryIsClosed, ViewIsClosed, Earlier, claim
  <2>5. LeftByTheBus' /\ VerdictIsKept'
    BY <2>1, <2>2 DEF LeftByTheBus, VerdictIsKept, Quarantines
  <2> QED
    BY <2>1, <2>4, <2>5 DEF StoredInOrder, OrderedUnlessRaced, Earlier
<1>8. ASSUME NEW d \in Drains, GiveBack(d) PROVE OrderInv'
  <2>1. UNCHANGED <<rows, claim, todo, published, skipped, raced, passedOver>> /\ pc[d] = "giveback"
    BY <1>8 DEF GiveBack, hist
  <2>2. /\ pc'[d] = "next" /\ cur'[d] = NoEvent /\ held[d] \subseteq held'[d]
        /\ \A c \in Drains : c # d => /\ pc'[c] = pc[c] /\ cur'[c] = cur[c]
                                     /\ snap'[c] = snap[c] /\ held'[c] = held[c]
    BY <1>8 DEF GiveBack, Advance, TypeOK
  <2>3. AggOf[cur[d]] \in held'[d] \/ cur[d] \in Gone
    BY <1>8 DEF GiveBack, TypeOK, VerdictIsKept, Gone
  <2>4. BatchIsClosed' /\ EntryIsClosed' /\ ViewIsClosed'
    BY <2>1, <2>2, <2>3 DEF BatchIsClosed, EntryIsClosed, ViewIsClosed, Gone, Earlier, claim
  <2>5. LeftByTheBus' /\ VerdictIsKept'
    BY <2>1, <2>2 DEF LeftByTheBus, VerdictIsKept, Quarantines, rows
  <2> QED
    BY <2>1, <2>4, <2>5 DEF StoredInOrder, OrderedUnlessRaced, Earlier, rows
<1>9. ASSUME NEW d \in Drains, Release(d), UNCHANGED <<rows, published, skipped, raced, passedOver>>
      PROVE  OrderInv'
  <2>1. /\ pc'[d] = "idle" /\ todo'[d] = {} /\ cur'[d] = NoEvent /\ picked'[d] = {}
        /\ \A c \in Drains : c # d =>
                          /\ pc'[c] = pc[c] /\ cur'[c] = cur[c] /\ view'[c] = view[c]
                          /\ picked'[c] = picked[c] /\ missed'[c] = missed[c]
                          /\ todo'[c] = todo[c] /\ snap'[c] = snap[c] /\ held'[c] = held[c]
    BY <1>9 DEF Release, TypeOK
  <2>2. BatchIsClosed' /\ EntryIsClosed' /\ ViewIsClosed'
    BY <1>9, <2>1 DEF BatchIsClosed, EntryIsClosed, ViewIsClosed, Gone, Earlier
  <2>3. LeftByTheBus' /\ VerdictIsKept'
    BY <1>9, <2>1 DEF LeftByTheBus, VerdictIsKept, Quarantines, rows
  <2> QED
    BY <1>9, <2>2, <2>3 DEF StoredInOrder, OrderedUnlessRaced, Earlier, rows
<1>10. LeaseLapses => OrderInv'
  BY <1>2 DEF LeaseLapses
<1>11. \A d \in Drains : PublishOk(d) \/ PublishFails(d) => OrderInv'
  BY <1>5 DEF PublishOk, PublishFails
<1>12. \A d \in Drains : EndPass(d) \/ Abandon(d) => OrderInv'
  BY <1>9 DEF EndPass, Abandon, hist
<1>13. UNCHANGED vars => OrderInv'
  BY <1>2 DEF vars, hist
<1> QED
  BY <1>1, <1>3, <1>4, <1>6, <1>7, <1>8, <1>10, <1>11, <1>12, <1>13, <1>14 DEF Next, Step

(* With agreeing clocks, versions of an aggregate first reach the bus in     *)
(* order, whatever leases lapse and whatever passes die, as long as no two   *)
(* claims of it overlapped and no claim took a later version while FOR       *)
(* UPDATE SKIP LOCKED passed over an earlier one that another statement had  *)
(* locked (pending() of sql-client's outbox).                                *)
THEOREM PublishesInOrder == ASSUME ClocksAgree PROVE Spec => []OrderedUnlessRaced
<1>1. Init => OrderInv
  <2>1. Init => TypeOK
    BY SqlEventsAssumption, SqlBoundsAssumption DEF Init, TypeOK
  <2> QED
    BY <2>1 DEF Init, OrderInv, StoredInOrder, LeftByTheBus, ViewIsClosed, BatchIsClosed,
       EntryIsClosed, VerdictIsKept, OrderedUnlessRaced
<1>2. OrderInv /\ [Next]_vars /\ TypeOK' => OrderInv'
  BY OrderInductive
<1>3. OrderInv => OrderedUnlessRaced
  BY DEF OrderInv
<1> QED
  BY <1>1, <1>2, <1>3, TypeCorrect, PTL DEF Spec

-----------------------------------------------------------------------------
(* What makes an entry shared is never undone. *)
Remembers ==
  /\ raced \subseteq raced' /\ passedOver \subseteq passedOver'
  /\ overrun \subseteq overrun' /\ skipped \subseteq skipped'

(* An entry that is shared stays shared. *)
LEMMA SharedLasts ==
  ASSUME Remembers, NEW e \in Events, Shared(e)
  PROVE  Shared(e)'
  BY DEF Remembers, Shared, Earlier

(* What a pass has ahead of it is in its hands, and those hold entries.      *)
LEMMA AheadIsInHand ==
  ASSUME TypeOK, NEW d \in Drains
  PROVE  /\ Ahead(d) \subseteq Hand(d) /\ Hand(d) \subseteq Events
         /\ Hand(d) \subseteq InHand(d) /\ Hand(d) \subseteq todo[d] \union {cur[d]}
  BY DEF TypeOK, Ahead, Hand, InHand, Unheld

(* Passes that take nothing in hand stay apart. *)
LEMMA ApartLasts ==
  ASSUME TypeOK, TypeOK', Apart, Remembers,
         \A d \in Drains : Hand(d)' \subseteq Hand(d),
         \A d \in Drains : \A e \in Ahead(d)' : e \in Ahead(d) \/ Shared(e)
  PROVE  Apart'
<1> SUFFICES ASSUME NEW d \in Drains, NEW c \in Drains, NEW e \in Ahead(d)', NEW g \in Hand(c)',
                    d # c, AggOf[e] = AggOf[g]
             PROVE  Shared(e)'
  BY DEF Apart
<1>1. e \in Events /\ g \in Hand(c)
  BY AheadIsInHand, SqlEventsAssumption DEF TypeOK, Ahead, Hand, Unheld
<1>2. Shared(e)
  BY <1>1 DEF Apart
<1> QED
  BY <1>1, <1>2, SharedLasts

(* A pending entry without a live lease whose aggregate nobody leases is in  *)
(* no pass's hands, nor is another version of it, unless it is shared: what  *)
(* a claim that overlaps no other takes, it has for itself.                  *)
LEMMA UnleasedIsFree ==
  ASSUME VersionsDiffer, LeaseInv, NEW e \in Pending, ~Shared(e),
         \A h \in Pending : AggOf[h] = AggOf[e] => ~Live(h),
         NEW c \in Drains, NEW g \in Hand(c), AggOf[g] = AggOf[e]
  PROVE  FALSE
<1> USE DEF LeaseInv, OrderInv
<1>1. e \in Events /\ g \in Events /\ e \notin sent /\ e \notin quarantined
  BY AheadIsInHand DEF TypeOK, Pending
<1>2. \A d \in Drains : \A x \in Ahead(d) : AggOf[x] = AggOf[e] => Shared(x)
  BY DEF LeasedAndPending
<1>3. \A d \in Drains : e \notin Ahead(d)
  BY <1>2
<1>4. /\ AggOf[e] \notin raced \union passedOver \union overrun
      /\ \A f \in skipped : ~Earlier(f, e)
  BY DEF Shared
<1>5. Earlier(e, g)
  <2>1. CASE g \in Ahead(c)
    <3>1. PICK f \in skipped : Earlier(f, g)
      BY <1>2, <1>4, <2>1 DEF Shared
    <3>2. ~Earlier(f, e) /\ f \in Events
      BY <1>4 DEF TypeOK
    <3> QED
      BY <1>1, <3>1, <3>2, SqlEventsAssumption DEF Earlier
  <2>2. CASE g \notin Ahead(c)
    <3>1. g \in quarantined
      BY <2>2 DEF Ahead, Hand
    <3>2. g \in skipped /\ g # e
      BY <1>1, <3>1 DEF LeftByTheBus
    <3>3. ~Earlier(g, e) /\ VersionOf[e] # VersionOf[g]
      BY <1>1, <1>4, <3>2 DEF VersionsDiffer
    <3> QED
      BY <1>1, <3>3, SqlEventsAssumption DEF Earlier
  <2> QED
    BY <2>1, <2>2
<1>6. e \in Gone
  <2>1. CASE g \in Unheld(c)
    <3>1. g \in todo[c] /\ AggOf[g] \notin raced \union passedOver \union held[c]
      BY <1>4, <2>1 DEF Unheld
    <3>2. e \in Gone \union todo[c] \union {cur[c]}
      BY <1>1, <1>5, <3>1 DEF BatchIsClosed
    <3>3. e \notin todo[c]
      BY <1>3, <3>1 DEF Ahead, Unheld
    <3>4. e # cur[c]
      BY <1>1, <1>3, SqlEventsAssumption DEF Ahead
    <3> QED
      BY <3>2, <3>3, <3>4
  <2>2. CASE g = cur[c]
    BY <1>1, <1>4, <1>5, <2>2, SqlEventsAssumption DEF EntryIsClosed
  <2> QED
    BY <2>1, <2>2 DEF Hand
<1>7. e \notin published
  <2>1. \A d \in Drains : ~(cur[d] = e /\ pc[d] = "mark")
    BY <1>1, <1>3, SqlEventsAssumption DEF Ahead
  <2> QED
    BY <1>1, <2>1 DEF OnTheBus
<1>8. e \notin skipped
  BY <1>1 DEF InQuarantine
<1> QED
  BY <1>6, <1>7, <1>8 DEF Gone

(* A claim: what it takes is leased by nobody else. *)
LEMMA ClaimKeeps ==
  ASSUME VersionsDiffer, LeaseInv, TypeOK', NEW d \in Drains, ClaimPending(d)
  PROVE  /\ HandIsTidy' /\ LeasedAndPending' /\ Apart'
         /\ OnTheBus' /\ InQuarantine' /\ TwiceOnlyIfShared'
<1> USE SqlEventsAssumption, SqlBoundsAssumption DEF LeaseInv, OrderInv
<1> DEFINE free == {e \in picked[d] \ missed[d] : e \in Pending /\ ~Live(e)}
           last == Max({lease[e] : e \in Events} \union {0})
<1>1. last + 1 # 0
  <2>1. last \in Nat
    BY NewLease DEF TypeOK
  <2> QED
    BY <2>1
<1> HIDE DEF last
<1>2. PICK S \in SUBSET free :
        /\ todo' = [todo EXCEPT ![d] = S]
        /\ lease' = [e \in Events |-> IF e \in S THEN last + 1 ELSE lease[e]]
        /\ raced' = raced \union {AggOf[e] : e \in {x \in S :
                       \E h \in Pending : AggOf[h] = AggOf[x] /\ Live(h)}}
        /\ passedOver \subseteq passedOver'
  BY DEF ClaimPending, last
<1>3. /\ UNCHANGED <<rows, cur, held, published, skipped, twice, overrun>> /\ pc[d] = "reading"
      /\ pc' = [pc EXCEPT ![d] = "next"]
  BY DEF ClaimPending
<1>4. /\ pc'[d] = "next" /\ todo'[d] = S /\ cur[d] = NoEvent
      /\ \A c \in Drains : c # d => pc'[c] = pc[c] /\ todo'[c] = todo[c]
  BY <1>2, <1>3 DEF TypeOK
<1>5. Remembers /\ Pending' = Pending /\ S \subseteq Pending /\ S \subseteq Events
  BY <1>2, <1>3 DEF Remembers, rows, TypeOK, Pending
<1>6. \A e \in Events : ~Shared(e)' => ~Shared(e)
  BY <1>5, SharedLasts
<1>7. Ahead(d)' \subseteq S /\ Hand(d)' \subseteq S
  BY <1>3, <1>4 DEF Ahead, Hand, Unheld
<1>8. \A c \in Drains : c # d => Ahead(c)' = Ahead(c) /\ Hand(c)' = Hand(c)
  BY <1>3, <1>4 DEF Ahead, Hand, Unheld, rows
<1>9. \A e \in Events : Live(e) \/ e \in S => Live(e)'
  BY <1>1, <1>2 DEF Live
<1>10. \A c \in Drains : Ahead(c)' \subseteq Events /\ Hand(c) \subseteq Events
  BY <1>5, <1>7, <1>8, AheadIsInHand
<1>11. LeasedAndPending'
  <2> SUFFICES ASSUME NEW c \in Drains, NEW e \in Ahead(c)', ~Shared(e)'
               PROVE  Live(e)' /\ e \in Pending'
    BY DEF LeasedAndPending
  <2> QED
    BY <1>5, <1>6, <1>7, <1>8, <1>9, <1>10 DEF LeasedAndPending
<1>12. \A e \in S : ~Shared(e)' => \A h \in Pending : AggOf[h] = AggOf[e] => ~Live(h)
  BY <1>2 DEF Shared
<1>13. Apart'
  <2> SUFFICES ASSUME NEW b \in Drains, NEW c \in Drains, NEW e \in Ahead(b)', NEW g \in Hand(c)',
                      b # c, AggOf[e] = AggOf[g], ~Shared(e)'
               PROVE  FALSE
    BY DEF Apart
  <2>1. e \in Events /\ ~Shared(e)
    BY <1>6, <1>10
  <2>2. CASE b = d
    <3>1. e \in S /\ e \in Pending /\ g \in Hand(c)
      BY <1>5, <1>7, <1>8, <2>2
    <3>2. \A h \in Pending : AggOf[h] = AggOf[e] => ~Live(h)
      BY <1>12, <3>1
    <3> QED
      BY <2>1, <3>1, <3>2, UnleasedIsFree
  <2>3. CASE c = d
    <3>1. g \in S /\ e \in Ahead(b)
      BY <1>7, <1>8, <2>3
    <3>2. e \in Pending /\ Live(e)
      BY <2>1, <3>1 DEF LeasedAndPending
    <3>3. AggOf[g] \in raced'
      BY <1>2, <3>1, <3>2
    <3> QED
      BY <3>3 DEF Shared
  <2>4. CASE b # d /\ c # d
    BY <1>8, <2>1, <2>4 DEF Apart
  <2> QED
    BY <2>2, <2>3, <2>4
<1>14. HandIsTidy'
  BY <1>3, <1>4 DEF HandIsTidy, Before
<1>15. OnTheBus'
  <2> SUFFICES ASSUME NEW e \in published, ~Shared(e)'
               PROVE  e \in sent' \/ \E c \in Drains : cur'[c] = e /\ pc'[c] = "mark"
    BY <1>3 DEF OnTheBus
  <2>1. e \in Events /\ ~Shared(e)
    BY <1>6 DEF TypeOK
  <2> QED
    BY <1>3, <1>4, <2>1 DEF OnTheBus, rows
<1>16. InQuarantine' /\ TwiceOnlyIfShared'
  BY <1>3, <1>6 DEF InQuarantine, TwiceOnlyIfShared, rows, TypeOK
<1> QED
  BY <1>11, <1>13, <1>14, <1>15, <1>16

(* A publish, or its failure: an entry that is on the bus already is not     *)
(* ahead of any pass, unless it is shared.                                   *)
LEMMA TakeKeeps ==
  ASSUME LeaseInv, TypeOK', NEW d \in Drains, PublishOk(d) \/ PublishFails(d)
  PROVE  /\ HandIsTidy' /\ LeasedAndPending' /\ Apart'
         /\ OnTheBus' /\ InQuarantine' /\ TwiceOnlyIfShared'
<1> USE SqlEventsAssumption, SqlBoundsAssumption DEF LeaseInv, OrderInv
<1>1. PICK h \in Events, next \in {"mark", "fail"} :
        /\ Take(d, h, next)
        /\ published' = IF next = "mark" THEN published \union {h} ELSE published
        /\ twice' = IF next = "mark" /\ h \in published THEN twice \union {h} ELSE twice
  BY DEF PublishOk, PublishFails
<1>2. /\ UNCHANGED <<rows, lease, held, skipped, raced, passedOver, overrun>>
      /\ pc[d] = "next" /\ IsHead(d, h) /\ h \in Unheld(d)
  BY <1>1 DEF Take, IsHead
<1>3. /\ pc'[d] = next /\ todo'[d] = todo[d] \ {h} /\ cur'[d] = h /\ cur[d] = NoEvent
      /\ \A c \in Drains : c # d => pc'[c] = pc[c] /\ todo'[c] = todo[c] /\ cur'[c] = cur[c]
  BY <1>1 DEF Take, TypeOK
<1>4. Remembers /\ Pending' = Pending
  BY <1>2 DEF Remembers, rows, Pending
<1>5. \A e : Shared(e)' = Shared(e) /\ Live(e)' = Live(e)
  BY <1>2 DEF Shared, Earlier, Live
<1>6. \A c \in Drains : Ahead(c)' \subseteq Ahead(c) /\ Hand(c)' \subseteq Hand(c)
  <2>1. Ahead(d)' \subseteq Ahead(d) /\ Hand(d)' \subseteq Hand(d)
    BY <1>2, <1>3 DEF Ahead, Hand, Unheld
  <2>2. \A c \in Drains : c # d => Ahead(c)' = Ahead(c) /\ Hand(c)' = Hand(c)
    BY <1>2, <1>3 DEF Ahead, Hand, Unheld, rows
  <2> QED
    BY <2>1, <2>2
<1>7. Apart'
  BY <1>4, <1>6, ApartLasts
<1>8. LeasedAndPending'
  BY <1>4, <1>5, <1>6 DEF LeasedAndPending
<1>9. HandIsTidy'
  <2>1. /\ h \notin todo'[d] /\ AggOf[h] \notin held'[d]
        /\ \A f \in todo'[d] : AggOf[f] = AggOf[h] => ~Before(f, h)
    BY <1>2, <1>3 DEF IsHead, Unheld
  <2> QED
    BY <1>2, <1>3, <2>1 DEF HandIsTidy, Before
<1>10. InQuarantine'
  BY <1>2, <1>5 DEF InQuarantine, rows
<1>11. OnTheBus'
  <2> SUFFICES ASSUME NEW e \in published', ~Shared(e)
               PROVE  e \in sent' \/ \E c \in Drains : cur'[c] = e /\ pc'[c] = "mark"
    BY <1>5 DEF OnTheBus
  <2>1. CASE e \in published
    BY <1>2, <1>3, <2>1 DEF OnTheBus, rows
  <2>2. CASE e \notin published
    BY <1>1, <1>3, <2>2
  <2> QED
    BY <2>1, <2>2
<1>12. TwiceOnlyIfShared'
  <2>1. ASSUME h \in published, ~Shared(h) PROVE FALSE
    <3>1. h \in Ahead(d)
      BY <1>2 DEF Ahead
    <3>2. h \notin sent
      BY <2>1, <3>1 DEF LeasedAndPending, Pending
    <3>3. PICK c \in Drains : cur[c] = h /\ pc[c] = "mark"
      BY <2>1, <3>2 DEF OnTheBus
    <3>4. c # d /\ h \in Hand(c)
      BY <1>2, <3>3 DEF Hand
    <3> QED
      BY <2>1, <3>1, <3>4 DEF Apart
  <2> QED
    BY <1>1, <1>5, <2>1 DEF TwiceOnlyIfShared
<1> QED
  BY <1>7, <1>8, <1>9, <1>10, <1>11, <1>12

(* A settlement: it clears leases of its own aggregate only, which no other  *)
(* pass has ahead of it, unless it is shared.                                *)
LEMMA SettleKeeps ==
  ASSUME ClocksAgree, VersionsDiffer, LeaseInv, TypeOK', NEW d \in Drains,
         MarkSent(d) \/ RecordFailure(d) \/ GiveBack(d)
  PROVE  /\ HandIsTidy' /\ LeasedAndPending' /\ Apart'
         /\ OnTheBus' /\ InQuarantine' /\ TwiceOnlyIfShared'
<1> USE SqlEventsAssumption, SqlBoundsAssumption DEF LeaseInv, OrderInv
<1> DEFINE x == cur[d]
<1>1. /\ pc[d] \in {"mark", "fail", "giveback"} /\ x \in Events /\ x # NoEvent /\ x \in Hand(d)
      /\ UNCHANGED <<stored, todo, published, twice, raced, passedOver, overrun>>
      /\ skipped \subseteq skipped'
  BY DEF MarkSent, RecordFailure, GiveBack, TypeOK, Hand, hist, rows
<1>2. Remembers
  BY <1>1 DEF Remembers
<1>3. \A e \in Events : ~Shared(e)' => ~Shared(e)
  BY <1>2, SharedLasts
<1>4. \A c \in Drains : Ahead(c) \subseteq Events /\ Ahead(c)' \subseteq Events
  BY AheadIsInHand, <1>1 DEF TypeOK, Ahead, Unheld
<1>5. \A c \in Drains : c # d => \A e \in Ahead(c) : ~Shared(e) => AggOf[e] # AggOf[x]
  BY <1>1 DEF Apart
<1>6. x \notin todo[d] /\ AggOf[x] \notin held[d]
  BY <1>1 DEF HandIsTidy
<1>7. TwiceOnlyIfShared'
  BY <1>1, <1>2, SharedLasts DEF TwiceOnlyIfShared, TypeOK
<1>8. CASE MarkSent(d)
  <2>1. /\ pc[d] = "mark" /\ sent' = sent \union {x} /\ lease' = [lease EXCEPT ![x] = 0]
        /\ UNCHANGED <<quarantined, held, skipped>>
    BY <1>8 DEF MarkSent, hist
  <2>2. /\ pc'[d] = "next" /\ cur'[d] = NoEvent
        /\ \A c \in Drains : c # d => pc'[c] = pc[c] /\ cur'[c] = cur[c]
    BY <1>8 DEF MarkSent, Advance, TypeOK
  <2> HIDE DEF x
  <2>3. \A c \in Drains : c # d => Ahead(c)' = Ahead(c) /\ Hand(c)' = Hand(c)
    BY <1>1, <2>1, <2>2 DEF Ahead, Hand, Unheld
  <2>4. /\ Ahead(d)' \subseteq Ahead(d) /\ Hand(d)' \subseteq Hand(d) /\ x \notin Ahead(d)'
    BY <1>1, <1>6, <2>1, <2>2 DEF Ahead, Hand, Unheld
  <2>5. Apart'
    BY <1>2, <2>3, <2>4, ApartLasts
  <2>6. LeasedAndPending'
    <3> SUFFICES ASSUME NEW c \in Drains, NEW e \in Ahead(c)', ~Shared(e)'
                 PROVE  Live(e)' /\ e \in Pending'
      BY DEF LeasedAndPending
    <3>1. e \in Ahead(c) /\ e \in Events /\ ~Shared(e) /\ e # x
      BY <1>3, <1>4, <1>5, <2>3, <2>4
    <3>2. Live(e) /\ e \in Pending
      BY <3>1 DEF LeasedAndPending
    <3> QED
      BY <1>1, <2>1, <3>1, <3>2 DEF Live, Pending, TypeOK
  <2>7. OnTheBus'
    <3> SUFFICES ASSUME NEW e \in published, ~Shared(e)'
                 PROVE  e \in sent' \/ \E c \in Drains : cur'[c] = e /\ pc'[c] = "mark"
      BY <1>1 DEF OnTheBus
    <3>1. e \in Events /\ ~Shared(e)
      BY <1>3 DEF TypeOK
    <3> QED
      BY <2>1, <2>2, <3>1 DEF OnTheBus, x
  <2>8. HandIsTidy' /\ InQuarantine'
    BY <1>1, <1>3, <2>1, <2>2 DEF HandIsTidy, Before, InQuarantine, TypeOK
  <2> QED
    BY <1>7, <2>5, <2>6, <2>7, <2>8
<1>9. CASE RecordFailure(d)
  <2>1. /\ pc[d] = "fail" /\ UNCHANGED <<sent, lease, cur, held>>
        /\ \/ quarantined' = quarantined \union {x} /\ skipped' = skipped \union {x}
           \/ quarantined' = quarantined \ {x} /\ skipped' = skipped
    BY <1>9 DEF RecordFailure
  <2>2. pc'[d] = "giveback" /\ \A c \in Drains : c # d => pc'[c] = pc[c]
    BY <1>9 DEF RecordFailure, TypeOK
  <2>3. x \in Ahead(d)
    BY <1>1, <2>1 DEF Ahead
  <2>4. \A c \in Drains : Hand(c)' = Hand(c) /\ Unheld(c)' = Unheld(c)
    BY <1>1, <2>1 DEF Hand, Unheld
  <2>5. ASSUME NEW c \in Drains, NEW e \in Ahead(c)' PROVE e \in Ahead(c) \/ Shared(e)
    <3>1. CASE c = d
      BY <2>1, <2>4, <2>5, <3>1 DEF Ahead
    <3>2. CASE c # d
      <4>1. e \in Ahead(c) \/ (e = x /\ e \in Hand(c))
        BY <1>1, <2>1, <2>2, <2>4, <2>5, <3>2 DEF Ahead, Hand
      <4>2. x \in Hand(c) => Shared(x)
        BY <2>3, <3>2 DEF Apart
      <4> QED
        BY <4>1, <4>2
    <3> QED
      BY <3>1, <3>2
  <2>6. Apart'
    BY <1>2, <2>4, <2>5, ApartLasts
  <2>7. LeasedAndPending'
    <3> SUFFICES ASSUME NEW c \in Drains, NEW e \in Ahead(c)', ~Shared(e)'
                 PROVE  Live(e)' /\ e \in Pending'
      BY DEF LeasedAndPending
    <3>1. e \in Ahead(c) /\ ~Shared(e)
      BY <1>3, <1>4, <2>5
    <3>2. Live(e) /\ e \in Pending
      BY <3>1 DEF LeasedAndPending
    <3>3. e = x => e \notin quarantined'
      <4> SUFFICES ASSUME e = x PROVE e \notin quarantined'
        OBVIOUS
      <4>1. c = d
        BY <1>5, <3>1
      <4>2. e \notin Unheld(d)'
        BY <1>1, <1>6 DEF Unheld
      <4> QED
        BY <2>2, <4>1, <4>2 DEF Ahead
    <3> QED
      BY <1>1, <2>1, <3>2, <3>3 DEF Live, Pending
  <2>8. InQuarantine'
    <3> SUFFICES ASSUME NEW e \in skipped', ~Shared(e)' PROVE e \in quarantined'
      BY DEF InQuarantine
    <3>1. e \in Events /\ ~Shared(e)
      BY <1>1, <1>3 DEF TypeOK
    <3>2. e \in skipped => e \in quarantined
      BY <3>1 DEF InQuarantine
    <3>3. e = x => e \notin quarantined
      BY <2>3, <3>1 DEF LeasedAndPending, Pending
    <3> QED
      BY <2>1, <3>2, <3>3
  <2>9. OnTheBus'
    <3> SUFFICES ASSUME NEW e \in published, ~Shared(e)'
                 PROVE  e \in sent' \/ \E c \in Drains : cur'[c] = e /\ pc'[c] = "mark"
      BY <1>1 DEF OnTheBus
    <3>1. e \in Events /\ ~Shared(e)
      BY <1>3 DEF TypeOK
    <3> QED
      BY <2>1, <2>2, <3>1 DEF OnTheBus
  <2>10. HandIsTidy'
    BY <1>1, <2>1 DEF HandIsTidy, Before
  <2> QED
    BY <1>7, <2>6, <2>7, <2>8, <2>9, <2>10
<1>10. CASE GiveBack(d)
  <2>1. /\ pc[d] = "giveback" /\ UNCHANGED <<rows, skipped>>
        /\ lease' = [f \in Events |-> IF AggOf[f] = AggOf[x] /\ f \notin sent THEN 0 ELSE lease[f]]
        /\ held' = IF Quarantines(d, x) THEN held ELSE [held EXCEPT ![d] = @ \union {AggOf[x]}]
    BY <1>10 DEF GiveBack, hist
  <2>2. /\ pc'[d] = "next" /\ cur'[d] = NoEvent
        /\ \A c \in Drains : c # d => pc'[c] = pc[c] /\ cur'[c] = cur[c] /\ held'[c] = held[c]
    BY <1>10 DEF GiveBack, Advance, TypeOK
  <2>3. /\ held[d] \subseteq held'[d]
        /\ AggOf[x] \in held'[d] \/ (held'[d] = held[d] /\ x \in skipped)
    BY <2>1 DEF TypeOK, VerdictIsKept
  <2> HIDE DEF x
  <2>4. \A c \in Drains : c # d => Ahead(c)' = Ahead(c) /\ Hand(c)' = Hand(c)
    BY <1>1, <2>1, <2>2 DEF Ahead, Hand, Unheld, rows
  <2>5. Ahead(d)' \subseteq Unheld(d) /\ Hand(d)' \subseteq Hand(d) /\ Ahead(d)' \subseteq Ahead(d)
    BY <1>1, <2>2, <2>3 DEF Ahead, Hand, Unheld
  <2>6. Apart'
    BY <1>2, <2>4, <2>5, ApartLasts
  <2>7. ASSUME NEW e \in Ahead(d)', ~Shared(e), AggOf[e] = AggOf[x] PROVE FALSE
    <3>1. e \in Events /\ e \in todo[d] /\ AggOf[e] \notin held'[d]
      BY <1>1, <1>4, <2>2, <2>7 DEF Ahead, Unheld
    <3>2. x \in skipped /\ e # x
      BY <1>6, <2>3, <2>7, <3>1
    <3>3. ~Before(e, x)
      BY <1>1, <2>7, <3>1 DEF HandIsTidy, x
    <3>4. ~Earlier(e, x) /\ VersionOf[e] # VersionOf[x]
      BY <1>1, <2>7, <3>1, <3>2, <3>3, EarlierIsBefore DEF VersionsDiffer
    <3>5. Earlier(x, e)
      BY <1>1, <2>7, <3>1, <3>4 DEF Earlier
    <3> QED
      BY <2>7, <3>2, <3>5 DEF Shared
  <2>8. LeasedAndPending'
    <3> SUFFICES ASSUME NEW c \in Drains, NEW e \in Ahead(c)', ~Shared(e)'
                 PROVE  Live(e)' /\ e \in Pending'
      BY DEF LeasedAndPending
    <3>1. e \in Ahead(c) /\ e \in Events /\ ~Shared(e)
      BY <1>3, <1>4, <2>4, <2>5
    <3>2. Live(e) /\ e \in Pending
      BY <3>1 DEF LeasedAndPending
    <3>3. AggOf[e] # AggOf[x]
      BY <1>5, <2>7, <3>1
    <3> QED
      BY <2>1, <3>1, <3>2, <3>3 DEF Live, Pending, rows
  <2>9. OnTheBus'
    <3> SUFFICES ASSUME NEW e \in published, ~Shared(e)'
                 PROVE  e \in sent' \/ \E c \in Drains : cur'[c] = e /\ pc'[c] = "mark"
      BY <1>1 DEF OnTheBus
    <3>1. e \in Events /\ ~Shared(e)
      BY <1>3 DEF TypeOK
    <3> QED
      BY <2>1, <2>2, <3>1 DEF OnTheBus, rows
  <2>10. HandIsTidy' /\ InQuarantine'
    BY <1>1, <1>3, <2>1, <2>2 DEF HandIsTidy, Before, InQuarantine, rows, TypeOK
  <2> QED
    BY <1>7, <2>6, <2>8, <2>9, <2>10
<1> QED
  BY <1>8, <1>9, <1>10

(* A pass ends or dies: what dies in its hands is shared from then on. *)
LEMMA ReleaseKeeps ==
  ASSUME LeaseInv, TypeOK', NEW d \in Drains, EndPass(d) \/ Abandon(d)
  PROVE  /\ HandIsTidy' /\ LeasedAndPending' /\ Apart'
         /\ OnTheBus' /\ InQuarantine' /\ TwiceOnlyIfShared'
<1> USE SqlEventsAssumption, SqlBoundsAssumption DEF LeaseInv, OrderInv
<1>1. /\ UNCHANGED <<rows, lease, published, skipped, twice, raced, passedOver>> /\ overrun \subseteq overrun'
      /\ pc[d] = "mark" => AggOf[cur[d]] \in overrun'
  BY DEF EndPass, Abandon, hist, InHand, TypeOK
<1>2. /\ pc'[d] = "idle" /\ todo'[d] = {} /\ cur'[d] = NoEvent
      /\ \A c \in Drains : c # d => /\ pc'[c] = pc[c] /\ cur'[c] = cur[c]
                                   /\ todo'[c] = todo[c] /\ held'[c] = held[c]
  BY DEF EndPass, Abandon, Release, TypeOK
<1>3. Remembers
  BY <1>1 DEF Remembers
<1>4. \A e \in Events : ~Shared(e)' => ~Shared(e)
  BY <1>3, SharedLasts
<1>5. Ahead(d)' = {} /\ Hand(d)' = {}
  BY <1>2 DEF Ahead, Hand, Unheld
<1>6. \A c \in Drains : c # d => Ahead(c)' = Ahead(c) /\ Hand(c)' = Hand(c)
  BY <1>1, <1>2 DEF Ahead, Hand, Unheld, rows
<1>7. Apart'
  BY <1>3, <1>5, <1>6, ApartLasts
<1>8. LeasedAndPending'
  BY <1>1, <1>4, <1>5, <1>6, AheadIsInHand DEF LeasedAndPending, Live, Pending, rows
<1>9. OnTheBus'
  <2> SUFFICES ASSUME NEW e \in published, ~Shared(e)'
               PROVE  e \in sent' \/ \E c \in Drains : cur'[c] = e /\ pc'[c] = "mark"
    BY <1>1 DEF OnTheBus
  <2>1. e \in Events /\ ~Shared(e)
    BY <1>4 DEF TypeOK
  <2>2. ~(cur[d] = e /\ pc[d] = "mark")
    BY <1>1 DEF Shared
  <2> QED
    BY <1>1, <1>2, <2>1, <2>2 DEF OnTheBus, rows
<1>10. HandIsTidy'
  BY <1>2 DEF HandIsTidy, Before
<1>11. InQuarantine' /\ TwiceOnlyIfShared'
  BY <1>1, <1>4 DEF InQuarantine, TwiceOnlyIfShared, rows, TypeOK
<1> QED
  BY <1>7, <1>8, <1>9, <1>10, <1>11

(* The clock: a lease that lapses in the hands of its pass makes its         *)
(* aggregate shared; any other lapse takes nothing from a pass.              *)
LEMMA LapseKeeps ==
  ASSUME LeaseInv, TypeOK', LeaseLapses
  PROVE  /\ HandIsTidy' /\ LeasedAndPending' /\ Apart'
         /\ OnTheBus' /\ InQuarantine' /\ TwiceOnlyIfShared'
<1> USE SqlEventsAssumption, SqlBoundsAssumption DEF LeaseInv, OrderInv
<1>1. /\ UNCHANGED <<rows, pass, published, skipped, twice, raced, passedOver>> /\ overrun \subseteq overrun'
  BY DEF LeaseLapses
<1>2. ASSUME NEW e \in Events, NEW d \in Drains, e \in InHand(d), Live(e)
      PROVE  Live(e)' \/ Shared(e)'
  BY <1>2 DEF LeaseLapses, Live, Shared, TypeOK
<1>3. Remembers
  BY <1>1 DEF Remembers
<1>4. \A e \in Events : ~Shared(e)' => ~Shared(e)
  BY <1>3, SharedLasts
<1>5. \A c \in Drains : Ahead(c)' = Ahead(c) /\ Hand(c)' = Hand(c)
  BY <1>1 DEF Ahead, Hand, Unheld, rows, pass
<1>6. Apart'
  BY <1>3, <1>5, ApartLasts
<1>7. LeasedAndPending'
  <2> SUFFICES ASSUME NEW c \in Drains, NEW e \in Ahead(c)', ~Shared(e)'
               PROVE  Live(e)' /\ e \in Pending'
    BY DEF LeasedAndPending
  <2>1. e \in Ahead(c) /\ e \in Events /\ e \in InHand(c)
    BY <1>5, AheadIsInHand
  <2>2. Live(e) /\ e \in Pending
    BY <1>4, <2>1 DEF LeasedAndPending
  <2> QED
    BY <1>1, <1>2, <2>1, <2>2 DEF Pending, rows
<1>8. OnTheBus' /\ InQuarantine' /\ TwiceOnlyIfShared'
  BY <1>1, <1>4 DEF OnTheBus, InQuarantine, TwiceOnlyIfShared, rows, pass, TypeOK
<1>9. HandIsTidy'
  BY <1>1 DEF HandIsTidy, Before, pass
<1> QED
  BY <1>6, <1>7, <1>8, <1>9

(* An entry is stored, a claim takes its snapshot or filters a row: none     *)
(* touches what a pass has in hand.                                          *)
LEMMA QuietKeeps ==
  ASSUME LeaseInv, stored \subseteq stored',
         UNCHANGED <<sent, quarantined, lease, todo, cur, held, published, skipped, twice,
                     raced, passedOver, overrun>>,
         \A d \in Drains : pc'[d] = pc[d] \/ (pc[d] = "idle" /\ pc'[d] = "reading")
  PROVE  /\ HandIsTidy' /\ LeasedAndPending' /\ Apart'
         /\ OnTheBus' /\ InQuarantine' /\ TwiceOnlyIfShared'
<1> USE SqlEventsAssumption DEF LeaseInv, OrderInv
<1>1. \A e : Shared(e)' = Shared(e)
  BY DEF Shared, Earlier
<1>2. \A c \in Drains : Ahead(c)' = Ahead(c) /\ Hand(c)' = Hand(c)
  BY DEF Ahead, Hand, Unheld
<1>3. LeasedAndPending' /\ Apart'
  BY <1>1, <1>2 DEF LeasedAndPending, Apart, Live, Pending
<1>4. OnTheBus'
  BY <1>1 DEF OnTheBus
<1>5. HandIsTidy' /\ InQuarantine' /\ TwiceOnlyIfShared'
  BY <1>1 DEF HandIsTidy, Before, InQuarantine, TwiceOnlyIfShared
<1> QED
  BY <1>3, <1>4, <1>5

(* Every step keeps the passes apart. *)
LEMMA LeaseInductive ==
  ASSUME ClocksAgree, VersionsDiffer, LeaseInv, [Next]_vars, TypeOK'
  PROVE  LeaseInv'
<1>1. OrderInv'
  BY OrderInductive DEF LeaseInv
<1>2. ASSUME NEW e \in Events, Enqueue(e) PROVE LeaseInv'
  BY <1>1, <1>2, QuietKeeps DEF LeaseInv, Enqueue, pass, hist
<1>3. ASSUME NEW d \in Drains, ReadPending(d) PROVE LeaseInv'
  <2>1. \A c \in Drains : pc'[c] = pc[c] \/ (pc[c] = "idle" /\ pc'[c] = "reading")
    BY <1>3 DEF ReadPending, LeaseInv, OrderInv, TypeOK
  <2> QED
    BY <1>1, <1>3, <2>1, QuietKeeps DEF LeaseInv, ReadPending, rows, hist
<1>7. ASSUME NEW d \in Drains, NEW e \in Events, Scan(d, e) \/ SkipLocked(d, e) PROVE LeaseInv'
  BY <1>1, <1>7, QuietKeeps DEF LeaseInv, Scan, SkipLocked, rows, hist
<1>4. CASE UNCHANGED vars
  BY <1>1, <1>4, QuietKeeps DEF LeaseInv, vars, rows, pass, hist
<1>5. CASE LeaseLapses
  BY <1>1, <1>5, LapseKeeps DEF LeaseInv
<1>6. ASSUME NEW d \in Drains, Step(d) \/ Abandon(d) PROVE LeaseInv'
  BY <1>1, <1>3, <1>6, <1>7, ClaimKeeps, TakeKeeps, SettleKeeps, ReleaseKeeps DEF LeaseInv, Step
<1> QED
  BY <1>2, <1>4, <1>5, <1>6 DEF Next

(* An event goes to the bus twice only if its aggregate came to be in the    *)
(* hands of two passes: a pass died or outlasted its lease, an earlier       *)
(* version was quarantined, two pending() statements overlapped, or one      *)
(* passed over an earlier version that was locked.                           *)
THEOREM PublishesTwiceOnlyIfShared ==
  ASSUME ClocksAgree, VersionsDiffer PROVE Spec => []TwiceOnlyIfShared
<1>1. Init => LeaseInv
  <2> SUFFICES ASSUME Init PROVE LeaseInv
    OBVIOUS
  <2>1. TypeOK
    BY SqlEventsAssumption, SqlBoundsAssumption DEF Init, TypeOK
  <2>2. OrderInv
    BY <2>1 DEF Init, OrderInv, StoredInOrder, LeftByTheBus, ViewIsClosed, BatchIsClosed,
       EntryIsClosed, VerdictIsKept, OrderedUnlessRaced
  <2>3. \A d \in Drains : Ahead(d) = {} /\ cur[d] = NoEvent
    BY DEF Init, Ahead, Unheld
  <2> QED
    BY <2>2, <2>3 DEF Init, LeaseInv, HandIsTidy, LeasedAndPending, Apart, OnTheBus,
       InQuarantine, TwiceOnlyIfShared
<1>2. LeaseInv /\ [Next]_vars /\ TypeOK' => LeaseInv'
  BY LeaseInductive
<1>3. LeaseInv => TwiceOnlyIfShared
  BY DEF LeaseInv
<1> QED
  BY <1>1, <1>2, <1>3, TypeCorrect, PTL DEF Spec
=============================================================================
