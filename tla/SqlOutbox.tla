----------------------------- MODULE SqlOutbox -----------------------------
(***************************************************************************)
(* The outbox over Postgres (sql-client/src/transactions/outbox.ts) under  *)
(* the same drain loop as OutboxRelay.  pending() claims what it returns:  *)
(* it leases the rows it picks, one claim at one time, and leaves alone an *)
(* aggregate that has a live lease.  It is one statement, but not one      *)
(* step: it reads from the snapshot of its start, takes the advisory lock  *)
(* of each aggregate it meets and then the locks of the rows, passes over  *)
(* what it cannot lock, and checks again only the rows it locks.           *)
(***************************************************************************)
EXTENDS Naturals, FiniteSets, FiniteSetsExt

CONSTANTS Events, Aggregates, AggOf, VersionOf,
          AtOf,        \* created_at
          Drains,      \* passes of every replica: sweeps and drains after a write
          Sweeper,     \* the pass a relay keeps running
          NoEvent,
          Batch,       \* LIMIT
          MaxAttempts, \* publish attempts before quarantine
          MaxFaults    \* bound: passes that die and passes that outlast their lease

ASSUME SqlEventsAssumption ==
  /\ IsFiniteSet(Events)
  /\ NoEvent \notin Events
  /\ AggOf \in [Events -> Aggregates]
  /\ VersionOf \in [Events -> Nat]
  /\ AtOf \in [Events -> Nat]

ASSUME SqlBoundsAssumption ==
  /\ IsFiniteSet(Drains)
  /\ Sweeper \in Drains
  /\ Batch \in Nat \ {0}
  /\ MaxAttempts \in Nat \ {0}
  /\ MaxFaults \in Nat

VARIABLES
  (* the table *)
  stored, sent, quarantined, attempts,
  lease,     \* lease_until, as its rank among the live ones; 0 is NULL or past
  (* one pass *)
  pc,        \* idle | reading | next | mark | fail | giveback
  view,      \* the rows of the statement's snapshot it has yet to filter
  picked,    \* those it filtered in, whose aggregates it has locked
  missed,    \* those it passed over, for a lock another statement held
  todo, snap, cur, held,
  (* the bus, the history, the bound *)
  published, skipped,
  twice,     \* events published again
  raced,     \* aggregates claimed past the live lease of another pass
  passedOver,  \* aggregates claimed past an earlier version that was locked
  overrun,   \* aggregates whose lease lapsed, or whose pass died, in mid-pass
  faults

rows  == <<stored, sent, quarantined, attempts>>
pass  == <<pc, view, picked, missed, todo, snap, cur, held>>
claim == <<view, picked, missed>>
hist  == <<published, skipped, twice, raced, passedOver, overrun>>
vars  == <<rows, lease, pass, hist, faults>>

-----------------------------------------------------------------------------
Pending == stored \ (sent \union quarantined)
Earlier(e, f) == AggOf[e] = AggOf[f] /\ VersionOf[e] < VersionOf[f]
Before(e, f) == \/ AtOf[e] < AtOf[f]
                \/ AtOf[e] = AtOf[f] /\ VersionOf[e] < VersionOf[f]

Live(e) == lease[e] # 0   \* lease_until >= now()

(* WHERE NOT sent AND NOT quarantined AND not leased AND NOT EXISTS (a       *)
(* pending row of the aggregate with a live lease).                          *)
Claimable == {e \in Pending : ~\E h \in Pending : AggOf[h] = AggOf[e] /\ Live(h)}

IsBatchOf(S, P) ==
  /\ \A f \in S, e \in P : Before(e, f) => e \in S
  /\ Cardinality(S) = Min({Batch, Cardinality(P)})

Unheld(d) == {e \in todo[d] : AggOf[e] \notin held[d]}
IsHead(d, e) == e \in Unheld(d) /\ \A f \in Unheld(d) : ~Before(f, e)

Init ==
  /\ stored = {} /\ sent = {} /\ quarantined = {}
  /\ attempts = [e \in Events |-> 0]
  /\ lease = [e \in Events |-> 0]
  /\ pc = [d \in Drains |-> "idle"]
  /\ view = [d \in Drains |-> {}]
  /\ picked = [d \in Drains |-> {}] /\ missed = [d \in Drains |-> {}]
  /\ todo = [d \in Drains |-> {}]
  /\ snap = [d \in Drains |-> [e \in Events |-> 0]]
  /\ cur = [d \in Drains |-> NoEvent]
  /\ held = [d \in Drains |-> {}]
  /\ published = {} /\ skipped = {} /\ twice = {} /\ raced = {} /\ passedOver = {}
  /\ overrun = {}
  /\ faults = 0

-----------------------------------------------------------------------------
Enqueue(e) ==
  /\ e \notin stored
  /\ \A f \in Events : Earlier(f, e) => f \in stored
  /\ stored' = stored \union {e}
  /\ UNCHANGED <<sent, quarantined, attempts, lease, pass, hist, faults>>

(* The rows a pass has claimed and not yet settled. *)
InHand(d) == todo[d] \union ({cur[d]} \ {NoEvent})

(* Mutant: a lease holds for ever. *)
LeaseStays == FALSE /\ UNCHANGED vars

(* now() goes past the oldest lease: that of a pass that has ended, or, as a *)
(* fault, of one that outlasts leaseSeconds.                                 *)
LeaseLapses ==
  \E first \in {lease[e] : e \in Events} \ {0} :
    LET over == {e \in Events : lease[e] = first}
        cut == over \intersect UNION {InHand(d) : d \in Drains} IN
    /\ \A e \in Events : Live(e) => lease[e] >= first
    /\ lease' = [e \in Events |-> IF e \in over THEN 0 ELSE lease[e]]
    /\ cut # {} => faults < MaxFaults
    /\ faults' = IF cut # {} THEN faults + 1 ELSE faults
    /\ overrun' = overrun \union {AggOf[e] : e \in cut}
    /\ UNCHANGED <<rows, pass, published, skipped, twice, raced, passedOver>>

(* pending() starts: its snapshot fixes what its WHERE clause sees. *)
ReadPending(d) ==
  /\ pc[d] = "idle"
  /\ pc' = [pc EXCEPT ![d] = "reading"]
  /\ view' = [view EXCEPT ![d] = Claimable]
  /\ UNCHANGED <<rows, lease, picked, missed, todo, snap, cur, held, hist, faults>>

(* The aggregates whose advisory locks a claim holds, to its end. *)
Locked(d) == {AggOf[e] : e \in picked[d]}

(* pending() filters a row: pg_try_advisory_xact_lock does not wait for the  *)
(* claim that holds the row's aggregate.                                     *)
Scan(d, e) ==
  /\ pc[d] = "reading" /\ e \in view[d]
  /\ view' = [view EXCEPT ![d] = @ \ {e}]
  /\ IF \E o \in Drains \ {d} : AggOf[e] \in Locked(o)
       THEN missed' = [missed EXCEPT ![d] = @ \union {e}] /\ UNCHANGED picked
       ELSE picked' = [picked EXCEPT ![d] = @ \union {e}] /\ UNCHANGED missed
  /\ UNCHANGED <<pc, rows, lease, todo, snap, cur, held, hist, faults>>

(* The rows an UPDATE of pass o under way may hold: markSent and the first   *)
(* statement of recordFailure its entry, the second the whole aggregate.     *)
Updating(o) ==
  CASE pc[o] \in {"mark", "fail"} -> {cur[o]}
    [] pc[o] = "giveback" -> {e \in stored \ sent : AggOf[e] = AggOf[cur[o]]}
    [] OTHER -> {}

(* FOR UPDATE SKIP LOCKED: a row that an UPDATE holds is passed over. *)
SkipLocked(d, e) ==
  /\ pc[d] = "reading" /\ view[d] = {}
  /\ e \in picked[d] \ missed[d]
  /\ \E o \in Drains \ {d} : e \in Updating(o)
  /\ missed' = [missed EXCEPT ![d] = @ \union {e}]
  /\ UNCHANGED <<pc, view, picked, rows, lease, todo, snap, cur, held, hist, faults>>

(* pending() locks its rows and leases them.  A row that changed since the   *)
(* snapshot is checked again, by its own columns; NOT EXISTS is not asked    *)
(* again of the other rows, and the advisory lock of a claim that committed  *)
(* in between is free.                                                       *)
ClaimPending(d) ==
  /\ pc[d] = "reading" /\ view[d] = {}
  /\ LET free == {e \in picked[d] \ missed[d] : e \in Pending /\ ~Live(e)}
         last == Max({lease[e] : e \in Events} \union {0}) IN
     \E S \in SUBSET free :
       /\ IsBatchOf(S, free)
       /\ todo' = [todo EXCEPT ![d] = S]
       /\ lease' = [e \in Events |-> IF e \in S THEN last + 1 ELSE lease[e]]
       /\ raced' = raced \union {AggOf[e] : e \in {x \in S :
                      \E h \in Pending : AggOf[h] = AggOf[x] /\ Live(h)}}
       /\ passedOver' = passedOver \union {AggOf[e] : e \in {x \in S :
                           \E h \in missed[d] \intersect Pending : Earlier(h, x)}}
       /\ snap' = [snap EXCEPT ![d] = [e \in Events |-> IF e \in S THEN attempts[e] ELSE 0]]
  /\ pc' = [pc EXCEPT ![d] = "next"]
  /\ picked' = [picked EXCEPT ![d] = {}]
  /\ missed' = [missed EXCEPT ![d] = {}]
  /\ UNCHANGED <<rows, view, cur, held, published, skipped, twice, overrun, faults>>

Take(d, e, next) ==
  /\ pc[d] = "next"
  /\ IsHead(d, e)
  /\ pc' = [pc EXCEPT ![d] = next]
  /\ todo' = [todo EXCEPT ![d] = @ \ {e}]
  /\ cur' = [cur EXCEPT ![d] = e]
  /\ UNCHANGED <<rows, lease, claim, snap, held, skipped, raced, passedOver, overrun, faults>>

PublishOk(d) ==
  \E e \in Events :
    /\ Take(d, e, "mark")
    /\ published' = published \union {e}
    /\ twice' = IF e \in published THEN twice \union {e} ELSE twice

PublishFails(d) ==
  \E e \in Events : Take(d, e, "fail") /\ UNCHANGED <<published, twice>>

(* Mutant: the loop goes on with the settled entry still in hand. *)
AdvanceKeepingEntry(d) ==
  /\ pc' = [pc EXCEPT ![d] = "next"]
  /\ UNCHANGED <<snap, cur>>

(* The entry in hand is settled and its copy dropped: on to the next one. *)
Advance(d) ==
  /\ pc' = [pc EXCEPT ![d] = "next"]
  /\ snap' = [snap EXCEPT ![d][cur[d]] = 0]
  /\ cur' = [cur EXCEPT ![d] = NoEvent]

MarkSent(d) ==
  /\ pc[d] = "mark"
  /\ sent' = sent \union {cur[d]}
  /\ lease' = [lease EXCEPT ![cur[d]] = 0]
  /\ Advance(d)
  /\ UNCHANGED <<stored, quarantined, attempts, claim, todo, held, hist, faults>>

Quarantines(d, e) == snap[d][e] + 1 >= MaxAttempts

(* The first statement of recordFailure: the verdict. *)
RecordFailure(d) ==
  LET e == cur[d] IN
  /\ pc[d] = "fail"
  /\ attempts' = [attempts EXCEPT ![e] = @ + 1]
  /\ IF Quarantines(d, e)
       THEN quarantined' = quarantined \union {e} /\ skipped' = skipped \union {e}
       ELSE quarantined' = quarantined \ {e} /\ skipped' = skipped
  /\ pc' = [pc EXCEPT ![d] = "giveback"]
  /\ UNCHANGED <<stored, sent, lease, claim, todo, snap, cur, held,
                 published, twice, raced, passedOver, overrun, faults>>

(* Mutant: a failure gives the aggregate back and goes on with it. *)
GiveBackUnheld(d) ==
  LET e == cur[d] IN
  /\ pc[d] = "giveback"
  /\ lease' = [f \in Events |-> IF AggOf[f] = AggOf[e] /\ f \notin sent THEN 0 ELSE lease[f]]
  /\ Advance(d)
  /\ UNCHANGED <<rows, claim, todo, held, hist, faults>>

(* The second: the leases of the whole aggregate are cleared, and only an    *)
(* entry that is not quarantined holds the aggregate for the rest of a pass. *)
GiveBack(d) ==
  LET e == cur[d] IN
  /\ pc[d] = "giveback"
  /\ lease' = [f \in Events |-> IF AggOf[f] = AggOf[e] /\ f \notin sent THEN 0 ELSE lease[f]]
  /\ held' = IF Quarantines(d, e) THEN held ELSE [held EXCEPT ![d] = @ \union {AggOf[e]}]
  /\ Advance(d)
  /\ UNCHANGED <<rows, claim, todo, hist, faults>>

Release(d) ==
  /\ pc' = [pc EXCEPT ![d] = "idle"]
  /\ view' = [view EXCEPT ![d] = {}]
  /\ picked' = [picked EXCEPT ![d] = {}]
  /\ missed' = [missed EXCEPT ![d] = {}]
  /\ todo' = [todo EXCEPT ![d] = {}]
  /\ snap' = [snap EXCEPT ![d] = [e \in Events |-> 0]]
  /\ cur' = [cur EXCEPT ![d] = NoEvent]
  /\ held' = [held EXCEPT ![d] = {}]

EndPass(d) ==
  /\ pc[d] = "next"
  /\ Unheld(d) = {}
  /\ Release(d)
  /\ UNCHANGED <<rows, lease, hist, faults>>

(* A store failure, the interrupt at shutdown, or a crash: the leases stay. *)
Abandon(d) ==
  /\ pc[d] # "idle"
  /\ faults < MaxFaults
  /\ faults' = faults + 1
  /\ overrun' = overrun \union {AggOf[e] : e \in InHand(d)}
  /\ Release(d)
  /\ UNCHANGED <<rows, lease, published, skipped, twice, raced, passedOver>>

-----------------------------------------------------------------------------
Step(d) == \/ ReadPending(d) \/ (\E e \in Events : Scan(d, e) \/ SkipLocked(d, e))
           \/ ClaimPending(d) \/ PublishOk(d) \/ PublishFails(d)
           \/ MarkSent(d) \/ RecordFailure(d) \/ GiveBack(d) \/ EndPass(d)

Next == \/ \E e \in Events : Enqueue(e)
        \/ LeaseLapses
        \/ \E d \in Drains : Step(d) \/ Abandon(d)

(* Clocks run and every started pass ends: each pass is a fiber that runs on *)
(* until it is interrupted, and the daemon starts the next one.              *)
Fairness == WF_vars(LeaseLapses) /\ \A d \in Drains : WF_vars(Step(d))

Spec == Init /\ [][Next]_vars
FairSpec == Spec /\ Fairness

-----------------------------------------------------------------------------
(* Every variable keeps to its type: a pass has an entry in hand exactly     *)
(* between its publish and its settlement.                                   *)
TypeOK ==
  /\ stored \subseteq Events
  /\ sent \subseteq stored
  /\ quarantined \subseteq stored
  /\ attempts \in [Events -> Nat]
  /\ lease \in [Events -> Nat]
  /\ pc \in [Drains -> {"idle", "reading", "next", "mark", "fail", "giveback"}]
  /\ view \in [Drains -> SUBSET stored]
  /\ picked \in [Drains -> SUBSET stored] /\ missed \in [Drains -> SUBSET stored]
  /\ todo \in [Drains -> SUBSET stored]
  /\ snap \in [Drains -> [Events -> Nat]]
  /\ cur \in [Drains -> stored \union {NoEvent}]
  /\ \A d \in Drains : cur[d] # NoEvent <=> pc[d] \in {"mark", "fail", "giveback"}
  /\ held \in [Drains -> SUBSET Aggregates]
  /\ published \subseteq stored /\ skipped \subseteq stored
  /\ twice \subseteq published
  /\ raced \subseteq Aggregates /\ passedOver \subseteq Aggregates /\ overrun \subseteq Aggregates
  /\ faults \in 0 .. MaxFaults

(* The ways an aggregate comes to be in the hands of two passes: its pass    *)
(* died or outlasted its lease; an earlier version was quarantined, which    *)
(* gives the aggregate back while its pass goes on; two pending() statements *)
(* overlapped; or one passed over an earlier version that was locked.        *)
Shared(e) ==
  \/ AggOf[e] \in raced \union passedOver \union overrun
  \/ \E f \in skipped : Earlier(f, e)

(* The lease keeps passes apart: an event goes out twice only then.          *)
TwiceOnlyIfShared == \A e \in twice : Shared(e)

(* Whatever leases lapse and whatever passes die, versions of an aggregate   *)
(* first reach the bus in order, but for the two ways past the lease: two    *)
(* claims of the aggregate overlapped, or one took a later version while it  *)
(* passed over an earlier one that another statement held locked.            *)
OrderedUnlessRaced ==
  \A e, f \in Events :
    Earlier(e, f) /\ f \in published /\ AggOf[f] \notin raced \union passedOver
      => e \in published \union skipped

(* A dead pass's leases do not hold its aggregates for ever: each entry is   *)
(* settled for good, by another pass or after the lease.                     *)
EventuallySettled == <>[](stored \subseteq sent \union quarantined)
=============================================================================
