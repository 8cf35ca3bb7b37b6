----------------------------- MODULE UnitOfWork -----------------------------
(***************************************************************************)
(* Runs of a unit of work over one store: UnitOfWork.run of the Mongo      *)
(* adapter (mongo-client/src/unit-of-work/mongo-unit-of-work.ts) or of the *)
(* SQL one (sql-client/src/transactions/unit-of-work.ts). A run takes a    *)
(* claim, folds an event into one aggregate unless it is stale             *)
(* (discardIfStale), emits an event and commits. Each step is one call of  *)
(* the store; the runs overlap, rerun on contention, die, and may never    *)
(* hear whether their commit applied. Runs with one claim are redeliveries *)
(* of one command or event.                                                *)
(***************************************************************************)
EXTENDS Naturals, FiniteSets

CONSTANTS Runs,
          Commands, EventClaims,   \* what a run may deduplicate on
          Events,                  \* the ids of the events the bodies emit
          Scenarios,               \* what the runs ask: functions of Runs
          NoOne, NoView,           \* null values
          Attempts,                \* ATTEMPTS, the runs of one unit
          MaxFaults                \* bound: store calls that fail, and deaths

Claims == Commands \union EventClaims
Row == "row"   \* the aggregate's row: the version it was last given

(* What a store has committed: the taker of each claim, the recorder of each   *)
(* event, the version last written to the aggregate's row.                     *)
Contents == [taken : [Claims -> Runs \union {NoOne}],
             recorded : [Events -> Runs \union {NoOne}], version : Nat]

Asks == [claim : Claims \union {NoOne}, event : Events, version : Nat]

ASSUME ScenariosAssumption ==
  /\ Scenarios \subseteq [Runs -> Asks]
  /\ Commands \intersect EventClaims = {} /\ Events \intersect Claims = {}
  /\ NoOne \notin Runs \union Claims \union Events
  /\ Row \notin Claims \union Events
  /\ NoView \notin Contents

ASSUME BoundsAssumption == Attempts \in Nat \ {0} /\ MaxFaults \in Nat

VARIABLES sql,      \* the store is the SQL one
          asks,     \* what each run asks
          db,       \* what is committed
          pc, tries,
          tx,       \* each run's transaction, as the store has it
          work,     \* what that transaction has written: nobody else can
          seen,     \* what it read: its snapshot (Mongo), its last read (SQL)
          answer,   \* how each run was said to have ended
          landed,   \* history: the runs whose transaction was applied
          faults

client == <<pc, tries, answer>>
store  == <<db, tx, work, seen, landed>>
vars   == <<sql, asks, client, store, faults>>

(* The first call of an attempt.                                              *)
First(r) == IF asks[r].claim = NoOne THEN "body" ELSE "claim"

Init ==
  /\ sql \in BOOLEAN /\ asks \in Scenarios
  /\ db = [taken |-> [c \in Claims |-> NoOne],
           recorded |-> [e \in Events |-> NoOne], version |-> 0]
  /\ pc = [r \in Runs |-> First(r)] /\ tries = [r \in Runs |-> 0]
  /\ tx = [r \in Runs |-> "open"] /\ work = [r \in Runs |-> {}]
  /\ seen = [r \in Runs |-> NoView]
  /\ answer = [r \in Runs |-> [tag |-> "none", replay |-> NoOne]]
  /\ landed = {} /\ faults = 0

Goto(r, next) == pc' = [pc EXCEPT ![r] = next]

Answers(r, tag, replay) ==
  /\ Goto(r, "over") /\ tries' = [tries EXCEPT ![r] = 0]
  /\ answer' = [answer EXCEPT ![r] = [tag |-> tag, replay |-> replay]]

-----------------------------------------------------------------------------
(* What a transaction sees and holds *)

(* Mongo reads the snapshot of the transaction's first call; Postgres, at     *)
(* READ COMMITTED, what is committed when the statement runs.                 *)
View(r) == IF sql \/ seen[r] = NoView THEN db ELSE seen[r]
Look(r) == seen' = [seen EXCEPT ![r] = View(r)]
Snapshot(r) == IF sql THEN UNCHANGED seen ELSE Look(r)

Free(r, item) == \A s \in Runs \ {r} : item \notin work[s]

Holds(r, item) == work' = [work EXCEPT ![r] = @ \union {item}]

(* Mongo refuses at once a write of what another transaction holds, or has    *)
(* committed since the snapshot: a conflict. Postgres waits for the holder.   *)
Conflicts(r, item, now, then) == ~sql /\ (~Free(r, item) \/ now # then)
Waits(r, item) == sql /\ ~Free(r, item)

RollsBack(r) ==
  /\ tx' = [tx EXCEPT ![r] = "open"]
  /\ work' = [work EXCEPT ![r] = {}]
  /\ seen' = [seen EXCEPT ![r] = NoView]
  /\ UNCHANGED <<db, landed>>

(* Contention reruns the whole unit, body included, Attempts times at most.   *)
Reruns(r) ==
  IF tries[r] + 1 < Attempts
    THEN tries' = [tries EXCEPT ![r] = @ + 1] /\ Goto(r, First(r)) /\ UNCHANGED answer
    ELSE Answers(r, "failed", NoOne)

Contends(r) == RollsBack(r) /\ Reruns(r)

(* A duplicate rolls back, and reads its replay outside the transaction.      *)
IsDuplicate(r) == RollsBack(r) /\ Goto(r, "replay") /\ UNCHANGED <<tries, answer>>

GoesOn(r, next) == Goto(r, next) /\ UNCHANGED <<tries, answer, tx, db, landed>>

-----------------------------------------------------------------------------
(* One attempt *)

(* Mutant: the claim's insert does not wait for, nor conflict with, another. *)
TakeClaimUnseen(r) ==
  LET c == asks[r].claim IN
  /\ pc[r] = "claim"
  /\ IF db.taken[c] # NoOne THEN IsDuplicate(r)
     ELSE Holds(r, c) /\ Snapshot(r) /\ GoesOn(r, "body")
  /\ UNCHANGED faults

TakeClaim(r) ==
  LET c == asks[r].claim IN
  /\ pc[r] = "claim" /\ ~Waits(r, c)
  /\ IF Conflicts(r, c, db.taken[c], View(r).taken[c]) THEN Contends(r)
     ELSE IF View(r).taken[c] # NoOne THEN IsDuplicate(r)
     ELSE Holds(r, c) /\ Snapshot(r) /\ GoesOn(r, "body")
  /\ UNCHANGED faults

IsStale(applied, version) == version <= applied

(* The body is discardIfStale: it reads the version it last applied; a stale  *)
(* event is applied no further and emits nothing.                             *)
BodyReads(r) ==
  /\ pc[r] = "body"
  /\ Look(r)
  /\ GoesOn(r, IF IsStale(View(r).version, asks[r].version) THEN "commit" ELSE "write")
  /\ UNCHANGED <<work, faults>>

(* Mutant: the write is not checked against the snapshot. *)
BodyWritesBlindly(r) ==
  /\ pc[r] = "write" /\ Free(r, Row)
  /\ Holds(r, Row) /\ UNCHANGED seen /\ GoesOn(r, "record")
  /\ UNCHANGED faults

BodyWrites(r) ==
  /\ pc[r] = "write" /\ ~Waits(r, Row)
  /\ IF Conflicts(r, Row, db.version, View(r).version) THEN Contends(r)
     ELSE Holds(r, Row) /\ UNCHANGED seen /\ GoesOn(r, "record")
  /\ UNCHANGED faults

(* The body fails with a business reason, before or after its write.          *)
BodyRefuses(r) ==
  /\ pc[r] \in {"body", "record"}
  /\ RollsBack(r) /\ Answers(r, "aborted", NoOne)
  /\ UNCHANGED faults

Record(r) ==
  LET e == asks[r].event IN
  /\ pc[r] = "record" /\ ~Waits(r, e)
  /\ IF Conflicts(r, e, db.recorded[e], View(r).recorded[e]) THEN Contends(r)
     ELSE IF View(r).recorded[e] # NoOne THEN IsDuplicate(r)
     ELSE Holds(r, e) /\ UNCHANGED seen /\ GoesOn(r, "commit")
  /\ UNCHANGED faults

(* The claim is given what a duplicate is answered, and the commit is sent.   *)
SendCommit(r) ==
  /\ pc[r] = "commit"
  /\ tx' = [tx EXCEPT ![r] = "sent"] /\ Goto(r, "sent")
  /\ UNCHANGED <<tries, answer, db, work, seen, landed, faults>>

(* The store applies a transaction whose commit it was sent, or ends it: a    *)
(* commit that fails, or the transaction of a client that is gone. It may do  *)
(* either after the client has stopped waiting.                               *)
Land(r) ==
  LET now(map) == [k \in DOMAIN map |-> IF k \in work[r] THEN r ELSE map[k]] IN
  /\ tx[r] = "sent"
  /\ db' = [taken |-> now(db.taken), recorded |-> now(db.recorded),
            version |-> IF Row \in work[r] THEN asks[r].version ELSE db.version]
  /\ tx' = [tx EXCEPT ![r] = "landed"]
  /\ work' = [work EXCEPT ![r] = {}] /\ seen' = [seen EXCEPT ![r] = NoView]
  /\ landed' = landed \union {r}
  /\ UNCHANGED <<client, faults>>

Drop(r) ==
  /\ tx[r] = "sent" \/ (tx[r] = "open" /\ pc[r] = "over" /\ work[r] # {})
  /\ tx' = [tx EXCEPT ![r] = "dropped"]
  /\ work' = [work EXCEPT ![r] = {}] /\ seen' = [seen EXCEPT ![r] = NoView]
  /\ UNCHANGED <<client, db, landed, faults>>

HearCommitted(r) ==
  /\ pc[r] = "sent" /\ tx[r] = "landed"
  /\ Answers(r, "committed", NoOne)
  /\ UNCHANGED <<store, faults>>

(* A transaction the store ended is a transient conflict, which reruns.       *)
HearDropped(r) ==
  /\ pc[r] = "sent" /\ tx[r] = "dropped"
  /\ Contends(r)
  /\ UNCHANGED faults

(* Mutant: a commit whose result is unknown is rerun as contention. *)
GiveUpRerunning(r) ==
  /\ pc[r] = "sent" /\ faults < MaxFaults
  /\ faults' = faults + 1
  /\ Reruns(r)
  /\ UNCHANGED store

(* The result of the commit stays unknown: to Mongo's ATTEMPTS requests of it *)
(* (the same commit each time), to the only one of SQL.                       *)
GiveUp(r) ==
  /\ pc[r] = "sent" /\ faults < MaxFaults
  /\ faults' = faults + 1
  /\ Answers(r, "failed", NoOne)
  /\ UNCHANGED store

(* A command's duplicate is told what the run that took the claim answered.   *)
ReadReplay(r) ==
  /\ pc[r] = "replay"
  /\ Answers(r, "duplicate",
             IF asks[r].claim \in Commands THEN db.taken[asks[r].claim] ELSE NoOne)
  /\ UNCHANGED <<store, faults>>

Calls == {"claim", "body", "write", "record", "commit"}

(* A call fails as contention without a conflict of these runs: Mongo labels  *)
(* a lost connection transient, Postgres ends one of those that wait for each *)
(* other (40P01) or that it cannot serialize (40001).                         *)
Loses(r) ==
  /\ pc[r] \in Calls
  /\ faults < MaxFaults /\ faults' = faults + 1
  /\ Contends(r)

(* A call fails for another reason: the unit rolls back and is not rerun.     *)
Fault(r) ==
  /\ faults < MaxFaults /\ faults' = faults + 1
  /\ \/ pc[r] \in Calls /\ RollsBack(r)
     \/ pc[r] = "replay" /\ UNCHANGED store
  /\ Answers(r, "failed", NoOne)

(* The process dies; the store ends its open transaction later (Drop).        *)
Die(r) ==
  /\ pc[r] \in Calls \union {"sent", "replay"}
  /\ faults < MaxFaults /\ faults' = faults + 1
  /\ Goto(r, "over") /\ tries' = [tries EXCEPT ![r] = 0]
  /\ UNCHANGED <<answer, store>>

Step(r) ==
  /\ \/ TakeClaim(r) \/ BodyReads(r) \/ BodyWrites(r) \/ Record(r)
     \/ SendCommit(r) \/ HearCommitted(r) \/ HearDropped(r) \/ ReadReplay(r)
  /\ UNCHANGED <<sql, asks>>

Settle(r) == (Land(r) \/ Drop(r)) /\ UNCHANGED <<sql, asks>>

Trouble(r) ==
  /\ BodyRefuses(r) \/ GiveUp(r) \/ Loses(r) \/ Fault(r) \/ Die(r)
  /\ UNCHANGED <<sql, asks>>

Done == /\ \A r \in Runs : pc[r] = "over" /\ tx[r] # "sent" /\ work[r] = {}
        /\ UNCHANGED vars

Next ==
  \/ \E r \in Runs : Step(r) \/ Settle(r) \/ Trouble(r)
  \/ Done

Spec == Init /\ [][Next]_vars

-----------------------------------------------------------------------------
(* Properties *)

(* Types, and who may hold what: an item is written by one open transaction,  *)
(* and a run waits for an outcome only of a transaction it has sent.          *)
TypeOK ==
  /\ asks \in Scenarios /\ faults \in 0..MaxFaults
  /\ tries \in [Runs -> 0..Attempts - 1]
  /\ pc \in [Runs -> Calls \union {"sent", "replay", "over"}]
  /\ tx \in [Runs -> {"open", "sent", "landed", "dropped"}]
  /\ \A r \in Runs :
       /\ work[r] \subseteq {Row} \union Claims \union Events
       /\ \A item \in work[r] : Free(r, item) /\ tx[r] \in {"open", "sent"}
       /\ pc[r] = "sent" => tx[r] \in {"sent", "landed", "dropped"}

(* The work of a run, its claim, its aggregate's row and its event, is durable *)
(* together or not at all, once for its claim and its event, through reruns,   *)
(* redeliveries, deaths and commits nobody heard of; only an event found stale *)
(* by a version the aggregate has leaves its claim alone; "committed",         *)
(* "duplicate" (with the replay of the run that took the claim) and "aborted"  *)
(* tell the truth, and only a failure of the store leaves open whether the     *)
(* work is durable.                                                            *)
StaleRuns == {r \in Runs : (pc[r] = "commit" \/ tx[r] = "sent") /\ Row \notin work[r]}
Promise == INSTANCE UnitPromise
  WITH stale <- StaleRuns, taken <- db.taken, recorded <- db.recorded, row <- db.version
KeepsThePromise == Promise!Spec

(* A late event never overwrites a later version of its aggregate over Mongo, *)
(* however the deliveries overlap; over SQL it does only when the run read    *)
(* the version before the later one was committed (two statements at READ     *)
(* COMMITTED), which discardIfStale alone does not prevent.                   *)
AppliedForward ==
  [][\A r \in Runs : tx[r] = "sent" /\ tx'[r] = "landed" /\ db'.version < db.version
       => sql /\ seen[r].version < db.version]_vars
=============================================================================
