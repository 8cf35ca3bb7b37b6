# TLA+ models of entifix

entifix is a TypeScript library for business services: it stores aggregates,
records the domain events of a write in an outbox next to the data, relays them
to an AMQP broker, runs long business flows, and guards calls to dependencies
and repeated requests. This directory models the parts of it whose correctness
depends on how several actors interleave: relay passes, replicas, broker
channels, retried requests, fibers behind a circuit breaker. Each module is
translated from the source named in its header; `PROJECT.json` maps every
definition to the lines it stands for.

Paths below are relative to `src/packages/ts/` unless they start with `src/`.

## 1. Inventory

### Components, their state and their operations

| Component | Source | State | Operations | Module |
|---|---|---|---|---|
| Outbox relay (engine) | `transactions/src/engine/outbox-relay.ts` | none between passes; per pass: the batch it read, the aggregates it holds back | `drainOutbox`, `sweepOutbox`, `runRelayDaemon` | `OutboxRelay`, `SqlOutbox` |
| Mongo outbox | `mongo-client/src/outbox/{store,relay}.ts` | entries with `sent`, `quarantined`, `attempts` | `enqueue`, `pending`, `markSent`, `recordFailure`, `reviveQuarantined` | `OutboxRelay` |
| SQL outbox | `sql-client/src/transactions/{outbox,relay}.ts` | the same rows and `lease_until` | `enqueue`, `pending` (claims), `markSent`, `recordFailure` | `SqlOutbox` |
| AMQP connector | `amqp-client/src/amqp-connection/amqp-connection.ts` | the connection in use, the pending `open()`, the registered consumers and their bindings, two shutdown flags | `withChannel`, `addConsumer`, `cancelConsumers`, `close`, the drop on `close`/`error` | `AmqpConnector` |
| Breaker watch | `amqp-client/src/adapters/amqp-event-bus.ts` (`watchBreakers`) | per channel: paused or not, the consumer tag | poll, cancel, consume | `AmqpConnector` |
| AMQP event bus, work subscriptions | same file (`subscribe`, `settleFailure`) | unacked deliveries, copies with an attempts header, the dead-letter queue | handle, settle, back off, quarantine | `EventDelivery` |
| Circuit breaker | `transactions/src/engine/in-memory-circuit-breaker.ts` | per key: state, window of calls, probes, opening time | `guard`, `state`, `force` | `CircuitBreaker` |
| Idempotency guard and stores | `src/packages/effect/service-shell/src/idempotency.ts`, `mongo-client/src/idempotency/store.ts`, `sql-client/src/transactions/idempotency.ts` | one record per dedup key, with an expiry | `claim`, `complete`, `release`, reaping | `IdempotencyKey` |
| Unit of work | `mongo-client/src/unit-of-work/`, `sql-client/src/transactions/unit-of-work.ts` | a transaction; the claims taken, with the replay of each | `run` (claim, body, outbox, replay, commit, rerun), `replay` | `UnitOfWork` |
| Transaction inbox | `transactions/src/contracts/inbox.ts` | the version applied per aggregate | event claims, `discardIfStale` | `UnitOfWork` |
| Flow engine, status store | `workflow/src/engine/`, `workflow/src/status/` | the flow's record: its owner key, its state, the one wait it is parked at | `start`, `signal`, `signalCorrelated`, `interrupt` | `FlowEngine` |
| Slip interpreter | `workflow/src/interpreter/` | the journal; per walk: the steps done, the verdict | step, guard, compensate, wait, announce, suspend, retry | `SlipInterpreter` |
| Bulkhead, retry budget | `transactions/src/engine/` | permits, recent calls | acquire, admit | planned |
| Shutdown registry | `business/src/shutdown/` | hooks in two phases | run | with a composition |
| Repositories, RSQL, envelope, compose, tenancy, authz, clients, web packages | several | none that several actors share | pure translation or I/O | not modelled (section 8) |

### How they interact

A write commits its data and its events in one unit of work (`enqueue`). The
request then drains its outbox inline, and a daemon sweeps it from time to time;
other replicas do the same over the same store. A drain publishes through the
event bus, which publishes through `withChannel` of the connector. Subscriptions
are added with `addConsumer`; the connector binds them again after each
reconnect. A subscription may name circuit breakers: while one is open its watch
pauses the consumer, and a handler whose call an open breaker refuses puts its
message back without spending an attempt. What the handler does may be another
unit of work, with an inbox that discards what is stale. A long business process
is a flow: `start` pins a slip of steps under a key and the durable workflow
engine walks it, calls the participants, parks on waits that `signal` answers,
and announces what happens through the outbox; callers and walk meet in the
flow's record. In a shutdown the
registry stops intake (`cancelConsumers`), drains and closes. On the request
side `requireIdempotencyKey` claims the key before the handler and completes or
releases it afterwards.

### What is hard here, and what correct means

`PROJECT.json` lists each hazard at its line. In short, per component:

* **Relay.** Passes overlap without a lock and each works from the batch and the
  counts it read. Correct: per aggregate, versions first reach the bus in order;
  nothing is marked sent that never went; the ceiling on attempts holds; a
  failing head does not stop the other aggregates for ever.
* **SQL outbox.** Leases lapse, passes die, and `pending` decides from a snapshot
  before it locks and passes over what others hold locked. Correct: two passes hold one entry only in the known ways; order
  and delivery survive them; a lease left behind strands nothing.
* **Connector.** Every `await` lets another pass, a break or a shutdown in.
  Correct: a subscription consumes once; after intake is stopped nothing is
  handed over; every consumer is armed again after a break.
* **Deliveries.** A settlement is two frames; a channel may die before, between or
  after them, a publish may be refused, and the handler of a dead channel runs on. Correct: no message is
  dropped; quarantine is earned; attempts are bounded; each message is settled.
* **Breaker.** A call is recorded in whatever state the breaker has reached when it
  ends. Correct: it opens when it should, refuses for as long as it says, and comes
  back.
* **Idempotency.** A claim is up to four store calls, others' calls in between.
  Correct: one handler at a time, one act per retention, replays are one's own, an
  outage gives the key back.
* **Unit of work.** Redeliveries overlap, conflicts rerun the whole unit, a commit may
  apply and nobody hear of it. Correct: the work is durable as a whole or not at all,
  once per claim; the outcome tells the truth; late versions do not overwrite later
  ones.
* **Slip.** Segments run at once, calls end in doubt, writes of the walk may fail, and it
  is replayed from its journal. Correct: what was done is undone in an order its dependencies allow, and
  nothing else; past the pivot the flow rolls forward; it announces one ending.
* **Flow engine.** Callers claim, complete and put back in separate steps beside the
  walk. Correct: an accepted signal is the answer of its wait; the record agrees with
  the flow; a registered flow is executed.

## 2. Modules

    OutboxPromise      what an outbox promises (abstract)
      ^ implemented by
    OutboxRelay        Mongo outbox + drain loop             MCOutboxRelay, OutboxRelayProofs
    SqlOutbox          SQL outbox + drain loop               MCSqlOutbox, SqlOutboxProofs
    CircuitBreaker     one key of the breaker                CircuitBreakerProofs
    IdempotencyKey     one dedup key                         MCIdempotencyKey, IdempotencyKeyProofs
    AmqpConnector      one process's connection, bindings,
                       pauses, shutdown                      AmqpConnectorProofs
    EventDelivery      one work queue, its replicas and
                       its settlements                       EventDeliveryProofs
    UnitPromise        what a unit of work promises (abstract)
      ^ implemented by
    UnitOfWork         overlapping runs over one store       MCUnitOfWork, UnitOfWorkProofs
    SlipInterpreter    the walk of one flow                  MCSlipInterpreter
      ^ extended by
    FlowEngine         the walk among its callers            MCFlowEngine, FlowEngineProofs

### OutboxPromise

`recorded`, `delivered`, `forgone`. An event may be delivered once every earlier
version of its aggregate has been delivered or forgone (quarantined). A second
publication is a stutter: delivery is at least once.

### OutboxRelay

`stored`, `sent`, `quarantined`, `attempts` are the collection. Each drain has
the local variables of `drainOutbox`: `todo` (rest of the batch), `snap` (the
attempts as read), `cur` (the entry in hand), `held`. Each call of the store or
of the bus is a step, and so is the point between them where another drain can
run: `StartPass` (`pending`), `PublishOk`/`PublishFails`, `MarkSent`,
`RecordFailure`. The loop's local end is part of the last settlement (`Proceed`), and a pass
that finds nothing changes nothing. `Abandon` is a store failure, the interrupt of the
daemon or a dead process: they all leave the collection as it is and drop the
locals. The sort of `pending` is `Before` (creation time, then version), and
entries that compare equal come in any order. `published` and `skipped` are
history. A write that inserts an event is one step: the unit of work is atomic
here.

### SqlOutbox

The same loop with claims. `pending` is one SQL statement but several steps:
`ReadPending` fixes what the statement's snapshot lets it see; `Scan` is its filter on one
row, whose advisory lock is tried, not waited for, so that a row of an aggregate another
claim is locking is missed; `SkipLocked` is `FOR UPDATE SKIP LOCKED` at a row that
`markSent` or a statement of `recordFailure` holds (`Updating`); `ClaimPending` leases the
rest. There a row that changed in between is checked again by its own columns only, as READ
COMMITTED does, and the advisory lock of a claim that committed meanwhile is free
again. `missed` is what the statement passed over. A lease is its rank among the live ones, so
clocks need no number: `LeaseLapses` ends the oldest. `recordFailure` is two
statements and two steps, `RecordFailure` and `GiveBack`. The history sets
`raced`, `passedOver` and `overrun` record aggregates claimed by overlapping statements,
those of which a claim took a later version while it missed an earlier one, and
those whose pass died or outlasted its lease.

### CircuitBreaker

One key with a count window. `pc` of each caller says whether the call under way
will be recorded. `Admit`, `Finish`, `FinishRetryAfter`, `FinishUnrecorded`
(protocol failure, defect, interrupt), `ReadState`, `ForceTo`, `Tick`. `left` is
the rest of the wait; thresholds are percentages. `shut` and `mute` are history.
A refused call changes nothing and is no step.

### IdempotencyKey

One dedup key and the requests that carry it. Each step is one call of the
store. `sql` is chosen at the start: the SQL claim takes over an expired record
in its insert, the Mongo one in a separate update. `Lapse` is the passing of
`expiresAt`, `Reap` Mongo's TTL index, `Lose` a request that dies, is interrupted
or whose store call fails. `complete` and `release` match the key alone, as in
the code; `overrun` records that a request outlasted its retention.

### AmqpConnector

A step is one turn of the event loop up to the next `await`; `Drained` makes the
reactions of settled promises run before the next external event, as the
microtask queue does. `pass` has one entry per run of `bindAll`: that of `open()`
and that of each `addConsumer`. `conn` is each connection's health, `live` the
one in use, `opening` the memoised `open()`. `wire` holds the requests of
`watchBreakers` the broker has not answered. Three history variables name the
situations the properties exempt, each a hazard of its own in `PROJECT.json`:
`discarded` (`withChannel` dropped a healthy connection because a first use
threw), `late` (a setup or resume was under way when intake was stopped), `slow`
(a resume was not answered before the next poll; the watches are not followed
further after the first time).

### EventDelivery

A copy of a message carries its `attempts` (header) and `returns` (what the broker
counts for `x-delivery-limit`). `held` is the one unacked delivery of each
replica (`prefetch(1)`), `wire` the frames of its settlement the broker has not
taken, `orphans` handlers whose channel has died. `Replace` publishes a copy and acks its
original, or, where the publish is refused, nacks it: with requeue, which counts toward no
limit, if the copy was for the queue, and without, so that the broker dead-letters the
message with no reason, if it was for the quarantine. `ChannelDies` and `Crash`
return what is held, counted in `deaths`; `OrphanEnds` is a handler finishing on a dead channel, whose
ack throws from a detached `runPromise`: an unhandled rejection, which ends the
process (the code reasons this way itself at `amqp-event-bus.ts:605`).

### UnitPromise and UnitOfWork

`UnitPromise` has the work that is durable (`landed`, `taken`, the aggregate's `row`, `recorded`)
and what each run was answered. `Land` makes all of a run's work durable at once, only under a
claim and an event id nobody has; its claim alone lands only while it is `stale`, and `FindsStale`
makes it so only where the row is at its version or past it. `Committed`, `Duplicate`, `Aborted` and `Failed`
are answers, and only `Failed` may precede a landing.

`UnitOfWork` has one run per delivery; runs with one claim are redeliveries. `pc` is
the next call of the store: `TakeClaim`, `BodyReads` and `BodyWrites` (the body is
`discardIfStale`), `Record` (outbox insert), `SendCommit` (with the replay),
`HearCommitted`/`HearDropped`, `ReadReplay`. The store side is `tx`, `work` (uncommitted
writes, which nobody else can make) and `seen`: Mongo's snapshot and immediate write
conflict, or Postgres at READ COMMITTED, where a writer waits. `sql` is chosen at the
start. A commit is a message: the store may apply it (`Land`) or end the transaction
(`Drop`) at any later time, also after the client gave up on the answer or died. A
resent commit is the same commit, so Mongo's `ATTEMPTS` requests are one wait with a
`GiveUp`. `Loses` is contention from elsewhere (labelled network failures, deadlock,
serialization), `Fault` any other failure, `BodyRefuses` a business failure.

### SlipInterpreter

One flow over a pinned slip; a step is its ordinal. `journal` maps each activity to
its answer; `walk` holds the locals of `walkSlip`, which a crash resets: the flow is
then walked again from the start, and a journaled activity answers without effect.
`Answers` is that rule and is part of every activity: `Record` (the flow's record),
`Announce` (an event, once by its id), `Call` (action or undo). A call that failed may
have acted (`Attempt`). `Group`, `Over`, `Running` and `Turn` are stages, segments and
`concurrency`; `Race` is the durable race of a wait with its clock; `Decide` is the
join of a stage; `Undo` compensates in reverse; `Retry` is `suspendedRetrySchedule`.
`RecordDies` and `AnnounceDies` are the writes a store fails (landed or not), which `orDie`
makes a defect, journaled like an answer (`defects`). In a group the defect ends the group, whose
exit the join takes for no failure (`Breaks`, `Lost`); outside the groups it ends the walk
(`Collapse`).
The rules of `validateSlip` on where steps may stand are the assumption on `Slips`.
The signal is one step (`Signalled`) here; the next module has its parts.

### FlowEngine

Adds the callers of one idempotency key: starts that register and then execute,
signals that find, claim, complete or put back, an interrupt that asks and then
records. Each step is one call of the status store or of the workflow engine; a signal keeps
the correlation and the outcomes (`address`) of the record it `read` before its claim, and a
put-back writes those. A caller may die or its call fail between two. `Flow` is any step of the walk; `Interrupted`, the
workflow engine acting on an interrupt, takes the walk's locals away wherever it stands. `unsure`, `lost` and
`reparked` are history: a completion that failed in doubt, a claim nobody gave
back, a wait recorded again after it was claimed or answered.

## 3. Runs

| Run | Instance | What it shows |
|---|---|---|
| `outbox_relay` | events a1, a2 of A with one time stamp and a later b1 of B; 2 passes; batch 2; ceiling 2; one abandoned pass or one revival | order (`OrderedFirstPublish`), `NothingLost`, `CeilingHolds`, refinement of `OutboxPromise`; `EventuallySettled` although a failing head and its aggregate fill the batch |
| `sql_outbox` | a1, a2; 2 passes; one lapse or death | `TwiceOnlyIfShared`, `OrderedUnlessRaced`, `EventuallySettled` |
| `breaker` | 3 callers; window 3, minimum 2, permits 2, wait 2; two overrides | `NeverClosedOverFailure`, `ShutsOut`, `RecoversUnlessStarved` |
| `breaker_stuck` | the same, wait 1, no override | violation of `Recovers` |
| `idempotency` | 4 requests of 2 fingerprints, symmetric; 2 lapses, one lost request; both stores | `OneAtATime`, `OneActPerRetention`, `ReplaysItsAnswer`, `KeyGivenBack` |
| `amqp_connector` | 1 caller; 2 consumers, one pausable; 2 connections; one break or throw | `OneSubscription`, `IntakeStops`, `Rearmed` |
| `event_delivery` | 1 message, 2 replicas, ceiling 2, 2 faults, one refusal by a breaker, one refused publish | `NothingDropped`, `QuarantineEarned`, `Settled` |
| `unit_of_work` | 3 runs in 3 scenarios, both stores; 2 attempts; 2 faults or deaths | refinement of `UnitPromise` (`KeepsThePromise`: claim, row and event together), `AppliedForward`, no deadlock |
| `slip_interpreter` | 7 slips, concurrency 2, 2 crashes, one write the store fails | `UndoesWhatItDid`, `NeverBack`, `SaysHowItEnded`, `LosesOneGroup`, `HeardUnlessWaited`, `Concludes` |
| `flow_suspended` | one step past the pivot, no fault, a participant that answers when it is asked often enough | violation of `RollsForward` |
| `flow_engine` | 2 slips; 2 starts with their own flow ids, 2 signals, one interrupt; 1 crash, 1 fault | `AcceptedIsTheAnswer`, `EndedStays`, `ParkedIsSignallable`, `StartedUnlessDied` |
| `flow_deaf` | two vendors in one stage, no fault | violation of `ParkedIsHeard` |

The passing runs also check the module's `TypeOK`, except `flow_engine`, which extends
`SlipInterpreter`, and `event_delivery`.

### Why these bounds

* Ordering needs two versions of one aggregate, independence a second
  aggregate, whose event here comes last. Two passes already produce every pairwise overlap, and the theorems
  of section 6 cover any number. Batch 2 cuts a backlog of three, and is full of one aggregate.
* A ceiling of 2 separates a failure that counts from one that quarantines.
* Two versions and two passes are what a race of claims, or a locked row
  passed over, needs; one fault is a lapse *or* a death, each of which breaks the lease once.
* Three calls let one be under way while two others open and probe the breaker;
  two permits separate a partly used spell from a used one; `Retry-After` 2 and
  `waitInOpen` 2 (1 in the stuck run) make waits overlap calls.
* Four requests are a holder, one that takes over, one that waits in mid-claim and
  one that comes back; two lapses allow a takeover of a takeover.
* Two connections are one break and its repair; two consumers let a pass be
  interrupted between them, and one of them pauses. `MaxWire` 2 allows one repeated
  resume.
* One message in two replicas is redelivered while its orphan runs; two faults cut
  a settlement and its redelivery, a refused publish beside them replaces either. The queue's order over several messages is not
  a promise of the code: a copy goes to the end.
* The scenarios of `unit_of_work` are a command delivered twice beside another on its
  aggregate; one event id emitted under two claims of different kinds, beside a
  run with no claim; and versions that come late, one of them emitting an event
  already recorded. A unit conflicts with one other at a time, so two attempts separate a
  rerun from giving up; two faults let a commit nobody heard of meet a death.
* The slips are the shapes that matter to the walk: a fan-out joined before the pivot, a
  branch on a wait, a pivot beside another segment, a strand beside another segment, a
  flow that ends on a suspending wait, a strand that races a failing step before the
  pivot of its stage, a guard that reads a wait of another segment. Two crashes replay a
  replay; one failed write is met again by every replay.
* `FlowEngine` keeps the slips whose waits callers can confuse: two waits in a row, and a wait
  beside another segment. What precedes the pivot touches the record
  no differently, but where a strand races it, which `slip_interpreter` has, and a guard across segments. One fault of a caller and one crash of the walk are each a hazard at
  its line; the run does not combine two faults of callers, nor has it
  a write of the walk that its store fails, which `slip_interpreter` has.

The counters `faults`, `upsets` (a pass abandoned or an entry revived), `lapses`, `forces`, `sent`, `pauses`,
`refusals` (of a publish), `crashes` and the number of `defects` are bounded by constants named in the modules. `attempts` needs no bound: `HoldsTheCeiling` proves it
stays small.

`CHECK_DEADLOCK FALSE` stands where the system may really stop: a closed connector,
an empty queue with no more events, requests that have all been answered, an
operator's override that nobody lifts.

## 4. Fairness

* `OutboxRelay`: weak fairness of the daemon's steps only, with what enables them written out (`CanSweep`) (`delay |> forever` in
  `runRelayDaemon`). An inline drain may stop for ever at any step.
* `SqlOutbox`: every started pass goes on (it is a fiber that runs until it ends
  or is interrupted, which is the `Abandon` step), and leases expire.
* `CircuitBreaker`: the clock ticks, calls end, callers keep calling.
* `AmqpConnector`: the health probe keeps using `withChannel`, the broker answers
  setups, and it can be reached again and again (strong fairness of `Connect`: a
  connection attempt may fail any number of times in between). Shutdown, breaks
  and pauses are not fair.
* `SlipInterpreter`: the workflow engine drives the walk, fires clocks and retries a
  suspended flow (the durable runner polls for all three). Nothing makes a signal
  come, and crashes and failed writes are not fair. `flow_suspended` adds, in favour of the claim
  it refutes, that a participant called again and again answers in the end
  (`BackSpec`, strong fairness).
* `UnitOfWork` and `FlowEngine` check safety only (the first without deadlock). No bug of
  the unit's code alone could make a run wait for ever: its reruns are counted, and what
  holds a lock is ended by the store.
* `EventDelivery`: an idle replica is given a ready copy, the broker takes frames,
  handlers end. Nothing in the code bounds a handler; a handler that never ends
  holds its replica's one delivery for ever. Faults are not fair.

Faults are bounded, so the liveness results say what happens once faults stop.

## 5. Disagreements between code and documentation

* **A half-open breaker can refuse for ever** (`breaker_stuck`,
  `transactions/src/engine/in-memory-circuit-breaker.ts:202`). Probes that end in a
  protocol failure, a defect or an interrupt use a permit and record no outcome.
  `RecoversUnlessStarved` shows this is the only way.
* **A parked flow can be deaf** (`flow_deaf`, `workflow/src/interpreter/slip-workflow.ts:488`).
  The record holds one wait, and each segment of a stage writes it whole: a step that
  starts in one segment erases the wait another is parked on, and its signal is
  refused. The port says a signal completes a wait the flow is parked at.
  `ParkedIsSignallable` shows that apart from this only a caller that died, a put-back
  in doubt, an interrupt or a raced guard (below) leaves a parked flow unreachable.
* **A suspended flow never rolls forward** (`flow_suspended`, `workflow/src/interpreter/slip-workflow.ts:560`).
  It is walked again on a schedule, but the failure that suspended it is the journaled answer of
  its step: the participant is not called again, and every walk suspends the flow anew. Lines
  170-171 say "a participant that comes back gets the step again", 231-232 "the flow rolls
  forward when the participant comes back", the workflow README and ADR 0016 the same.

Further ones are contained in a passing property, which says exactly when they happen:

* `mongo-client/src/outbox/store.ts:89`: two passes can leave an entry sent *and*
  quarantined, and `reviveQuarantined`, which filters on `quarantined` alone, makes it unsent.
  Its comment says one already sent is never re-sent. `CeilingHolds` and
  `EventuallySettled` hold through it.
* `sql-client/src/transactions/outbox.ts:142`: a quarantining failure clears the leases
  of the whole aggregate while its pass goes on, so an event can go out twice
  without any fault. The comment promises otherwise. `TwiceOnlyIfShared` lists the ways.
* `amqp-client/src/amqp-connection/amqp-connection.ts:149`: `cancelled` is read once per binding
  pass, so a shutdown during a setup does not stop the rest of the pass, which the comment
  says it does. `IntakeStops` exempts just that (`late`).
* `sql-client/src/transactions/outbox.ts:97`: two claims that overlap, or one that passes over a row
  an `UPDATE` holds locked, let a later version of an aggregate out before an earlier one.
  The comment at line 67 says several runners publish no entry twice and no two versions of one
  aggregate out of order. `OrderedUnlessRaced` says there is no other way.
* `workflow/src/interpreter/slip-workflow.ts:511`: a write of the flow's record or an announcement
  that the store fails in a group is a defect, which the join of the stage does not see: the rest
  of that group never runs, the next stages do, and the flow may end `completed`, of which line 67
  says "every step ran". `LosesOneGroup` says that no more than that group is lost.
* `transactions/src/contracts/flow-messages.ts:132`: an event that follows `flow.waiting` at the
  same step carries the same version, and a failure in an earlier segment a lower
  one: a consumer that discards what is stale, as ADR 0018 recommends, does not hear of it
  (`HeardUnlessWaited` says for which endings).
* `transactions/src/contracts/inbox.ts:104`: with versions and `discardIfStale` "a late v = n-1
  never overwrites v = n". `AppliedForward`: so it is in a Mongo unit; over
  Postgres at READ COMMITTED two overlapping units can do it, unless the body's own
  write is conditional.
* `mongo-client/src/unit-of-work/mongo-unit-of-work.ts:228`: `duplicate` may mean that another
  unit recorded the event id; then the body did run (and was rolled back), the claim is not
  taken and there is no replay, where `contracts/unit-of-work.ts:45` and ADR 0009 say the claim was
  taken and the body did not run. `UnitPromise` has both (`AlreadyDone`).
* `workflow/src/interpreter/validate.ts` and `slip-workflow.ts:470`: two slips the validation accepts
  make a walk depend on which of two segments was first, which is nowhere in the journal, so a
  replay may take the other way. A guard may name a wait of another segment of its stage
  (`GuardedAcross`), and a strand in the pivot's stage may pass over steps of the segments beside it,
  or not (`StrandedBeside`). Such a flow can announce two contrary endings, end a suspension it
  was to keep, leave a step that answered not undone, or have a record that contradicts its end; or a replay
  runs a step that was skipped before and records it over the wait the flow is parked on. The
  properties of the walk, `EndedStays` and `ParkedIsSignallable` exempt exactly the two; take an
  exemption away and TLC shows the case on the slips `Across` and `Raced` (for `ParkedIsSignallable` on `Across`
  with a second wait behind it).
  `NeverBack` holds of them too.

Behaviour met on the way that the models contain and no comment rules out, or that
a history variable exempts: `withChannel` drops whatever connection is in use when
a first use throws, even a healthy newer one, whose consumers go on beside the next
ones; a resume that outlasts its poll is sent again and the first tag is lost;
`recordFailure` writes its verdict absolutely, so a pass with a stale count lifts a
quarantine; a request that outlasts its retention completes or releases the claim of
the one that took over; two replicas, or an orphan and the redelivery of its message,
handle two events at once; a flow whose wait was recorded again after a crash accepts
a second signal for nothing; a signal is accepted after its clock has fired and has no
effect; a replay can run a step that an earlier walk passed over on a strand, so the
record of a stranded flow may be behind; a `Retry-After` of a call under way turns an operator's
`forcedOpen` into `open`; without agreeing clocks the sort by creation time
publishes versions out of order.

## 6. Proofs

Eight modules of theorems, one beside each component. A theorem holds for every value of
the constants its module's assumptions admit: any number of passes, requests, replicas,
runs, callers, any thresholds, ceilings and bounds on faults, any slip the validation
accepts. The assumptions are finiteness and naturals (`EventsAssumption`,
`BoundsAssumption` and their like), that a model value standing for "none" is none of the
others, and the conditions named below. No assumption limits interleaving.

| Module | Theorem | States |
|---|---|---|
| `OutboxRelayProofs` | `TypeCorrect`, `LosesNothing`, `HoldsTheCeiling` | `TypeOK`, `NothingLost`, `CeilingHolds` |
| | `PublishesInOrder`, `KeepsThePromise` | under `ClocksAgree`: `OrderedFirstPublish`, refinement of `OutboxPromise` |
| `SqlOutboxProofs` | `TypeCorrect` | `TypeOK` |
| | `PublishesInOrder` | under `ClocksAgree`: `OrderedUnlessRaced` (but for overlapping claims and locked rows) |
| | `PublishesTwiceOnlyIfShared` | under `ClocksAgree`, `VersionsDiffer`: `TwiceOnlyIfShared` |
| `CircuitBreakerProofs` | `TypeCorrect`, `OpensOverFailure`, `ShutsOutForTheWait` | `TypeOK`, `NeverClosedOverFailure`, `ShutsOut` |
| `IdempotencyKeyProofs` | `TypeCorrect`, `RunsOneAtATime`, `ActsOncePerRetention`, `ReplaysTheAnswer`, `GivesTheKeyBack` | `TypeOK`, `OneAtATime`, `OneActPerRetention`, `ReplaysItsAnswer`, `KeyGivenBack` |
| `AmqpConnectorProofs` | `TypeCorrect`, `ConsumesOnce`, `StopsIntake` | `TypeOK`, `OneSubscription`, `IntakeStops` |
| `EventDeliveryProofs` | `NoMessageDropped`, `QuarantineIsEarned` | `NothingDropped`, `QuarantineEarned` |
| `UnitOfWorkProofs` | `TypeCorrect`, `ImplementsThePromise`, `AppliesForward` | `TypeOK`, refinement of `UnitPromise`, `AppliedForward` |
| `FlowEngineProofs` | `TypeCorrect`, `UndoesAll`, `GoesBackOnlyBeside`, `LosesNoOther` | of `SlipInterpreter`: `TypeOK`, `UndoesWhatItDid`, `NeverBack`, `LosesOneGroup` |
| | `SaysOneEnding`, `HearsTheEnd` | of the same, while `defects = {}`: `SaysHowItEnded`, `HeardUnlessWaited` |
| | `AcceptsTheAnswer`, `StartsUnlessDied`, `KeepsBesideCallers` | of `FlowEngine`: `AcceptedIsTheAnswer`, `StartedUnlessDied`, and beside callers and an interrupt `UndoesWhatItDid`, `NeverBack` |
| | `StaysEnded`, `ParksSignallable`, `HearsBesideCallers` | of the same, while `defects = {}`: `EndedStays`, `ParkedIsSignallable`, `HeardUnlessWaited` |

Every invariant and action property of the passing runs is among them, and both
refinements. Five are stated while no store has failed a write of the walk (`defects = {}`): they
cover every slip, crash and replay, but how a flow ends whose walk lost a group is model-checked
only (section 7).

Hardly any of these is inductive. What each needs besides, and why:

**OutboxRelay.** A pass publishes from a batch it read long ago. `BatchIsClosed` says what
makes the batch good enough: each predecessor of an entry in it is published or
quarantined, or ahead of it in the batch, or in hand, or refused with its aggregate held.
With agreeing clocks `pending` puts earlier versions first (`EarlierIsBefore`) and
`StoredInOrder` leaves none to come, so this holds when a pass starts; nothing another pass
does can undo it, for `published` and `skipped` only grow. `ClocksAgree` is a real
condition on the writers: of two versions of an aggregate the earlier carries no later
time stamp. The ceiling is a potential (`Covered`). A pass whose count of an entry is `Stale` adds
an attempt and lifts the quarantine, which lets every other pass come to the entry once more
(`Window`), so it is worth its own attempt and one window; a `Fresh` pass adds one and
quarantines again. From `MaxAttempts` - 1 on no pass becomes stale, so attempts, window
and credit together never grow.

**SqlOutbox.** Order has the same shape, with the snapshot of the claiming statement as one more place
an entry can come from (`ViewIsClosed`), what that statement missed, and the two statements of a failure between which
the verdict has to stand (`VerdictIsKept`). That a pass works alone is `LeaseInv`: what it has
in hand or ahead is leased to it and pending (`LeasedAndPending`), two passes have no aggregate in
common (`Apart`), unless `Shared` says how it came. `VersionsDiffer`: no two events of an
aggregate share a version, another condition on the writers, for two that do are in no order.

**CircuitBreaker.** `Circuit`: the window never outgrows its size, nothing is left of a spell of
probes once the breaker is not half-open, and probes stay fewer than the permits, so each
record that decides finds what it decides on. `WaitCovers`: while a promised wait runs
the breaker is open and has at least that long to go, which overlapping records and `Retry-After`s
must not shorten.

**IdempotencyKey.** The record says who holds the key (`RecordIsItsHolders`), who holds it runs
(`HolderRuns`), and it acts before it settles (`ActsBeforeItSettles`); `ActsAreCounted` counts acts against
retentions spent.

**EventDelivery.** `AllKept`: each message sent is in the queue, in the one unacked delivery of
a replica, among the frames not yet taken, handled or quarantined. A settlement
puts the copy elsewhere and then acks it, in two frames; `Working` says which pairs can be on
the wire, so an ack alone means the copy is elsewhere.

**UnitOfWork.** `Exclusive`: what a run wrote and did not commit nobody else wrote. `Stage`: at each `pc` a
run has written exactly what comes before it, so a commit lands claim, row and event, or the
claim of a run that found its event stale, or nothing. `Told`:
what a run was answered is what happened. `Untaken`: what a run has written nobody
landed since. With these each step maps to a step of `UnitPromise` or a stutter. `Forward`
is the write conflict of a snapshot: over Mongo what was read is still there.

**AmqpConnector.** Counting: a tag that consumes and a cancel on its way are `Backed` by
the requests on the wire. Unless a healthy connection was discarded, `Bindings` holds: one
connection is up, all passes that set up do so on it and at different consumers, whatever
was bound is bound to it. `Shapes` lists what can be on a consumer's wire, in order,
unless a resume outlasted its poll. `Stopping` is the same for a shutdown.

**FlowEngine, callers.** `Lone`: a wait not in doubt is on the record only while nobody answered it
and nobody has claimed it; `OneHand`: two callers never have one at once; `Raced`: the durable
race answers what was deferred, or the clock. The walk cannot disturb them
(`WalkLeavesAnswers`), the callers cannot disturb the walk.

**FlowEngine, walk.** Here a state of a walk has to be explained by a journal that earlier
walks wrote. `Course` is about the walk: what precedes a step that began has ended (`Order`), what is
in `done` is what is to be undone and in an order that follows the slip (`DoneAll`, `DoneLater`), each step
meets what the journal says of it (`Met`). `Log` is about the journal alone, and so survives
a crash: no step began before everything that it comes after, up to the commit point, had
succeeded, nor before its guard was answered in its favour. `Closings` is about the end: once a failure before the commit point is journaled
and the walk turned back, every step before it is `Settled`, so what is to be
undone is fixed and a replay finds the same; an undo is journaled only after the undos that
precede it. `UndoesAll` and `GoesBackOnlyBeside` follow. A defect is kept like an
answer, so a step that was lost has one at or before it in its group (`LosesNoOther`).

**FlowEngine, endings.** `Settles` says which ending a journal has settled, where no guard and
no strand is raced. A step is `Closed` when it has its answers, or comes after one that halts, or
its guard does not let it in. For this a skipped step is not let in (`Outs`) and a step that
began has everything before it succeeded or not let in (`InTurn`); the two are inductive
together, for a guard precedes what it guards. A walk turns back, completes or fails
only where all steps are closed (`TurnsClosed`, `Verdicts`), after which no activity
records anything new; so what was recorded and told of an end (`Records`, `Announces`) is what the
journal settled, and of completion, a failure before the commit point and a strand's
timeout it settles one only (`OneEnding`). `Rows` is the same for the flow's record. `FlowInv` carries
all of it beside the callers: an interrupt leaves no walk (`Gone`), and only a
put-back in doubt or an interrupt writes over a row. `ParkInv` adds which wait the record holds: in a
stage of one group an unanswered wait is the last thing that was begun, so nothing
but the walk parking there, a claim and its put-back touch the record. `HearInv` follows the
versions: a wait is told before it is raced (`WaitsTold`), a flow goes back at a step
before the commit point and is stranded at a wait (`Places`), so what overtakes
an ending is a wait at or after it; it holds of slips that race as well.

What the proofs brought to light, each now corrected and held by a run: a rank of
leases in `SqlOutbox` was bounded too tightly; two CASE arms of `AmqpConnector` overlapped;
`OneSubscription` has to say on which connection; three properties of the walk, `EndedStays` and
`ParkedIsSignallable` are false of slips that no run had, the last disagreement of section 5; and
`Interrupted` left the walk's locals behind, to go on racing and acting.

## 7. Only model-checked

* All liveness (`EventuallySettled` of both outboxes, `RecoversUnlessStarved`, `Rearmed`, `Settled`,
  `Concludes`): fairness and ENABLED are out of the prover's reach.
* `SaysHowItEnded` and `LosesOneGroup` beside callers and an interrupt: they are theorems of `Spec`,
  where a signal is one step; callers write over records, and `StaysEnded` is what becomes of the
  first there.
* `SaysHowItEnded` and `HeardUnlessWaited` of a flow of which the store failed a write: `slip_interpreter`
  checks them with one such write; `flow_engine` has none, so `EndedStays` and
  `ParkedIsSignallable` say nothing of it.
* The three runs that find a violation.

## 8. Not modelled, and why

* Bulkhead and retry budget: planned, see below.
* `makeMongoInbox.claim` outside a unit: one insert, then the act. A crash between the
  two loses the work, as the contract says itself (`contracts/inbox.ts:41`).
* `afterCommit` of a unit: its outcome is ignored, and the drain it runs is `OutboxRelay`.
* What `bindings.ts` hands from one answer to the next call, the attempts inside one call
  under breaker and budget, the composition of a slip from a recipe, the audience and
  data of announcements.
* Time windows of the breaker, metrics, outcome reports and failure texts: no
  property is about them.
* Broadcast subscriptions: their failures are dropped by design. The publishing side
  of the bus: a fire-and-forget frame, to be part of the composition of relay, bus
  and inbox, where a frame lost after `markSent` matters: `publish` (`amqp-event-bus.ts:401`) is not
  confirmed, so an event recorded as sent may never reach the exchange.
* Collisions of `hashtext` among the advisory locks of the SQL outbox: another aggregate's claim
  makes a row be missed as one's own does; a run with one aggregate has the second.
* Redis stores: single-key reads and writes.
* Repositories, RSQL, envelope, i18n, compose, tenancy, authorization, REST and
  configuration clients: sequential translation or calls of external services.
* Web packages, examples, tools: user interface and support code.

## 9. Plan

Done: relay and its promise, SQL outbox, breaker, idempotency, connector, deliveries, unit of
work and its promise, the walk of a slip, the flow engine around it, and the theorems of
section 6.

1. `Choreography`: relay, bus and inbox composed, with a `publish` that is not confirmed: which
   delays and losses a consumer of versions can see; with its promise, and a proof that what
   is lost was in a frame nobody confirmed.
2. `Guards`: bulkhead and `On(..).retry` with its budget, and its theorem: never more
   permits taken than there are.

## 10. Running

    tlc -workers 2 -config OutboxRelay.cfg MCOutboxRelay
    for m in OutboxRelay SqlOutbox CircuitBreaker IdempotencyKey AmqpConnector \
             EventDelivery UnitOfWork FlowEngine; do tlapm ${m}Proofs.tla; done

The module and configuration of each run are in `PROJECT.json`. The longest runs
(`outbox_relay`, `flow_engine`) take about four minutes with two workers, the longest proofs
(`FlowEngineProofs`, `AmqpConnectorProofs`) several. For each property `PROJECT.json`
also names a mutant, a plausible bug defined beside the code it changes and
marked `Mutant` in its comment; with the mutant in place TLC finds that property violated.
