---------------------------- MODULE EventDelivery ----------------------------
(***************************************************************************)
(* A work subscription of amqp-client/src/adapters/amqp-event-bus.ts: the  *)
(* replicas that share its durable queue, each with one unacked delivery   *)
(* at a time, and how a delivery is settled: acked, put back as a copy     *)
(* that carries its attempts, or quarantined. AmqpConnector models how a   *)
(* channel that died is replaced; here the next one is there at once.      *)
(***************************************************************************)
EXTENDS Naturals, SequencesExt

CONSTANTS Messages, Replicas,
          maxAttempts,              \* the subscription's, and its x-delivery-limit
          MaxSends, MaxFaults, MaxPauses, MaxRefusals   \* bounds

ASSUME BoundsAssumption ==
  /\ maxAttempts \in Nat \ {0}
  /\ {MaxSends, MaxFaults, MaxPauses, MaxRefusals} \subseteq Nat
  /\ "none" \notin Messages

(* A copy of a message: the attempts of its header, the returns the broker counts. *)
Copies == [of : Messages, attempts : Nat, returns : Nat]
Fresh(m) == [of |-> m, attempts |-> 0, returns |-> 0]
NoCopy == [of |-> "none", attempts |-> 0, returns |-> 0]

VARIABLES queue,        \* the copies ready to be delivered
          quarantine,   \* the dead-lettered copies, with the reason
          held,         \* the unacked copy of each replica's channel
          step,         \* each replica's delivery: idle | handling | backoff | settled
          wire,         \* each channel's frames the broker has not taken
          orphans,      \* handlers still running whose channel has died
          sent,         \* how often each message was routed to the queue
          handled,      \* messages a handler has succeeded on
          failed, poisoned,   \* history: transient failures, poison verdicts
          deaths,       \* history: channels that ended with a message unacked
          faults, pauses, refusals

counts == <<faults, pauses, refusals>>
broker == <<queue, quarantine, held, deaths>>
vars == <<queue, quarantine, held, step, wire, orphans, sent, handled,
          failed, poisoned, deaths, faults, pauses, refusals>>

Init ==
  /\ queue = <<>> /\ quarantine = {}
  /\ held = [r \in Replicas |-> NoCopy]
  /\ step = [r \in Replicas |-> "idle"]
  /\ wire = [r \in Replicas |-> <<>>]
  /\ orphans = [r \in Replicas |-> {}]
  /\ sent = [m \in Messages |-> 0]
  /\ handled = {} /\ poisoned = {}
  /\ failed = [m \in Messages |-> 0]
  /\ deaths = [m \in Messages |-> 0]
  /\ faults = 0 /\ pauses = 0 /\ refusals = 0

-----------------------------------------------------------------------------
(* The broker *)

(* The outbox publishes an event at least once. *)
Route(m) ==
  /\ sent[m] < MaxSends
  /\ sent' = [sent EXCEPT ![m] = @ + 1]
  /\ queue' = Append(queue, Fresh(m))
  /\ UNCHANGED <<quarantine, held, step, wire, orphans, handled, failed, poisoned, deaths, counts>>

(* prefetch(1): the next copy goes to a channel with nothing unacked. *)
Deliver(r) ==
  /\ queue # <<>> /\ held[r] = NoCopy
  /\ held' = [held EXCEPT ![r] = Head(queue)]
  /\ queue' = Tail(queue)
  /\ step' = [step EXCEPT ![r] = "handling"]
  /\ UNCHANGED <<quarantine, wire, orphans, sent, handled, failed, poisoned, deaths, counts>>

Dead(c, reason) == [copy |-> c, reason |-> reason]

(* A frame: a copy published to the queue or to the dead-letter exchange, or what *)
(* settles the delivery: its ack, its nack for another delivery, or the nack that *)
(* has the broker dead-letter it, for a reason of its own.                        *)
ToQueue(c) == [to |-> "queue", copy |-> c, reason |-> "none"]
ToQuarantine(c, reason) == [to |-> "quarantine", copy |-> c, reason |-> reason]
Ack(c) == [to |-> "ack", copy |-> c, reason |-> "none"]
Requeue(c) == [to |-> "requeue", copy |-> c, reason |-> "none"]
Reject(c) == [to |-> "reject", copy |-> c, reason |-> "rejected"]

(* A requeued nack counts toward no limit. *)
Take(r) ==
  LET f == Head(wire[r])
      settles == f.to \in {"ack", "requeue", "reject"} IN
  /\ wire[r] # <<>>
  /\ wire' = [wire EXCEPT ![r] = Tail(@)]
  /\ queue' = CASE f.to = "queue" -> Append(queue, f.copy)
                [] f.to = "requeue" -> <<f.copy>> \o queue
                [] OTHER -> queue
  /\ quarantine' = IF f.to \in {"quarantine", "reject"}
                     THEN quarantine \union {Dead(f.copy, f.reason)} ELSE quarantine
  /\ held' = IF settles THEN [held EXCEPT ![r] = NoCopy] ELSE held
  /\ step' = IF settles THEN [step EXCEPT ![r] = "idle"] ELSE step
  /\ UNCHANGED <<orphans, sent, handled, failed, poisoned, deaths, counts>>

(* What a channel holds unacked when it ends goes back to the front of the queue, *)
(* until it has been returned more often than the limit allows.                   *)
Return(r) ==
  LET c == [held[r] EXCEPT !.returns = @ + 1] IN
  /\ held' = [held EXCEPT ![r] = NoCopy]
  /\ IF held[r] = NoCopy THEN UNCHANGED <<queue, quarantine, deaths>>
     ELSE /\ deaths' = [deaths EXCEPT ![c.of] = @ + 1]
          /\ IF c.returns > maxAttempts
               THEN quarantine' = quarantine \union {Dead(c, "returned")} /\ UNCHANGED queue
               ELSE queue' = <<c>> \o queue /\ UNCHANGED quarantine
  /\ wire' = [wire EXCEPT ![r] = <<>>]
  /\ step' = [step EXCEPT ![r] = "idle"]

-----------------------------------------------------------------------------
(* A delivery: settle and settleFailure *)

(* The handler is done; what it decided goes out on the delivery's channel. *)
Settle(r, frames) ==
  /\ wire' = [wire EXCEPT ![r] = frames]
  /\ step' = [step EXCEPT ![r] = "settled"]

(* Mutant: acked before its copy is published. *)
AckedFirst(c, f) == <<Ack(c), f>>

(* Mutant: the original of a copy is not acked. *)
NotAcked(c, f) == <<f>>

(* A copy is published, and only then its original acked. *)
Replaced(c, f) == <<f, Ack(c)>>

(* The publish throws: the nack gives the original back, or dead-letters it bare. *)
Nacked(c, f) == IF f.to = "quarantine" THEN <<Reject(c)>> ELSE <<Requeue(c)>>

Replace(r, f) ==
  \/ Settle(r, Replaced(held[r], f)) /\ UNCHANGED refusals
  \/ /\ refusals < MaxRefusals
     /\ refusals' = refusals + 1
     /\ Settle(r, Nacked(held[r], f))

Succeed(r) ==
  /\ step[r] = "handling"
  /\ handled' = handled \union {held[r].of}
  /\ Settle(r, <<Ack(held[r])>>)
  /\ UNCHANGED <<broker, orphans, sent, failed, poisoned, counts>>

Poison(r) ==
  /\ step[r] = "handling"
  /\ poisoned' = poisoned \union {held[r].of}
  /\ Replace(r, ToQuarantine(held[r], "poison"))
  /\ UNCHANGED <<broker, orphans, sent, handled, failed, faults, pauses>>

Counted(c) == [c EXCEPT !.attempts = @ + 1, !.returns = 0]
Uncounted(c) == [c EXCEPT !.returns = 0]

(* What goes back on the queue after a transient failure. *)
Again(c) == Counted(c)

FailTransient(r) ==
  LET c == held[r] IN
  /\ step[r] = "handling"
  /\ failed' = [failed EXCEPT ![c.of] = @ + 1]
  /\ IF c.attempts + 1 >= maxAttempts
       THEN Replace(r, ToQuarantine(Counted(c), "attempts"))
       ELSE step' = [step EXCEPT ![r] = "backoff"] /\ UNCHANGED <<wire, refusals>>
  /\ UNCHANGED <<broker, orphans, sent, handled, poisoned, faults, pauses>>

BackoffOver(r) ==
  /\ step[r] = "backoff"
  /\ Replace(r, ToQueue(Again(held[r])))
  /\ UNCHANGED <<broker, orphans, sent, handled, failed, poisoned, faults, pauses>>

(* Mutant: an open breaker costs the message an attempt. *)
PausedCounted(c) == Counted(c)

(* What an open breaker's refusal puts back. *)
Paused(c) == Uncounted(c)

(* The handler's call was refused by an open breaker. *)
RefusedByBreaker(r) ==
  /\ step[r] = "handling" /\ pauses < MaxPauses
  /\ pauses' = pauses + 1
  /\ Replace(r, ToQueue(Paused(held[r])))
  /\ UNCHANGED <<broker, orphans, sent, handled, failed, poisoned, faults>>

-----------------------------------------------------------------------------
(* Faults *)

(* The channel dies; a handler it delivered to runs on. *)
ChannelDies(r) ==
  /\ faults < MaxFaults
  /\ faults' = faults + 1
  /\ Return(r)
  /\ orphans' = [orphans EXCEPT ![r] =
       IF step[r] \in {"handling", "backoff"} THEN @ \union {held[r]} ELSE @]
  /\ UNCHANGED <<sent, handled, failed, poisoned, pauses, refusals>>

(* The process ends, its handlers with it, and another takes its place. *)
ProcessEnds(r) ==
  /\ Return(r)
  /\ orphans' = [orphans EXCEPT ![r] = {}]

Crash(r) ==
  /\ faults < MaxFaults
  /\ faults' = faults + 1
  /\ ProcessEnds(r)
  /\ UNCHANGED <<sent, handled, failed, poisoned, pauses, refusals>>

(* An orphan ends, well or badly. Whatever it settles with throws on the dead    *)
(* channel, out of the detached promise: an unhandled rejection ends the process.*)
OrphanEnds(r) ==
  \E c \in orphans[r] :
    /\ \/ handled' = handled \union {c.of} /\ UNCHANGED <<failed, poisoned>>
       \/ poisoned' = poisoned \union {c.of} /\ UNCHANGED <<handled, failed>>
       \/ failed' = [failed EXCEPT ![c.of] = @ + 1] /\ UNCHANGED <<handled, poisoned>>
    /\ ProcessEnds(r)
    /\ UNCHANGED <<sent, counts>>

-----------------------------------------------------------------------------
Ends(r) == Succeed(r) \/ Poison(r) \/ FailTransient(r) \/ RefusedByBreaker(r)

Next ==
  \/ \E m \in Messages : Route(m)
  \/ \E r \in Replicas :
       \/ Deliver(r) \/ Take(r)
       \/ Ends(r) \/ BackoffOver(r)
       \/ ChannelDies(r) \/ Crash(r) \/ OrphanEnds(r)

Spec == Init /\ [][Next]_vars

(* Replicas consume, the broker takes what is sent to it, and a handler ends:     *)
(* nothing bounds one, the code waits for it.                                     *)
Fairness == \A r \in Replicas :
  WF_vars(Deliver(r)) /\ WF_vars(Take(r)) /\ WF_vars(Ends(r)) /\ WF_vars(BackoffOver(r))

FairSpec == Spec /\ Fairness

-----------------------------------------------------------------------------
(* Properties *)

Quarantined == {q.copy.of : q \in quarantine}
Owed == {queue[i].of : i \in DOMAIN queue} \union {held[r].of : r \in Replicas}

(* A message the queue once held is handled, quarantined, or still in the broker's *)
(* keeping, through every channel that dies between the frames of a settlement.    *)
NothingDropped == \A m \in Messages : sent[m] > 0 => m \in handled \union Quarantined \union Owed

(* A message is quarantined for the reason it carries: a handler's poison verdict, *)
(* that many transient failures, or more returns than the limit, each by a channel *)
(* that ended with it unacked; one whose publish was refused carries none, and had *)
(* one of the verdicts. An open breaker and a requeued nack cost it nothing.       *)
QuarantineEarned == \A q \in quarantine :
  LET m == q.copy.of IN
  /\ q.reason = "poison" => m \in poisoned
  /\ q.reason = "attempts" => q.copy.attempts = maxAttempts /\ failed[m] >= maxAttempts
  /\ q.reason = "rejected" => m \in poisoned \/ failed[m] >= maxAttempts
  /\ q.reason = "returned" => q.copy.returns > maxAttempts /\ deaths[m] >= q.copy.returns

(* Every message that reached the queue is handled or quarantined in the end.      *)
Settled == \A m \in Messages : sent[m] > 0 ~> m \in handled \union Quarantined

=============================================================================
