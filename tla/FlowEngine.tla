------------------------------ MODULE FlowEngine ------------------------------
(***************************************************************************)
(* The flow engine of workflow/src/engine/make-flow-engine.ts around one   *)
(* idempotency key: callers that start its flow, signal its waits and      *)
(* interrupt it, beside the walk of SlipInterpreter. They meet in the      *)
(* flow's record (flow-status-store.ts): one row, which holds one wait.    *)
(***************************************************************************)
EXTENDS SlipInterpreter

CONSTANTS Flows,       \* the flow ids the starts of this key may have composed
          Starters, Signallers,
          NoFlow,
          MaxFaults    \* bound: callers that die, or calls of theirs that fail

ASSUME CallersAssumption == NoFlow \notin Flows /\ MaxFaults \in Nat

VARIABLES owner,      \* the flow registered under the key
          begun,      \* its workflow is executed
          starter, signaller,
          stop,       \* the interrupt: idle | asked | done
          asked,      \* what it asked of the workflow engine
          faults,
          unsure,     \* history: waits of which a completion failed
          lost,       \* history: waits whose claim nobody gave back
          reparked    \* history: waits recorded again after their answer

calls == <<owner, begun, starter, signaller, stop, asked, faults>>
history == <<unsure, lost, reparked>>
flowVars == <<vars, calls, history>>

NoSignal == [pc |-> "idle", wait |-> 0, outcome |-> "unnamed", read |-> AddressOf(0)]
NoStart == [pc |-> "idle", flow |-> NoFlow]

FlowInit ==
  /\ Init
  /\ owner = NoFlow /\ begun = FALSE
  /\ starter = [s \in Starters |-> NoStart]
  /\ signaller = [s \in Signallers |-> NoSignal]
  /\ stop = "idle" /\ asked = FALSE /\ faults = 0
  /\ unsure = {} /\ lost = {} /\ reparked = {}

Fault == faults < MaxFaults /\ faults' = faults + 1

-----------------------------------------------------------------------------
(* start *)

(* Mutant: only the start that inserted the record executes the flow. *)
RunsIfInserted(flow) == owner = NoFlow

(* The slip of this very start is the one the key runs. *)
Runs(flow) == owner \in {NoFlow, flow}

Register(s) ==
  \E flow \in Flows :
    /\ starter[s].pc = "idle" /\ ~begun
    /\ owner' = IF owner = NoFlow THEN flow ELSE owner
    /\ starter' = [starter EXCEPT ![s] = [pc |-> IF Runs(flow) THEN "registered" ELSE "answered",
                                          flow |-> flow]]
    /\ UNCHANGED <<vars, begun, signaller, stop, asked, faults, history>>

(* A start that comes to it later changes nothing, and none is followed any more. *)
Execute(s) ==
  /\ starter[s].pc = "registered"
  /\ begun' = TRUE /\ starter' = [t \in Starters |-> NoStart]
  /\ UNCHANGED <<vars, owner, signaller, stop, asked, faults, history>>

StarterDies(s) ==
  /\ starter[s].pc = "registered" /\ Fault
  /\ starter' = [starter EXCEPT ![s].pc = "dead"]
  /\ UNCHANGED <<vars, owner, begun, signaller, stop, asked, history>>

-----------------------------------------------------------------------------
(* signal and signalCorrelated *)

Signalling(s, pc) == signaller' = [signaller EXCEPT ![s].pc = pc]
Accepted(s) == signaller' = [signaller EXCEPT ![s].pc = "accepted", ![s].read = AddressOf(0)]
Ends(s, pc) == signaller' = [signaller EXCEPT ![s] = [NoSignal EXCEPT !.pc = pc]]
Found(s, i, outcome) == signaller' = [signaller EXCEPT ![s] =
  [pc |-> "found", wait |-> i, outcome |-> outcome, read |-> address]]

(* known: any wait of the flow may be named, with any outcome. *)
Find(s) ==
  /\ signaller[s].pc = "idle" /\ owner # NoFlow
  /\ \E i \in {j \in Steps : Kind(j) = "wait"}, o \in Outcomes : Found(s, i, o)
  /\ UNCHANGED <<vars, owner, begun, starter, stop, asked, faults, history>>

(* The wait the flow is parked at, if the record carries a correlation, for an     *)
(* outcome it accepts. A flow that is not found, or would not take it, answers so *)
(* and the sender may try again.                                                  *)
Accepts(o) ==
  LET a == address.accepts IN a # 0 /\ slip[a].accepts # {} => o \in slip[a].accepts

FindCorrelated(s) ==
  LET i == status.waiting IN
  /\ signaller[s].pc = "idle" /\ owner # NoFlow /\ address.correlation # 0 /\ i # 0
  /\ \E o \in Outcomes : Accepts(o) /\ Found(s, i, o)
  /\ UNCHANGED <<vars, owner, begun, starter, stop, asked, faults, history>>

(* Mutant: claimed if the flow waits, whatever it waits for. *)
ClaimableAny(i) == status.state = "waiting"

Claimable(i) == status = [state |-> "waiting", waiting |-> i]

(* claimWait: a conditional write, before the wait is resumed. *)
Claim(s) ==
  LET i == signaller[s].wait IN
  /\ signaller[s].pc = "found"
  /\ IF Claimable(i)
       THEN /\ status' = [state |-> "running", waiting |-> 0]
            /\ address' = [address EXCEPT !.accepts = 0]
            /\ Signalling(s, "claimed")
       ELSE Ends(s, "refused") /\ UNCHANGED <<status, address>>
  /\ UNCHANGED <<slip, defects, journal, result, news, acted, deferred, clock, walk, crashes,
                 owner, begun, starter, stop, asked, faults, history>>

Resolved(s) ==
  LET i == signaller[s].wait
  IN deferred' = IF deferred[i] = "empty" THEN [deferred EXCEPT ![i] = signaller[s].outcome] ELSE deferred

(* Mutant: the wait is put back after it was completed, too. *)
CompleteEnsuring(s) ==
  /\ signaller[s].pc = "claimed" /\ Resolved(s) /\ Signalling(s, "puttingBack")
  /\ UNCHANGED <<slip, defects, journal, result, status, address, news, acted, clock, walk, crashes,
                 owner, begun, starter, stop, asked, faults, history>>

(* DurableDeferred.succeed: the first to complete a wait is its answer. *)
Complete(s) ==
  /\ signaller[s].pc = "claimed" /\ Resolved(s) /\ Accepted(s)
  /\ UNCHANGED <<slip, defects, journal, result, status, address, news, acted, clock, walk, crashes,
                 owner, begun, starter, stop, asked, faults, history>>

(* The completion fails, or is interrupted: it may have completed the wait.  *)
CompletionFails(s) ==
  /\ signaller[s].pc = "claimed" /\ Fault
  /\ Resolved(s) \/ UNCHANGED deferred
  /\ Signalling(s, "puttingBack")
  /\ unsure' = unsure \union {signaller[s].wait}
  /\ UNCHANGED <<slip, defects, journal, result, status, address, news, acted, clock, walk, crashes,
                 owner, begun, starter, stop, asked, lost, reparked>>

(* Mutant: the claim is not given back. *)
NoPutBack(s) ==
  /\ signaller[s].pc = "puttingBack" /\ Ends(s, "failed")
  /\ UNCHANGED <<vars, owner, begun, starter, stop, asked, faults, history>>

(* The record is written whole, wherever the flow has got to, with the correlation *)
(* and the outcomes of the record that was read before the claim.                  *)
PutBack(s) ==
  /\ signaller[s].pc = "puttingBack" /\ Ends(s, "failed")
  /\ status' = [state |-> "waiting", waiting |-> signaller[s].wait]
  /\ address' = signaller[s].read
  /\ UNCHANGED <<slip, defects, journal, result, news, acted, deferred, clock, walk, crashes,
                 owner, begun, starter, stop, asked, faults, history>>

(* The process of the caller ends, or the store refuses the put-back, which is ignored. *)
SignallerDies(s) ==
  /\ signaller[s].pc \in {"claimed", "puttingBack"} /\ Fault
  /\ Ends(s, "failed")
  /\ lost' = lost \union {signaller[s].wait}
  /\ UNCHANGED <<vars, owner, begun, starter, stop, asked, unsure, reparked>>

-----------------------------------------------------------------------------
(* interrupt *)

AskInterrupt ==
  /\ stop = "idle" /\ owner # NoFlow
  /\ stop' = "asked" /\ asked' = TRUE
  /\ UNCHANGED <<vars, owner, begun, starter, signaller, faults, history>>

(* Its state is recorded whatever the flow has recorded meanwhile. *)
RecordInterrupt ==
  /\ stop = "asked" /\ stop' = "done"
  /\ status' = [state |-> "interrupted", waiting |-> 0] /\ address' = AddressOf(0)
  /\ UNCHANGED <<slip, defects, journal, result, news, acted, deferred, clock, walk, crashes,
                 owner, begun, starter, signaller, asked, faults, history>>

(* The workflow engine interrupts the walk, in its own time; its locals are lost. *)
Interrupted ==
  /\ asked /\ begun /\ walk.phase # "over"
  /\ result' = "interrupted" /\ walk' = [Fresh EXCEPT !.phase = "over"]
  /\ UNCHANGED <<slip, defects, journal, status, address, news, acted, deferred, clock, crashes, calls, history>>

-----------------------------------------------------------------------------
(* A caller has claimed the wait and not given it back. *)
Held(i) == \E s \in Signallers :
  signaller[s].wait = i /\ signaller[s].pc \in {"claimed", "puttingBack"}

(* The flow itself, once it is executed. *)
Flow ==
  /\ begun /\ WalkNext
  /\ reparked' = reparked \union {i \in Steps : /\ status # status' /\ status'.waiting = i
                                                /\ deferred[i] # "empty" \/ Held(i)}
  /\ UNCHANGED <<calls, unsure, lost>>

SignalStep(s) ==
  \/ Find(s) \/ FindCorrelated(s) \/ Claim(s) \/ Complete(s) \/ CompletionFails(s)
  \/ PutBack(s) \/ SignallerDies(s)

FlowNext ==
  \/ Flow
  \/ \E s \in Starters : Register(s) \/ Execute(s) \/ StarterDies(s)
  \/ \E s \in Signallers : SignalStep(s)
  \/ AskInterrupt \/ RecordInterrupt \/ Interrupted

FlowSpec == FlowInit /\ [][FlowNext]_flowVars

-----------------------------------------------------------------------------
(* Properties *)

(* What an accepted signal said is what its wait is answered with: no second signal, *)
(* no replay and no timeout comes between, unless the clock had fired, an earlier    *)
(* completion failed in doubt, or a crash parked the flow again on a wait that was   *)
(* answered already.                                                                 *)
AcceptedIsTheAnswer ==
  \A s \in Signallers : signaller[s].pc = "accepted" =>
    LET i == signaller[s].wait IN
    \/ i \in unsure \union reparked
    \/ /\ deferred[i] = signaller[s].outcome
       /\ Journaled(<<"race", i>>) => journal[<<"race", i>>] = deferred[i] \/ i \in clock

(* "Written after, it could land behind the resumed flow's own writes and put a      *)
(* finished flow back to running for good": the record of a flow that ended says how *)
(* it ended, but for what a put-back or an interrupt writes over it, and unless its  *)
(* replays race a guard or a strand.                                                 *)
EndedStays ==
  result \in Finals \ {"stranded"} =>
    \/ status.state = result \/ unsure # {} \/ stop = "done"
    \/ GuardedAcross \/ StrandedBeside

(* A flow parked on a wait can be signalled: the wait is in its record, or a caller  *)
(* has it in hand. Otherwise a caller died with it, a put-back or an interrupt wrote *)
(* over it, the record went to another segment, or a replay ran steps that the walk  *)
(* before had skipped by their guard. A sender that knows its correlation only finds *)
(* it too, unless a put-back in doubt wrote what its caller had read before.         *)
Parked(i) == begun /\ walk.pc[i] = "waiting" /\ deferred[i] = "empty" /\ i \notin clock
Addressed(i) == Claimable(i) \/ Held(i)

ParkedIsSignallable ==
  \A i \in Steps : Parked(i) =>
    /\ \/ Addressed(i) \/ i \in lost \/ unsure \ {i} # {} \/ stop = "done"
       \/ Group(i) # Stage(i) \/ GuardedAcross
    /\ Claimable(i) => address = AddressOf(i) \/ i \in unsure

(* A flow the key registered is executed, or a start that composed its slip is about *)
(* to: if not the start that registered it, a repetition, unless all of them died.   *)
StartedUnlessDied ==
  owner # NoFlow /\ ~begun =>
    LET Its == {s \in Starters : starter[s].flow = owner}
    IN (\E s \in Its : starter[s].pc = "registered") \/ \A s \in Its : starter[s].pc = "dead"

(* ports/flow-engine.ts: signal "completes a durable wait the flow is parked at".    *)
(* The record holds one wait: what another segment records takes its place.          *)
ParkedIsHeard == \A i \in Steps : Parked(i) => Addressed(i) \/ stop = "done"

=============================================================================
