--------------------------- MODULE CircuitBreaker ---------------------------
(***************************************************************************)
(* One key of the in-memory circuit breaker                                *)
(* (transactions/src/engine/in-memory-circuit-breaker.ts) with the calls   *)
(* it guards, which overlap: a call is recorded in whatever state the      *)
(* breaker has reached when it ends.  The window counts calls.             *)
(***************************************************************************)
EXTENDS Naturals, Sequences, FiniteSets, FiniteSetsExt, SequencesExt

CONSTANTS Callers,         \* fibers calling through guard
          WindowSize, MinimumCalls, HalfOpenPermits,   \* the dials
          FailurePercent, SlowPercent,  \* failureRateThreshold, slowCallRateThreshold
          WaitInOpen,      \* waitInOpenMs, in ticks
          RetryAfters,     \* the Retry-After waits a dependency may ask for, in ticks
          Unrecorded,      \* TRUE if a call may end as neither success nor failure
          MaxForces        \* bound: operator overrides

ASSUME DialsAssumption ==
  /\ {WindowSize, MinimumCalls, HalfOpenPermits, WaitInOpen} \subseteq Nat \ {0}
  /\ {FailurePercent, SlowPercent} \subseteq 1 .. 100
  /\ RetryAfters \subseteq Nat \ {0}
  /\ Unrecorded \in BOOLEAN
  /\ MaxForces \in Nat

VARIABLES state,     \* circuit.state
          left,      \* waitMs less the time since openedAt
          window,    \* the last calls
          admitted,  \* half-open: probes let through
          probes,    \* half-open: outcomes
          pc,        \* each caller: idle | watched | unwatched
          shut,      \* history: the least it must still refuse calls for, once open
          mute,      \* history: a call ended with no verdict in this half-open spell
          healthy,   \* environment: the dependency answers every call in time
          forces

circuit == <<state, left, window, admitted, probes>>
hist == <<shut, mute>>
vars == <<circuit, pc, hist, healthy, forces>>

Call == [failed : BOOLEAN, slow : BOOLEAN]

Trips(calls) ==
  LET failed == SelectSeq(calls, LAMBDA c : c.failed)
      slow == SelectSeq(calls, LAMBDA c : c.slow)
  IN \/ 100 * Len(failed) >= FailurePercent * Len(calls)
     \/ 100 * Len(slow) >= SlowPercent * Len(calls)

Init ==
  /\ state = "closed" /\ left = 0 /\ window = <<>>
  /\ admitted = 0 /\ probes = <<>>
  /\ pc = [c \in Callers |-> "idle"]
  /\ shut = 0 /\ mute = FALSE /\ healthy = FALSE /\ forces = 0

-----------------------------------------------------------------------------
(* Mutant: a transition keeps the probes of the last half-open spell. *)
MoveKeepingProbes(to) ==
  /\ state' = to
  /\ window' = IF to = "closed" THEN <<>> ELSE window
  /\ UNCHANGED <<admitted, probes>>

(* Mutant: closing keeps the window that opened it. *)
MoveKeepingWindow(to) ==
  /\ state' = to
  /\ admitted' = 0
  /\ probes' = <<>>
  /\ UNCHANGED window

(* move(): every transition forgets the probes, and closing the window. *)
Move(to) ==
  /\ state' = to
  /\ admitted' = 0
  /\ probes' = <<>>
  /\ window' = IF to = "closed" THEN <<>> ELSE window

Open(wait) == Move("open") /\ left' = wait

(* What the history keeps of a step: an opening starts the least wait. *)
Shut == shut' = IF state' = "open" /\ (state # "open" \/ left' > left) THEN WaitInOpen ELSE shut

(* settle(): an open breaker whose wait has passed is half-open, once read. *)
Waited == state = "open" /\ left = 0

(* breaker.state(key) reads the state and so settles it. *)
ReadState ==
  /\ Waited
  /\ Move("halfOpen")
  /\ mute' = FALSE
  /\ UNCHANGED <<left, pc, shut, healthy, forces>>

(* guard lets the call through and will record it; otherwise it refuses, and *)
(* nothing changes.                                                          *)
Admit(c) ==
  /\ pc[c] = "idle"
  /\ \/ state = "closed" /\ UNCHANGED circuit
     \/ /\ state = "halfOpen" /\ admitted < HalfOpenPermits
        /\ admitted' = admitted + 1
        /\ UNCHANGED <<state, left, window, probes>>
     \/ /\ Waited
        /\ state' = "halfOpen" /\ admitted' = 1 /\ probes' = <<>>
        /\ UNCHANGED <<left, window>>
  /\ pc' = [pc EXCEPT ![c] = "watched"]
  /\ mute' = (mute /\ ~Waited)
  /\ UNCHANGED <<shut, healthy, forces>>

(* guard on a disabled breaker runs the effect and records nothing of it. *)
AdmitDisabled(c) ==
  /\ pc[c] = "idle" /\ state = "disabled"
  /\ pc' = [pc EXCEPT ![c] = "unwatched"]
  /\ UNCHANGED <<circuit, hist, healthy, forces>>

-----------------------------------------------------------------------------
(* record() in a half-open and in a closed breaker. *)
RecordProbe(call) ==
  LET seen == Append(probes, call) IN
  IF Len(seen) < HalfOpenPermits
    THEN probes' = seen /\ UNCHANGED <<state, left, window, admitted>>
    ELSE IF Trips(seen) THEN Open(WaitInOpen)
                        ELSE Move("closed") /\ left' = left

RecordClosed(call) ==
  LET all == Append(window, call)
      kept == IF Len(all) > WindowSize THEN Tail(all) ELSE all IN
  IF Len(kept) >= MinimumCalls /\ Trips(kept)
    THEN /\ state' = "open" /\ left' = WaitInOpen
         /\ admitted' = 0 /\ probes' = <<>> /\ window' = kept
    ELSE window' = kept /\ UNCHANGED <<state, left, admitted, probes>>

(* Mutant: a late call is a probe in an open breaker too. *)
RecordEvenOpen(call) ==
  CASE state \in {"halfOpen", "open"} -> RecordProbe(call)
    [] state = "closed"              -> RecordClosed(call)
    [] OTHER                         -> UNCHANGED circuit

Record(call) ==
  CASE state = "halfOpen" -> RecordProbe(call)
    [] state = "closed"   -> RecordClosed(call)
    [] OTHER              -> UNCHANGED circuit

(* A watched call ends with a recorded verdict: a success, a business answer *)
(* or a technical failure, in time or slow.                                  *)
Finish(c) ==
  /\ pc[c] = "watched"
  /\ \E call \in Call :
       /\ healthy => call = [failed |-> FALSE, slow |-> FALSE]
       /\ Record(call)
  /\ pc' = [pc EXCEPT ![c] = "idle"]
  /\ Shut
  /\ UNCHANGED <<mute, healthy, forces>>

(* ... or with a failure that says how long to stay away, which opens the    *)
(* breaker whatever its state, unless it is disabled.                        *)
FinishRetryAfter(c) ==
  /\ pc[c] = "watched" /\ ~healthy
  /\ \E wait \in RetryAfters :
       IF state = "disabled" THEN UNCHANGED circuit
                             ELSE Open(Max({WaitInOpen, wait}))
  /\ pc' = [pc EXCEPT ![c] = "idle"]
  /\ Shut
  /\ UNCHANGED <<mute, healthy, forces>>

(* ... or with no verdict: a protocol failure, a defect, an interrupt; or    *)
(* it was not watched at all.                                                *)
FinishUnrecorded(c) ==
  /\ \/ pc[c] = "watched" /\ Unrecorded /\ ~healthy
     \/ pc[c] = "unwatched"
  /\ pc' = [pc EXCEPT ![c] = "idle"]
  /\ mute' = (mute \/ (pc[c] = "watched" /\ state = "halfOpen"))
  /\ UNCHANGED <<circuit, shut, healthy, forces>>

-----------------------------------------------------------------------------
(* force(): an operator's override. *)
ForceTo(to) ==
  /\ forces < MaxForces
  /\ to \in {"forcedOpen", "disabled", "closed"}
  /\ Move(to)
  /\ forces' = forces + 1
  /\ shut' = 0
  /\ UNCHANGED <<left, pc, mute, healthy>>

Tick ==
  /\ left > 0
  /\ left' = left - 1
  /\ shut' = IF shut > 0 THEN shut - 1 ELSE 0
  /\ UNCHANGED <<state, window, admitted, probes, pc, mute, healthy, forces>>

(* The dependency recovers, for good. *)
Heal ==
  /\ ~healthy
  /\ healthy' = TRUE
  /\ UNCHANGED <<circuit, pc, hist, forces>>

End(c) == Finish(c) \/ FinishRetryAfter(c) \/ FinishUnrecorded(c)

Next == \/ \E c \in Callers : Admit(c) \/ AdmitDisabled(c) \/ End(c)
        \/ \E to \in {"forcedOpen", "disabled", "closed"} : ForceTo(to)
        \/ ReadState \/ Tick \/ Heal

(* Time passes, every call ends, and callers keep calling. *)
Fairness == WF_vars(Tick) /\ \A c \in Callers : WF_vars(End(c)) /\ WF_vars(Admit(c))

Spec == Init /\ [][Next]_vars
FairSpec == Spec /\ Fairness

-----------------------------------------------------------------------------
(* The counters keep within their dials. *)
TypeOK ==
  /\ state \in {"closed", "open", "halfOpen", "forcedOpen", "disabled"}
  /\ left \in Nat /\ shut \in 0 .. WaitInOpen
  /\ window \in Seq(Call) /\ Len(window) <= WindowSize
  /\ admitted \in 0 .. HalfOpenPermits
  /\ probes \in Seq(Call) /\ Len(probes) < HalfOpenPermits
  /\ state # "halfOpen" => admitted = 0 /\ probes = <<>>
  /\ pc \in [Callers -> {"idle", "watched", "unwatched"}]
  /\ mute \in BOOLEAN /\ healthy \in BOOLEAN /\ forces \in 0 .. MaxForces

(* A closed breaker never sits on a window that should have opened it: no    *)
(* order of calls and overrides leaves it closed over a failing window.      *)
NeverClosedOverFailure ==
  state = "closed" /\ Len(window) >= MinimumCalls => ~Trips(window)

(* Once open, for whatever reason, the breaker lets no call through for      *)
(* waitInOpenMs: nothing a call under way reports shortens that, only an     *)
(* operator does.                                                            *)
ShutsOut ==
  [][shut > 0 => \A c \in Callers : pc[c] = "idle" => pc'[c] = "idle"]_vars

(* Once the dependency answers again, the breaker closes, however the calls  *)
(* under way at the time interleave.                                         *)
Recovers == healthy ~> state = "closed"

(* A half-open breaker whose permits went to calls that all ended, some of   *)
(* them with no verdict to record: nothing is left that could move it.       *)
Starved == /\ state = "halfOpen" /\ admitted = HalfOpenPermits /\ mute
           /\ \A c \in Callers : pc[c] # "watched"

(* ... and it does close, or is in an operator's hands, unless calls that    *)
(* end with no verdict have used up the permits.                             *)
RecoversUnlessStarved ==
  healthy ~> state \in {"closed", "forcedOpen", "disabled"} \/ Starved
=============================================================================
