------------------------- MODULE CircuitBreakerProofs -------------------------
(***************************************************************************)
(* Proofs about CircuitBreaker, for any dials, any number of callers and   *)
(* any number of overrides: its types, that it never stays closed over a   *)
(* failing window, and that an open breaker shuts out for waitInOpenMs.    *)
(***************************************************************************)
EXTENDS CircuitBreaker, TLAPS

(* The dials the steps are measured by are counts. *)
LEMMA Dials ==
  /\ WindowSize \in Nat \ {0} /\ MinimumCalls \in Nat \ {0}
  /\ HalfOpenPermits \in Nat \ {0} /\ WaitInOpen \in Nat \ {0} /\ MaxForces \in Nat
  BY DialsAssumption

(* The wait of an opening is waitInOpenMs, or what was asked for if longer.  *)
LEMMA MaxOfTwo ==
  ASSUME NEW m \in Nat, NEW n \in Nat
  PROVE  /\ Max({m, n}) \in Nat
         /\ Max({m, n}) >= m
<1>1. \E x \in {m, n} : \A y \in {m, n} : x >= y
  OBVIOUS
<1>2. Max({m, n}) \in {m, n} /\ \A y \in {m, n} : Max({m, n}) >= y
  BY <1>1 DEF Max
<1> QED
  BY <1>2

(* A window one call longer, less its first call once it is full.            *)
LEMMA KeptIsAWindow ==
  ASSUME NEW calls \in Seq(Call), NEW call \in Call, Len(calls) <= WindowSize
  PROVE  LET all == Append(calls, call)
             kept == IF Len(all) > WindowSize THEN Tail(all) ELSE all
         IN kept \in Seq(Call) /\ Len(kept) <= WindowSize
<1> DEFINE all == Append(calls, call)
<1>1. all \in Seq(Call) /\ Len(all) = Len(calls) + 1 /\ all # <<>>
  OBVIOUS
<1>2. Tail(all) \in Seq(Call) /\ Len(Tail(all)) = Len(calls)
  BY <1>1
<1> QED
  BY <1>1, <1>2, Dials

-----------------------------------------------------------------------------
(* What a step of the circuit leaves. *)
Circuit ==
  /\ state \in {"closed", "open", "halfOpen", "forcedOpen", "disabled"}
  /\ left \in Nat
  /\ window \in Seq(Call) /\ Len(window) <= WindowSize
  /\ admitted \in 0 .. HalfOpenPermits
  /\ probes \in Seq(Call) /\ Len(probes) < HalfOpenPermits
  /\ state # "halfOpen" => admitted = 0 /\ probes = <<>>
  /\ NeverClosedOverFailure

(* A move of the dial keeps the circuit well formed. *)
LEMMA MoveKeepsCircuit ==
  ASSUME Circuit, Move(state'), state' \in {"closed", "open", "halfOpen", "forcedOpen", "disabled"},
         left' \in Nat
  PROVE  Circuit'
<1>1. /\ window' \in Seq(Call) /\ Len(window') <= WindowSize
      /\ state' = "closed" => window' = <<>>
  BY Dials DEF Circuit, Move
<1>2. admitted' = 0 /\ probes' = <<>>
  BY DEF Move
<1>3. NeverClosedOverFailure'
  BY <1>1, Dials DEF NeverClosedOverFailure
<1> QED
  BY <1>1, <1>2, <1>3, Dials DEF Circuit

(* What record() makes of a call: counted, it leaves no failing window.      *)
LEMMA RecordKeepsCircuit ==
  ASSUME Circuit, NEW call \in Call, Record(call)
  PROVE  Circuit'
<1>1. CASE state = "halfOpen" /\ RecordProbe(call)
  <2> DEFINE seen == Append(probes, call)
  <2>1. seen \in Seq(Call) /\ Len(seen) = Len(probes) + 1
    BY DEF Circuit
  <2>2. CASE Len(seen) < HalfOpenPermits
    BY <1>1, <2>1, <2>2 DEF RecordProbe, Circuit, NeverClosedOverFailure
  <2>3. CASE ~(Len(seen) < HalfOpenPermits)
    <3>1. \/ Open(WaitInOpen)
          \/ Move("closed") /\ left' = left
      BY <1>1, <2>3 DEF RecordProbe
    <3> QED
      BY <3>1, MoveKeepsCircuit, Dials DEF Open, Move, Circuit
  <2> QED
    BY <2>2, <2>3
<1>2. CASE state = "closed" /\ RecordClosed(call)
  <2> DEFINE all == Append(window, call)
             kept == IF Len(all) > WindowSize THEN Tail(all) ELSE all
  <2>1. kept \in Seq(Call) /\ Len(kept) <= WindowSize
    BY KeptIsAWindow DEF Circuit
  <2> HIDE DEF kept
  <2>2. CASE Len(kept) >= MinimumCalls /\ Trips(kept)
    <3>1. state' = "open" /\ left' = WaitInOpen /\ admitted' = 0 /\ probes' = <<>> /\ window' = kept
      BY <1>2, <2>2 DEF RecordClosed, kept
    <3> QED
      BY <2>1, <3>1, Dials DEF Circuit, NeverClosedOverFailure
  <2>3. CASE ~(Len(kept) >= MinimumCalls /\ Trips(kept))
    <3>1. window' = kept /\ UNCHANGED <<state, left, admitted, probes>>
      BY <1>2, <2>3 DEF RecordClosed, kept
    <3>2. NeverClosedOverFailure'
      BY <2>3, <3>1 DEF NeverClosedOverFailure
    <3> QED
      BY <2>1, <3>1, <3>2 DEF Circuit
  <2> QED
    BY <2>2, <2>3
<1>3. CASE state \notin {"halfOpen", "closed"} /\ UNCHANGED circuit
  BY <1>3 DEF Circuit, circuit, NeverClosedOverFailure
<1> QED
  BY <1>1, <1>2, <1>3 DEF Record

-----------------------------------------------------------------------------
(* An open breaker has at least the least wait still to go.  The least wait  *)
(* itself counts down with the clock, and only an override ends it early.    *)
WaitCovers ==
  /\ shut \in 0 .. WaitInOpen
  /\ shut > 0 => state = "open" /\ left >= shut

(* The rest of the state: where the callers are, and the bounds. *)
Rest ==
  /\ pc \in [Callers -> {"idle", "watched", "unwatched"}]
  /\ mute \in BOOLEAN /\ healthy \in BOOLEAN /\ forces \in 0 .. MaxForces

IInv == Circuit /\ WaitCovers /\ Rest

(* An opening starts the least wait, and a breaker that stays open keeps it. *)
LEMMA ShutCovers ==
  ASSUME Circuit, Circuit', WaitCovers, Shut,
         \/ UNCHANGED <<state, left>>
         \/ state' = "open" /\ left' >= WaitInOpen
         \/ state # "open" /\ state' # "open"
  PROVE  WaitCovers'
  BY Dials DEF Circuit, WaitCovers, Shut

(* The invariant holds at the start. *)
LEMMA InitIsCircuit == Init => IInv
<1>1. Init => Circuit
  BY Dials DEF Init, Circuit, NeverClosedOverFailure
<1>2. Init => WaitCovers
  BY Dials DEF Init, WaitCovers
<1>3. Init => pc \in [Callers -> {"idle", "watched", "unwatched"}] /\ forces \in 0 .. MaxForces
  BY Dials DEF Init
<1>4. Init => mute \in BOOLEAN /\ healthy \in BOOLEAN
  BY Zenon DEF Init
<1> QED
  BY <1>1, <1>2, <1>3, <1>4 DEF IInv, Rest

(* Every step keeps it. *)
LEMMA Inductive == IInv /\ [Next]_vars => IInv'
<1> SUFFICES ASSUME IInv, [Next]_vars PROVE IInv'
  OBVIOUS
<1> USE DEF IInv
<1>1. CASE ReadState
  <2>1. Circuit'
    BY <1>1, MoveKeepsCircuit DEF ReadState, Circuit, Move
  <2>2. WaitCovers'
    BY <1>1 DEF ReadState, Move, Waited, WaitCovers
  <2>3. Rest'
    BY <1>1 DEF ReadState, Rest
  <2> QED
    BY <2>1, <2>2, <2>3
<1>2. ASSUME NEW c \in Callers, Admit(c) PROVE IInv'
  <2>1. /\ pc' \in [Callers -> {"idle", "watched", "unwatched"}]
        /\ UNCHANGED <<shut, healthy, forces, left, window>>
    BY <1>2 DEF Admit, Rest, circuit
  <2>2. mute' \in BOOLEAN
    BY <1>2, Zenon DEF Admit
  <2>3. Circuit'
    BY <1>2, Dials DEF Admit, circuit, Waited, Circuit, NeverClosedOverFailure
  <2>4. WaitCovers'
    BY <1>2, <2>1 DEF Admit, circuit, Waited, WaitCovers
  <2> QED
    BY <2>1, <2>2, <2>3, <2>4 DEF Rest
<1>3. ASSUME NEW c \in Callers, AdmitDisabled(c) PROVE IInv'
  BY <1>3 DEF AdmitDisabled, circuit, hist, Circuit, NeverClosedOverFailure, WaitCovers, Rest
<1>4. ASSUME NEW c \in Callers, Finish(c) PROVE IInv'
  <2>1. PICK call \in Call : Record(call)
    BY <1>4 DEF Finish
  <2>2. Circuit'
    BY <2>1, RecordKeepsCircuit
  <2>3. \/ UNCHANGED <<state, left>>
        \/ state' = "open" /\ left' >= WaitInOpen
        \/ state # "open" /\ state' # "open"
    BY <2>1, Dials DEF Record, RecordProbe, RecordClosed, Open, Move, circuit
  <2>4. WaitCovers'
    BY <1>4, <2>2, <2>3, ShutCovers DEF Finish
  <2> QED
    BY <1>4, <2>2, <2>4 DEF Finish, Rest
<1>5. ASSUME NEW c \in Callers, FinishRetryAfter(c) PROVE IInv'
  <2>1. PICK wait \in RetryAfters :
          IF state = "disabled" THEN UNCHANGED circuit ELSE Open(Max({WaitInOpen, wait}))
    BY <1>5 DEF FinishRetryAfter
  <2>2. Max({WaitInOpen, wait}) \in Nat /\ Max({WaitInOpen, wait}) >= WaitInOpen
    <3>1. wait \in Nat
      BY DialsAssumption
    <3> QED
      BY <3>1, MaxOfTwo, Dials
  <2>3. Circuit'
    BY <2>1, <2>2, MoveKeepsCircuit DEF Open, Move, circuit, Circuit, NeverClosedOverFailure
  <2>4. \/ UNCHANGED <<state, left>>
        \/ state' = "open" /\ left' >= WaitInOpen
    BY <2>1, <2>2 DEF Open, Move, circuit
  <2>5. WaitCovers'
    BY <1>5, <2>3, <2>4, ShutCovers DEF FinishRetryAfter
  <2> QED
    BY <1>5, <2>3, <2>5 DEF FinishRetryAfter, Rest
<1>6. ASSUME NEW c \in Callers, FinishUnrecorded(c) PROVE IInv'
  <2>1. /\ pc' \in [Callers -> {"idle", "watched", "unwatched"}]
        /\ UNCHANGED <<circuit, shut, healthy, forces>>
    BY <1>6 DEF FinishUnrecorded, Rest
  <2>2. mute' \in BOOLEAN
    BY <1>6, Zenon DEF FinishUnrecorded
  <2> QED
    BY <2>1, <2>2 DEF circuit, Circuit, NeverClosedOverFailure, WaitCovers, Rest
<1>7. ASSUME NEW to \in {"forcedOpen", "disabled", "closed"}, ForceTo(to) PROVE IInv'
  <2>1. Circuit'
    BY <1>7, MoveKeepsCircuit DEF ForceTo, Move, Circuit
  <2>2. WaitCovers'
    BY <1>7, Dials DEF ForceTo, WaitCovers
  <2>3. Rest'
    BY <1>7, Dials DEF ForceTo, Rest
  <2> QED
    BY <2>1, <2>2, <2>3
<1>8. CASE Tick
  <2>1. Circuit'
    BY <1>8 DEF Tick, Circuit, NeverClosedOverFailure
  <2>2. WaitCovers'
    BY <1>8, Dials DEF Tick, WaitCovers, Circuit
  <2> QED
    BY <1>8, <2>1, <2>2 DEF Tick, Rest
<1>9. CASE Heal
  BY <1>9 DEF Heal, circuit, hist, Circuit, NeverClosedOverFailure, WaitCovers, Rest
<1>10. CASE UNCHANGED vars
  BY <1>10 DEF vars, circuit, hist, Circuit, NeverClosedOverFailure, WaitCovers, Rest
<1> QED
  BY <1>1, <1>2, <1>3, <1>4, <1>5, <1>6, <1>7, <1>8, <1>9, <1>10 DEF Next, End

(* It holds in every reachable state. *)
LEMMA Invariant == Spec => []IInv
  BY InitIsCircuit, Inductive, PTL DEF Spec

-----------------------------------------------------------------------------
(* The counters and the window keep within their dials. *)
THEOREM TypeCorrect == Spec => []TypeOK
<1>1. IInv => TypeOK
  BY DEF IInv, Circuit, WaitCovers, Rest, TypeOK
<1> QED
  BY <1>1, Invariant, PTL

(* No order of calls, late verdicts and overrides leaves the breaker closed  *)
(* over a window that should have opened it.                                 *)
THEOREM OpensOverFailure == Spec => []NeverClosedOverFailure
<1>1. IInv => NeverClosedOverFailure
  BY DEF IInv, Circuit
<1> QED
  BY <1>1, Invariant, PTL

(* Once open, the breaker admits nobody for waitInOpenMs, whatever the calls *)
(* still under way report meanwhile.                                         *)
THEOREM ShutsOutForTheWait == Spec => ShutsOut
<1> DEFINE Kept == shut > 0 => \A c \in Callers : pc[c] = "idle" => pc'[c] = "idle"
<1>1. IInv /\ [Next]_vars => [Kept]_vars
  <2> SUFFICES ASSUME IInv, Next, shut > 0, NEW c \in Callers, pc[c] = "idle"
               PROVE  pc'[c] = "idle"
    BY DEF vars
  <2>1. state = "open" /\ left > 0
    BY DEF IInv, WaitCovers, Circuit
  <2>2. ASSUME NEW d \in Callers PROVE ~Admit(d) /\ ~AdmitDisabled(d)
    BY <2>1 DEF Admit, AdmitDisabled, Waited
  <2>3. ASSUME NEW d \in Callers, End(d) PROVE pc'[c] = "idle"
    BY <2>3 DEF End, Finish, FinishRetryAfter, FinishUnrecorded, IInv, Rest
  <2> QED
    BY <2>2, <2>3 DEF Next, ReadState, ForceTo, Tick, Heal
<1> QED
  BY <1>1, Invariant, PTL DEF Spec, ShutsOut
=============================================================================
