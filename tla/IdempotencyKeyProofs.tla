------------------------- MODULE IdempotencyKeyProofs -------------------------
(***************************************************************************)
(* Proofs about IdempotencyKey, for any requests under the key, any        *)
(* fingerprints and either store: its types, and the four properties the   *)
(* guard exists for.  All but the types rest on one invariant, IInv.       *)
(***************************************************************************)
EXTENDS IdempotencyKey, FiniteSetTheorems, TLAPS

(* Every reachable state is well typed: there is a holder exactly while      *)
(* there is a record, and a response exactly when it is completed.           *)
THEOREM TypeCorrect == Spec => []TypeOK
<1>0. MaxLapses \in Nat
  BY BoundsAssumption
<1>1. Init => TypeOK
  <2>1. Init => overrun \in BOOLEAN /\ sql \in BOOLEAN
    BY Zenon DEF Init
  <2> QED
    BY <1>0, <2>1 DEF Init, TypeOK, Active, Claiming
<1>2. TypeOK /\ [Next]_vars => TypeOK'
  <2> SUFFICES ASSUME TypeOK, [Next]_vars PROVE TypeOK'
    OBVIOUS
  <2> USE <1>0, BoundsAssumption DEF TypeOK, Active, Claiming, Goto, Retries, hist
  <2>1. ASSUME NEW r \in Requests, Claimed(r), UNCHANGED hist PROVE TypeOK'
    <3>1. Fresh(r) \in [print : Prints, state : {"inFlight", "completed"},
                        response : Requests \union {NoOne}, live : BOOLEAN]
      BY DEF Fresh
    <3> QED
      BY <2>1, <3>1 DEF Claimed, Fresh
  <2>2. ASSUME NEW r \in Requests,
               NEW next \in Active \union Claiming \union {"answered", "refused", "failed"},
               Retries(r, next), UNCHANGED hist
        PROVE  TypeOK'
    BY <2>2
  <2>3. ASSUME NEW r \in Requests, Arrive(r) PROVE TypeOK'
    BY <2>2, <2>3 DEF Arrive
  <2>4. ASSUME NEW r \in Requests, ClaimInsert(r) \/ ClaimReplace(r) \/ ClaimAgain(r) PROVE TypeOK'
    BY <2>1, <2>2, <2>4 DEF ClaimInsert, ClaimReplace, ClaimAgain
  <2>5. ASSUME NEW r \in Requests, ClaimRead(r) PROVE TypeOK'
    BY <2>5 DEF ClaimRead, Verdict
  <2>6. ASSUME NEW r \in Requests, Answer(r) \/ AnswerUnstorable(r) \/ Refuse(r) PROVE TypeOK'
    BY <2>6 DEF Answer, AnswerUnstorable, Refuse
  <2>7. ASSUME NEW r \in Requests, Complete(r) PROVE TypeOK'
    <3>1. CASE record = NoRecord
      BY <2>7, <3>1 DEF Complete
    <3>2. CASE record # NoRecord
      <4>1. record' = [record EXCEPT !.state = "completed", !.response = r]
        BY <2>7, <3>2 DEF Complete
      <4>2. /\ record' \in [print : Prints, state : {"inFlight", "completed"},
                            response : Requests \union {NoOne}, live : BOOLEAN]
            /\ record'.state = "completed" /\ record'.response = r
        BY <3>2, <4>1
      <4> QED
        BY <2>7, <3>2, <4>2 DEF Complete
    <3> QED
      BY <3>1, <3>2
  <2>8. ASSUME NEW r \in Requests, Release(r) PROVE TypeOK'
    BY <2>8 DEF Release
  <2>9. ASSUME NEW r \in Requests, Lose(r) PROVE TypeOK'
    BY <2>9 DEF Lose
  <2>10. CASE Lapse
    <3>1. record' = [record EXCEPT !.live = FALSE] /\ record # NoRecord
      BY <2>10 DEF Lapse
    <3>2. /\ record' \in [print : Prints, state : {"inFlight", "completed"},
                          response : Requests \union {NoOne}, live : BOOLEAN]
          /\ record'.state = record.state /\ record'.response = record.response
      BY <3>1
    <3>3. overrun' \in BOOLEAN
      BY <2>10, Zenon DEF Lapse
    <3>4. lapses' \in 0 .. MaxLapses
      BY <2>10 DEF Lapse
    <3> QED
      BY <2>10, <3>1, <3>2, <3>3, <3>4 DEF Lapse, reqs
  <2>11. CASE Reap
    BY <2>11 DEF Reap, reqs
  <2>12. CASE UNCHANGED vars
    BY <2>12 DEF vars, reqs
  <2> QED
    BY <2>3, <2>4, <2>5, <2>6, <2>7, <2>8, <2>9, <2>10, <2>11, <2>12 DEF Next
<1> QED
  BY <1>1, <1>2, PTL DEF Spec

-----------------------------------------------------------------------------
(* The inductive invariant.  Its parts say who holds the record, and what    *)
(* each request has done by where it is.                                     *)

(* As long as no claim has lapsed under a request, whoever runs holds a live *)
(* record in flight: a claim finds none to take.                             *)
HolderRuns ==
  ~overrun => \A r \in Requests : pc[r] \in Active =>
    holder = r /\ record # NoRecord /\ record.live /\ record.state = "inFlight"

(* The record is its holder's: of its fingerprint, and completed, if it is,  *)
(* with an answer that was stored.                                           *)
RecordIsItsHolders ==
  record # NoRecord =>
    /\ record.print = print[holder]
    /\ ~overrun /\ record.state = "completed" =>
         record.response \in acted \ streamed /\ print[record.response] = record.print

(* A request acts at most once, after it was claimed and before it settled;  *)
(* only an answer that can be stored is completed.                           *)
ActsBeforeItSettles ==
  \A r \in Requests :
    /\ r \in acted => pc[r] \in {"complete", "release", "answered", "refused", "failed"}
    /\ pc[r] = "complete" => r \in acted
    /\ r \in streamed => pc[r] \in {"release", "refused", "failed"}
    /\ pc[r] = "release" => r \notin acted \ streamed

(* The act of the record's retention, if its holder has acted. *)
Spent == record # NoRecord /\ record.live /\ holder \in acted \ streamed

(* Every other act was that of a record that has lapsed since. *)
ActsAreCounted ==
  /\ IsFiniteSet(acted \ streamed)
  /\ ~overrun => Cardinality(acted \ streamed) <= lapses + (IF Spent THEN 1 ELSE 0)

IInv == /\ TypeOK /\ HolderRuns /\ RecordIsItsHolders /\ ActsBeforeItSettles
        /\ ActsAreCounted /\ KeyGivenBack /\ ReplaysItsAnswer

Parts == HolderRuns /\ RecordIsItsHolders /\ ActsBeforeItSettles
           /\ ActsAreCounted /\ KeyGivenBack /\ ReplaysItsAnswer

(* A claim takes a key that is free, or whose record has lapsed. *)
LEMMA ClaimKeepsInv ==
  ASSUME IInv, NEW r \in Requests, pc[r] \in Claiming,
         record = NoRecord \/ ~record.live, Claimed(r), UNCHANGED hist
  PROVE  Parts'
<1> USE DEF IInv, TypeOK, Active, Claiming
<1>1. /\ record' = Fresh(r) /\ holder' = r
      /\ pc' = [pc EXCEPT ![r] = "running"]
      /\ UNCHANGED <<sql, print, from, acted, streamed, overrun, lost, lapses>>
  BY DEF Claimed, Goto, hist
<1>2. /\ Fresh(r) # NoRecord /\ Fresh(r).live /\ Fresh(r).state = "inFlight"
      /\ Fresh(r).print = print[r]
  <2>1. Fresh(r) \in [print : Prints, state : {"inFlight", "completed"},
                      response : Requests \union {NoOne}, live : BOOLEAN]
    BY DEF Fresh
  <2> QED
    BY <2>1, BoundsAssumption DEF Fresh
<1>3. HolderRuns'
  BY <1>1, <1>2 DEF HolderRuns
<1>4. RecordIsItsHolders'
  BY <1>1, <1>2 DEF RecordIsItsHolders
<1>5. r \notin acted /\ ActsBeforeItSettles'
  BY <1>1 DEF ActsBeforeItSettles
<1>6. ActsAreCounted'
  BY <1>1, <1>2, <1>5 DEF ActsAreCounted, Spent
<1>7. KeyGivenBack' /\ ReplaysItsAnswer'
  BY <1>1, <1>2 DEF KeyGivenBack, ReplaysItsAnswer
<1> QED
  BY <1>3, <1>4, <1>5, <1>6, <1>7 DEF Parts

(* A request that holds no claim goes on to its next call, or gives up. *)
LEMMA MoveKeepsInv ==
  ASSUME IInv, NEW r \in Requests, pc[r] \in Claiming \union {"idle"},
         NEW next \in Claiming \union {"failed"}, Retries(r, next), UNCHANGED hist
  PROVE  Parts'
<1> USE DEF IInv, TypeOK, Active, Claiming
<1>1. /\ pc' = [pc EXCEPT ![r] = next]
      /\ UNCHANGED <<sql, print, from, record, holder, acted, streamed, overrun, lost, lapses>>
  BY DEF Retries, Goto, hist
<1>2. HolderRuns' /\ RecordIsItsHolders'
  BY <1>1 DEF HolderRuns, RecordIsItsHolders
<1>3. ActsBeforeItSettles'
  BY <1>1 DEF ActsBeforeItSettles
<1>4. ActsAreCounted' /\ ReplaysItsAnswer'
  BY <1>1 DEF ActsAreCounted, Spent, ReplaysItsAnswer
<1>5. KeyGivenBack'
  BY <1>1 DEF KeyGivenBack
<1> QED
  BY <1>2, <1>3, <1>4, <1>5 DEF Parts

(* Every step keeps the invariant. *)
LEMMA Inductive == IInv /\ [Next]_vars /\ TypeOK' => IInv'
<1> SUFFICES ASSUME IInv, [Next]_vars, TypeOK' PROVE Parts'
  BY DEF IInv, Parts
<1> USE DEF IInv, TypeOK, Active, Claiming
<1>1. ASSUME NEW r \in Requests,
             Arrive(r) \/ ClaimInsert(r) \/ ClaimReplace(r) \/ ClaimAgain(r)
      PROVE  Parts'
  <2>1. CASE /\ pc[r] \in Claiming
             /\ record = NoRecord \/ ~record.live
             /\ Claimed(r) /\ UNCHANGED hist
    BY <2>1, ClaimKeepsInv
  <2>2. CASE \E next \in Claiming \union {"failed"} :
               /\ pc[r] \in Claiming \union {"idle"} /\ Retries(r, next) /\ UNCHANGED hist
    BY <2>2, MoveKeepsInv
  <2> QED
    BY <1>1, <2>1, <2>2 DEF Arrive, ClaimInsert, ClaimReplace, ClaimAgain
<1>2. ASSUME NEW r \in Requests, ClaimRead(r) PROVE Parts'
  <2>1. CASE record = NoRecord
    BY <1>2, <2>1, MoveKeepsInv DEF ClaimRead
  <2>2. CASE record # NoRecord
    <3>1. /\ pc' = [pc EXCEPT ![r] = Verdict(r)]
          /\ from' = [from EXCEPT ![r] = IF Verdict(r) = "replayed" THEN record.response ELSE NoOne]
          /\ UNCHANGED <<sql, print, record, holder, acted, streamed, overrun, lost, lapses>>
          /\ pc[r] = "read"
      BY <1>2, <2>2 DEF ClaimRead, hist
    <3>2. Verdict(r) \in {"reused", "inFlight", "replayed"}
      BY DEF Verdict
    <3>3. HolderRuns' /\ RecordIsItsHolders'
      BY <3>1, <3>2 DEF HolderRuns, RecordIsItsHolders
    <3>4. ActsBeforeItSettles'
      BY <3>1, <3>2 DEF ActsBeforeItSettles
    <3>5. ActsAreCounted' /\ KeyGivenBack'
      BY <3>1, <3>2 DEF ActsAreCounted, Spent, KeyGivenBack
    <3>6. Verdict(r) = "replayed" => record.print = print[r] /\ record.state = "completed"
      BY <2>2 DEF Verdict
    <3>7. ReplaysItsAnswer'
      BY <2>2, <3>1, <3>2, <3>6 DEF ReplaysItsAnswer, RecordIsItsHolders
    <3> QED
      BY <3>3, <3>4, <3>5, <3>7 DEF Parts
  <2> QED
    BY <2>1, <2>2
<1>3. ASSUME NEW r \in Requests, Answer(r) PROVE Parts'
  <2>1. /\ pc[r] = "running" /\ pc' = [pc EXCEPT ![r] = "complete"]
        /\ acted' = acted \union {r} /\ r \notin acted /\ r \notin streamed
        /\ UNCHANGED <<sql, print, from, record, holder, streamed, overrun, lost, lapses>>
    BY <1>3 DEF Answer, Retries, Goto, ActsBeforeItSettles
  <2>2. HolderRuns' /\ RecordIsItsHolders' /\ ActsBeforeItSettles'
    BY <2>1 DEF HolderRuns, RecordIsItsHolders, ActsBeforeItSettles
  <2>3. KeyGivenBack' /\ ReplaysItsAnswer'
    BY <2>1 DEF KeyGivenBack, ReplaysItsAnswer
  <2>4. ActsAreCounted'
    <3>1. (acted \ streamed)' = (acted \ streamed) \union {r} /\ r \notin acted \ streamed
      BY <2>1
    <3>2. /\ IsFiniteSet((acted \ streamed) \union {r})
          /\ Cardinality((acted \ streamed) \union {r}) = Cardinality(acted \ streamed) + 1
      <4>1. IsFiniteSet(acted \ streamed)
        BY DEF ActsAreCounted
      <4> QED
        BY <3>1, <4>1, FS_AddElement
    <3>3. ~overrun => ~Spent /\ Spent'
      BY <2>1 DEF Spent, HolderRuns
    <3>4. Cardinality(acted \ streamed) \in Nat
      BY FS_CardinalityType DEF ActsAreCounted
    <3>5. lapses \in Nat
      OBVIOUS
    <3>6. ~overrun => Cardinality((acted \ streamed)') <= lapses + 1
      <4>1. Cardinality((acted \ streamed)') = Cardinality(acted \ streamed) + 1
        BY <3>1, <3>2
      <4>2. ~overrun => Cardinality(acted \ streamed) <= lapses
        BY <3>3, <3>5 DEF ActsAreCounted
      <4> QED
        BY <3>4, <3>5, <4>1, <4>2
    <3>7. UNCHANGED <<overrun, lapses>>
      BY <2>1
    <3> QED
      BY <3>1, <3>2, <3>3, <3>6, <3>7 DEF ActsAreCounted
  <2> QED
    BY <2>2, <2>3, <2>4 DEF Parts
<1>4. ASSUME NEW r \in Requests, AnswerUnstorable(r) \/ Refuse(r) PROVE Parts'
  <2>1. /\ pc[r] = "running" /\ pc' = [pc EXCEPT ![r] = "release"] /\ r \notin acted
        /\ UNCHANGED <<sql, print, from, record, holder, overrun, lost, lapses>>
        /\ \/ acted' = acted \union {r} /\ streamed' = streamed \union {r}
           \/ UNCHANGED <<acted, streamed>>
    BY <1>4 DEF AnswerUnstorable, Refuse, Retries, Goto, hist, ActsBeforeItSettles
  <2>2. acted' \ streamed' = acted \ streamed
    BY <2>1
  <2>3. HolderRuns' /\ RecordIsItsHolders'
    BY <2>1, <2>2 DEF HolderRuns, RecordIsItsHolders
  <2>4. ActsBeforeItSettles'
    BY <2>1 DEF ActsBeforeItSettles
  <2>5. KeyGivenBack' /\ ReplaysItsAnswer' /\ ActsAreCounted'
    BY <2>1, <2>2 DEF KeyGivenBack, ReplaysItsAnswer, ActsAreCounted, Spent
  <2> QED
    BY <2>3, <2>4, <2>5 DEF Parts
<1>5. ASSUME NEW r \in Requests, Complete(r) PROVE Parts'
  <2>1. /\ pc[r] = "complete" /\ pc' = [pc EXCEPT ![r] = "answered"]
        /\ UNCHANGED <<sql, print, from, holder, acted, streamed, overrun, lost, lapses>>
    BY <1>5 DEF Complete, Goto, hist
  <2>2. r \in acted \ streamed
    BY <2>1 DEF ActsBeforeItSettles
  <2>3. CASE record = NoRecord
    <3>1. record' = NoRecord
      BY <1>5, <2>3 DEF Complete
    <3>2. HolderRuns' /\ RecordIsItsHolders' /\ ActsBeforeItSettles' /\ KeyGivenBack'
      BY <2>1, <2>3, <3>1 DEF HolderRuns, RecordIsItsHolders, ActsBeforeItSettles, KeyGivenBack
    <3>3. ActsAreCounted' /\ ReplaysItsAnswer'
      BY <2>1, <2>3, <3>1 DEF ActsAreCounted, Spent, ReplaysItsAnswer
    <3> QED
      BY <3>2, <3>3 DEF Parts
  <2>4. CASE record # NoRecord
    <3>1. record' = [record EXCEPT !.state = "completed", !.response = r]
      BY <1>5, <2>4 DEF Complete
    <3>2. /\ record'.state = "completed" /\ record'.response = r
          /\ record'.print = record.print /\ record'.live = record.live
      BY <2>4, <3>1
    <3>3. record' # NoRecord
      <4>1. record' \in [print : Prints, state : {"inFlight", "completed"},
                         response : Requests \union {NoOne}, live : BOOLEAN]
        BY <2>4, <3>1
      <4> QED
        BY <4>1, BoundsAssumption
    <3>4. ~overrun => holder = r /\ \A q \in Requests : q # r => pc[q] \notin Active
      BY <2>1 DEF HolderRuns
    <3>5. HolderRuns' /\ KeyGivenBack' /\ ReplaysItsAnswer'
      BY <2>1, <3>2, <3>4 DEF HolderRuns, KeyGivenBack, ReplaysItsAnswer
    <3>6. RecordIsItsHolders'
      BY <2>1, <2>2, <2>4, <3>2, <3>4 DEF RecordIsItsHolders
    <3>7. ActsBeforeItSettles' /\ ActsAreCounted'
      BY <2>1, <2>4, <3>2, <3>3 DEF ActsBeforeItSettles, ActsAreCounted, Spent
    <3> QED
      BY <3>5, <3>6, <3>7 DEF Parts
  <2> QED
    BY <2>3, <2>4
<1>6. ASSUME NEW r \in Requests, Release(r) PROVE Parts'
  <2>1. /\ pc[r] = "release" /\ pc' = [pc EXCEPT ![r] = "refused"] /\ record' = NoRecord
        /\ UNCHANGED <<sql, print, from, acted, streamed, overrun, lost, lapses>>
    BY <1>6 DEF Release, Goto, hist
  <2>2. HolderRuns' /\ RecordIsItsHolders' /\ KeyGivenBack' /\ ReplaysItsAnswer'
    BY <2>1 DEF HolderRuns, RecordIsItsHolders, KeyGivenBack, ReplaysItsAnswer
  <2>3. ActsBeforeItSettles'
    BY <2>1 DEF ActsBeforeItSettles
  <2>4. ~overrun => ~Spent
    BY <2>1 DEF HolderRuns, ActsBeforeItSettles, Spent
  <2>5. ActsAreCounted'
    BY <2>1, <2>4 DEF ActsAreCounted, Spent
  <2> QED
    BY <2>2, <2>3, <2>5 DEF Parts
<1>7. ASSUME NEW r \in Requests, Lose(r) PROVE Parts'
  <2>1. /\ pc[r] \in Active \union Claiming /\ pc' = [pc EXCEPT ![r] = "failed"]
        /\ lost' = lost \union {r}
        /\ UNCHANGED <<sql, print, from, record, holder, acted, streamed, overrun, lapses>>
    BY <1>7 DEF Lose, Retries, Goto
  <2>2. HolderRuns' /\ RecordIsItsHolders' /\ ActsBeforeItSettles'
    BY <2>1 DEF HolderRuns, RecordIsItsHolders, ActsBeforeItSettles
  <2>3. KeyGivenBack' /\ ReplaysItsAnswer' /\ ActsAreCounted'
    BY <2>1 DEF KeyGivenBack, ReplaysItsAnswer, ActsAreCounted, Spent
  <2> QED
    BY <2>2, <2>3 DEF Parts
<1>8. CASE Lapse
  <2>1. /\ record # NoRecord /\ record.live /\ record' = [record EXCEPT !.live = FALSE]
        /\ overrun' = (overrun \/ pc[holder] \in Active) /\ lapses' = lapses + 1
        /\ UNCHANGED <<sql, print, from, pc, holder, acted, streamed, lost>>
    BY <1>8 DEF Lapse, reqs
  <2>2. /\ record'.state = record.state /\ record'.response = record.response
        /\ record'.print = record.print /\ ~record'.live
    BY <2>1
  <2>3. ~overrun' => ~overrun /\ pc[holder] \notin Active
    BY <2>1
  <2>4. HolderRuns'
    BY <2>1, <2>3 DEF HolderRuns
  <2>5. RecordIsItsHolders' /\ KeyGivenBack' /\ ReplaysItsAnswer'
    BY <2>1, <2>2, <2>3 DEF RecordIsItsHolders, KeyGivenBack, ReplaysItsAnswer
  <2>6. ActsBeforeItSettles'
    BY <2>1 DEF ActsBeforeItSettles
  <2>7. ActsAreCounted'
    <3>1. Cardinality(acted \ streamed) \in Nat /\ lapses \in Nat
      BY FS_CardinalityType DEF ActsAreCounted
    <3>2. ~Spent'
      BY <2>2 DEF Spent
    <3> QED
      BY <2>1, <2>3, <3>1, <3>2 DEF ActsAreCounted
  <2> QED
    BY <2>4, <2>5, <2>6, <2>7 DEF Parts
<1>9. CASE Reap
  <2>1. /\ record # NoRecord /\ ~record.live /\ record' = NoRecord
        /\ UNCHANGED <<sql, print, from, pc, acted, streamed, overrun, lost, lapses>>
    BY <1>9 DEF Reap, reqs, hist
  <2>2. HolderRuns' /\ RecordIsItsHolders' /\ KeyGivenBack' /\ ReplaysItsAnswer'
    BY <2>1 DEF HolderRuns, RecordIsItsHolders, KeyGivenBack, ReplaysItsAnswer
  <2>3. ActsBeforeItSettles' /\ ActsAreCounted'
    BY <2>1 DEF ActsBeforeItSettles, ActsAreCounted, Spent
  <2> QED
    BY <2>2, <2>3 DEF Parts
<1>10. CASE UNCHANGED vars
  BY <1>10 DEF vars, reqs, hist, Parts, HolderRuns, RecordIsItsHolders, ActsBeforeItSettles,
               ActsAreCounted, Spent, KeyGivenBack, ReplaysItsAnswer
<1> QED
  BY <1>1, <1>2, <1>3, <1>4, <1>5, <1>6, <1>7, <1>8, <1>9, <1>10 DEF Next

(* The invariant holds in every reachable state. *)
LEMMA Invariant == Spec => []IInv
<1>1. Init => IInv
  <2>1. MaxLapses \in Nat
    BY BoundsAssumption
  <2>2. Init => TypeOK
    <3>1. Init => overrun \in BOOLEAN /\ sql \in BOOLEAN
      BY Zenon DEF Init
    <3> QED
      BY <2>1, <3>1 DEF Init, TypeOK, Active, Claiming
  <2>3. Init => HolderRuns /\ RecordIsItsHolders /\ ActsBeforeItSettles /\ KeyGivenBack
                  /\ ReplaysItsAnswer
    BY DEF Init, HolderRuns, RecordIsItsHolders, ActsBeforeItSettles, KeyGivenBack,
           ReplaysItsAnswer, Active
  <2>4. Init => ActsAreCounted
    <3>1. Init => acted \ streamed = {} /\ lapses = 0 /\ ~Spent
      BY DEF Init, Spent
    <3> QED
      BY <3>1, FS_EmptySet DEF ActsAreCounted
  <2> QED
    BY <2>2, <2>3, <2>4 DEF IInv
<1> QED
  BY <1>1, Inductive, TypeCorrect, PTL DEF Spec

-----------------------------------------------------------------------------
(* No two handlers run under one key, whatever calls of the claims cut each  *)
(* other, unless a request outlasted its record's retention.                 *)
THEOREM RunsOneAtATime == Spec => []OneAtATime
<1>1. IInv => OneAtATime
  BY DEF IInv, HolderRuns, OneAtATime
<1> QED
  BY <1>1, Invariant, PTL

(* The key acts once in each retention of its record. *)
THEOREM ActsOncePerRetention == Spec => []OneActPerRetention
<1>1. IInv => OneActPerRetention
  <2> SUFFICES ASSUME IInv, ~overrun PROVE Cardinality(acted \ streamed) <= 1 + lapses
    BY DEF OneActPerRetention
  <2>1. Cardinality(acted \ streamed) \in Nat /\ lapses \in Nat
    BY FS_CardinalityType DEF IInv, TypeOK, ActsAreCounted
  <2> QED
    BY <2>1 DEF IInv, ActsAreCounted
<1> QED
  BY <1>1, Invariant, PTL

(* A replay is the stored answer of a request with the same fingerprint. *)
THEOREM ReplaysTheAnswer == Spec => []ReplaysItsAnswer
<1>1. IInv => ReplaysItsAnswer
  BY DEF IInv
<1> QED
  BY <1>1, Invariant, PTL

(* A key in flight is one whose request is under way or was cut off. *)
THEOREM GivesTheKeyBack == Spec => []KeyGivenBack
<1>1. IInv => KeyGivenBack
  BY DEF IInv
<1> QED
  BY <1>1, Invariant, PTL
=============================================================================
