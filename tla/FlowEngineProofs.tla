-------------------------- MODULE FlowEngineProofs --------------------------
(***************************************************************************)
(* Proofs about one flow, for any slips, outcomes, callers and bounds: of  *)
(* SlipInterpreter alone (Spec), and beside the callers of the flow engine *)
(* (FlowSpec), for which the facts about a step of the walk are stated     *)
(* once and used twice.                                                    *)
(***************************************************************************)
EXTENDS FlowEngine, FiniteSetTheorems, SequenceTheorems, TLAPS

-----------------------------------------------------------------------------
(* Types *)

Phases == {"starting", "walking", "undoing", "closing", "telling", "returning", "over"}
Results == Finals \union {"none", "suspended", "interrupted", "died"}
States == Finals \union {"running", "waiting", "suspended", "interrupted"}

(* A walk that the journal, which holds these answers, can have come to.     *)
WalkOf(w, answers) ==
  /\ w \in [phase : Phases, pc : [Steps -> Pcs], done : Seq(Steps), stranded : Steps \union {0},
            verdict : Finals \union {"none", "suspended", "died"}, at : Steps \union {0}]
  /\ w.phase \in {"closing", "telling", "returning"} => w.verdict # "none"
  /\ w.phase \in {"closing", "telling"} => w.verdict # "died"
  /\ \A i \in Steps : w.pc[i] \in {"answered", "stranded"} => <<"race", i>> \in answers
  /\ Range(w.done) \subseteq {i \in Steps : w.pc[i] = "ok" /\ Kind(i) = "compensatable"}

(* What every step of a walk, and of the callers beside it, keeps.           *)
Types ==
  /\ slip \in Slips /\ result \in Results
  /\ status \in [state : States, waiting : Steps \union {0}]
  /\ address \in [correlation : Steps \union {0}, accepts : Steps \union {0}]
  /\ news \in Seq([name : Names, step : Steps \union {0}, version : Nat])
  /\ acted \subseteq ({"action", "undo"} \X Steps)
  /\ deferred \in [Steps -> Outcomes \union {"empty", "unnamed"}] /\ clock \subseteq Steps
  /\ WalkOf(walk, DOMAIN journal)
  /\ crashes \in 0 .. MaxCrashes /\ Cardinality(defects) <= MaxDefects

(* The steps of a slip are the ordinals up to its length.                    *)
LEMMA StepsCounted ==
  ASSUME slip \in Slips
  PROVE  Len(slip) \in Nat /\ Steps = 1 .. Len(slip) /\ slip \in [Steps -> Step]
<1>1. slip \in Seq(Step)
  BY SlipsAssumption
<1> QED
  BY <1>1, LenProperties DEF Steps

(* A set of steps that is not empty has a first one: the steps up to the     *)
(* first are the fewest.                                                     *)
LEMMA FirstOfSteps ==
  ASSUME slip \in Slips, NEW S \in SUBSET Steps, S # {}
  PROVE  Min(S) \in S /\ \A j \in S : Min(S) <= j
<1> DEFINE UpTo(x) == {y \in S : y <= x}
           F == {UpTo(x) : x \in S}
<1>1. IsFiniteSet(S) /\ S \subseteq Nat
  <2>1. IsFiniteSet(1 .. Len(slip))
    BY StepsCounted, FS_Interval
  <2> QED
    BY <2>1, StepsCounted, FS_Subset
<1>2. IsWellFoundedOn(StrictSubsetOrdering(S), FiniteSubsetsOf(S))
  BY FS_StrictSubsetOrderingWellFounded
<1>3. F \subseteq FiniteSubsetsOf(S) /\ F # {}
  <2>1. \A x \in S : UpTo(x) \in SUBSET S
    OBVIOUS
  <2>2. F \subseteq SUBSET S /\ F # {}
    BY <2>1
  <2> QED
    BY <2>2, <1>1, FS_FiniteSubsetsOfFinite
<1>4. PICK T \in F : \A U \in F : <<U, T>> \notin StrictSubsetOrdering(S)
  <2> HIDE DEF F
  <2> QED
    BY <1>2, <1>3, WFMin
<1>5. PICK x \in S : T = UpTo(x)
  BY <1>4
<1>6. ASSUME NEW y \in S, y < x PROVE FALSE
  <2>1. UpTo(y) \in F
    OBVIOUS
  <2>2. UpTo(y) \subseteq UpTo(x) /\ x \in UpTo(x) /\ x \notin UpTo(y)
    <3>1. \A z \in S : z \in Nat /\ (z <= y => z <= x) /\ y \in Nat /\ x \in Nat /\ ~(x <= y)
      BY <1>1, <1>6
    <3> QED
      BY <3>1
  <2>3. <<UpTo(y), T>> \in StrictSubsetOrdering(S)
    BY <1>5, <2>2 DEF StrictSubsetOrdering
  <2> QED
    BY <1>4, <2>1, <2>3
<1>7. x \in S /\ \A y \in S : x <= y
  BY <1>1, <1>6
<1> QED
  BY <1>7 DEF Min


(* A fresh walk fits any journal.                                            *)
LEMMA FreshFits == ASSUME NEW answers PROVE WalkOf(Fresh, answers)
<1>1. Fresh.pc \in [Steps -> Pcs] /\ \A i \in Steps : Fresh.pc[i] = "todo"
  BY DEF Fresh, Pcs
<1>2. Fresh.done = <<>> /\ <<>> \in Seq(Steps) /\ Range(<<>>) = {}
  BY EmptySeq DEF Fresh, Range
<1> QED
  BY <1>1, <1>2 DEF WalkOf, Fresh, Phases, Finals

(* A step that is not done and goes on keeps the walk well typed, if an      *)
(* answered wait is in the journal.                                          *)
LEMMA MoveFits ==
  ASSUME NEW answers, NEW more, answers \subseteq more, WalkOf(walk, answers),
         NEW i \in Steps, walk.pc[i] # "ok", NEW p \in Pcs,
         p \in {"answered", "stranded"} => <<"race", i>> \in more
  PROVE  WalkOf(Move(i, p), more)
<1>1. walk.pc \in [Steps -> Pcs]
  BY DEF WalkOf
<1>2. Move(i, p).pc = [walk.pc EXCEPT ![i] = p] /\ Move(i, p).done = walk.done
  BY DEF WalkOf, Move
<1>3. Move(i, p).pc \in [Steps -> Pcs]
  BY <1>1, <1>2
<1>4. Range(walk.done) \subseteq {j \in Steps : Move(i, p).pc[j] = "ok" /\ Kind(j) = "compensatable"}
  BY <1>1, <1>2 DEF WalkOf
<1>5. \A j \in Steps : Move(i, p).pc[j] \in {"answered", "stranded"} => <<"race", j>> \in more
  BY <1>1, <1>2 DEF WalkOf
<1> QED
  BY <1>2, <1>3, <1>4, <1>5 DEF WalkOf, Move

(* So does one that succeeds.                                                *)
LEMMA DoneFits ==
  ASSUME NEW answers, NEW more, answers \subseteq more, WalkOf(walk, answers),
         NEW i \in Steps
  PROVE  WalkOf(Done(i), more)
<1> DEFINE w == Done(i)
<1>1. walk.pc \in [Steps -> Pcs] /\ walk.done \in Seq(Steps)
  BY DEF WalkOf
<1>2. w.pc = [walk.pc EXCEPT ![i] = "ok"]
  BY DEF WalkOf, Done
<1>3. w.done = IF Kind(i) = "compensatable" THEN Append(walk.done, i) ELSE walk.done
  BY DEF WalkOf, Done
<1>4. w.pc \in [Steps -> Pcs]
  BY <1>1, <1>2 DEF Pcs
<1>5. Range(Append(walk.done, i)) = Range(walk.done) \union {i} /\ Append(walk.done, i) \in Seq(Steps)
  <2>1. Append(walk.done, i) \in Seq(Steps) /\ Append(walk.done, i) = walk.done \o <<i>>
    BY <1>1, AppendProperties, AppendIsConcat
  <2>2. <<i>> \in Seq(Steps) /\ Range(<<i>>) = {i}
    BY DEF Range
  <2>3. Range(walk.done \o <<i>>) = Range(walk.done) \union Range(<<i>>)
    <3>1. walk.done \in Seq(Steps) /\ <<i>> \in Seq(Steps)
      BY <1>1, <2>2
    <3> HIDE <1>1, <2>1, <2>2
    <3> QED
      BY <3>1, RangeConcatenation
  <2> QED
    BY <2>1, <2>2, <2>3
<1>6. Range(w.done) \subseteq {j \in Steps : w.pc[j] = "ok" /\ Kind(j) = "compensatable"}
  BY <1>1, <1>2, <1>3, <1>5 DEF WalkOf
<1>7. \A j \in Steps : w.pc[j] \in {"answered", "stranded"} => <<"race", j>> \in more
  BY <1>1, <1>2 DEF WalkOf
<1>8. w.done \in Seq(Steps)
  BY <1>1, <1>3, <1>5
<1> QED
  BY <1>2, <1>4, <1>6, <1>7, <1>8 DEF WalkOf, Done

(* What was done without its last is done still.                             *)
LEMMA FrontFits ==
  ASSUME NEW answers, NEW more, answers \subseteq more, WalkOf(walk, answers), walk.done # <<>>
  PROVE  /\ NextUndone(walk.done) \in Range(walk.done)
         /\ WalkOf([walk EXCEPT !.done = Front(@)], more)
<1> DEFINE d == walk.done
<1>1. d \in Seq(Steps) /\ Len(d) \in Nat \ {0}
  BY EmptySeq DEF WalkOf
<1>2. Range(d) = {d[n] : n \in 1 .. Len(d)}
  BY <1>1, RangeEquality
<1>3. d[Len(d)] \in Range(d)
  BY <1>1, <1>2
<1>4. \A n \in 1 .. Len(d) - 1 : d[n] \in Steps
  BY <1>1, ElementOfSeq
<1>5. /\ Front(d) \in Seq(Steps) /\ Len(Front(d)) = Len(d) - 1
      /\ \A n \in 1 .. Len(d) - 1 : Front(d)[n] = d[n]
  BY <1>1, <1>4, SubSeqProperties DEF Front
<1>6. Range(Front(d)) \subseteq Range(d)
  BY <1>1, <1>2, <1>5, RangeEquality
<1> QED
  BY <1>1, <1>3, <1>5, <1>6 DEF WalkOf, NextUndone, Last


(* An activity answers: the walk goes on, or starts afresh.                  *)
LEMMA AnswersFit ==
  ASSUME Types, NEW a, NEW r, NEW next, Answers(a, r, next), slip' = slip,
         WalkOf(next, DOMAIN journal \union {a})
  PROVE  WalkOf(walk, DOMAIN journal)' /\ crashes' \in 0 .. MaxCrashes
<1>1. (WalkOf(walk, DOMAIN journal))' <=> WalkOf(walk', DOMAIN journal')
  BY DEF WalkOf, Steps, Kind
<1>2. CASE Journaled(a)
  <2>1. walk' = next /\ journal' = journal /\ crashes' = crashes
    BY <1>2 DEF Answers
  <2>2. DOMAIN journal \union {a} = DOMAIN journal
    BY <1>2 DEF Journaled
  <2> QED
    BY <1>1, <2>1, <2>2 DEF Types
<1>3. CASE ~Journaled(a) /\ walk' = next
             /\ journal' = [b \in DOMAIN journal \union {a} |-> IF b = a THEN r ELSE journal[b]]
             /\ UNCHANGED crashes
  BY <1>1, <1>3 DEF Types
<1>4. CASE crashes < MaxCrashes /\ crashes' = crashes + 1 /\ walk' = Fresh /\ UNCHANGED journal
  BY <1>1, <1>4, FreshFits, DialsAssumption DEF Types
<1> QED
  BY <1>2, <1>3, <1>4 DEF Answers

(* The record of a flow is written.                                          *)
LEMMA RecordFits ==
  ASSUME Types, NEW a, NEW state \in States, NEW waiting \in Steps \union {0}, NEW next,
         Record(a, state, waiting, next), WalkOf(next, DOMAIN journal \union {a})
  PROVE  Types'
<1>1. slip' = slip /\ Steps' = Steps
  BY DEF Record, Steps
<1>2. WalkOf(walk, DOMAIN journal)' /\ crashes' \in 0 .. MaxCrashes
  BY <1>1, AnswersFit DEF Record
<1>3. status' \in [state : States, waiting : Steps \union {0}]
  BY DEF Record, Written, Types
<1>4. address' \in [correlation : Steps \union {0}, accepts : Steps \union {0}]
  BY DEF Record, Written, AddressOf, Types
<1> QED
  BY <1>1, <1>2, <1>3, <1>4 DEF Record, Types

(* An event is announced.                                                    *)
LEMMA AnnounceFits ==
  ASSUME Types, NEW name \in Names, NEW i \in Steps \union {0}, NEW ordinal \in Nat, NEW next,
         Announce(name, i, ordinal, next), WalkOf(next, DOMAIN journal \union {<<name, i>>})
  PROVE  Types'
<1>1. slip' = slip /\ Steps' = Steps
  BY DEF Announce, Steps
<1>2. WalkOf(walk, DOMAIN journal)' /\ crashes' \in 0 .. MaxCrashes
  BY <1>1, AnswersFit DEF Announce
<1>3. news' \in Seq([name : Names, step : Steps \union {0}, version : Nat])
  <2> DEFINE e == [name |-> name, step |-> i, version |-> ordinal]
             E == [name : Names, step : Steps \union {0}, version : Nat]
  <2>1. e \in E /\ news \in Seq(E)
    BY DEF Types
  <2>2. news' = news \/ news' = Append(news, e)
    BY DEF Announce
  <2>3. Append(news, e) \in Seq(E)
    <3> HIDE DEF e, E
    <3> QED
      BY <2>1, AppendProperties
  <2> QED
    BY <2>1, <2>2, <2>3
<1> QED
  BY <1>1, <1>2, <1>3 DEF Announce, Types

(* A participant is called.                                                  *)
LEMMA CallFits ==
  ASSUME Types, NEW kind \in {"action", "undo"}, NEW i \in Steps,
         NEW succeeded, NEW refused, Call(kind, i, succeeded, refused),
         WalkOf(succeeded, DOMAIN journal \union {<<kind, i>>}),
         WalkOf(refused, DOMAIN journal \union {<<kind, i>>})
  PROVE  Types'
<1>1. slip' = slip /\ Steps' = Steps
  BY DEF Call, Steps
<1>2. PICK r : /\ acted' = IF r = "ok" THEN acted \union {<<kind, i>>} ELSE acted
               /\ Answers(<<kind, i>>, r, IF r = "ok" THEN succeeded ELSE refused)
  BY DEF Call
<1>3. WalkOf(walk, DOMAIN journal)' /\ crashes' \in 0 .. MaxCrashes
  <2>1. PICK next : next = IF r = "ok" THEN succeeded ELSE refused
    OBVIOUS
  <2>2. WalkOf(next, DOMAIN journal \union {<<kind, i>>}) /\ Answers(<<kind, i>>, r, next)
    BY <1>2, <2>1
  <2> QED
    BY <1>1, <2>2, AnswersFit
<1>4. acted' \subseteq {"action", "undo"} \X Steps
  BY <1>2 DEF Types
<1> QED
  BY <1>1, <1>3, <1>4 DEF Call, Types


(* A step of a slip is reached, called, parked at or passed.                 *)
LEMMA StepTyped == ASSUME Types, NEW i \in Steps, StepOf(i) PROVE Types'
<1> DEFINE K == DOMAIN journal
<1>0. WalkOf(walk, K) /\ walk.pc \in [Steps -> Pcs]
  BY DEF Types, WalkOf
<1>1. CASE Begin(i)
  <2>1. walk.pc[i] # "ok" /\ "noted" \in Pcs /\ "noted" \notin {"answered", "stranded"}
    BY <1>1 DEF Begin, Turn, Pcs
  <2>2. WalkOf(Move(i, "noted"), K \union {<<"running", i>>})
    BY <1>0, <2>1, MoveFits
  <2> QED
    BY <1>1, <2>2, RecordFits DEF Begin, States
<1>2. CASE Act(i)
  <2>1. walk.pc[i] # "ok" /\ "failed" \in Pcs /\ "failed" \notin {"answered", "stranded"}
    BY <1>2 DEF Act, Pcs
  <2>2. WalkOf(Done(i), K \union {<<"action", i>>})
    BY <1>0, DoneFits
  <2>3. WalkOf(Move(i, "failed"), K \union {<<"action", i>>})
    BY <1>0, <2>1, MoveFits
  <2> QED
    BY <1>2, <2>2, <2>3, CallFits DEF Act
<1>3. CASE Park(i)
  <2> DEFINE p == IF PastCommit(i) THEN "parked" ELSE "waiting"
  <2>1. walk.pc[i] # "ok" /\ p \in Pcs /\ p \notin {"answered", "stranded"}
    BY <1>3 DEF Park, Turn, Pcs
  <2>2. WalkOf(Move(i, p), K \union {<<"waiting", i>>})
    BY <1>0, <2>1, MoveFits
  <2> QED
    BY <1>3, <2>2, RecordFits DEF Park, States
<1>4. CASE AnnounceWait(i)
  <2>1. walk.pc[i] # "ok" /\ "waiting" \in Pcs /\ "waiting" \notin {"answered", "stranded"}
    BY <1>4 DEF AnnounceWait, Pcs
  <2>2. WalkOf(Move(i, "waiting"), K \union {<<"flow.waiting", i>>})
    BY <1>0, <2>1, MoveFits
  <2>3. i \in Nat /\ i \in Steps \union {0}
    BY StepsCounted DEF Types
  <2>4. "flow.waiting" \in Names
    BY DEF Names
  <2> QED
    BY <1>4, <2>2, <2>3, <2>4, AnnounceFits DEF AnnounceWait
<1>5. CASE Race(i)
  <2> DEFINE a == <<"race", i>>
             After(r) == IF r # "timeout" THEN Move(i, "answered")
                         ELSE IF slip[i].onTimeout = "strand"
                           THEN [walk EXCEPT !.pc[i] = "stranded", !.stranded = i]
                           ELSE Move(i, "failed")
  <2>1. PICK r : Answers(a, r, After(r))
    BY <1>5 DEF Race
  <2>2. walk.pc[i] # "ok" /\ walk.pc[i] = "waiting"
    BY <1>5 DEF Race
  <2>3. WalkOf(Move(i, "answered"), K \union {a}) /\ WalkOf(Move(i, "failed"), K \union {a})
    BY <1>0, <2>2, MoveFits DEF Pcs
  <2>4. WalkOf(Move(i, "stranded"), K \union {a})
    BY <1>0, <2>2, MoveFits DEF Pcs
  <2>5. [walk EXCEPT !.pc[i] = "stranded", !.stranded = i] = [Move(i, "stranded") EXCEPT !.stranded = i]
    BY <1>0 DEF Move, WalkOf
  <2>6. WalkOf([Move(i, "stranded") EXCEPT !.stranded = i], K \union {a})
    BY <2>4 DEF WalkOf
  <2>7. PICK next : next = After(r)
    OBVIOUS
  <2>8. WalkOf(next, K \union {a}) /\ Answers(a, r, next)
    BY <2>1, <2>3, <2>5, <2>6, <2>7
  <2>9. slip' = slip /\ Steps' = Steps
    BY <1>5 DEF Race, Steps
  <2>10. WalkOf(walk, DOMAIN journal)' /\ crashes' \in 0 .. MaxCrashes
    BY <2>8, <2>9, AnswersFit
  <2> QED
    BY <1>5, <2>9, <2>10 DEF Race, Types
<1>6. CASE Resume(i)
  <2>1. walk.pc[i] # "ok" /\ walk.pc[i] = "answered"
    BY <1>6 DEF Resume
  <2>2. WalkOf(Move(i, "ok"), K \union {<<"resumed", i>>})
    BY <1>0, <2>1, MoveFits DEF Pcs
  <2> QED
    BY <1>6, <2>2, RecordFits DEF Resume, States
<1>7. CASE Pass(i)
  <2>1. walk.pc[i] # "ok"
    BY <1>7 DEF Pass, Turn
  <2>2. WalkOf(Move(i, "void"), K) /\ WalkOf(Move(i, "skipped"), K)
    BY <1>0, <2>1, MoveFits DEF Pcs
  <2>3. walk' = Move(i, "void") \/ walk' = Move(i, "skipped")
    BY <1>7 DEF Pass
  <2>4. WalkOf(walk', K)
    BY <2>2, <2>3
  <2> QED
    BY <1>7, <2>4 DEF Pass, Types, durable, Steps, Kind, WalkOf
<1> QED
  BY <1>1, <1>2, <1>3, <1>4, <1>5, <1>6, <1>7 DEF StepOf

(* The walk closes with a verdict.                                           *)
LEMMA ClosingFits ==
  ASSUME NEW answers, NEW more, answers \subseteq more, WalkOf(walk, answers),
         NEW v \in Finals \union {"suspended"}, NEW i \in Steps \union {0}
  PROVE  WalkOf(Closing(v, i), more)
<1>1. v # "none" /\ v # "died" /\ v \in Finals \union {"none", "suspended", "died"}
  BY DEF Finals
<1> QED
  BY <1>1 DEF WalkOf, Closing, Phases

(* What the walk announces its end with has its place among the steps.       *)
LEMMA EndingTyped == ASSUME Types, Ending PROVE Types'
<1> DEFINE K == DOMAIN journal
<1>0. WalkOf(walk, K) /\ walk.pc \in [Steps -> Pcs] /\ slip \in Slips
  BY DEF Types, WalkOf
<1>1. CASE Decide
  <2>1. Failed # {} => Min(Failed) \in Steps
    BY <1>0, FirstOfSteps DEF Failed
  <2>2. WalkOf(walk', K)
    <3>1. Failed # {} => WalkOf(Closing("suspended", Min(Failed)), K)
      BY <1>0, <2>1, ClosingFits
    <3>2. Failed # {} => WalkOf([walk EXCEPT !.phase = "undoing", !.at = Min(Failed)], K)
      BY <1>0, <2>1 DEF WalkOf, Phases
    <3>3. WalkOf(Closing("stranded", walk.stranded), K)
      <4>1. walk.stranded \in Steps \union {0}
        BY <1>0 DEF WalkOf
      <4> QED
        BY <1>0, <4>1, ClosingFits DEF Finals
    <3>4. WalkOf(Closing("completed", 0), K)
      BY <1>0, ClosingFits DEF Finals
    <3> QED
      BY <1>1, <3>1, <3>2, <3>3, <3>4 DEF Decide
  <2> QED
    BY <1>1, <2>2 DEF Decide, Types, durable, Steps, Kind, WalkOf
<1>2. CASE Undo
  <2> DEFINE u == NextUndone(walk.done)
  <2>1. WalkOf([walk EXCEPT !.done = Front(@)], K \union {<<"undo", u>>}) /\ u \in Range(walk.done)
    BY <1>0, <1>2, FrontFits DEF Undo
  <2>2. u \in Steps
    BY <1>0, <2>1 DEF WalkOf
  <2>3. WalkOf(Closing("failed", u), K \union {<<"undo", u>>})
    BY <1>0, <2>2, ClosingFits DEF Finals
  <2> QED
    BY <1>2, <2>1, <2>2, <2>3, CallFits DEF Undo
<1>3. CASE Undone
  <2>1. WalkOf(walk', K)
    <3>1. walk.at \in Steps \union {0}
      BY <1>0 DEF WalkOf
    <3> QED
      BY <1>0, <1>3, <3>1, ClosingFits DEF Undone, Finals
  <2> QED
    BY <1>3, <2>1 DEF Undone, Types, durable, Steps, Kind, WalkOf
<1>4. CASE Close
  <2>1. walk.verdict \in States
    BY <1>0, <1>4 DEF Close, WalkOf, States
  <2>2. WalkOf([walk EXCEPT !.phase = "telling"], K \union {<<walk.verdict, walk.at>>})
    BY <1>0, <1>4 DEF Close, WalkOf, Phases
  <2> QED
    BY <1>4, <2>1, <2>2, RecordFits DEF Close
<1>5. CASE Tell
  <2>1. EventOf(walk.verdict) \in Names
    BY DEF EventOf, Names
  <2>2. walk.at \in Steps \union {0} /\ OrdinalOf(walk.verdict, walk.at) \in Nat
    BY <1>0, StepsCounted DEF WalkOf, OrdinalOf
  <2>3. \A more : K \subseteq more => WalkOf([walk EXCEPT !.phase = "returning"], more)
    BY <1>0, <1>5 DEF Tell, WalkOf, Phases
  <2> QED
    BY <1>5, <2>1, <2>2, <2>3, AnnounceFits DEF Tell
<1>6. CASE Return
  <2>1. WalkOf(walk', K) /\ result' \in Results
    BY <1>0, <1>6 DEF Return, WalkOf, Phases, Results
  <2> QED
    BY <1>6, <2>1 DEF Return, Types, Steps, Kind, WalkOf
<1> QED
  BY <1>1, <1>2, <1>3, <1>4, <1>5, <1>6 DEF Ending

(* A store's failure ends the walk, or what is left of a group.              *)
Defect == Collapse \/ \E i \in Steps : Breaks(i)

(* A note is an activity that writes: calls and races do not.                *)
Note(a) == \A i : a # <<"action", i>> /\ a # <<"undo", i>> /\ a # <<"race", i>>

(* One more activity died, without an answer.                                *)
LEMMA DefectAdds ==
  ASSUME Types, Defect
  PROVE  /\ \E a : Note(a) /\ ~Journaled(a) /\ defects' = defects \union {a}
         /\ Cardinality(defects') <= MaxDefects
         /\ UNCHANGED <<slip, journal, result, acted, deferred, clock, crashes>>
<1>1. walk.verdict \notin {"action", "undo", "race"} /\ EventOf(walk.verdict) \notin {"action", "undo", "race"}
  BY DEF Types, WalkOf, Finals, EventOf
<1>2. ASSUME NEW a, NEW next, Dies(a, next), Note(a)
      PROVE  /\ \E b : Note(b) /\ ~Journaled(b) /\ defects' = defects \union {b}
             /\ Cardinality(defects') <= MaxDefects
             /\ UNCHANGED <<slip, journal, result, acted, deferred, clock, crashes>>
  BY <1>2 DEF Dies
<1>3. CASE Collapse
  <2>1. \/ Dies(<<"flow.started", 0>>, Died)
        \/ Dies(<<walk.verdict, walk.at>>, Died)
        \/ Dies(<<EventOf(walk.verdict), walk.at>>, Died)
    BY <1>3 DEF Collapse, RecordDies, AnnounceDies
  <2>2. Note(<<"flow.started", 0>>) /\ Note(<<walk.verdict, walk.at>>) /\ Note(<<EventOf(walk.verdict), walk.at>>)
    BY <1>1 DEF Note
  <2> QED
    BY <1>2, <2>1, <2>2
<1>4. ASSUME NEW i \in Steps, Breaks(i)
      PROVE  \E a : Note(a) /\ Dies(a, Lost(i))
  <2>1. \E name \in {"running", "waiting", "flow.waiting", "resumed"} : Dies(<<name, i>>, Lost(i))
    BY <1>4 DEF Breaks, RecordDies, AnnounceDies
  <2> QED
    BY <2>1 DEF Note
<1> QED
  BY <1>2, <1>3, <1>4 DEF Defect

(* What is left of a group is lost with the step that died.                  *)
LEMMA LostFits ==
  ASSUME NEW answers, WalkOf(walk, answers), NEW i \in Steps, walk.pc[i] # "ok"
  PROVE  WalkOf(Lost(i), answers)
<1> DEFINE pc == Lost(i).pc
<1>1. walk.pc \in [Steps -> Pcs]
  BY DEF WalkOf
<1>2. pc = [j \in Steps |-> IF j = i THEN "died" ELSE
              IF j \in Group(i) /\ walk.pc[j] = "todo" THEN "lost" ELSE walk.pc[j]]
  BY DEF WalkOf, Lost
<1>3. pc \in [Steps -> Pcs] /\ \A j \in Steps : pc[j] \in {"died", "lost", walk.pc[j]}
  BY <1>1, <1>2 DEF Pcs
<1>4. \A j \in Steps : walk.pc[j] = "ok" => pc[j] = "ok"
  BY <1>2
<1>5. /\ Lost(i) = [walk EXCEPT !.pc = pc]
      /\ Lost(i).done = walk.done
  BY DEF WalkOf, Lost
<1> HIDE DEF pc
<1> QED
  BY <1>3, <1>4, <1>5 DEF WalkOf

(* What a store that failed wrote, if it did, is well typed.                 *)
LEMMA DefectTyped == ASSUME Types, Defect PROVE Types'
<1> DEFINE E == [name : Names, step : Steps \union {0}, version : Nat]
<1>0. WalkOf(walk, DOMAIN journal) /\ slip \in Slips /\ news \in Seq(E)
  BY DEF Types
<1>1. ASSUME NEW a, NEW state \in States, NEW waiting \in Steps \union {0}, NEW next,
             RecordDies(a, state, waiting, next)
      PROVE  /\ status' \in [state : States, waiting : Steps \union {0}] /\ news' \in Seq(E)
             /\ address' \in [correlation : Steps \union {0}, accepts : Steps \union {0}]
             /\ walk' = next
  <2>1. walk' = next /\ news' = news
    BY <1>1 DEF RecordDies, Dies
  <2>2. UNCHANGED <<status, address>> \/ Written(state, waiting)
    BY <1>1 DEF RecordDies
  <2> QED
    BY <1>0, <2>1, <2>2 DEF Written, AddressOf, Types
<1>2. ASSUME NEW name \in Names, NEW i \in Steps \union {0}, NEW ordinal \in Nat, NEW next,
             AnnounceDies(name, i, ordinal, next)
      PROVE  /\ status' = status /\ address' = address /\ walk' = next /\ news' \in Seq(E)
  <2> DEFINE e == [name |-> name, step |-> i, version |-> ordinal]
  <2>1. news' = news \/ news' = Append(news, e)
    BY <1>2 DEF AnnounceDies
  <2>2. e \in E
    OBVIOUS
  <2>3. Append(news, e) \in Seq(E)
    <3> HIDE DEF e, E
    <3> QED
      BY <1>0, <2>2, AppendProperties
  <2> QED
    BY <1>0, <1>2, <2>1, <2>3 DEF AnnounceDies, Dies
<1>3. ASSUME NEW i \in Steps, Breaks(i)
      PROVE  /\ status' \in [state : States, waiting : Steps \union {0}] /\ news' \in Seq(E)
             /\ address' \in [correlation : Steps \union {0}, accepts : Steps \union {0}]
             /\ WalkOf(walk', DOMAIN journal)
  <2>1. walk.pc[i] # "ok"
    BY <1>3 DEF Breaks, Turn
  <2>2. WalkOf(Lost(i), DOMAIN journal)
    BY <1>0, <2>1, LostFits
  <2>3. \/ RecordDies(<<"waiting", i>>, "waiting", i, Lost(i))
        \/ RecordDies(<<"running", i>>, "running", 0, Lost(i))
        \/ AnnounceDies("flow.waiting", i, i, Lost(i))
        \/ RecordDies(<<"resumed", i>>, "running", 0, Lost(i))
    BY <1>3 DEF Breaks
  <2>4. i \in Nat /\ "flow.waiting" \in Names /\ {"waiting", "running"} \subseteq States
    BY <1>0, StepsCounted DEF Names, States
  <2>5. {0, i} \subseteq Steps \union {0} /\ status \in [state : States, waiting : Steps \union {0}]
        /\ address \in [correlation : Steps \union {0}, accepts : Steps \union {0}]
    BY DEF Types
  <2>6. CASE \/ RecordDies(<<"waiting", i>>, "waiting", i, Lost(i))
             \/ RecordDies(<<"running", i>>, "running", 0, Lost(i))
             \/ RecordDies(<<"resumed", i>>, "running", 0, Lost(i))
    BY <1>1, <2>2, <2>4, <2>5, <2>6
  <2>7. CASE AnnounceDies("flow.waiting", i, i, Lost(i))
    BY <1>2, <2>2, <2>4, <2>5, <2>7
  <2> QED
    BY <2>3, <2>6, <2>7
<1>4. CASE Collapse
  <2>1. WalkOf(Died, DOMAIN journal)
    BY <1>0 DEF WalkOf, Died, Phases
  <2>2. /\ walk.phase = "closing" => walk.verdict \in States
        /\ EventOf(walk.verdict) \in Names /\ "flow.started" \in Names
        /\ walk.at \in Steps \union {0} /\ OrdinalOf(walk.verdict, walk.at) \in Nat
    BY <1>0, StepsCounted DEF WalkOf, States, EventOf, Names, OrdinalOf
  <2>3. \/ AnnounceDies("flow.started", 0, 0, Died)
        \/ walk.verdict \in States /\ RecordDies(<<walk.verdict, walk.at>>, walk.verdict, 0, Died)
        \/ AnnounceDies(EventOf(walk.verdict), walk.at, OrdinalOf(walk.verdict, walk.at), Died)
    BY <1>4, <2>2 DEF Collapse
  <2> DEFINE Fits == /\ status' \in [state : States, waiting : Steps \union {0}] /\ news' \in Seq(E)
                     /\ address' \in [correlation : Steps \union {0}, accepts : Steps \union {0}]
                     /\ WalkOf(walk', DOMAIN journal)
  <2>4. /\ status \in [state : States, waiting : Steps \union {0}]
        /\ address \in [correlation : Steps \union {0}, accepts : Steps \union {0}]
    BY DEF Types
  <2> HIDE DEF E
  <2>5. ASSUME AnnounceDies("flow.started", 0, 0, Died) PROVE Fits
    BY <1>2, <2>1, <2>2, <2>4, <2>5
  <2>6. ASSUME walk.verdict \in States, RecordDies(<<walk.verdict, walk.at>>, walk.verdict, 0, Died)
        PROVE  Fits
    BY <1>1, <2>1, <2>2, <2>6
  <2>7. ASSUME AnnounceDies(EventOf(walk.verdict), walk.at, OrdinalOf(walk.verdict, walk.at), Died) PROVE Fits
    BY <1>2, <2>1, <2>2, <2>4, <2>7
  <2>8. Fits
    BY <2>3, <2>5, <2>6, <2>7
  <2>9. slip' = slip /\ (WalkOf(walk', DOMAIN journal) => WalkOf(walk, DOMAIN journal)')
    BY DefectAdds, <1>4 DEF Defect, WalkOf, Steps, Kind
  <2>10. UNCHANGED <<slip, journal, result, acted, deferred, clock, crashes>> /\ Cardinality(defects') <= MaxDefects
    BY DefectAdds, <1>4 DEF Defect
  <2> QED
    BY <2>8, <2>9, <2>10 DEF Types, Steps, E
<1>5. UNCHANGED <<slip, journal, result, acted, deferred, clock, crashes>> /\ Cardinality(defects') <= MaxDefects
  BY DefectAdds
<1> QED
  BY <1>3, <1>4, <1>5 DEF Defect, Types, Steps, Kind, WalkOf

(* Every step of the flow itself.                                            *)
LEMMA WalkTyped == ASSUME Types, WalkNext PROVE Types'
<1> DEFINE K == DOMAIN journal
<1>0. WalkOf(walk, K) /\ slip \in Slips
  BY DEF Types
<1>1. CASE Started
  <2>1. \A more : K \subseteq more => WalkOf([walk EXCEPT !.phase = "walking"], more)
    BY <1>0 DEF WalkOf, Phases
  <2>2. "flow.started" \in Names
    BY DEF Names
  <2> QED
    BY <1>1, <2>1, <2>2, AnnounceFits DEF Started
<1>2. CASE InDoubt
  <2>1. PICK kind \in {"action", "undo"}, i \in Steps : Attempt(kind, i)
    BY <1>2 DEF InDoubt
  <2>2. acted' \subseteq {"action", "undo"} \X Steps
    BY <2>1 DEF Attempt, Types
  <2> QED
    BY <2>1, <2>2 DEF Attempt, Types, Steps, Kind, WalkOf
<1>3. CASE Retry
  <2>1. WalkOf(walk', K)
    BY <1>3, FreshFits DEF Retry
  <2> QED
    BY <1>3, <2>1 DEF Retry, Types, Results, Steps, Kind, WalkOf
<1>4. CASE Crash
  <2>1. WalkOf(walk', K) /\ crashes' \in 0 .. MaxCrashes
    BY <1>4, FreshFits, DialsAssumption DEF Crash, Types
  <2> QED
    BY <1>4, <2>1 DEF Crash, durable, Types, Steps, Kind, WalkOf
<1>5. ASSUME NEW i \in Steps, Fires(i) PROVE Types'
  <2>1. clock' \subseteq Steps
    BY <1>5 DEF Fires, Types
  <2> QED
    BY <1>5, <2>1 DEF Fires, Types, Steps, Kind, WalkOf
<1> QED
  BY <1>1, <1>2, <1>3, <1>4, <1>5, StepTyped, EndingTyped, DefectTyped DEF WalkNext, Walk, Defect


(* A walk on its own is not interrupted.                                     *)
OnItsOwn == result # "interrupted" /\ status.state # "interrupted"

(* What a step writes on the record comes from the walk, or stays.           *)
LEMMA RecordKept ==
  ASSUME NEW a, NEW state, NEW waiting, NEW next, Record(a, state, waiting, next)
  PROVE  status' = status \/ status' = [state |-> state, waiting |-> waiting]
BY DEF Record, Written

(* No step of a walk interrupts it.                                          *)
LEMMA StaysOnItsOwn == ASSUME Types, OnItsOwn, Next PROVE OnItsOwn'
<1>1. ASSUME NEW i \in Steps, StepOf(i) PROVE OnItsOwn'
  <2>1. result' = result
    BY <1>1 DEF StepOf, Begin, Act, Park, AnnounceWait, Race, Resume, Pass, Record, Call, Announce, durable
  <2>2. status' = status \/ status'.state \in {"running", "waiting"}
    BY <1>1, RecordKept
       DEF StepOf, Begin, Act, Park, AnnounceWait, Race, Resume, Pass, Call, Announce, durable
  <2> QED
    BY <2>1, <2>2 DEF OnItsOwn
<1>2. CASE Ending
  <2>1. walk.verdict # "interrupted"
    BY DEF Types, WalkOf, Finals
  <2>2. result' = result \/ result' = walk.verdict
    BY <1>2 DEF Ending, Decide, Undo, Undone, Close, Tell, Return, Record, Call, Announce, durable
  <2>3. status' = status \/ status'.state = walk.verdict
    BY <1>2, RecordKept DEF Ending, Decide, Undo, Undone, Close, Tell, Return, Call, Announce, durable
  <2> QED
    BY <2>1, <2>2, <2>3 DEF OnItsOwn
<1>3. CASE Started \/ InDoubt \/ Retry \/ Crash \/ \E i \in Steps : Fires(i)
  BY <1>3 DEF Started, InDoubt, Attempt, Retry, Crash, Fires, Announce, OnItsOwn, durable
<1>4. ASSUME NEW i \in Steps, NEW o \in Signals(i), Signalled(i, o) PROVE OnItsOwn'
  BY <1>4 DEF Signalled, OnItsOwn
<1>5. CASE Defect
  <2>1. walk.verdict # "interrupted"
    BY DEF Types, WalkOf, Finals
  <2>2. status' = status \/ status'.state \in {"running", "waiting", walk.verdict}
    <3>1. CASE Collapse
      BY <3>1 DEF Collapse, RecordDies, AnnounceDies, Written
    <3>2. ASSUME NEW i \in Steps, Breaks(i) PROVE status' = status \/ status'.state \in {"running", "waiting"}
      BY <3>2 DEF Breaks, RecordDies, AnnounceDies, Written
    <3> QED
      BY <1>5, <3>1, <3>2 DEF Defect
  <2> QED
    BY <1>5, <2>1, <2>2, DefectAdds DEF OnItsOwn
<1> QED
  BY <1>1, <1>2, <1>3, <1>4, <1>5 DEF Next, WalkNext, Walk, Defect

(* A signal that comes in one step keeps the types.                          *)
LEMMA SignalTyped ==
  ASSUME Types, NEW i \in Steps, NEW o \in Signals(i), Signalled(i, o) PROVE Types'
<1>1. o \in Outcomes \union {"unnamed"}
  <2>1. slip[i].accepts \in SUBSET Outcomes
    BY StepsCounted DEF Types, Step
  <2> QED
    BY <2>1 DEF Signals
<1>2. deferred' \in [Steps -> Outcomes \union {"empty", "unnamed"}]
  BY <1>1 DEF Signalled, Types
<1>3. /\ status' \in [state : States, waiting : Steps \union {0}]
      /\ address' \in [correlation : Steps \union {0}, accepts : Steps \union {0}]
  BY DEF Signalled, States, Types
<1> QED
  BY <1>2, <1>3 DEF Signalled, Types, Steps, Kind, WalkOf

(* The start of a flow is well typed.                                        *)
LEMMA InitTyped == Init => Types
<1> SUFFICES ASSUME Init PROVE Types
  OBVIOUS
<1>1. WalkOf(walk, DOMAIN journal)
  BY FreshFits DEF Init
<1>2. /\ news \in Seq([name : Names, step : Steps \union {0}, version : Nat])
  BY EmptySeq DEF Init
<1>3. /\ status \in [state : States, waiting : Steps \union {0}]
      /\ address \in [correlation : Steps \union {0}, accepts : Steps \union {0}]
  BY DEF Init, States, AddressOf
<1>4. Cardinality(defects) <= MaxDefects
  BY FS_EmptySet, DialsAssumption DEF Init
<1> QED
  BY <1>1, <1>2, <1>3, <1>4, DialsAssumption DEF Init, Types, Results

(* Every reachable state of a flow is well typed, and what a walk holds the  *)
(* journal can rebuild, for any slips, crashes and answers.                  *)
THEOREM TypeCorrect == Spec => []TypeOK
<1>1. Init => Types /\ OnItsOwn
  BY InitTyped DEF Init, OnItsOwn
<1>2. Types /\ OnItsOwn /\ [Next]_vars => (Types /\ OnItsOwn)'
  <2> SUFFICES ASSUME Types, OnItsOwn, [Next]_vars PROVE (Types /\ OnItsOwn)'
    OBVIOUS
  <2>1. CASE Next
    <3>1. Types'
      BY <2>1, WalkTyped, SignalTyped DEF Next
    <3> QED
      BY <2>1, <3>1, StaysOnItsOwn
  <2>2. CASE UNCHANGED vars
    BY <2>2 DEF vars, durable, Types, OnItsOwn, WalkOf, Steps, Kind
  <2> QED
    BY <2>1, <2>2
<1>3. Types /\ OnItsOwn => TypeOK
  <2> SUFFICES ASSUME Types, OnItsOwn PROVE TypeOK
    OBVIOUS
  <2>1. result \in Finals \union {"none", "suspended", "died"}
    BY DEF Types, OnItsOwn, Results
  <2>2. status \in [state : Finals \union {"running", "waiting", "suspended"}, waiting : Steps \union {0}]
    BY DEF Types, OnItsOwn, States
  <2>3. \A i \in Steps : walk.pc[i] \in {"answered", "stranded"} => Journaled(<<"race", i>>)
    BY DEF Types, WalkOf, Journaled
  <2> QED
    BY <2>1, <2>2, <2>3 DEF Types, TypeOK, WalkOf
<1> QED
  BY <1>1, <1>2, <1>3, PTL DEF Spec


-----------------------------------------------------------------------------
(* The callers beside a flow.  A wait is in doubt once a completion of it    *)
(* failed, or a walk recorded it again; no other wait is on the record while *)
(* a caller has it in hand or its answer is given, two callers never have it *)
(* at once, and the race of a wait is won by its answer or by its clock.     *)

SigPcs == {"idle", "found", "refused", "claimed", "accepted", "puttingBack", "failed"}
Signal(pcs) == [pc : pcs, wait : Steps \union {0}, outcome : Outcomes \union {"unnamed"},
                read : [correlation : Steps \union {0}, accepts : Steps \union {0}]]
Bound == {"found", "claimed", "accepted", "puttingBack"}
Hands == {"claimed", "puttingBack"}

CallerTypes ==
  /\ owner \in Flows \union {NoFlow} /\ begun \in BOOLEAN
  /\ starter \in [Starters -> [pc : {"idle", "registered", "answered", "dead"}, flow : Flows \union {NoFlow}]]
  /\ signaller \in [Signallers -> Signal(SigPcs)]
  /\ \A s \in Signallers : signaller[s].pc \in Bound =>
       signaller[s].wait \in Steps /\ signaller[s].outcome \in Outcomes

(* Before the flow is executed, a start of it is about to do so or is dead.  *)
Starts ==
  \A s \in Starters :
    /\ starter[s].pc = "idle" => starter[s].flow = NoFlow
    /\ owner = NoFlow => starter[s].pc = "idle"
    /\ starter[s].flow = owner /\ owner # NoFlow => starter[s].pc \in {"registered", "dead"}

Doubtful(i) == i \in unsure \union reparked

Lone == \A i \in Steps :
  status.waiting = i => Doubtful(i) \/ (deferred[i] = "empty" /\ ~Held(i))

OneHand == \A s, t \in Signallers :
  signaller[s].pc = "claimed" =>
    LET i == signaller[s].wait IN
    \/ Doubtful(i)
    \/ /\ deferred[i] = "empty"
       /\ signaller[t].pc \in Hands /\ signaller[t].wait = i => t = s

PutsBackInDoubt == \A s \in Signallers :
  signaller[s].pc = "puttingBack" => signaller[s].wait \in unsure

AcceptedIsKept == \A s \in Signallers :
  signaller[s].pc = "accepted" =>
    Doubtful(signaller[s].wait) \/ deferred[signaller[s].wait] = signaller[s].outcome

Raced == \A i \in Steps :
  Journaled(<<"race", i>>) =>
    i \in clock \/ (journal[<<"race", i>>] = deferred[i] /\ deferred[i] # "empty")

Answering == Lone /\ OneHand /\ PutsBackInDoubt /\ AcceptedIsKept /\ Raced

CallersInv == Types /\ CallerTypes /\ Starts /\ Answering


(* The walk answers no wait, takes back no clock and keeps its slip.         *)
LEMMA WalkLeavesAnswers ==
  ASSUME WalkNext
  PROVE  deferred' = deferred /\ clock \subseteq clock' /\ slip' = slip
<1>1. ASSUME NEW i \in Steps, StepOf(i) PROVE deferred' = deferred /\ clock' = clock /\ slip' = slip
  BY <1>1 DEF StepOf, Begin, Act, Park, AnnounceWait, Race, Resume, Pass, Record, Call, Announce, durable
<1>2. CASE Ending
  BY <1>2 DEF Ending, Decide, Undo, Undone, Close, Tell, Return, Record, Call, Announce, durable
<1>3. CASE Started \/ InDoubt \/ Retry \/ Crash \/ \E i \in Steps : Fires(i)
  BY <1>3 DEF Started, InDoubt, Attempt, Retry, Crash, Fires, Announce, durable
<1>4. CASE Collapse \/ \E i \in Steps : Breaks(i)
  BY <1>4 DEF Collapse, Breaks, RecordDies, AnnounceDies, Dies
<1> QED
  BY <1>1, <1>2, <1>3, <1>4 DEF WalkNext, Walk

(* The journal, and one answer more.                                         *)
Extends(a, r) ==
  journal' = [b \in DOMAIN journal \union {a} |-> IF b = a THEN r ELSE journal[b]]

(* What an activity answered it answers for good.                            *)
LEMMA AnswersOnce ==
  ASSUME NEW a, NEW r, NEW next, Answers(a, r, next)
  PROVE  journal' = journal \/ (a \notin DOMAIN journal /\ Extends(a, r))
BY DEF Answers, Journaled, Extends

(* What the durable race of a wait can come to.                              *)
Possible(i) ==
  ({deferred[i]} \ {"empty"}) \union
  (IF i \in clock THEN {IF slip[i].onTimeout \in Outcomes THEN slip[i].onTimeout ELSE "timeout"} ELSE {})

(* Whatever a walk adds to the journal, a wait is answered by its race.      *)
LEMMA JournalGrows ==
  ASSUME Types, WalkNext
  PROVE  \/ journal' = journal
         \/ \E a, r : /\ a \notin DOMAIN journal /\ Extends(a, r)
                      /\ \A i \in Steps : a = <<"race", i>> => r \in Possible(i)
<1> DEFINE Plain(a) == \A i \in Steps : a # <<"race", i>>
           Grows == \/ journal' = journal
                    \/ \E a, r : /\ a \notin DOMAIN journal /\ Extends(a, r)
                                 /\ \A i \in Steps : a = <<"race", i>> => r \in Possible(i)
<1>0. ASSUME NEW a, NEW r, NEW next, Answers(a, r, next), Plain(a) PROVE Grows
  BY <1>0, AnswersOnce
<1>1. ASSUME NEW i \in Steps, StepOf(i) PROVE Grows
  <2>1. CASE Begin(i)
    BY <2>1, <1>0 DEF Begin, Record
  <2>2. CASE Act(i)
    BY <2>2, <1>0 DEF Act, Call
  <2>3. CASE Park(i)
    BY <2>3, <1>0 DEF Park, Record
  <2>4. CASE AnnounceWait(i)
    BY <2>4, <1>0 DEF AnnounceWait, Announce
  <2>5. CASE Resume(i)
    BY <2>5, <1>0 DEF Resume, Record
  <2>6. CASE Pass(i)
    BY <2>6 DEF Pass, durable
  <2>7. CASE Race(i)
    <3>1. PICK r, next : /\ r \in IF Journaled(<<"race", i>>) THEN {journal[<<"race", i>>]} ELSE Possible(i)
                         /\ Answers(<<"race", i>>, r, next)
      BY <2>7 DEF Race, Possible
    <3>2. journal' = journal \/ (<<"race", i>> \notin DOMAIN journal /\ Extends(<<"race", i>>, r))
      BY <3>1, AnswersOnce
    <3>3. \A j \in Steps : <<"race", i>> = <<"race", j>> => j = i
      OBVIOUS
    <3> QED
      BY <3>1, <3>2, <3>3 DEF Journaled
  <2> QED
    BY <1>1, <2>1, <2>2, <2>3, <2>4, <2>5, <2>6, <2>7 DEF StepOf
<1>2. CASE Ending
  <2>1. CASE Decide \/ Undone \/ Return
    BY <2>1 DEF Decide, Undone, Return, durable
  <2>2. CASE Undo
    BY <2>2, <1>0 DEF Undo, Call
  <2>3. CASE Close
    <3>1. walk.verdict # "race"
      BY DEF Types, WalkOf, Finals
    <3> QED
      BY <2>3, <3>1, <1>0 DEF Close, Record
  <2>4. CASE Tell
    <3>1. EventOf(walk.verdict) # "race"
      BY DEF EventOf
    <3> QED
      BY <2>4, <3>1, <1>0 DEF Tell, Announce
  <2> QED
    BY <1>2, <2>1, <2>2, <2>3, <2>4 DEF Ending
<1>3. CASE Started
  BY <1>3, <1>0 DEF Started, Announce
<1>4. CASE InDoubt \/ Retry \/ Crash \/ \E i \in Steps : Fires(i)
  BY <1>4 DEF InDoubt, Attempt, Retry, Crash, Fires, durable
<1>5. CASE Defect
  BY <1>5, DefectAdds
<1> QED
  BY <1>1, <1>2, <1>3, <1>4, <1>5 DEF WalkNext, Walk, Defect

(* A race that the journal holds was won by its answer or by its clock.      *)
LEMMA RacedKept == ASSUME Types, Raced, WalkNext PROVE Raced'
<1>1. deferred' = deferred /\ clock \subseteq clock' /\ slip' = slip
  BY WalkLeavesAnswers
<1> SUFFICES ASSUME NEW i \in Steps, <<"race", i>> \in DOMAIN journal'
             PROVE  \/ i \in clock'
                    \/ journal'[<<"race", i>>] = deferred'[i] /\ deferred'[i] # "empty"
  BY <1>1 DEF Raced, Journaled, Steps
<1>2. CASE journal' = journal
  BY <1>1, <1>2 DEF Raced, Journaled
<1>3. ASSUME NEW a, NEW r, a \notin DOMAIN journal, Extends(a, r),
             \A j \in Steps : a = <<"race", j>> => r \in Possible(j)
      PROVE  \/ i \in clock'
             \/ journal'[<<"race", i>>] = deferred'[i] /\ deferred'[i] # "empty"
  <2>1. CASE a = <<"race", i>>
    BY <1>1, <1>3, <2>1 DEF Extends, Possible
  <2>2. CASE a # <<"race", i>>
    BY <1>1, <1>3, <2>2 DEF Extends, Raced, Journaled
  <2> QED
    BY <2>1, <2>2
<1> QED
  BY <1>2, <1>3, JournalGrows


(* A step of the walk: what it records again while the wait is answered, or  *)
(* in a caller's hand, is in doubt from then on.                             *)
LEMMA WalkLeavesCallers == ASSUME CallersInv, Flow PROVE CallersInv'
<1>1. WalkNext /\ UNCHANGED <<calls, unsure, lost>>
  BY DEF Flow
<1>2. deferred' = deferred /\ slip' = slip /\ Steps' = Steps
  BY <1>1, WalkLeavesAnswers DEF Steps
<1>3. Types' /\ Raced'
  BY <1>1, WalkTyped, RacedKept DEF CallersInv, Answering
<1>4. \A i : Doubtful(i) => Doubtful(i)'
  BY <1>1 DEF Flow, Doubtful
<1>5. signaller' = signaller /\ unsure' = unsure
  BY <1>1 DEF calls
<1>6. \A i : Held(i)' <=> Held(i)
  BY <1>5 DEF Held
<1>7. Lone'
  <2> SUFFICES ASSUME NEW i \in Steps, status'.waiting = i, ~Doubtful(i)'
               PROVE  deferred[i] = "empty" /\ ~Held(i)
    BY <1>2, <1>6 DEF Lone
  <2>1. CASE status' = status
    BY <2>1, <1>4 DEF CallersInv, Answering, Lone
  <2>2. CASE status' # status
    BY <2>2 DEF Flow, Doubtful
  <2> QED
    BY <2>1, <2>2
<1>8. CallerTypes' /\ Starts'
  BY <1>1, <1>2 DEF CallersInv, CallerTypes, Starts, calls, Signal
<1>9. OneHand'
  BY <1>2, <1>4, <1>5 DEF CallersInv, Answering, OneHand
<1>10. PutsBackInDoubt' /\ AcceptedIsKept'
  BY <1>2, <1>4, <1>5 DEF CallersInv, Answering, PutsBackInDoubt, AcceptedIsKept
<1> QED
  BY <1>3, <1>7, <1>8, <1>9, <1>10 DEF CallersInv, Answering

(* What is left of the walk when a caller moves, or interrupts it.           *)
LEMMA WalkStays ==
  ASSUME Types, UNCHANGED <<slip, defects, journal, news, acted, clock, walk, crashes>>,
         result' \in Results, status' \in [state : States, waiting : Steps \union {0}],
         address' \in [correlation : Steps \union {0}, accepts : Steps \union {0}],
         deferred' \in [Steps -> Outcomes \union {"empty", "unnamed"}]
  PROVE  Types'
BY DEF Types, WalkOf, Steps, Kind

(* A start registers, executes or dies.                                      *)
LEMMA StartKeeps ==
  ASSUME CallersInv, NEW s \in Starters, Register(s) \/ Execute(s) \/ StarterDies(s)
  PROVE  CallersInv'
<1>1. UNCHANGED <<vars, signaller, unsure, lost, reparked>>
  BY DEF Register, Execute, StarterDies, history
<1>2. Types'
  BY <1>1, WalkStays DEF CallersInv, vars, durable, Types
<1>3. Answering'
  BY <1>1 DEF CallersInv, Answering, Lone, OneHand, PutsBackInDoubt, AcceptedIsKept, Raced, Doubtful,
              Held, Journaled, vars, durable, Steps
<1>4. CallerTypes' /\ Starts'
  <2>1. CASE Register(s)
    <3>1. PICK flow \in Flows :
            /\ starter[s].pc = "idle" /\ ~begun
            /\ owner' = IF owner = NoFlow THEN flow ELSE owner
            /\ starter' = [starter EXCEPT ![s] = [pc |-> IF Runs(flow) THEN "registered" ELSE "answered",
                                                  flow |-> flow]]
            /\ begun' = begun
      BY <2>1 DEF Register
    <3>2. CallerTypes'
      BY <1>1, <3>1 DEF CallersInv, CallerTypes, vars, durable, Steps, Signal
    <3>3. Starts'
      BY <3>1, CallersAssumption DEF CallersInv, CallerTypes, Starts, Runs
    <3> QED
      BY <3>2, <3>3
  <2>2. CASE Execute(s)
    <3>1. starter' = [t \in Starters |-> NoStart] /\ begun' = TRUE /\ owner' = owner
      BY <2>2 DEF Execute
    <3>2. CallerTypes'
      BY <1>1, <3>1 DEF CallersInv, CallerTypes, vars, durable, Steps, NoStart, Signal
    <3> QED
      BY <3>1, <3>2 DEF Starts, NoStart
  <2>3. CASE StarterDies(s)
    <3>1. /\ starter' = [starter EXCEPT ![s].pc = "dead"] /\ begun' = begun /\ owner' = owner
          /\ starter[s].pc = "registered"
      BY <2>3 DEF StarterDies
    <3>2. CallerTypes'
      BY <1>1, <3>1 DEF CallersInv, CallerTypes, vars, durable, Steps, Signal
    <3> QED
      BY <3>1, <3>2 DEF CallersInv, CallerTypes, Starts
  <2> QED
    BY <2>1, <2>2, <2>3
<1> QED
  BY <1>2, <1>3, <1>4 DEF CallersInv


(* A signaller that takes or gives back nothing, and completes nothing.      *)
LEMMA SignallerMoves ==
  ASSUME CallersInv, UNCHANGED <<vars, owner, begun, starter, reparked>>, unsure' = unsure,
         NEW s \in Signallers, NEW h \in Signal(SigPcs \ Hands),
         signaller' = [signaller EXCEPT ![s] = h],
         h.pc \in Bound => h.wait \in Steps /\ h.outcome \in Outcomes,
         h.pc # "accepted"
  PROVE  CallersInv'
<1>0. /\ vars' = vars /\ slip' = slip /\ Steps' = Steps /\ status' = status /\ deferred' = deferred
      /\ clock' = clock /\ journal' = journal
  BY DEF vars, durable, Steps
<1>1. Types'
  BY <1>0, WalkStays DEF CallersInv, Types, vars, durable
<1>2. \A t \in Signallers : signaller'[t] = IF t = s THEN h ELSE signaller[t]
  BY DEF CallersInv, CallerTypes
<1>3. CallerTypes'
  <2>1. signaller' \in [Signallers -> Signal(SigPcs)]
    BY <1>0 DEF CallersInv, CallerTypes, Signal
  <2> QED
    BY <1>0, <1>2, <2>1 DEF CallersInv, CallerTypes, Signal
<1>4. Starts' /\ Raced'
  BY <1>0 DEF CallersInv, Starts, Answering, Raced, Journaled
<1>5. \A i : Held(i)' => Held(i)
  BY <1>2 DEF Held, Hands, Signal
<1>6. \A i : Doubtful(i)' <=> Doubtful(i)
  BY DEF Doubtful
<1>7. Lone'
  BY <1>0, <1>5, <1>6 DEF CallersInv, Answering, Lone
<1>8. OneHand'
  BY <1>0, <1>2, <1>6 DEF CallersInv, Answering, OneHand, Hands, Signal
<1>9. PutsBackInDoubt' /\ AcceptedIsKept'
  BY <1>0, <1>2, <1>6 DEF CallersInv, Answering, PutsBackInDoubt, AcceptedIsKept, Hands, Signal
<1> QED
  BY <1>1, <1>3, <1>4, <1>7, <1>8, <1>9 DEF CallersInv, Answering

(* A claim: nobody else has the wait, and it is not answered.                *)
LEMMA ClaimKeeps == ASSUME CallersInv, NEW s \in Signallers, Claim(s) PROVE CallersInv'
<1> DEFINE i == signaller[s].wait
<1>0. /\ UNCHANGED <<slip, defects, journal, result, news, acted, deferred, clock, walk, crashes>>
      /\ UNCHANGED <<owner, begun, starter, unsure, reparked>> /\ Steps' = Steps
      /\ signaller[s].pc = "found"
  BY DEF Claim, history, Steps
<1>1. i \in Steps /\ signaller[s].outcome \in Outcomes
  BY <1>0 DEF CallersInv, CallerTypes, Bound
<1>2. CASE ~Claimable(i)
  <2>1. vars' = vars /\ signaller' = [signaller EXCEPT ![s] = [NoSignal EXCEPT !.pc = "refused"]]
    BY <1>2 DEF Claim, Ends, vars, durable
  <2> DEFINE h == [NoSignal EXCEPT !.pc = "refused"]
  <2>2. h \in Signal(SigPcs \ Hands)
    BY DEF NoSignal, SigPcs, Hands, Signal, AddressOf
  <2>3. h.pc \notin Bound /\ h.pc # "accepted"
    BY DEF NoSignal, Bound
  <2> QED
    BY <1>0, <2>1, <2>2, <2>3, SignallerMoves
<1>3. CASE Claimable(i)
  <2>1. /\ status' = [state |-> "running", waiting |-> 0]
        /\ address' = [address EXCEPT !.accepts = 0]
        /\ signaller' = [signaller EXCEPT ![s].pc = "claimed"]
    BY <1>3 DEF Claim, Signalling
  <2>2. Types'
    <3>1. /\ status' \in [state : States, waiting : Steps \union {0}]
          /\ address' \in [correlation : Steps \union {0}, accepts : Steps \union {0}]
      BY <2>1 DEF CallersInv, Types, States
    <3> QED
      BY <1>0, <3>1, WalkStays DEF CallersInv, Types
  <2>3. /\ \A t \in Signallers : t # s => signaller'[t] = signaller[t]
        /\ signaller'[s].pc = "claimed" /\ signaller'[s].wait = i
        /\ signaller'[s].outcome = signaller[s].outcome
    BY <2>1 DEF CallersInv, CallerTypes
  <2>4. CallerTypes'
    <3>1. signaller' \in [Signallers -> Signal(SigPcs)]
      BY <1>0, <2>1 DEF CallersInv, CallerTypes, SigPcs, Signal
    <3> QED
      BY <1>0, <1>1, <2>3, <3>1 DEF CallersInv, CallerTypes, Signal
  <2>5. Starts' /\ Raced'
    BY <1>0 DEF CallersInv, Starts, Answering, Raced, Journaled
  <2>6. \A j : Doubtful(j)' <=> Doubtful(j)
    BY <1>0 DEF Doubtful
  <2>7. Doubtful(i) \/ (deferred[i] = "empty" /\ ~Held(i))
    BY <1>1, <1>3 DEF CallersInv, Answering, Lone, Claimable
  <2>8. Lone'
    BY <1>0, <2>1, StepsCounted DEF Lone, CallersInv, Types
  <2>9. OneHand'
    <3> SUFFICES ASSUME NEW t \in Signallers, NEW v \in Signallers, signaller'[t].pc = "claimed",
                        ~Doubtful(signaller'[t].wait)
                 PROVE  /\ deferred[signaller'[t].wait] = "empty"
                        /\ signaller'[v].pc \in Hands /\ signaller'[v].wait = signaller'[t].wait => v = t
      BY <1>0, <2>6 DEF OneHand
    <3>1. CASE t = s
      BY <2>3, <2>7, <3>1 DEF Held, Hands
    <3>2. CASE t # s /\ v # s
      BY <2>3, <3>2 DEF CallersInv, Answering, OneHand
    <3>3. CASE t # s /\ v = s
      <4>1. signaller[t].pc = "claimed" /\ signaller'[t].wait = signaller[t].wait
        BY <2>3, <3>3
      <4>2. signaller[t].wait # i
        BY <2>3, <2>7, <3>3, <4>1 DEF Held
      <4> QED
        BY <2>3, <3>3, <4>1, <4>2 DEF CallersInv, Answering, OneHand
    <3> QED
      BY <3>1, <3>2, <3>3
  <2>10. PutsBackInDoubt' /\ AcceptedIsKept'
    BY <1>0, <2>3, <2>6 DEF CallersInv, Answering, PutsBackInDoubt, AcceptedIsKept
  <2> QED
    BY <2>2, <2>4, <2>5, <2>8, <2>9, <2>10 DEF CallersInv, Answering
<1> QED
  BY <1>2, <1>3

(* A completion, or one that failed: whoever else had the wait is in doubt.  *)
LEMMA CompletionKeeps ==
  ASSUME CallersInv, NEW s \in Signallers, Complete(s) \/ CompletionFails(s)
  PROVE  CallersInv'
<1> DEFINE i == signaller[s].wait
           ended == IF Complete(s) THEN "accepted" ELSE "puttingBack"
<1>0. /\ UNCHANGED <<slip, defects, journal, result, status, news, acted, clock, walk, crashes>>
      /\ UNCHANGED <<address, owner, begun, starter, reparked>> /\ Steps' = Steps
      /\ signaller[s].pc = "claimed"
      /\ deferred' = deferred \/ (deferred[i] = "empty"
                                  /\ deferred' = [deferred EXCEPT ![i] = signaller[s].outcome])
      /\ unsure \subseteq unsure'
  BY DEF Complete, CompletionFails, Resolved, history, Steps
<1>1. PICK p \in {"accepted", "puttingBack"} :
        /\ \E read \in {signaller[s].read, AddressOf(0)} :
             signaller' = [signaller EXCEPT ![s].pc = p, ![s].read = read]
        /\ p = "accepted" => (deferred[i] = "empty" => deferred' = [deferred EXCEPT ![i] = signaller[s].outcome])
        /\ p = "puttingBack" => i \in unsure'
  <2>1. signaller[s] \in Signal(SigPcs) /\ signaller \in [Signallers -> Signal(SigPcs)]
    BY DEF CallersInv, CallerTypes
  <2>2. CASE Complete(s)
    BY <2>2 DEF Complete, Accepted, Resolved
  <2>3. CASE CompletionFails(s)
    <3>1. [signaller EXCEPT ![s].pc = "puttingBack"]
             = [signaller EXCEPT ![s].pc = "puttingBack", ![s].read = signaller[s].read]
      BY <2>1 DEF Signal
    <3> QED
      BY <2>3, <3>1 DEF CompletionFails, Signalling
  <2> QED
    BY <2>2, <2>3
<1>2. i \in Steps /\ signaller[s].outcome \in Outcomes /\ signaller[s].outcome # "empty"
  BY <1>0, DialsAssumption DEF CallersInv, CallerTypes, Bound
<1>3. Types'
  <2>1. deferred' \in [Steps -> Outcomes \union {"empty", "unnamed"}]
    BY <1>0, <1>2 DEF CallersInv, Types
  <2> QED
    BY <1>0, <2>1, WalkStays DEF CallersInv, Types
<1>4. /\ \A t \in Signallers : t # s => signaller'[t] = signaller[t]
      /\ signaller'[s].pc = p /\ signaller'[s].wait = i
      /\ signaller'[s].outcome = signaller[s].outcome
  BY <1>1 DEF CallersInv, CallerTypes
<1>5. CallerTypes'
  <2>1. signaller' \in [Signallers -> Signal(SigPcs)]
    <3>1. signaller \in [Signallers -> Signal(SigPcs)] /\ signaller[s] \in Signal(SigPcs)
      BY DEF CallersInv, CallerTypes
    <3>2. PICK read \in [correlation : Steps \union {0}, accepts : Steps \union {0}] :
            signaller' = [signaller EXCEPT ![s].pc = p, ![s].read = read]
      BY <1>1, <3>1 DEF Signal, AddressOf
    <3>3. [signaller[s] EXCEPT !.pc = p, !.read = read] \in Signal(SigPcs)
      BY <3>1 DEF Signal, SigPcs
    <3> QED
      BY <3>1, <3>2, <3>3
  <2> QED
    BY <1>0, <1>2, <1>4, <2>1 DEF CallersInv, CallerTypes, Signal
<1>6. \A j \in Steps : deferred[j] # "empty" => deferred'[j] = deferred[j]
  BY <1>0 DEF CallersInv, Types
<1>7. \A j \in Steps : j # i => deferred'[j] = deferred[j]
  BY <1>0 DEF CallersInv, Types
<1>8. Starts' /\ Raced'
  BY <1>0, <1>6 DEF CallersInv, Starts, Answering, Raced, Journaled
<1>9. \A j : Doubtful(j) => Doubtful(j)'
  BY <1>0 DEF Doubtful
<1>10. \A j : Held(j)' => Held(j)
  BY <1>0, <1>4 DEF Held, Hands
<1>11. Held(i)
  BY <1>0 DEF Held, Hands
<1>12. Lone'
  <2> SUFFICES ASSUME NEW j \in Steps, status.waiting = j, ~Doubtful(j)'
               PROVE  deferred'[j] = "empty" /\ ~Held(j)'
    BY <1>0 DEF Lone
  <2>1. deferred[j] = "empty" /\ ~Held(j)
    BY <1>9 DEF CallersInv, Answering, Lone
  <2> QED
    BY <1>7, <1>10, <1>11, <2>1
<1>13. OneHand'
  <2> SUFFICES ASSUME NEW t \in Signallers, NEW v \in Signallers, signaller'[t].pc = "claimed",
                      ~Doubtful(signaller[t].wait)'
               PROVE  /\ deferred'[signaller'[t].wait] = "empty"
                      /\ signaller'[v].pc \in Hands /\ signaller'[v].wait = signaller'[t].wait => v = t
    BY DEF OneHand
  <2>1. t # s /\ signaller'[t] = signaller[t] /\ signaller[t].pc = "claimed"
    BY <1>1, <1>4
  <2>2. ~Doubtful(signaller[t].wait)
    BY <1>9, <2>1
  <2>3. deferred[signaller[t].wait] = "empty" /\ signaller[t].wait # i /\ signaller[t].wait \in Steps
    BY <1>0, <2>1, <2>2 DEF CallersInv, CallerTypes, Bound, Answering, OneHand, Hands
  <2>4. CASE v = s
    BY <1>4, <1>7, <2>1, <2>3, <2>4
  <2>5. CASE v # s
    BY <1>4, <1>7, <2>1, <2>2, <2>3, <2>5 DEF CallersInv, Answering, OneHand
  <2> QED
    BY <2>4, <2>5
<1>14. PutsBackInDoubt'
  BY <1>0, <1>1, <1>4 DEF CallersInv, Answering, PutsBackInDoubt
<1>15. AcceptedIsKept'
  <2> SUFFICES ASSUME NEW t \in Signallers, signaller'[t].pc = "accepted", ~Doubtful(signaller[t].wait)'
               PROVE  deferred'[signaller'[t].wait] = signaller'[t].outcome
    BY DEF AcceptedIsKept
  <2>1. CASE t = s
    <3>1. p = "accepted" /\ ~Doubtful(i)
      BY <1>4, <1>9, <2>1
    <3>2. deferred[i] = "empty"
      BY <1>0, <3>1 DEF CallersInv, Answering, OneHand
    <3> QED
      BY <1>1, <1>2, <1>4, <2>1, <3>1, <3>2 DEF CallersInv, Types
  <2>2. CASE t # s
    <3>1. signaller[t].pc = "accepted" /\ ~Doubtful(signaller[t].wait) /\ signaller[t].wait \in Steps
          /\ signaller[t].outcome # "empty"
      BY <1>4, <1>9, <2>2, DialsAssumption DEF CallersInv, CallerTypes, Bound
    <3>2. deferred[signaller[t].wait] = signaller[t].outcome
      BY <3>1 DEF CallersInv, Answering, AcceptedIsKept
    <3> QED
      BY <1>4, <1>6, <2>2, <3>1, <3>2
  <2> QED
    BY <2>1, <2>2
<1> QED
  BY <1>3, <1>5, <1>8, <1>12, <1>13, <1>14, <1>15 DEF CallersInv, Answering


(* The put-back records a wait that is in doubt.                             *)
LEMMA PutBackKeeps == ASSUME CallersInv, NEW s \in Signallers, PutBack(s) PROVE CallersInv'
<1> DEFINE i == signaller[s].wait
           h == [NoSignal EXCEPT !.pc = "failed"]
<1>0. /\ UNCHANGED <<slip, defects, journal, result, news, acted, deferred, clock, walk, crashes>>
      /\ UNCHANGED <<owner, begun, starter, unsure, reparked>> /\ Steps' = Steps
      /\ signaller[s].pc = "puttingBack"
      /\ status' = [state |-> "waiting", waiting |-> i] /\ address' = signaller[s].read
      /\ signaller' = [signaller EXCEPT ![s] = h]
  BY DEF PutBack, Ends, history, Steps
<1>1. i \in Steps /\ i \in unsure
  BY <1>0 DEF CallersInv, CallerTypes, Bound, Answering, PutsBackInDoubt
<1>2. Types'
  <2>1. address' \in [correlation : Steps \union {0}, accepts : Steps \union {0}]
    BY <1>0 DEF CallersInv, CallerTypes, Signal
  <2>2. status' \in [state : States, waiting : Steps \union {0}]
    BY <1>0, <1>1 DEF States
  <2> QED
    BY <1>0, <2>1, <2>2, WalkStays DEF CallersInv, Types
<1>3. \A t \in Signallers : signaller'[t] = IF t = s THEN h ELSE signaller[t]
  BY <1>0 DEF CallersInv, CallerTypes
<1>4. h.pc = "failed" /\ h \in Signal(SigPcs)
  BY DEF NoSignal, SigPcs, Signal, AddressOf
<1>5. CallerTypes'
  <2> HIDE DEF h
  <2>1. signaller' \in [Signallers -> Signal(SigPcs)]
    BY <1>0, <1>4 DEF CallersInv, CallerTypes, Signal
  <2> QED
    BY <1>0, <1>3, <1>4, <2>1 DEF CallersInv, CallerTypes, Bound, Signal
<1>6. Starts' /\ Raced'
  BY <1>0 DEF CallersInv, Starts, Answering, Raced, Journaled
<1>7. \A j : Doubtful(j)' <=> Doubtful(j)
  BY <1>0 DEF Doubtful
<1>8. Lone'
  BY <1>0, <1>1, <1>7 DEF Lone, Doubtful
<1>9. OneHand' /\ PutsBackInDoubt' /\ AcceptedIsKept'
  <2> HIDE DEF h
  <2>1. OneHand'
    BY <1>0, <1>3, <1>4, <1>7 DEF CallersInv, Answering, OneHand, Hands
  <2>2. PutsBackInDoubt' /\ AcceptedIsKept'
    BY <1>0, <1>3, <1>4, <1>7 DEF CallersInv, Answering, PutsBackInDoubt, AcceptedIsKept
  <2> QED
    BY <2>1, <2>2
<1> QED
  BY <1>2, <1>5, <1>6, <1>8, <1>9 DEF CallersInv, Answering

(* A caller finds the wait that it names, or dies.                           *)
LEMMA FindKeeps ==
  ASSUME CallersInv, NEW s \in Signallers, Find(s) \/ FindCorrelated(s) \/ SignallerDies(s)
  PROVE  CallersInv'
<1>1. UNCHANGED <<vars, owner, begun, starter, reparked>> /\ unsure' = unsure
  BY DEF Find, FindCorrelated, SignallerDies, history
<1>2. PICK h : /\ signaller' = [signaller EXCEPT ![s] = h]
               /\ h \in Signal(SigPcs \ Hands)
               /\ h.pc \in Bound => h.wait \in Steps /\ h.outcome \in Outcomes
               /\ h.pc # "accepted"
  <2>1. CASE Find(s)
    <3>1. PICK i \in Steps, o \in Outcomes : Found(s, i, o)
      BY <2>1 DEF Find
    <3> DEFINE h == [pc |-> "found", wait |-> i, outcome |-> o, read |-> address]
    <3>2. /\ signaller' = [signaller EXCEPT ![s] = h] /\ h.pc = "found" /\ h.wait = i /\ h.outcome = o
          /\ h \in Signal(SigPcs \ Hands)
      BY <3>1 DEF Found, SigPcs, Hands, Signal, CallersInv, Types
    <3> HIDE DEF h
    <3> QED
      BY <3>2
  <2>2. CASE FindCorrelated(s)
    <3>1. PICK o \in Outcomes : Found(s, status.waiting, o)
      BY <2>2 DEF FindCorrelated
    <3>2. status.waiting \in Steps
      BY <2>2 DEF FindCorrelated, CallersInv, Types
    <3> DEFINE h == [pc |-> "found", wait |-> status.waiting, outcome |-> o, read |-> address]
    <3>3. /\ signaller' = [signaller EXCEPT ![s] = h] /\ h.pc = "found" /\ h.wait \in Steps /\ h.outcome = o
          /\ h \in Signal(SigPcs \ Hands)
      BY <3>1, <3>2 DEF Found, SigPcs, Hands, Signal, CallersInv, Types
    <3> HIDE DEF h
    <3> QED
      BY <3>3
  <2>3. CASE SignallerDies(s)
    <3> DEFINE h == [NoSignal EXCEPT !.pc = "failed"]
    <3>1. /\ signaller' = [signaller EXCEPT ![s] = h] /\ h.pc = "failed" /\ h.pc \notin Bound
          /\ h \in Signal(SigPcs \ Hands)
      BY <2>3 DEF SignallerDies, Ends, NoSignal, SigPcs, Hands, Bound, Signal, AddressOf
    <3> HIDE DEF h
    <3> QED
      BY <3>1
  <2> QED
    BY <2>1, <2>2, <2>3
<1> QED
  BY <1>1, <1>2, SignallerMoves

(* An interrupt writes the record, which then waits for nothing, and ends    *)
(* the walk.                                                                 *)
LEMMA InterruptKeeps ==
  ASSUME CallersInv, AskInterrupt \/ RecordInterrupt \/ Interrupted
  PROVE  CallersInv'
<1>0. /\ UNCHANGED <<slip, defects, journal, news, acted, deferred, clock, crashes>>
      /\ UNCHANGED <<owner, begun, starter, signaller, unsure, reparked>> /\ Steps' = Steps
  BY DEF AskInterrupt, RecordInterrupt, Interrupted, calls, history, vars, durable, Steps
<1>1. CallerTypes' /\ Starts' /\ Raced'
  BY <1>0 DEF CallersInv, CallerTypes, Starts, Answering, Raced, Journaled, Signal
<1>2. OneHand' /\ PutsBackInDoubt' /\ AcceptedIsKept'
  BY <1>0 DEF CallersInv, Answering, OneHand, PutsBackInDoubt, AcceptedIsKept, Doubtful
<1>3. status' = status \/ status' = [state |-> "interrupted", waiting |-> 0]
  BY DEF AskInterrupt, RecordInterrupt, Interrupted, vars, durable
<1>4. Lone'
  BY <1>0, <1>3, StepsCounted DEF CallersInv, Types, Answering, Lone, Held, Doubtful
<1>5. Types'
  <2>1. /\ status' \in [state : States, waiting : Steps \union {0}] /\ result' \in Results
        /\ address' \in [correlation : Steps \union {0}, accepts : Steps \union {0}]
    BY <1>3 DEF AddressOf, CallersInv, Types, States, Results, AskInterrupt, RecordInterrupt, Interrupted,
       vars, durable
  <2>2. CASE walk' = walk
    BY <1>0, <2>1, <2>2, WalkStays DEF CallersInv, Types
  <2>3. CASE Interrupted
    <3>1. WalkOf(walk', DOMAIN journal)
      BY <2>3, FreshFits DEF Interrupted, WalkOf, Phases, Fresh
    <3> QED
      BY <1>0, <2>1, <3>1 DEF CallersInv, Types, WalkOf, Steps, Kind
  <2> QED
    BY <2>2, <2>3 DEF AskInterrupt, RecordInterrupt, vars
<1> QED
  BY <1>1, <1>2, <1>4, <1>5 DEF CallersInv, Answering

(* The flow and its callers start well.                                      *)
LEMMA CallersStart == FlowInit => CallersInv
<1> SUFFICES ASSUME FlowInit PROVE CallersInv
  OBVIOUS
<1>1. Types
  BY InitTyped DEF FlowInit
<1>2. CallerTypes /\ Starts
  BY DEF FlowInit, CallerTypes, Starts, NoSignal, NoStart, SigPcs, Bound, Signal, AddressOf
<1>3. OneHand /\ PutsBackInDoubt /\ AcceptedIsKept
  BY DEF FlowInit, NoSignal, OneHand, PutsBackInDoubt, AcceptedIsKept
<1>4. Lone /\ Raced
  BY <1>1, StepsCounted DEF FlowInit, Init, Types, Lone, Raced, Journaled
<1> QED
  BY <1>1, <1>2, <1>3, <1>4 DEF CallersInv, Answering

(* Every step of the flow and of its callers keeps it.                       *)
LEMMA CallersStep == CallersInv /\ [FlowNext]_flowVars => CallersInv'
<1> SUFFICES ASSUME CallersInv, [FlowNext]_flowVars PROVE CallersInv'
  OBVIOUS
<1>1. CASE FlowNext
  BY <1>1, WalkLeavesCallers, StartKeeps, FindKeeps, ClaimKeeps, CompletionKeeps, PutBackKeeps, InterruptKeeps
     DEF FlowNext, SignalStep
<1>2. CASE UNCHANGED flowVars
  <2>1. vars' = vars /\ calls' = calls /\ history' = history
    BY <1>2 DEF flowVars
  <2>2. Types'
    BY <2>1, WalkStays DEF CallersInv, Types, vars, durable
  <2>3. UNCHANGED <<slip, journal, status, deferred, clock, owner, begun, starter, signaller, unsure, reparked>>
    BY <2>1 DEF vars, durable, calls, history
  <2>4. CallerTypes' /\ Starts' /\ Steps' = Steps
    BY <2>3 DEF CallersInv, CallerTypes, Starts, Signal, Steps
  <2>5. Lone' /\ OneHand'
    BY <2>3, <2>4 DEF CallersInv, Answering, Lone, OneHand, Doubtful, Held
  <2>6. PutsBackInDoubt' /\ AcceptedIsKept' /\ Raced'
    BY <2>3, <2>4 DEF CallersInv, Answering, PutsBackInDoubt, AcceptedIsKept, Raced, Doubtful, Journaled
  <2> QED
    BY <2>2, <2>4, <2>5, <2>6 DEF CallersInv, Answering
<1> QED
  BY <1>1, <1>2

(* The invariant of the callers.                                             *)
THEOREM CallersInvariant == FlowSpec => []CallersInv
BY CallersStart, CallersStep, PTL DEF FlowSpec

(* What an accepted signal said is what its wait is answered with, whatever  *)
(* signals, replays and timeouts race it, but for a clock that had fired, a  *)
(* completion that failed in doubt and a wait recorded again after its       *)
(* answer.                                                                   *)
THEOREM AcceptsTheAnswer == FlowSpec => []AcceptedIsTheAnswer
<1>1. CallersInv => AcceptedIsTheAnswer
  BY DEF CallersInv, CallerTypes, Bound, Answering, AcceptedIsKept, Raced, Doubtful, AcceptedIsTheAnswer
<1> QED
  BY <1>1, CallersInvariant, PTL

(* A flow that a key registered is executed unless every start that composed *)
(* its slip died.                                                            *)
THEOREM StartsUnlessDied == FlowSpec => []StartedUnlessDied
<1>1. CallersInv => StartedUnlessDied
  BY DEF CallersInv, Starts, StartedUnlessDied
<1> QED
  BY <1>1, CallersInvariant, PTL


-----------------------------------------------------------------------------
(* The replays of a walk.  What a walk may do is read from the journal: the  *)
(* steps of a segment, and of a stage, follow one another; what was begun    *)
(* was let in by its guard and came after what it follows; and what stands   *)
(* before the commit point is not guarded and does not wait.                 *)

(* What a step comes after.                                                  *)
Prior(i) == {j \in Steps : slip[j].stage < slip[i].stage \/ (j \in Group(i) /\ j < i)}

Began(i) == Journaled(<<"running", i>>) \/ Journaled(<<"waiting", i>>)

Active == {"noted", "parked", "waiting", "answered"}

(* A step whose store failed, and those that a store's failure kept from     *)
(* their end: it or an earlier one of its group died.                        *)
Broke(k) == \E name \in {"running", "waiting", "flow.waiting", "resumed"} : <<name, k>> \in defects
Dropped(i) == \E k \in Group(i) : k <= i /\ Broke(k)
Fallen == {"died", "lost"}

(* What the journal says of a step that stopped the walk.                    *)
Halts(i) ==
  IF Kind(i) = "wait" THEN Said("race", i, "timeout") /\ slip[i].onTimeout # "strand"
  ELSE Said("action", i, "failed")

(* What it says of a step that is there.                                     *)
Meets(i, p) ==
  /\ p = "noted" => Kind(i) # "wait" /\ Journaled(<<"running", i>>)
  /\ p \in {"parked", "waiting", "answered"} => Kind(i) = "wait" /\ Journaled(<<"waiting", i>>)
  /\ p = "answered" => Journaled(<<"race", i>>) /\ ~Said("race", i, "timeout")
  /\ p = "ok" => IF Kind(i) = "wait" THEN Journaled(<<"race", i>>) /\ ~Said("race", i, "timeout")
                 ELSE Said("action", i, "ok")
  /\ p = "failed" => Halts(i)
  /\ p = "stranded" => Said("race", i, "timeout") /\ slip[i].onTimeout = "strand"
  /\ p = "skipped" => slip[i].guard # 0
  /\ p = "died" => Broke(i)
  /\ p = "lost" => \E k \in Group(i) : k < i /\ Broke(k)

Order == \A i \in Steps : walk.pc[i] # "todo" => \A j \in Prior(i) : Ended(j)

(* What comes after a step that died, in its group, is lost.                 *)
Together == \A i \in Steps : walk.pc[i] \in Fallen => \A j \in Group(i) : i < j => walk.pc[j] = "lost"

Quiet ==
  /\ walk.phase = "starting" => \A i \in Steps : walk.pc[i] = "todo"
  /\ walk.phase # "walking" => \A i \in Steps : walk.pc[i] \notin Active

(* A strand is in one stage, and nothing that comes after what it passed     *)
(* over runs.                                                                *)
Strand ==
  /\ walk.stranded # 0 => walk.pc[walk.stranded] = "stranded"
  /\ \A i \in Steps :
       /\ walk.pc[i] \in {"void", "stranded"} => walk.stranded # 0 /\ slip[walk.stranded].stage = slip[i].stage
       /\ walk.pc[i] # "todo" /\ walk.stranded # 0 => slip[i].stage <= slip[walk.stranded].stage
       /\ walk.pc[i] \notin {"todo", "void"} => \A j \in Prior(i) : walk.pc[j] \notin {"void", "stranded"}

Met == \A i \in Steps : Meets(i, walk.pc[i])

(* Where no guard is raced, and no store fails, what was begun is never      *)
(* skipped.                                                                  *)
Skips == \A i \in Steps : walk.pc[i] = "skipped" => GuardedAcross \/ defects # {} \/ ~Began(i)

(* Everything done is to be undone, the last first.                          *)
DoneAll ==
  walk.phase \in {"starting", "walking"} =>
    \A i \in Steps : walk.pc[i] = "ok" /\ Kind(i) = "compensatable" => i \in Range(walk.done)
DoneLater ==
  \A n, m \in 1 .. Len(walk.done) : n < m => walk.done[m] \notin Prior(walk.done[n])

Course == Order /\ Together /\ Quiet /\ Strand /\ Met /\ Skips /\ DoneAll /\ DoneLater

LogOf(i) ==
  /\ Journaled(<<"action", i>>) =>
       Journaled(<<"running", i>>) /\ (Said("action", i, "ok") \/ Said("action", i, "failed"))
  /\ Journaled(<<"race", i>>) => Journaled(<<"waiting", i>>)
  /\ Journaled(<<"running", i>>) => Kind(i) # "wait"
  /\ Journaled(<<"waiting", i>>) => Kind(i) = "wait"
  /\ Acted("action", i) => Journaled(<<"running", i>>)
  /\ Said("undo", i, "ok") => Acted("undo", i)
  /\ Began(i) => \A m \in Prior(i) : ~PastCommit(m) =>
       Said("action", m, "ok") \/ (Dropped(m) /\ m \notin Group(i))
  /\ Began(i) /\ slip[i].guard # 0 =>
       Journaled(<<"race", slip[i].guard>>) /\ journal[<<"race", slip[i].guard>>] \in slip[i].on

Log == \A i \in Steps : LogOf(i)

(* What died has no answer, and wrote what a step of its kind writes.        *)
Apart ==
  /\ \A a \in defects : Note(a) /\ ~Journaled(a)
  /\ \A i \in Steps : \A name \in {"waiting", "flow.waiting", "resumed"} :
       <<name, i>> \in defects => Kind(i) = "wait"

Replay == Types /\ Course /\ Log /\ Apart

(* What the journal holds it holds for good.                                 *)
Kept == \A b \in DOMAIN journal : b \in DOMAIN journal' /\ journal'[b] = journal[b]

(* Nothing but the answer of this activity is added to it.                   *)
Adds(a) == Kept /\ DOMAIN journal' \subseteq DOMAIN journal \union {a}

(* An activity answers and the walk goes on, or the runner stops first.      *)
LEMMA AnswersEither ==
  ASSUME NEW a, NEW r, NEW next, Answers(a, r, next)
  PROVE  /\ Adds(a)
         /\ \/ walk' = next /\ Journaled(a)' /\ (Journaled(a) \/ journal'[a] = r)
            \/ walk' = Fresh /\ journal' = journal
BY DEF Answers, Adds, Kept, Journaled

(* A stage does not come before an earlier step's, and a step comes after    *)
(* earlier ones only.                                                        *)
LEMMA PriorIsBefore ==
  ASSUME slip \in Slips, NEW i \in Steps, NEW j \in Prior(i)
  PROVE  j \in Steps /\ j < i /\ slip[j].stage <= slip[i].stage
<1>1. \A a, b \in Steps : a < b => slip[a].stage <= slip[b].stage
  BY SlipsAssumption DEF Steps
<1>2. \A a \in Steps : slip[a].stage \in Nat /\ a \in Nat
  BY StepsCounted DEF Step
<1> QED
  BY <1>1, <1>2 DEF Prior, Group, Stage

(* The steps of a group have one group.                                      *)
LEMMA OneGroup ==
  ASSUME NEW i \in Steps, NEW j \in Group(i)
  PROVE  /\ j \in Stage(i) /\ Stage(j) = Stage(i) /\ Group(j) = Group(i) /\ i \in Group(j)
BY DEF Group, Stage

(* Before the commit point nothing waits and nothing is guarded; what can be *)
(* undone stands there.                                                      *)
LEMMA BeforeCommit ==
  ASSUME slip \in Slips, NEW i \in Steps
  PROVE  /\ ~PastCommit(i) => Kind(i) # "wait" /\ slip[i].guard = 0
         /\ Kind(i) = "compensatable" => ~PastCommit(i)
<1>1. ValidSlip(slip) /\ slip \in [Steps -> Step] /\ \A a \in Steps : a \in Nat
  BY SlipsAssumption, StepsCounted
<1>2. \A a \in Steps : Kind(a) = "wait" => PastCommit(a)
  BY <1>1 DEF ValidSlip, Steps, Kind, PastCommit, CommitPoint
<1>3. slip[i].guard # 0 => slip[i].guard \in Steps /\ slip[i].guard < i /\ Kind(slip[i].guard) = "wait"
  <2>1. slip[i].guard # 0 => slip[i].guard < i /\ Kind(slip[i].guard) = "wait"
    BY <1>1 DEF ValidSlip, Steps, Kind
  <2>2. slip[i].guard \in Nat
    BY <1>1 DEF Step
  <2> QED
    BY <2>1, <2>2, StepsCounted
<1>4. slip[i].guard # 0 => PastCommit(i)
  BY <1>1, <1>2, <1>3 DEF PastCommit, CommitPoint
<1>5. Kind(i) = "compensatable" => ~PastCommit(i)
  BY <1>1 DEF ValidSlip, Steps, Kind, PastCommit, CommitPoint
<1> QED
  BY <1>2, <1>4, <1>5


(* Turning back.  A step before the commit point failed and, unless a strand *)
(* was raced, every other one there has answered or can never begin: what    *)
(* has to be undone does not change any more.                                *)
FailedBefore == \E m \in Steps : ~PastCommit(m) /\ Said("action", m, "failed")

Settled == \A j \in Steps : ~PastCommit(j) =>
  \/ Said("action", j, "ok") \/ Said("action", j, "failed")
  \/ \E k \in Prior(j) : ~PastCommit(k) /\ Said("action", k, "failed")
  \/ Dropped(j)

Closes(verdicts) ==
  walk.phase \in {"closing", "telling", "returning", "over"} /\ walk.verdict \in verdicts

ToUndo(i) == Kind(i) = "compensatable" /\ Said("action", i, "ok")

TurnsBack ==
  /\ walk.phase = "undoing" \/ Closes({"compensated", "failed"}) => FailedBefore
  /\ walk.phase = "undoing" => StrandedBeside \/
       (Settled /\ \A j \in Steps : ToUndo(j) => j \in Range(walk.done) \/ Said("undo", j, "ok"))
  /\ Closes({"compensated"}) => StrandedBeside \/
       (Settled /\ \A j \in Steps : ToUndo(j) => Said("undo", j, "ok"))

UndoneInOrder ==
  /\ \A i \in Steps : Acted("undo", i) =>
       Said("action", i, "ok") /\ FailedBefore /\ (StrandedBeside \/ Settled)
  /\ \A j \in Steps : \A i \in Prior(j) :
       Acted("undo", i) /\ ToUndo(j) => Said("undo", j, "ok") \/ StrandedBeside

(* Stopping past it.  A step past the commit point failed, those before it   *)
(* succeeded, and no walk completes what the journal says failed.            *)
Stopped ==
  /\ \E i \in Steps : PastCommit(i) /\ Halts(i)
  /\ StrandedBeside \/ \A m \in Steps : ~PastCommit(m) => Said("action", m, "ok") \/ Dropped(m)

Stops ==
  /\ Closes({"suspended"}) => Stopped
  /\ (\E n \in DOMAIN news : news[n].name = "flow.suspended") => Stopped

Completes == Closes({"completed"}) => \A i \in Steps : walk.pc[i] \in {"ok", "skipped"} \union Fallen

(* The walk of a flow that was interrupted is gone.                          *)
Gone == result = "interrupted" /\ walk = [Fresh EXCEPT !.phase = "over"]
Resulted == Gone \/ result = IF walk.phase = "over" THEN walk.verdict ELSE "none"
Closings == TurnsBack /\ UndoneInOrder /\ Stops /\ Completes /\ Resulted


-----------------------------------------------------------------------------
(* A fresh walk has no course yet.                                           *)
LEMMA FreshCourse == ASSUME walk' = Fresh, slip' = slip PROVE Course'
<1>1. Steps' = Steps /\ \A i \in Steps : Fresh.pc[i] = "todo"
  BY DEF Steps, Fresh
<1>2. Fresh.phase = "starting" /\ Fresh.stranded = 0 /\ Fresh.done = <<>> /\ Len(<<>>) = 0
  BY EmptySeq DEF Fresh
<1>3. Order' /\ Together' /\ Quiet' /\ Strand'
  BY <1>1, <1>2 DEF Order, Together, Quiet, Strand, Active, Fallen
<1>4. Met' /\ Skips' /\ DoneAll'
  BY <1>1 DEF Met, Meets, Skips, DoneAll, Fallen
<1>5. DoneLater'
  BY <1>2 DEF DoneLater
<1> QED
  BY <1>3, <1>4, <1>5 DEF Course

(* What fell was dropped.                                                    *)
LEMMA FallenDropped ==
  ASSUME Replay, NEW i \in Steps, walk.pc[i] \in Fallen
  PROVE  Dropped(i)
<1>1. Meets(i, walk.pc[i]) /\ slip \in Slips /\ \A a \in Steps : a \in Nat
  BY StepsCounted DEF Replay, Types, Course, Met
<1>2. i \in Group(i) /\ Group(i) \subseteq Steps
  BY DEF Group, Stage
<1>3. \A k \in Group(i) : k < i => k <= i
  BY <1>1, <1>2
<1> QED
  BY <1>1, <1>2, <1>3 DEF Meets, Fallen, Dropped

(* A step that waits before the commit point, or is passed there, is passed  *)
(* by a strand beside the pivot's segments.                                  *)
LEMMA EndedBefore ==
  ASSUME Replay, NEW j \in Steps, ~PastCommit(j), Ended(j)
  PROVE  \/ StrandedBeside \/ (walk.pc[j] = "ok" /\ Said("action", j, "ok"))
         \/ walk.pc[j] \in Fallen /\ Dropped(j)
<1>1. Kind(j) # "wait" /\ slip[j].guard = 0 /\ slip \in Slips
  BY BeforeCommit DEF Replay, Types
<1>2. Meets(j, walk.pc[j]) /\ LogOf(j)
  BY DEF Replay, Course, Met, Log
<1>3. CASE walk.pc[j] = "ok"
  BY <1>1, <1>2, <1>3 DEF Meets
<1>4. walk.pc[j] # "skipped" /\ walk.pc[j] # "stranded"
  BY <1>1, <1>2 DEF Meets, LogOf, Said
<1>5. CASE walk.pc[j] = "void"
  <2> DEFINE w == walk.stranded
  <2>1. /\ w # 0 /\ w \in Steps /\ slip[w].stage = slip[j].stage /\ walk.pc[w] = "stranded"
    BY <1>5 DEF Replay, Types, WalkOf, Course, Strand
  <2>2. Said("race", w, "timeout") /\ slip[w].onTimeout = "strand" /\ Kind(w) = "wait"
    BY <2>1 DEF Replay, Course, Met, Meets, Log, LogOf, Said
  <2>3. PICK p \in CommitPoint : w > p
    BY <2>1, <2>2, <1>1, BeforeCommit DEF PastCommit
  <2>4. p \in Steps /\ ~(j > p)
    BY <2>3 DEF CommitPoint, PastCommit
  <2>5. /\ j \in Nat /\ p \in Nat /\ w \in Nat /\ j < w
        /\ (j < p \/ j = p)
    BY <1>1, <2>1, <2>3, <2>4, StepsCounted
  <2>6. slip[p].stage = slip[w].stage
    <3>1. \A a, b \in Steps : a < b => slip[a].stage <= slip[b].stage
      BY <1>1, SlipsAssumption DEF Steps
    <3>2. \A a \in Steps : slip[a].stage \in Nat
      BY <1>1, StepsCounted DEF Step
    <3> QED
      BY <3>1, <3>2, <2>1, <2>3, <2>4, <2>5
  <2>7. w \in Stage(p) /\ j \in Stage(p)
    BY <2>1, <2>4, <2>6 DEF Stage
  <2>8. CASE Group(p) = Stage(p)
    <3>1. j \in Group(w)
      BY <2>4, <2>7, <2>8, OneGroup
    <3>2. j \in Prior(w)
      BY <3>1, <2>5 DEF Prior
    <3> QED
      BY <3>2, <2>1, <1>5 DEF Replay, Course, Strand
  <2> QED
    BY <2>2, <2>3, <2>7, <2>8 DEF StrandedBeside
<1>6. walk.pc[j] \in Fallen => Dropped(j)
  BY <1>1, FallenDropped DEF Replay, Course, Met
<1> QED
  BY <1>3, <1>4, <1>5, <1>6 DEF Ended, Fallen

(* What a step's turn comes after: everything before the commit point that   *)
(* it follows has answered, or died in another group, and the wait it is     *)
(* guarded on, as the guard says.                                            *)
LEMMA TurnAfter ==
  ASSUME Replay, NEW i \in Steps, Turn(i), walk.stranded = 0
  PROVE  /\ \A m \in Prior(i) : ~PastCommit(m) =>
              Said("action", m, "ok") \/ (Dropped(m) /\ m \notin Group(i))
         /\ GuardPasses(i) /\ slip[i].guard # 0 =>
              Journaled(<<"race", slip[i].guard>>) /\ journal[<<"race", slip[i].guard>>] \in slip[i].on
<1>1. slip \in Slips /\ slip \in [Steps -> Step] /\ ValidSlip(slip)
  BY StepsCounted, SlipsAssumption DEF Replay, Types
<1>2. \A m \in Steps : walk.pc[m] \notin {"void", "stranded"}
  BY DEF Replay, Course, Strand
<1>3. ASSUME NEW m \in Prior(i), ~PastCommit(m)
      PROVE  Said("action", m, "ok") \/ (Dropped(m) /\ m \notin Group(i))
  <2>1. m \in Steps /\ Ended(m) /\ m < i
    BY <1>1, <1>3, PriorIsBefore DEF Prior, Turn
  <2>2. Kind(m) # "wait" /\ slip[m].guard = 0
    BY <1>1, <1>3, <2>1, BeforeCommit
  <2>3. walk.pc[m] \in {"ok"} \union Fallen
    BY <1>2, <2>1, <2>2, FallenDropped DEF Ended, Replay, Course, Met, Meets, Fallen
  <2>4. m \in Group(i) => walk.pc[m] \notin Fallen
    BY <2>1, OneGroup DEF Replay, Course, Together, Turn
  <2> QED
    BY <2>1, <2>2, <2>3, <2>4, FallenDropped DEF Replay, Course, Met, Meets
<1>4. ASSUME GuardPasses(i), slip[i].guard # 0
      PROVE  Journaled(<<"race", slip[i].guard>>) /\ journal[<<"race", slip[i].guard>>] \in slip[i].on
  <2> DEFINE w == slip[i].guard
  <2>1. w \in Steps /\ Kind(w) = "wait" /\ slip[i].on \subseteq Outcomes
    <3>1. w < i /\ Kind(w) = "wait" /\ w \in Nat /\ slip[i].on \subseteq Outcomes
      BY <1>1, <1>4 DEF ValidSlip, Step, Steps, Kind
    <3> QED
      BY <1>1, <1>4, <3>1, StepsCounted
  <2>2. Answered(w) \in slip[i].on /\ Answered(w) # "none"
    BY <1>4, <2>1, DialsAssumption DEF GuardPasses
  <2>3. /\ walk.pc[w] \in {"answered", "ok"} \/ Journaled(<<"race", w>>)
        /\ journal[<<"race", w>>] \in slip[i].on
    BY <2>2 DEF Answered
  <2>4. Meets(w, walk.pc[w])
    BY <2>1 DEF Replay, Course, Met
  <2> QED
    BY <2>1, <2>3, <2>4 DEF Meets
<1> QED
  BY <1>3, <1>4


(* A step of the slip whose turn it is, or that is under way, goes on.       *)
Moves(i, p) ==
  /\ walk.phase = "walking" /\ walk'.phase = "walking" /\ slip' = slip /\ defects' = defects
  /\ walk.pc[i] \in Active \/ (Turn(i) /\ (IF p = "void" THEN walk.stranded # 0 ELSE walk.stranded = 0))
  /\ walk'.pc = [walk.pc EXCEPT ![i] = p]
  /\ IF p = "stranded" THEN walk.pc[i] \in Active /\ walk'.stranded = i ELSE walk'.stranded = walk.stranded
  /\ walk'.done = IF p = "ok" /\ Kind(i) = "compensatable" THEN Append(walk.done, i) ELSE walk.done

(* Nothing that has a place in the course comes after a step that is not     *)
(* over.                                                                     *)
LEMMA UnderWay ==
  ASSUME Replay, NEW i \in Steps, walk.pc[i] \in Active \union {"todo"}, NEW j \in Steps, i \in Prior(j)
  PROVE  walk.pc[j] = "todo"
BY DEF Replay, Course, Order, Ended, Active

(* The order of a walk, and what a strand passes over, as it goes on.        *)
LEMMA OrderKept ==
  ASSUME Replay, NEW i \in Steps, NEW p \in Pcs \ ({"todo"} \union Fallen), Moves(i, p), p = "void" => Turn(i)
  PROVE  Order' /\ Strand'
<1>0. /\ walk.pc \in [Steps -> Pcs] /\ walk.stranded \in Steps \union {0} /\ slip \in Slips
      /\ Steps' = Steps /\ \A j \in Steps : Prior(j)' = Prior(j) /\ Prior(j) \subseteq Steps
  BY DEF Replay, Types, WalkOf, Moves, Steps, Prior, Group, Stage
<1>1. walk.pc[i] \in Active \union {"todo"} /\ ~Ended(i)
  BY DEF Moves, Turn, Ended, Active
<1>2. walk'.pc[i] = p /\ \A j \in Steps \ {i} : walk'.pc[j] = walk.pc[j]
  BY <1>0 DEF Moves
<1>3. \A j \in Steps : walk.pc[j] # "todo" => i \notin Prior(j)
  BY <1>0, <1>1, UnderWay
<1>4. \A j \in Prior(i) : Ended(j) /\ j # i
  <2>1. \A j \in Prior(i) : Ended(j)
    <3>1. CASE walk.pc[i] \in Active
      BY <3>1 DEF Replay, Course, Order, Active
    <3>2. CASE Turn(i)
      BY <3>2 DEF Turn, Prior
    <3> QED
      BY <3>1, <3>2 DEF Moves
  <2> QED
    BY <1>1, <2>1
<1>5. i \notin Prior(i)
  BY <1>1, <1>4
<1>6. Order'
  <2> SUFFICES ASSUME NEW j \in Steps, walk'.pc[j] # "todo", NEW k \in Prior(j) PROVE Ended(k)'
    BY <1>0 DEF Order
  <2>1. CASE j = i
    BY <1>0, <1>2, <1>4, <2>1 DEF Ended
  <2>2. CASE j # i
    <3>1. Ended(k) /\ k # i
      BY <1>0, <1>2, <1>3, <2>2 DEF Replay, Course, Order
    <3> QED
      BY <1>0, <1>2, <3>1 DEF Ended
  <2> QED
    BY <2>1, <2>2
<1>7. CASE p # "stranded"
  <2>0. walk'.stranded = walk.stranded
    BY <1>7 DEF Moves
  <2>1. walk.stranded # 0 => walk.stranded # i /\ walk.pc[walk.stranded] = "stranded"
    BY <1>1 DEF Replay, Course, Strand, Active
  <2>2. Turn(i) /\ walk.stranded # 0 => slip[walk.stranded].stage = slip[i].stage
    BY <1>0 DEF Turn, Stage
  <2>3. \A j \in Steps : slip[j].stage \in Nat
    BY <1>0, StepsCounted DEF Step
  <2>4. ASSUME NEW j \in Steps, walk'.pc[j] \in {"void", "stranded"}
        PROVE  walk.stranded # 0 /\ slip[walk.stranded].stage = slip[j].stage
    <3>1. CASE j # i
      BY <1>2, <2>4, <3>1 DEF Replay, Course, Strand
    <3>2. CASE j = i
      BY <1>2, <1>7, <2>2, <2>4, <3>2 DEF Moves, Turn, Active
    <3> QED
      BY <3>1, <3>2
  <2>5. ASSUME NEW j \in Steps, walk'.pc[j] # "todo", walk.stranded # 0
        PROVE  slip[j].stage <= slip[walk.stranded].stage
    <3>1. CASE walk.pc[j] # "todo"
      BY <2>5, <3>1 DEF Replay, Course, Strand
    <3>2. CASE j = i /\ Turn(i)
      BY <1>0, <2>2, <2>3, <2>5, <3>2
    <3> QED
      BY <1>2, <2>5, <3>1, <3>2 DEF Moves, Active
  <2>6. ASSUME NEW j \in Steps, walk'.pc[j] \notin {"todo", "void"}, NEW k \in Prior(j)
        PROVE  walk'.pc[k] \notin {"void", "stranded"}
    <3>1. CASE j # i
      BY <1>0, <1>2, <1>3, <2>6, <3>1 DEF Replay, Course, Strand
    <3>2. CASE j = i /\ walk.pc[i] \in Active
      BY <1>0, <1>2, <1>5, <2>6, <3>2 DEF Replay, Course, Strand, Active
    <3>3. CASE j = i /\ walk.stranded = 0
      BY <1>0, <1>2, <1>5, <2>6, <3>3 DEF Replay, Course, Strand
    <3> QED
      BY <1>2, <2>6, <3>1, <3>2, <3>3 DEF Moves
  <2>7. Strand'
    BY <1>0, <1>2, <2>0, <2>1, <2>4, <2>5, <2>6 DEF Strand, Moves
  <2> QED
    BY <1>6, <2>7
<1>8. CASE p = "stranded"
  <2>0. walk'.stranded = i /\ walk.pc[i] \in Active /\ i # 0
    BY <1>0, <1>8, StepsCounted DEF Moves
  <2>1. \A j \in Steps : slip[j].stage \in Nat
    BY <1>0, StepsCounted DEF Step
  <2>2. walk.stranded # 0 => slip[walk.stranded].stage = slip[i].stage
    <3> SUFFICES ASSUME walk.stranded # 0 PROVE slip[walk.stranded].stage = slip[i].stage
      OBVIOUS
    <3>1. slip[i].stage <= slip[walk.stranded].stage /\ walk.pc[walk.stranded] = "stranded"
      BY <2>0 DEF Replay, Course, Strand, Active
    <3>2. i \notin Prior(walk.stranded)
      BY <1>0, <1>3, <3>1
    <3>3. walk.stranded \in Steps /\ ~(slip[i].stage < slip[walk.stranded].stage)
      BY <1>0, <3>2 DEF Prior
    <3>4. slip[i].stage \in Nat /\ slip[walk.stranded].stage \in Nat
      BY <2>1, <3>3
    <3> QED
      BY <3>1, <3>3, <3>4
  <2>4. ASSUME NEW j \in Steps, walk'.pc[j] \in {"void", "stranded"}
        PROVE  slip[i].stage = slip[j].stage
    BY <1>2, <2>2, <2>4 DEF Replay, Course, Strand
  <2>5. ASSUME NEW j \in Steps, walk'.pc[j] # "todo"
        PROVE  slip[j].stage <= slip[i].stage
    <3>1. j # i => i \notin Prior(j)
      BY <1>2, <1>3, <2>5
    <3> QED
      BY <2>1, <3>1 DEF Prior
  <2>6. ASSUME NEW j \in Steps, walk'.pc[j] \notin {"todo", "void"}, NEW k \in Prior(j)
        PROVE  walk'.pc[k] \notin {"void", "stranded"}
    <3>1. CASE j # i
      BY <1>0, <1>2, <1>3, <2>6, <3>1 DEF Replay, Course, Strand
    <3>2. CASE j = i
      BY <1>0, <1>2, <1>5, <2>0, <2>6, <3>2 DEF Replay, Course, Strand, Active
    <3> QED
      BY <3>1, <3>2
  <2>7. Strand'
    BY <1>0, <1>2, <1>8, <2>0, <2>4, <2>5, <2>6 DEF Strand, Moves
  <2> QED
    BY <1>6, <2>7
<1> QED
  BY <1>7, <1>8

(* What the journal says of a step that is there it says still.              *)
LEMMA MetKept ==
  ASSUME Kept, slip' = slip, defects \subseteq defects', NEW j \in Steps, NEW p, Meets(j, p)
  PROVE  Meets(j, p)'
<1>1. \A b : Journaled(b) => Journaled(b)' /\ journal'[b] = journal[b]
  BY DEF Kept, Journaled
<1>2. Halts(j) => Halts(j)'
  BY <1>1 DEF Halts, Said, Kind
<1>3. Group(j)' = Group(j) /\ \A k : Broke(k) => Broke(k)'
  BY DEF Broke, Group, Stage, Steps
<1> QED
  BY <1>1, <1>2, <1>3 DEF Meets, Said, Kind

(* Everything done is remembered after what it follows.                      *)
LEMMA DoneKept ==
  ASSUME Replay, NEW i \in Steps, NEW p \in Pcs, Moves(i, p)
  PROVE  DoneAll' /\ DoneLater'
<1>0. /\ walk.pc \in [Steps -> Pcs] /\ walk.done \in Seq(Steps) /\ slip \in Slips
      /\ Steps' = Steps /\ \A j \in Steps : Prior(j)' = Prior(j) /\ Kind(j)' = Kind(j)
  BY DEF Replay, Types, WalkOf, Moves, Steps, Kind, Prior, Group, Stage
<1>1. walk.pc[i] \in Active \union {"todo"}
  BY DEF Moves, Turn, Active
<1>2. walk'.pc[i] = p /\ \A j \in Steps \ {i} : walk'.pc[j] = walk.pc[j]
  BY <1>0 DEF Moves
<1>3. \A j \in Steps \ {i} : walk'.pc[j] = "ok" /\ Kind(j) = "compensatable" => j \in Range(walk.done)
  BY <1>2 DEF Replay, Course, DoneAll, Moves
<1>4. CASE walk'.done = walk.done /\ ~(p = "ok" /\ Kind(i) = "compensatable")
  <2>1. \A j \in Steps : walk'.pc[j] = "ok" /\ Kind(j) = "compensatable" => j \in Range(walk.done)
    BY <1>2, <1>3, <1>4
  <2>2. DoneAll'
    BY <1>0, <1>4, <2>1 DEF DoneAll
  <2>3. \A n \in 1 .. Len(walk.done) : walk.done[n] \in Steps
    BY <1>0, ElementOfSeq
  <2>4. DoneLater'
    BY <1>0, <1>4, <2>3 DEF DoneLater, Replay, Course
  <2> QED
    BY <2>2, <2>4
<1>5. CASE walk'.done = Append(walk.done, i)
  <2> DEFINE d == walk.done
             e == Append(walk.done, i)
  <2>1. /\ Len(d) \in Nat /\ e \in Seq(Steps) /\ Len(e) = Len(d) + 1 /\ e[Len(d) + 1] = i
        /\ \A n \in 1 .. Len(d) : e[n] = d[n] /\ d[n] \in Steps
    BY <1>0, AppendProperties, LenProperties, ElementOfSeq
  <2>2. Range(d) = {d[n] : n \in 1 .. Len(d)} /\ Range(e) = {e[n] : n \in 1 .. Len(e)}
    BY <1>0, <2>1, RangeEquality
  <2>3. i \in Range(e) /\ Range(d) \subseteq Range(e)
    BY <2>1, <2>2
  <2>4. \A j \in Steps : walk'.pc[j] = "ok" /\ Kind(j) = "compensatable" => j \in Range(e)
    BY <1>3, <2>3
  <2>5. DoneAll'
    BY <1>0, <1>5, <2>4 DEF DoneAll
  <2>6. \A n \in 1 .. Len(d) : d[n] \in Range(d) /\ walk.pc[d[n]] = "ok"
    BY <2>2 DEF Replay, Types, WalkOf
  <2>7. \A n \in 1 .. Len(d) : i \notin Prior(d[n])
    <3> SUFFICES ASSUME NEW n \in 1 .. Len(d), i \in Prior(d[n]) PROVE FALSE
      OBVIOUS
    <3>1. walk.pc[d[n]] = "todo"
      BY <1>1, <2>1, UnderWay
    <3> QED
      BY <2>6, <3>1
  <2>8. ASSUME NEW n \in 1 .. Len(e), NEW m \in 1 .. Len(e), n < m PROVE e[m] \notin Prior(e[n])
    <3>1. n \in 1 .. Len(d) /\ e[n] = d[n]
      BY <2>1, <2>8
    <3>2. CASE m = Len(d) + 1
      BY <2>1, <2>7, <3>1, <3>2
    <3>3. CASE m \in 1 .. Len(d)
      BY <2>1, <2>8, <3>1, <3>3 DEF Replay, Course, DoneLater
    <3> QED
      BY <2>1, <3>2, <3>3
  <2>9. \A n \in 1 .. Len(e) : e[n] \in Steps
    BY <2>1, ElementOfSeq
  <2>10. DoneLater'
    <3> HIDE DEF e
    <3> QED
      BY <1>0, <1>5, <2>8, <2>9 DEF DoneLater, e
  <2> QED
    BY <2>5, <2>10
<1> QED
  BY <1>4, <1>5 DEF Moves


(* What was begun is not skipped, where no guard is raced; and the course of *)
(* the walk is kept.                                                         *)
LEMMA CourseMoves ==
  ASSUME Replay, NEW i \in Steps, NEW p \in Pcs \ ({"todo"} \union Fallen), Moves(i, p), p = "void" => Turn(i),
         NEW a, Adds(a), \A j \in Steps \ {i} : a # <<"running", j>> /\ a # <<"waiting", j>>,
         Meets(i, p)', p = "skipped" => GuardedAcross \/ defects # {} \/ ~Began(i)'
  PROVE  Course'
<1>0. /\ walk.pc \in [Steps -> Pcs] /\ slip' = slip /\ Steps' = Steps /\ defects' = defects
      /\ GuardedAcross' <=> GuardedAcross
  BY DEF Replay, Types, WalkOf, Moves, Steps, GuardedAcross, Group, Stage
<1>1. walk'.pc[i] = p /\ \A j \in Steps \ {i} : walk'.pc[j] = walk.pc[j]
  BY <1>0 DEF Moves
<1>2. Order' /\ Strand' /\ Together'
  <2>1. walk.pc[i] \notin Fallen
    BY DEF Moves, Turn, Active, Fallen
  <2>2. \A j \in Steps : walk'.pc[j] \in Fallen => j # i /\ walk.pc[j] \in Fallen
    BY <1>1 DEF Fallen
  <2>3. walk.pc[i] # "lost"
    BY <2>1 DEF Fallen
  <2>4. \A j \in Steps : Group(j)' = Group(j) /\ Group(j) \subseteq Steps
    BY <1>0 DEF Group, Stage
  <2>5. Together'
    BY <1>0, <1>1, <2>2, <2>3, <2>4 DEF Replay, Course, Together
  <2> QED
    BY <2>5, OrderKept
<1>3. DoneAll' /\ DoneLater'
  BY DoneKept
<1>4. Quiet'
  BY DEF Quiet, Moves
<1>5. Met'
  <2> SUFFICES ASSUME NEW j \in Steps PROVE Meets(j, walk.pc[j])'
    BY <1>0 DEF Met
  <2>1. CASE j = i
    BY <1>1, <2>1 DEF Meets
  <2>2. CASE j # i
    <3>1. PICK q : q = walk.pc[j]
      OBVIOUS
    <3>2. Meets(j, q)
      BY <3>1 DEF Replay, Course, Met
    <3>3. Meets(j, q)'
      BY <1>0, <3>2, MetKept DEF Adds, Moves
    <3> QED
      BY <1>1, <2>2, <3>1, <3>3 DEF Meets
  <2> QED
    BY <2>1, <2>2
<1>6. \A j \in Steps \ {i} : Began(j)' => Began(j)
  BY DEF Began, Journaled, Adds
<1>7. Skips'
  BY <1>0, <1>1, <1>6 DEF Replay, Course, Skips
<1> QED
  BY <1>2, <1>3, <1>4, <1>5, <1>7 DEF Course

(* A step that the walk moves, but for one that is done or strands it.       *)
LEMMA MoveMoves ==
  ASSUME Replay, NEW i \in Steps, NEW p, walk' = Move(i, p), slip' = slip, defects' = defects,
         p # "stranded", p = "ok" => Kind(i) # "compensatable",
         walk.pc[i] \in Active \/ (Turn(i) /\ (IF p = "void" THEN walk.stranded # 0 ELSE walk.stranded = 0))
  PROVE  Moves(i, p)
<1>1. walk.phase = "walking"
  BY DEF Replay, Course, Quiet, Turn
<1>2. /\ walk'.phase = walk.phase /\ walk'.pc = [walk.pc EXCEPT ![i] = p]
      /\ walk'.stranded = walk.stranded /\ walk'.done = walk.done
  BY DEF Move, Replay, Types, WalkOf
<1> QED
  BY <1>1, <1>2 DEF Moves

(* An activity of a step that answers moves it, unless the runner stops.     *)
LEMMA ActivityMoves ==
  ASSUME Replay, NEW i \in Steps, NEW kind, NEW r, NEW p \in Pcs \ ({"todo", "void", "skipped"} \union Fallen),
         Answers(<<kind, i>>, r, Move(i, p)), slip' = slip, defects' = defects,
         p # "stranded", p = "ok" => Kind(i) # "compensatable",
         walk.pc[i] \in Active \/ (Turn(i) /\ walk.stranded = 0),
         Journaled(<<kind, i>>)' => Meets(i, p)'
  PROVE  Course'
<1> DEFINE a == <<kind, i>>
<1>1. Adds(a) /\ \A j \in Steps \ {i} : a # <<"running", j>> /\ a # <<"waiting", j>>
  BY AnswersEither
<1>2. CASE walk' = Fresh
  BY <1>2, FreshCourse
<1>3. CASE walk' = Move(i, p) /\ Journaled(a)'
  <2>1. Moves(i, p)
    BY <1>3, MoveMoves
  <2> QED
    BY <1>1, <1>3, <2>1, CourseMoves
<1> QED
  BY <1>2, <1>3, AnswersEither

(* Where no guard is raced, a step that its guard does not let in was never  *)
(* let in.                                                                   *)
LEMMA PassesOver ==
  ASSUME Replay, NEW i \in Steps, Turn(i), walk.stranded = 0, ~GuardPasses(i)
  PROVE  slip[i].guard # 0 /\ (GuardedAcross \/ defects # {} \/ ~Began(i))
<1> DEFINE w == slip[i].guard
<1>1. slip \in Slips /\ slip \in [Steps -> Step] /\ ValidSlip(slip)
  BY StepsCounted, SlipsAssumption DEF Replay, Types
<1>2. w # 0 /\ Answered(w) \notin slip[i].on
  BY DEF GuardPasses
<1> SUFFICES ASSUME ~GuardedAcross, defects = {}, Began(i) PROVE FALSE
  BY <1>2
<1>3. w \in Steps /\ w < i /\ Kind(w) = "wait"
  <2>1. w < i /\ Kind(w) = "wait" /\ w \in Nat
    BY <1>1, <1>2 DEF ValidSlip, Step, Steps, Kind
  <2> QED
    BY <1>1, <1>2, <2>1, StepsCounted
<1>4. Journaled(<<"race", w>>) /\ journal[<<"race", w>>] \in slip[i].on /\ Began(w)
  BY <1>2, <1>3 DEF Replay, Log, LogOf, Began
<1>5. w \in Prior(i)
  <2>1. w \notin Stage(i) \ Group(i)
    BY DEF GuardedAcross
  <2>2. slip[w].stage <= slip[i].stage /\ slip[w].stage \in Nat /\ slip[i].stage \in Nat
    BY <1>1, <1>3, SlipsAssumption DEF Steps, Step
  <2> QED
    BY <1>3, <2>1, <2>2 DEF Prior, Stage
<1>6. Ended(w) /\ walk.pc[w] \notin {"void", "stranded"}
  BY <1>3, <1>5 DEF Turn, Prior, Replay, Course, Strand
<1>7. walk.pc[w] # "ok"
  BY <1>2, <1>4 DEF Answered
<1>8. walk.pc[w] # "skipped"
  BY <1>3, <1>4 DEF Replay, Course, Skips
<1>9. walk.pc[w] \notin Fallen
  BY <1>3 DEF Replay, Course, Met, Meets, Fallen, Broke
<1> QED
  BY <1>6, <1>7, <1>8, <1>9 DEF Ended, Fallen


(* A step of the slip that is reached, called, parked at or passed.          *)
LEMMA StepCourse == ASSUME Replay, NEW i \in Steps, StepOf(i) PROVE Course'
<1>0. Meets(i, walk.pc[i]) /\ LogOf(i) /\ slip \in Slips
  BY DEF Replay, Types, Course, Met, Log
<1>1. CASE Begin(i)
  <2> DEFINE a == <<"running", i>>
  <2>1. Answers(a, "done", Move(i, "noted")) /\ slip' = slip /\ defects' = defects
    BY <1>1 DEF Begin, Record
  <2>2. Journaled(a)' => Meets(i, "noted")'
    BY <1>1, <2>1 DEF Begin, Meets, Kind, Fallen
  <2>3. Turn(i) /\ walk.stranded = 0
    BY <1>1 DEF Begin
  <2> QED
    BY <2>1, <2>2, <2>3, ActivityMoves DEF Pcs, Fallen
<1>2. CASE Act(i)
  <2> DEFINE a == <<"action", i>>
  <2>1. PICK r : /\ r \in IF Journaled(a) THEN {journal[a]} ELSE {"ok", "failed"}
                 /\ Answers(a, r, IF r = "ok" THEN Done(i) ELSE Move(i, "failed"))
                 /\ slip' = slip
                 /\ defects' = defects
    BY <1>2 DEF Act, Call
  <2>2. r \in {"ok", "failed"}
    BY <1>0, <2>1 DEF LogOf, Said
  <2>3. walk.pc[i] = "noted" /\ Kind(i) # "wait"
    BY <1>0, <1>2 DEF Act, Meets, Fallen
  <2>4. Adds(a) /\ (walk' = Fresh \/ (Journaled(a)' /\ (Journaled(a) \/ journal'[a] = r)))
    BY <2>1, AnswersEither
  <2>5. walk' # Fresh => Said("action", i, r)'
    BY <2>1, <2>4 DEF Adds, Kept, Said, Journaled
  <2>6. CASE walk' = Fresh
    BY <2>1, <2>6, FreshCourse
  <2>7. CASE walk' # Fresh /\ r = "failed"
    <3>1. walk' = Move(i, "failed")
      BY <2>1, <2>7, AnswersEither
    <3>2. Meets(i, "failed")'
      BY <2>1, <2>3, <2>5, <2>7 DEF Meets, Halts, Kind, Fallen
    <3>3. Moves(i, "failed")
      BY <2>1, <2>3, <3>1, MoveMoves DEF Active
    <3> QED
      BY <2>4, <3>2, <3>3, CourseMoves DEF Pcs, Fallen
  <2>8. CASE walk' # Fresh /\ r = "ok"
    <3>1. walk' = Done(i)
      BY <2>1, <2>8, AnswersEither
    <3>2. Meets(i, "ok")'
      BY <2>1, <2>3, <2>5, <2>8 DEF Meets, Kind, Fallen
    <3>3. walk.phase = "walking" /\ walk.pc[i] \in Active
      BY <2>3 DEF Replay, Course, Quiet, Active
    <3>4. /\ walk'.phase = walk.phase /\ walk'.pc = [walk.pc EXCEPT ![i] = "ok"]
          /\ walk'.stranded = walk.stranded
          /\ walk'.done = IF Kind(i) = "compensatable" THEN Append(walk.done, i) ELSE walk.done
      BY <3>1 DEF Done, Replay, Types, WalkOf
    <3>5. Moves(i, "ok")
      BY <2>1, <3>3, <3>4 DEF Moves
    <3> QED
      BY <2>4, <3>2, <3>5, CourseMoves DEF Pcs, Fallen
  <2> QED
    BY <2>2, <2>6, <2>7, <2>8
<1>3. CASE Park(i)
  <2>1. PICK p : p = IF PastCommit(i) THEN "parked" ELSE "waiting"
    OBVIOUS
  <2> DEFINE a == <<"waiting", i>>
  <2>2. Answers(a, "done", Move(i, p)) /\ slip' = slip /\ defects' = defects
    BY <1>3, <2>1 DEF Park, Record
  <2>3. p \in {"parked", "waiting"}
    BY <2>1
  <2>4. Journaled(a)' => Meets(i, p)'
    BY <1>3, <2>2, <2>3 DEF Park, Meets, Kind, Fallen
  <2>5. Turn(i) /\ walk.stranded = 0
    BY <1>3 DEF Park
  <2> QED
    BY <2>2, <2>3, <2>4, <2>5, ActivityMoves DEF Pcs, Fallen
<1>4. CASE AnnounceWait(i)
  <2> DEFINE a == <<"flow.waiting", i>>
  <2>1. Answers(a, "done", Move(i, "waiting")) /\ slip' = slip /\ defects' = defects
    BY <1>4 DEF AnnounceWait, Announce
  <2>2. walk.pc[i] = "parked" /\ Kind(i) = "wait" /\ Journaled(<<"waiting", i>>)
    BY <1>0, <1>4 DEF AnnounceWait, Meets, Fallen
  <2>3. Meets(i, "waiting")'
    BY <2>1, <2>2, AnswersEither DEF Meets, Kind, Adds, Kept, Journaled, Fallen
  <2> QED
    BY <2>1, <2>2, <2>3, ActivityMoves DEF Pcs, Fallen, Active
<1>5. CASE Race(i)
  <2> DEFINE a == <<"race", i>>
             After(r) == IF r # "timeout" THEN Move(i, "answered")
                         ELSE IF slip[i].onTimeout = "strand"
                           THEN [walk EXCEPT !.pc[i] = "stranded", !.stranded = i]
                           ELSE Move(i, "failed")
  <2>1. PICK r : Answers(a, r, After(r)) /\ (Journaled(a) => r = journal[a]) /\ slip' = slip /\ defects' = defects
    BY <1>5 DEF Race
  <2>2. walk.pc[i] = "waiting" /\ Kind(i) = "wait" /\ Journaled(<<"waiting", i>>)
    BY <1>0, <1>5 DEF Race, Meets, Fallen
  <2>3. Adds(a) /\ (walk' = Fresh \/ (walk' = After(r) /\ Journaled(a)' /\ (Journaled(a) \/ journal'[a] = r)))
    BY <2>1, AnswersEither
  <2>4. walk' # Fresh => Said("race", i, r)' /\ Journaled(<<"waiting", i>>)'
    BY <2>1, <2>2, <2>3 DEF Adds, Kept, Said, Journaled
  <2>5. \A j \in Steps \ {i} : a # <<"running", j>> /\ a # <<"waiting", j>>
    OBVIOUS
  <2>6. CASE walk' = Fresh
    BY <2>1, <2>6, FreshCourse
  <2>7. CASE walk' # Fresh /\ r # "timeout"
    <3>1. Meets(i, "answered")'
      BY <2>1, <2>2, <2>4, <2>7 DEF Meets, Kind, Said, Fallen
    <3>2. Moves(i, "answered")
      BY <2>1, <2>2, <2>3, <2>7, MoveMoves DEF Active
    <3> QED
      BY <2>3, <2>5, <3>1, <3>2, CourseMoves DEF Pcs, Fallen
  <2>8. CASE walk' # Fresh /\ r = "timeout" /\ slip[i].onTimeout # "strand"
    <3>1. Meets(i, "failed")'
      BY <2>1, <2>2, <2>4, <2>8 DEF Meets, Halts, Kind, Fallen
    <3>2. Moves(i, "failed")
      BY <2>1, <2>2, <2>3, <2>8, MoveMoves DEF Active
    <3> QED
      BY <2>3, <2>5, <3>1, <3>2, CourseMoves DEF Pcs, Fallen
  <2>9. CASE walk' # Fresh /\ r = "timeout" /\ slip[i].onTimeout = "strand"
    <3>1. Meets(i, "stranded")'
      BY <2>1, <2>2, <2>4, <2>9 DEF Meets, Kind, Fallen
    <3>2. walk.phase = "walking" /\ walk.pc[i] \in Active
      BY <2>2 DEF Replay, Course, Quiet, Active
    <3>3. /\ walk'.phase = walk.phase /\ walk'.pc = [walk.pc EXCEPT ![i] = "stranded"]
          /\ walk'.stranded = i /\ walk'.done = walk.done
      BY <2>3, <2>9 DEF Replay, Types, WalkOf
    <3>4. Moves(i, "stranded")
      BY <2>1, <3>2, <3>3 DEF Moves
    <3> QED
      BY <2>3, <2>5, <3>1, <3>4, CourseMoves DEF Pcs, Fallen
  <2> QED
    BY <2>6, <2>7, <2>8, <2>9
<1>6. CASE Resume(i)
  <2> DEFINE a == <<"resumed", i>>
  <2>1. Answers(a, "done", Move(i, "ok")) /\ slip' = slip /\ defects' = defects
    BY <1>6 DEF Resume, Record
  <2>2. walk.pc[i] = "answered" /\ Kind(i) = "wait" /\ Journaled(<<"race", i>>) /\ ~Said("race", i, "timeout")
    BY <1>0, <1>6 DEF Resume, Meets, Fallen
  <2>3. Meets(i, "ok")'
    BY <2>1, <2>2, AnswersEither DEF Meets, Kind, Adds, Kept, Journaled, Said, Fallen
  <2> QED
    BY <2>1, <2>2, <2>3, ActivityMoves DEF Pcs, Fallen, Active
<1>7. CASE Pass(i)
  <2>1. Turn(i) /\ slip' = slip /\ defects' = defects /\ journal' = journal
    BY <1>7 DEF Pass, durable
  <2> DEFINE a == <<"resumed", i>>
  <2>2. Adds(a) /\ \A j \in Steps \ {i} : a # <<"running", j>> /\ a # <<"waiting", j>>
    BY <2>1 DEF Adds, Kept
  <2>3. CASE walk.stranded # 0 /\ walk' = Move(i, "void")
    <3>1. Moves(i, "void") /\ Meets(i, "void")'
      BY <2>1, <2>3, MoveMoves DEF Meets, Fallen
    <3> QED
      BY <2>1, <2>2, <3>1, CourseMoves DEF Pcs, Fallen
  <2>4. CASE walk.stranded = 0 /\ ~GuardPasses(i) /\ walk' = Move(i, "skipped")
    <3>1. Moves(i, "skipped")
      BY <2>1, <2>4, MoveMoves
    <3>2. slip[i].guard # 0 /\ (GuardedAcross \/ defects # {} \/ ~Began(i))
      BY <2>1, <2>4, PassesOver
    <3>3. Meets(i, "skipped")' /\ (GuardedAcross \/ defects # {} \/ ~Began(i)')
      BY <2>1, <3>2 DEF Meets, Began, Journaled, Fallen
    <3> QED
      BY <2>1, <2>2, <3>1, <3>3, CourseMoves DEF Pcs, Fallen
  <2> QED
    BY <1>7, <2>3, <2>4 DEF Pass
<1> QED
  BY <1>1, <1>2, <1>3, <1>4, <1>5, <1>6, <1>7 DEF StepOf


(* Where a step has stopped and each group of its stage is over, what stands *)
(* before a failed one, in its group or in an earlier stage, is over.        *)
LEMMA StoppedStage ==
  ASSUME Replay, Failed # {}, \A i \in Stage(Min(Failed)) : Over(Group(i)), NEW j \in Steps
  PROVE  /\ Min(Failed) \in Failed /\ \A f \in Failed : Min(Failed) <= f
         /\ \/ Ended(j) \/ j \in Failed
            \/ walk.pc[j] = "todo" /\ \E f \in Failed : f \in Prior(j)
<1> DEFINE m == Min(Failed)
<1>1. slip \in Slips /\ \A a \in Steps : a \in Nat /\ slip[a].stage \in Nat
  BY StepsCounted DEF Replay, Types, Step
<1>2. m \in Failed /\ \A f \in Failed : m <= f
  <2>1. Failed \in SUBSET Steps
    BY DEF Failed
  <2> QED
    BY <1>1, <2>1, FirstOfSteps
<1>3. m \in Steps /\ walk.pc[m] = "failed"
  BY <1>2 DEF Failed
<1>4. \A a, b \in Steps : walk.pc[a] # "todo" /\ b \in Prior(a) => Ended(b)
  BY DEF Replay, Course, Order
<1>5. \A f \in Failed : f \in Steps /\ walk.pc[f] = "failed" /\ ~Ended(f)
  BY DEF Failed, Ended
<1>6. CASE slip[j].stage < slip[m].stage
  <2>1. j \in Prior(m)
    BY <1>3, <1>6 DEF Prior
  <2> QED
    BY <1>2, <1>3, <1>4, <2>1
<1>7. CASE slip[m].stage < slip[j].stage
  <2>1. m \in Prior(j)
    BY <1>3, <1>7 DEF Prior
  <2> QED
    BY <1>2, <1>4, <1>5, <2>1
<1>8. CASE slip[m].stage = slip[j].stage
  <2>1. j \in Stage(m) /\ j \in Group(j)
    BY <1>8 DEF Stage, Group
  <2>2. CASE \A i \in Group(j) : Ended(i)
    BY <1>2, <2>1, <2>2
  <2>3. ASSUME NEW f \in Group(j), f \in Failed
        PROVE  Ended(j) \/ j \in Failed \/ (walk.pc[j] = "todo" /\ f \in Prior(j))
    <3>1. CASE f = j
      BY <2>3, <3>1
    <3>2. CASE f < j
      <4>1. f \in Prior(j)
        BY <1>5, <2>3, <3>2 DEF Prior
      <4> QED
        BY <1>4, <1>5, <2>3, <4>1
    <3>3. CASE j < f
      <4>1. j \in Prior(f)
        BY <2>3, <3>3, OneGroup DEF Prior
      <4> QED
        BY <1>4, <1>5, <2>3, <4>1
    <3> QED
      BY <1>1, <1>5, <2>3, <3>1, <3>2, <3>3
  <2>4. CASE Group(j) \intersect Failed # {}
    BY <1>2, <2>3, <2>4
  <2> QED
    BY <2>1, <2>2, <2>4 DEF Over
<1> QED
  BY <1>1, <1>3, <1>6, <1>7, <1>8

(* When a walk decides how it ends, nothing of it is under way.              *)
LEMMA NothingUnderWay ==
  ASSUME Replay, Decide, NEW j \in Steps
  PROVE  walk.pc[j] \notin Active
<1>1. CASE Failed # {} /\ \A i \in Stage(Min(Failed)) : Over(Group(i))
  BY <1>1, StoppedStage DEF Failed, Ended, Active
<1>2. CASE Failed = {} /\ walk.stranded # 0 /\ \A i \in Stage(walk.stranded) : Ended(i)
  <2> DEFINE w == walk.stranded
  <2>1. slip \in Slips /\ w \in Steps /\ \A a \in Steps : slip[a].stage \in Nat
    BY <1>2, StepsCounted DEF Replay, Types, WalkOf, Step
  <2>2. walk.pc[j] # "todo" => slip[j].stage <= slip[w].stage
    BY <1>2 DEF Replay, Course, Strand
  <2>3. walk.pc[w] # "todo"
    BY <1>2 DEF Replay, Course, Strand
  <2>4. slip[j].stage < slip[w].stage => Ended(j)
    BY <2>1, <2>3 DEF Replay, Course, Order, Prior
  <2>5. slip[j].stage = slip[w].stage => Ended(j)
    BY <1>2 DEF Stage
  <2>6. walk.pc[j] # "todo" => Ended(j)
    BY <2>1, <2>2, <2>4, <2>5
  <2> QED
    BY <2>6 DEF Ended, Active
<1>3. CASE \A i \in Steps : Ended(i)
  BY <1>3 DEF Ended, Active
<1> QED
  BY <1>1, <1>2, <1>3 DEF Decide

(* The course of a walk stays while it ends.                                 *)
LEMMA CourseStays ==
  ASSUME Replay, slip' = slip, defects \subseteq defects', Kept, \A j \in Steps : Began(j)' => Began(j),
         walk'.pc = walk.pc, walk'.stranded = walk.stranded,
         walk'.phase # "starting",
         walk'.phase # "walking" => \A j \in Steps : walk.pc[j] \notin Active,
         \/ walk'.done = walk.done /\ (walk'.phase = "walking" => walk.phase \in {"starting", "walking"})
         \/ walk.done # <<>> /\ walk'.done = Front(walk.done) /\ walk'.phase # "walking"
  PROVE  Course'
<1>0. /\ walk.pc \in [Steps -> Pcs] /\ walk.done \in Seq(Steps) /\ slip \in Slips /\ Steps' = Steps
      /\ \A j \in Steps : Prior(j)' = Prior(j) /\ Kind(j)' = Kind(j) /\ (Ended(j)' <=> Ended(j))
      /\ GuardedAcross' <=> GuardedAcross
  BY DEF Replay, Types, WalkOf, Steps, Kind, Prior, Group, Stage, Ended, GuardedAcross
<1>1. Order' /\ Strand' /\ Together'
  BY <1>0 DEF Replay, Course, Order, Together, Strand, Prior, Group, Stage
<1>2. Quiet'
  BY <1>0 DEF Quiet
<1>3. Met'
  <2> SUFFICES ASSUME NEW j \in Steps PROVE Meets(j, walk.pc[j])'
    BY <1>0 DEF Met
  <2>1. PICK q : q = walk.pc[j]
    OBVIOUS
  <2>2. Meets(j, q)'
    BY <2>1, MetKept DEF Replay, Course, Met
  <2> QED
    BY <2>1, <2>2 DEF Meets
<1>4. Skips'
  BY <1>0 DEF Replay, Course, Skips
<1>5. CASE walk'.done = walk.done /\ (walk'.phase = "walking" => walk.phase \in {"starting", "walking"})
  <2>1. DoneAll'
    BY <1>0, <1>5 DEF Replay, Course, DoneAll
  <2>2. \A n \in 1 .. Len(walk.done) : walk.done[n] \in Steps
    BY <1>0, ElementOfSeq
  <2>3. DoneLater'
    BY <1>0, <1>5, <2>2 DEF Replay, Course, DoneLater
  <2> QED
    BY <1>1, <1>2, <1>3, <1>4, <2>1, <2>3 DEF Course
<1>6. CASE walk.done # <<>> /\ walk'.done = Front(walk.done) /\ walk'.phase # "walking"
  <2>1. DoneAll'
    BY <1>6 DEF DoneAll
  <2> DEFINE d == walk.done
  <2>2. \A n \in 1 .. Len(d) : d[n] \in Steps
    BY <1>0, ElementOfSeq
  <2>3. /\ Len(d) \in Nat /\ Len(Front(d)) = Len(d) - 1
        /\ \A n \in 1 .. Len(d) - 1 : Front(d)[n] = d[n]
    <3>1. Len(d) \in Nat \ {0}
      BY <1>0, <1>6, EmptySeq
    <3> QED
      BY <1>0, <2>2, <3>1, SubSeqProperties DEF Front
  <2>4. \A n, m \in 1 .. Len(Front(d)) : n < m => Front(d)[m] \notin Prior(Front(d)[n]) /\ Front(d)[n] \in Steps
    BY <2>2, <2>3 DEF Replay, Course, DoneLater
  <2>5. DoneLater'
    BY <1>0, <1>6, <2>4 DEF DoneLater
  <2> QED
    BY <1>1, <1>2, <1>3, <1>4, <2>1, <2>5 DEF Course
<1> QED
  BY <1>5, <1>6


(* What an activity of the walk's end, or of its start, answers.             *)
LEMMA EndCourse ==
  ASSUME Replay, NEW a, NEW r, NEW next, Answers(a, r, next), slip' = slip, defects' = defects,
         \A j \in Steps : a # <<"running", j>> /\ a # <<"waiting", j>>,
         next.pc = walk.pc, next.stranded = walk.stranded, next.phase # "starting",
         walk.phase = "starting" \/ (walk.phase # "walking" /\ next.phase # "walking"),
         \/ next.done = walk.done
         \/ walk.done # <<>> /\ next.done = Front(walk.done) /\ next.phase # "walking"
  PROVE  Course'
<1>1. Kept /\ \A j \in Steps : Began(j)' => Began(j)
  BY AnswersEither DEF Adds, Began, Journaled
<1>2. CASE walk' = Fresh
  BY <1>2, FreshCourse
<1>3. CASE walk' = next
  <2>1. \A j \in Steps : walk.pc[j] \notin Active
    BY DEF Replay, Course, Quiet
  <2> QED
    BY <1>1, <1>3, <2>1, CourseStays
<1> QED
  BY <1>2, <1>3, AnswersEither

(* A step's store fails: it and what is left of its group have fallen.       *)
LEMMA LostCourse == ASSUME Replay, NEW i \in Steps, Breaks(i) PROVE Course'
<1>0. /\ walk.pc \in [Steps -> Pcs] /\ walk.stranded \in Steps \union {0} /\ slip \in Slips
      /\ walk.done \in Seq(Steps) /\ \A n \in 1 .. Len(walk.done) : walk.done[n] \in Steps
  BY ElementOfSeq DEF Replay, Types, WalkOf
<1>1. /\ slip' = slip /\ journal' = journal /\ defects \subseteq defects' /\ Steps' = Steps
      /\ \A j \in Steps : Prior(j)' = Prior(j) /\ Kind(j)' = Kind(j) /\ Group(j)' = Group(j)
      /\ \A j \in Steps : Prior(j) \subseteq Steps /\ Group(j) \subseteq Steps
  BY DefectAdds DEF Defect, Replay, Steps, Prior, Kind, Group, Stage
<1>2. walk' = Lost(i) /\ Broke(i)' /\ walk.phase = "walking"
  BY DEF Breaks, RecordDies, AnnounceDies, Dies, Broke, Turn, Replay, Course, Quiet, Active
<1>3. /\ walk'.phase = "walking" /\ walk'.stranded = walk.stranded /\ walk'.done = walk.done
      /\ walk'.pc = [j \in Steps |-> IF j = i THEN "died" ELSE
                       IF j \in Group(i) /\ walk.pc[j] = "todo" THEN "lost" ELSE walk.pc[j]]
  BY <1>2 DEF Lost, Replay, Types, WalkOf
<1>4. walk.pc[i] \in Active \/ (Turn(i) /\ walk.stranded = 0)
  BY DEF Breaks, Active
<1>5. walk.pc[i] \in Active \union {"todo"} /\ ~Ended(i)
  BY <1>4 DEF Turn, Ended, Active
<1>6. \A j \in Prior(i) : Ended(j)
  BY <1>4 DEF Replay, Course, Order, Active, Turn, Prior
<1>7. \A j \in Steps : walk.pc[j] # "todo" => i \notin Prior(j)
  BY <1>5, UnderWay
<1>8. \A j \in Steps : j \in Nat
  BY <1>0, StepsCounted
<1>9. ASSUME NEW j \in Group(i), j # i
      PROVE  IF i < j THEN i \in Prior(j) /\ walk.pc[j] = "todo" /\ walk'.pc[j] = "lost"
                      ELSE j \in Prior(i) /\ j < i /\ Ended(j) /\ walk'.pc[j] = walk.pc[j]
  <2>1. j \in Steps /\ i \in Group(j)
    BY <1>1, OneGroup
  <2>2. i < j => i \in Prior(j)
    BY <2>1 DEF Prior
  <2>3. j < i => j \in Prior(i)
    BY <2>1 DEF Prior
  <2>4. j < i \/ i < j
    BY <1>8, <1>9, <2>1
  <2>5. j < i => ~(i < j)
    BY <1>8, <2>1
  <2> QED
    BY <1>3, <1>6, <1>7, <1>9, <2>1, <2>2, <2>3, <2>4, <2>5 DEF Ended
<1>10. \A j \in Steps :
         /\ j \notin Group(i) => walk'.pc[j] = walk.pc[j]
         /\ Ended(j) => walk'.pc[j] = walk.pc[j] /\ Ended(j)'
         /\ walk'.pc[j] \in {walk.pc[j], "died", "lost"}
         /\ walk'.pc[j] = "died" => j = i \/ walk.pc[j] = "died"
  <2>1. i \in Group(i)
    BY DEF Group, Stage
  <2>2. \A j \in Steps : Ended(j) => walk.pc[j] # "todo" /\ j # i
    BY <1>5 DEF Ended
  <2> QED
    BY <1>3, <2>1, <2>2 DEF Ended
<1>11. Order'
  <2> SUFFICES ASSUME NEW j \in Steps, walk'.pc[j] # "todo", NEW k \in Prior(j) PROVE Ended(k)'
    BY <1>1 DEF Order
  <2>1. k \in Steps /\ k < j
    BY <1>0, <1>1, PriorIsBefore
  <2>2. CASE walk.pc[j] # "todo"
    BY <1>10, <2>1, <2>2 DEF Replay, Course, Order
  <2>3. CASE walk.pc[j] = "todo" /\ j = i
    BY <1>6, <1>10, <2>1, <2>3
  <2>4. CASE walk.pc[j] = "todo" /\ j # i
    <3>1. j \in Group(i)
      BY <1>10, <2>4
    <3>2. i < j
      BY <1>9, <2>4, <3>1 DEF Ended
    <3>3. slip[j].stage = slip[i].stage /\ Group(j) = Group(i)
      BY <3>1, OneGroup DEF Stage
    <3>4. CASE slip[k].stage < slip[j].stage
      BY <1>6, <1>10, <2>1, <3>3, <3>4 DEF Prior
    <3>5. CASE k \in Group(j)
      <4>1. k = i => Ended(k)'
        BY <1>3 DEF Ended
      <4>2. k # i /\ i < k => Ended(k)'
        BY <1>9, <3>3, <3>5 DEF Ended
      <4>3. k # i /\ ~(i < k) => Ended(k)'
        BY <1>9, <1>10, <2>1, <3>3, <3>5
      <4> QED
        BY <4>1, <4>2, <4>3
    <3> QED
      BY <3>4, <3>5 DEF Prior
  <2> QED
    BY <2>2, <2>3, <2>4
<1>12. Together'
  <2> SUFFICES ASSUME NEW j \in Steps, walk'.pc[j] \in Fallen, NEW k \in Group(j), j < k
               PROVE  walk'.pc[k] = "lost"
    BY <1>1 DEF Together
  <2>1. CASE walk.pc[j] \in Fallen
    <3>1. walk.pc[k] = "lost" /\ k \in Steps
      BY <1>1, <2>1 DEF Replay, Course, Together
    <3> QED
      BY <1>10, <3>1 DEF Ended
  <2>2. CASE walk.pc[j] \notin Fallen
    <3>1. j \in Group(i)
      BY <1>10, <2>2
    <3>2. j = i \/ i < j
      BY <1>9, <2>2, <3>1
    <3>3. k \in Group(i) /\ i < k /\ k # i
      BY <1>1, <1>8, <3>1, <3>2, OneGroup
    <3> QED
      BY <1>9, <3>3
  <2> QED
    BY <2>1, <2>2
<1>13. Quiet' /\ DoneAll'
  <2>1. \A j \in Steps : walk'.pc[j] = "ok" => walk.pc[j] = "ok"
    BY <1>10
  <2> QED
    BY <1>1, <1>2, <1>3, <2>1 DEF Quiet, Replay, Course, DoneAll
<1>14. DoneLater'
  BY <1>0, <1>1, <1>3 DEF Replay, Course, DoneLater
<1>15. Strand'
  <2>0. \A j \in Steps : slip[j].stage \in Nat
    BY <1>0, StepsCounted DEF Step
  <2>1. walk.stranded # 0 => walk'.pc[walk.stranded] = "stranded"
    BY <1>0, <1>10 DEF Replay, Course, Strand, Ended
  <2>2. ASSUME NEW j \in Steps, walk'.pc[j] \in {"void", "stranded"}
        PROVE  walk.stranded # 0 /\ slip[walk.stranded].stage = slip[j].stage
    BY <1>10, <2>2 DEF Replay, Course, Strand
  <2>3. ASSUME NEW j \in Steps, walk'.pc[j] # "todo", walk.stranded # 0
        PROVE  slip[j].stage <= slip[walk.stranded].stage
    <3>1. CASE walk.pc[j] # "todo"
      BY <2>3, <3>1 DEF Replay, Course, Strand
    <3>2. CASE walk.pc[j] = "todo"
      <4>1. j \in Group(i) /\ walk.pc[i] \in Active
        BY <1>4, <1>10, <2>3, <3>2
      <4>2. slip[j].stage = slip[i].stage
        BY <4>1, OneGroup DEF Stage
      <4> QED
        BY <2>3, <4>1, <4>2 DEF Replay, Course, Strand, Active
    <3> QED
      BY <3>1, <3>2
  <2>4. ASSUME NEW j \in Steps, walk'.pc[j] \notin {"todo", "void"}, NEW k \in Prior(j)
        PROVE  walk'.pc[k] \notin {"void", "stranded"}
    <3>1. k \in Steps
      BY <1>1
    <3>2. CASE walk.pc[j] \notin {"todo", "void"}
      BY <1>10, <2>4, <3>1, <3>2 DEF Replay, Course, Strand
    <3>3. CASE walk.pc[j] = "void"
      BY <1>10, <2>4, <3>3 DEF Ended
    <3>4. CASE walk.pc[j] = "todo"
      <4>1. j \in Group(i)
        BY <1>10, <2>4, <3>4
      <4>2. slip[j].stage = slip[i].stage /\ Group(j) = Group(i)
        BY <4>1, OneGroup DEF Stage
      <4>3. ASSUME k \in Prior(i) PROVE walk.pc[k] \notin {"void", "stranded"}
        <5>1. CASE walk.pc[i] \in Active
          BY <4>3, <5>1 DEF Replay, Course, Strand, Active
        <5>2. CASE walk.stranded = 0
          BY <3>1, <5>2 DEF Replay, Course, Strand
        <5> QED
          BY <1>4, <5>1, <5>2
      <4>4. k \in Prior(i) \/ k \in Group(i)
        BY <3>1, <4>2 DEF Prior
      <4>5. k = i \/ k \in Prior(i) \/ walk'.pc[k] = "lost"
        BY <1>9, <4>4
      <4> QED
        BY <1>3, <1>10, <3>1, <4>3, <4>5
    <3> QED
      BY <3>2, <3>3, <3>4
  <2> QED
    BY <1>1, <1>3, <2>1, <2>2, <2>3, <2>4 DEF Strand
<1>16. Met' /\ Skips'
  <2>1. ASSUME NEW j \in Steps PROVE Meets(j, walk.pc[j])'
    <3>1. CASE walk'.pc[j] = walk.pc[j]
      <4>1. PICK q : q = walk.pc[j]
        OBVIOUS
      <4>2. Meets(j, q)
        BY <4>1 DEF Replay, Course, Met
      <4>3. Meets(j, q)'
        BY <1>1, <4>2, MetKept DEF Kept
      <4> QED
        BY <3>1, <4>1, <4>3 DEF Meets
    <3>2. CASE walk'.pc[j] # walk.pc[j]
      <4>1. walk'.pc[j] \in Fallen /\ j \in Group(i)
        BY <1>10, <3>2 DEF Fallen
      <4>2. i <= j
        BY <1>8, <1>9, <3>2, <4>1
      <4>3. i \in Group(j)
        BY <4>1, OneGroup
      <4>4. j # i => i < j /\ walk'.pc[j] = "lost"
        BY <1>9, <3>2, <4>1
      <4>5. j = i => walk'.pc[j] = "died"
        BY <1>3
      <4>6. Group(j)' = Group(j) /\ Broke(i)'
        BY <1>1, <1>2
      <4> QED
        BY <4>3, <4>4, <4>5, <4>6 DEF Meets
    <3> QED
      BY <3>1, <3>2
  <2>2. Skips'
    BY <1>2 DEF Skips, Broke
  <2> QED
    BY <1>1, <2>1, <2>2 DEF Met
<1> QED
  BY <1>11, <1>12, <1>13, <1>14, <1>15, <1>16 DEF Course

(* The walk starts, ends, is lost or stays while the world moves.            *)
LEMMA RestCourse ==
  ASSUME Replay,
         \/ Started \/ Ending \/ InDoubt \/ Retry \/ Crash \/ UNCHANGED vars
         \/ \E i \in Steps : Fires(i) \/ \E o \in Signals(i) : Signalled(i, o)
         \/ Defect
  PROVE  Course'
<1>0. /\ walk.verdict \notin {"running", "waiting"}
      /\ EventOf(walk.verdict) \notin {"running", "waiting"}
  BY DEF Replay, Types, WalkOf, Finals, EventOf
<1>1. CASE Started
  <2>1. PICK next : next = [walk EXCEPT !.phase = "walking"]
    OBVIOUS
  <2>2. Answers(<<"flow.started", 0>>, "done", next) /\ slip' = slip /\ defects' = defects /\ walk.phase = "starting"
    BY <1>1, <2>1 DEF Started, Announce
  <2>3. /\ next.pc = walk.pc /\ next.stranded = walk.stranded /\ next.done = walk.done
        /\ next.phase = "walking"
    BY <2>1 DEF Replay, Types, WalkOf
  <2> QED
    BY <2>2, <2>3, EndCourse
<1>2. CASE Decide
  <2>1. slip' = slip /\ defects' = defects /\ journal' = journal
    BY <1>2 DEF Decide, durable
  <2>2. /\ walk'.pc = walk.pc /\ walk'.stranded = walk.stranded /\ walk'.done = walk.done
        /\ walk'.phase \in {"closing", "undoing"}
    <3>1. PICK v, k : walk' = Closing(v, k) \/ walk' = [walk EXCEPT !.phase = "undoing", !.at = k]
      BY <1>2 DEF Decide
    <3> QED
      BY <3>1 DEF Closing, Replay, Types, WalkOf
  <2>3. Kept /\ \A j \in Steps : Began(j)' => Began(j)
    BY <2>1 DEF Kept, Began, Journaled
  <2> QED
    BY <1>2, <2>1, <2>2, <2>3, NothingUnderWay, CourseStays
<1>3. CASE Undo
  <2> DEFINE u == NextUndone(walk.done)
  <2>1. PICK r, next : /\ next \in {[walk EXCEPT !.done = Front(@)], Closing("failed", u)}
                       /\ Answers(<<"undo", u>>, r, next)
    BY <1>3 DEF Undo, Call
  <2>2. slip' = slip /\ defects' = defects /\ walk.phase = "undoing" /\ walk.done # <<>>
    BY <1>3 DEF Undo, Call
  <2>3. CASE next = [walk EXCEPT !.done = Front(@)]
    <3>1. /\ next.pc = walk.pc /\ next.stranded = walk.stranded /\ next.done = Front(walk.done)
          /\ next.phase = "undoing"
      BY <2>2, <2>3 DEF Replay, Types, WalkOf
    <3> QED
      BY <2>1, <2>2, <3>1, EndCourse
  <2>4. CASE next = Closing("failed", u)
    <3>1. /\ next.pc = walk.pc /\ next.stranded = walk.stranded /\ next.done = walk.done
          /\ next.phase = "closing"
      BY <2>2, <2>4 DEF Replay, Types, WalkOf, Closing
    <3> QED
      BY <2>1, <2>2, <3>1, EndCourse
  <2> QED
    BY <2>1, <2>3, <2>4
<1>4. CASE Close
  <2>1. PICK next : next = [walk EXCEPT !.phase = "telling"]
    OBVIOUS
  <2>2. /\ Answers(<<walk.verdict, walk.at>>, "done", next)
        /\ slip' = slip
        /\ defects' = defects
        /\ walk.phase = "closing"
    BY <1>4, <2>1 DEF Close, Record
  <2>3. /\ next.pc = walk.pc /\ next.stranded = walk.stranded /\ next.done = walk.done
        /\ next.phase = "telling"
    BY <2>1 DEF Replay, Types, WalkOf
  <2> QED
    BY <1>0, <2>2, <2>3, EndCourse
<1>5. CASE Tell
  <2>1. PICK next : next = [walk EXCEPT !.phase = "returning"]
    OBVIOUS
  <2>2. /\ Answers(<<EventOf(walk.verdict), walk.at>>, "done", next)
        /\ slip' = slip
        /\ defects' = defects
        /\ walk.phase = "telling"
    BY <1>5, <2>1 DEF Tell, Announce
  <2>3. /\ next.pc = walk.pc /\ next.stranded = walk.stranded /\ next.done = walk.done
        /\ next.phase = "returning"
    BY <2>1 DEF Replay, Types, WalkOf
  <2> QED
    BY <1>0, <2>2, <2>3, EndCourse
<1>6. CASE Undone \/ Return
  <2>1. slip' = slip /\ defects' = defects /\ journal' = journal /\ walk.phase \notin {"walking", "starting"}
    BY <1>6 DEF Undone, Return, durable
  <2>2. /\ walk'.pc = walk.pc /\ walk'.stranded = walk.stranded /\ walk'.done = walk.done
        /\ walk'.phase \in {"closing", "over"}
    BY <1>6 DEF Undone, Return, Closing, Replay, Types, WalkOf
  <2>3. Kept /\ \A j \in Steps : Began(j)' => Began(j)
    BY <2>1 DEF Kept, Began, Journaled
  <2>4. \A j \in Steps : walk.pc[j] \notin Active
    BY <2>1 DEF Replay, Course, Quiet
  <2> QED
    BY <2>1, <2>2, <2>3, <2>4, CourseStays
<1>7. CASE Retry \/ Crash
  BY <1>7, FreshCourse DEF Retry, Crash, durable
<1>8. CASE \/ InDoubt \/ UNCHANGED vars
           \/ \E i \in Steps : Fires(i) \/ \E o \in Signals(i) : Signalled(i, o)
  <2>1. slip' = slip /\ defects' = defects /\ journal' = journal /\ walk' = walk
    BY <1>8 DEF InDoubt, Attempt, Fires, Signalled, vars, durable
  <2>2. /\ Steps' = Steps /\ GuardedAcross' = GuardedAcross
        /\ \A k : Prior(k)' = Prior(k) /\ Group(k)' = Group(k) /\ Kind(k)' = Kind(k) /\ Dropped(k)' = Dropped(k)
        /\ \A k : Ended(k)' = Ended(k) /\ Began(k)' = Began(k)
        /\ \A k, p : Meets(k, p)' = Meets(k, p)
    BY <2>1 DEF Steps, GuardedAcross, Prior, Group, Stage, Kind, Dropped, Broke, Ended, Began, Journaled, Meets,
       Halts, Said
  <2>3. Order' /\ Together' /\ Quiet' /\ Strand'
    BY <2>1, <2>2 DEF Replay, Course, Order, Together, Quiet, Strand
  <2>4. Met' /\ Skips' /\ DoneAll' /\ DoneLater'
    BY <2>1, <2>2 DEF Replay, Course, Met, Skips, DoneAll, DoneLater
  <2> QED
    BY <2>3, <2>4 DEF Course
<1>9. CASE Collapse
  <2>1. slip' = slip /\ journal' = journal /\ defects \subseteq defects'
    BY <1>9, DefectAdds DEF Defect, Replay
  <2>2. walk' = Died /\ walk.phase \notin {"walking", "undoing"}
    BY <1>9 DEF Collapse, RecordDies, AnnounceDies, Dies
  <2>3. /\ walk'.pc = walk.pc /\ walk'.stranded = walk.stranded /\ walk'.done = walk.done
        /\ walk'.phase = "returning"
    BY <2>2 DEF Died, Replay, Types, WalkOf
  <2>4. Kept /\ \A j \in Steps : Began(j)' => Began(j)
    BY <2>1 DEF Kept, Began, Journaled
  <2>5. \A j \in Steps : walk.pc[j] \notin Active
    BY <2>2 DEF Replay, Course, Quiet
  <2> QED
    BY <2>1, <2>3, <2>4, <2>5, CourseStays
<1> QED
  BY <1>1, <1>2, <1>3, <1>4, <1>5, <1>6, <1>7, <1>8, <1>9, LostCourse DEF Ending, Defect


-----------------------------------------------------------------------------
(* What a step that is let in comes after, by the journal.                   *)
ComesAfter(i) ==
  /\ \A m \in Prior(i) : ~PastCommit(m) => Said("action", m, "ok") \/ (Dropped(m) /\ m \notin Group(i))
  /\ slip[i].guard # 0 =>
       Journaled(<<"race", slip[i].guard>>) /\ journal[<<"race", slip[i].guard>>] \in slip[i].on

(* One more answer keeps the journal in order, if it comes after what it has *)
(* to.                                                                       *)
LEMMA LogGrows ==
  ASSUME Log, slip \in Slips, slip' = slip, defects \subseteq defects', NEW a, Adds(a), acted \subseteq acted',
         \A k \in Steps :
           /\ a = <<"action", k>> /\ Journaled(a)' => Journaled(<<"running", k>>) /\ journal'[a] \in {"ok", "failed"}
           /\ a = <<"race", k>> => Journaled(<<"waiting", k>>)
           /\ a = <<"running", k>> => Kind(k) # "wait" /\ ComesAfter(k)
           /\ a = <<"waiting", k>> => Kind(k) = "wait" /\ ComesAfter(k)
           /\ Acted("action", k)' => Acted("action", k) \/ Journaled(<<"running", k>>)
           /\ Said("undo", k, "ok")' => Acted("undo", k)'
  PROVE  Log'
<1>0. Steps' = Steps /\ \A k \in Steps : Prior(k)' = Prior(k) /\ Kind(k)' = Kind(k)
  BY DEF Steps, Kind, Prior, Group, Stage
<1>1. \A b : Journaled(b) => Journaled(b)' /\ journal'[b] = journal[b]
  BY DEF Adds, Kept, Journaled
<1>2. \A b : Journaled(b)' => Journaled(b) \/ (b = a /\ Journaled(a)')
  BY DEF Adds, Journaled
<1>3. \A kind, k, r : Said(kind, k, r) => Said(kind, k, r)'
  BY <1>1 DEF Said
<1>4. \A k \in Steps : PastCommit(k)' <=> PastCommit(k)
  BY <1>0 DEF PastCommit, CommitPoint
<1> SUFFICES ASSUME NEW i \in Steps PROVE LogOf(i)'
  BY <1>0 DEF Log
<1>5. LogOf(i)
  BY DEF Log
<1>6. Journaled(<<"action", i>>)' =>
        Journaled(<<"running", i>>)' /\ (Said("action", i, "ok")' \/ Said("action", i, "failed")')
  <2>1. CASE Journaled(<<"action", i>>)
    BY <1>1, <1>3, <1>5, <2>1 DEF LogOf
  <2>2. CASE a = <<"action", i>> /\ Journaled(a)'
    BY <1>1, <2>2 DEF Said
  <2> QED
    BY <1>2, <2>1, <2>2
<1>7. /\ Journaled(<<"race", i>>)' => Journaled(<<"waiting", i>>)'
      /\ Journaled(<<"running", i>>)' => Kind(i) # "wait"
      /\ Journaled(<<"waiting", i>>)' => Kind(i) = "wait"
  BY <1>1, <1>2, <1>5 DEF LogOf
<1>8. Acted("action", i)' => Journaled(<<"running", i>>)'
  BY <1>1, <1>5 DEF LogOf
<1>9. Began(i)' => ComesAfter(i)
  BY <1>2, <1>5 DEF LogOf, Began, ComesAfter
<1>10. ComesAfter(i) => ComesAfter(i)'
  <2>1. \A m \in Prior(i) : m \in Steps
    BY DEF Prior
  <2>2. \A m : Group(m)' = Group(m) /\ (Dropped(m) => Dropped(m)')
    BY <1>0 DEF Dropped, Broke, Group, Stage
  <2> QED
    BY <1>0, <1>1, <1>3, <1>4, <2>1, <2>2 DEF ComesAfter
<1> QED
  BY <1>0, <1>6, <1>7, <1>8, <1>9, <1>10 DEF LogOf, ComesAfter, Began

(* No step of the world disturbs the order of the journal.                   *)
LEMMA LogKept == ASSUME Replay, [Next]_vars PROVE Log'
<1>0. Log /\ slip \in Slips
  BY DEF Replay, Types
<1>1. ASSUME NEW a, NEW r, NEW next, Answers(a, r, next), slip' = slip, defects \subseteq defects', acted' = acted,
             \A k \in Steps : /\ a # <<"action", k>> /\ a # <<"undo", k>>
                              /\ a = <<"race", k>> => Journaled(<<"waiting", k>>)
                              /\ a = <<"running", k>> => Kind(k) # "wait" /\ ComesAfter(k)
                              /\ a = <<"waiting", k>> => Kind(k) = "wait" /\ ComesAfter(k)
      PROVE  Log'
  <2>1. Adds(a)
    BY <1>1, AnswersEither
  <2>2. ASSUME NEW k \in Steps, Said("undo", k, "ok")' PROVE Acted("undo", k)'
    <3>1. Said("undo", k, "ok")
      BY <1>1, <2>1, <2>2 DEF Adds, Kept, Said, Journaled
    <3> QED
      BY <1>0, <1>1, <3>1 DEF Log, LogOf, Acted
  <2>3. \A k \in Steps : Acted("action", k)' => Acted("action", k)
    BY <1>1 DEF Acted
  <2> QED
    BY <1>0, <1>1, <2>1, <2>2, <2>3, LogGrows
<1>2. ASSUME slip' = slip, defects \subseteq defects', journal' = journal, acted \subseteq acted',
             \A k \in Steps : Acted("action", k)' => Acted("action", k) \/ Journaled(<<"running", k>>)
      PROVE  Log'
  <2>1. Adds(<<"resumed", 0>>)
    BY <1>2 DEF Adds, Kept
  <2>2. \A k \in Steps : Said("undo", k, "ok")' => Acted("undo", k)'
    BY <1>0, <1>2 DEF Log, LogOf, Said, Journaled, Acted
  <2> QED
    BY <1>0, <1>2, <2>1, <2>2, LogGrows
<1>3. ASSUME NEW i \in Steps, StepOf(i) PROVE Log'
  <2>0. Meets(i, walk.pc[i]) /\ LogOf(i)
    BY DEF Replay, Course, Met, Log
  <2>1. CASE Begin(i)
    <3>1. ComesAfter(i)
      BY <2>1, TurnAfter DEF Begin, ComesAfter
    <3>2. /\ Answers(<<"running", i>>, "done", Move(i, "noted"))
          /\ slip' = slip
          /\ defects' = defects
          /\ acted' = acted
          /\ Kind(i) # "wait"
      BY <2>1 DEF Begin, Record
    <3> QED
      BY <1>1, <3>1, <3>2
  <2>2. CASE Act(i)
    <3> DEFINE a == <<"action", i>>
    <3>1. PICK r : /\ r \in IF Journaled(a) THEN {journal[a]} ELSE {"ok", "failed"}
                   /\ acted' = IF r = "ok" THEN acted \union {a} ELSE acted
                   /\ Answers(a, r, IF r = "ok" THEN Done(i) ELSE Move(i, "failed"))
                   /\ slip' = slip
                   /\ defects' = defects
      BY <2>2 DEF Act, Call
    <3>2. Journaled(<<"running", i>>)
      BY <2>0, <2>2 DEF Act, Meets
    <3>3. Adds(a) /\ (Journaled(a)' => journal'[a] \in {"ok", "failed"})
      <4>1. r \in {"ok", "failed"}
        BY <2>0, <3>1 DEF LogOf, Said
      <4>2. Adds(a) /\ (Journaled(a)' => Journaled(a) \/ journal'[a] = r)
        BY <3>1, AnswersEither DEF Journaled
      <4> QED
        BY <3>1, <4>1, <4>2 DEF Adds, Kept, Journaled
    <3>4. \A k \in Steps : Acted("action", k)' => Acted("action", k) \/ Journaled(<<"running", k>>)
      BY <3>1, <3>2 DEF Acted
    <3>5. ASSUME NEW k \in Steps, Said("undo", k, "ok")' PROVE Acted("undo", k)'
      <4>1. Said("undo", k, "ok")
        BY <3>3, <3>5 DEF Adds, Kept, Said, Journaled
      <4> QED
        BY <1>0, <3>1, <4>1 DEF Log, LogOf, Acted
    <3>6. acted \subseteq acted'
      BY <3>1
    <3>7. \A k \in Steps : a = <<"action", k>> => k = i
      OBVIOUS
    <3> QED
      BY <1>0, <3>1, <3>2, <3>3, <3>4, <3>5, <3>6, <3>7, LogGrows
  <2>3. CASE Park(i)
    <3>1. ComesAfter(i)
      BY <2>3, TurnAfter DEF Park, ComesAfter
    <3>2. /\ Answers(<<"waiting", i>>, "done", Move(i, IF PastCommit(i) THEN "parked" ELSE "waiting"))
          /\ slip' = slip /\ defects' = defects /\ acted' = acted /\ Kind(i) = "wait"
      BY <2>3 DEF Park, Record
    <3> QED
      BY <1>1, <3>1, <3>2
  <2>4. CASE AnnounceWait(i)
    BY <2>4, <1>1 DEF AnnounceWait, Announce
  <2>5. CASE Race(i)
    <3>1. PICK r, next : Answers(<<"race", i>>, r, next)
      BY <2>5 DEF Race
    <3>2. Journaled(<<"waiting", i>>) /\ slip' = slip /\ defects' = defects /\ acted' = acted
      BY <2>0, <2>5 DEF Race, Meets
    <3> QED
      BY <1>1, <3>1, <3>2
  <2>6. CASE Resume(i)
    BY <2>6, <1>1 DEF Resume, Record
  <2>7. CASE Pass(i)
    BY <2>7, <1>2 DEF Pass, durable, Acted
  <2> QED
    BY <1>3, <2>1, <2>2, <2>3, <2>4, <2>5, <2>6, <2>7 DEF StepOf
<1>4. CASE Undo
  <2>0. PICK u : u = NextUndone(walk.done)
    OBVIOUS
  <2> DEFINE a == <<"undo", u>>
  <2>1. PICK r, next : /\ r \in IF Journaled(a) THEN {journal[a]} ELSE {"ok", "failed"}
                       /\ acted' = IF r = "ok" THEN acted \union {a} ELSE acted
                       /\ Answers(a, r, next) /\ slip' = slip /\ defects' = defects
    BY <1>4, <2>0 DEF Undo, Call
  <2>2. Adds(a) /\ (Journaled(a)' => Journaled(a) \/ journal'[a] = r)
    BY <2>1, AnswersEither DEF Journaled
  <2>3. Journaled(a)' => journal'[a] = r
    BY <2>1, <2>2 DEF Adds, Kept, Journaled
  <2>4. ASSUME NEW k \in Steps, Said("undo", k, "ok")' PROVE Acted("undo", k)'
    <3>1. CASE Said("undo", k, "ok")
      BY <1>0, <2>1, <3>1 DEF Log, LogOf, Acted
    <3>2. CASE a = <<"undo", k>>
      BY <2>1, <2>3, <2>4, <3>2 DEF Said, Acted
    <3> QED
      BY <2>2, <2>4, <3>1, <3>2 DEF Adds, Kept, Said, Journaled
  <2>5. acted \subseteq acted' /\ \A k \in Steps : Acted("action", k)' => Acted("action", k)
    BY <2>1 DEF Acted
  <2>6. \A k \in Steps : a # <<"action", k>> /\ a # <<"race", k>> /\ a # <<"running", k>> /\ a # <<"waiting", k>>
    OBVIOUS
  <2> QED
    BY <1>0, <2>1, <2>2, <2>4, <2>5, <2>6, LogGrows
<1>5. CASE Decide \/ Undone \/ Return \/ Retry \/ Crash \/ UNCHANGED vars
  BY <1>5, <1>2 DEF Decide, Undone, Return, Retry, Crash, vars, durable, Acted
<1>6. CASE Close
  <2>1. walk.verdict \notin {"action", "undo", "race", "running", "waiting"}
    BY DEF Replay, Types, WalkOf, Finals
  <2>2. PICK v : v = walk.verdict
    OBVIOUS
  <2>3. PICK next : Answers(<<v, walk.at>>, "done", next) /\ slip' = slip /\ defects' = defects /\ acted' = acted
    BY <1>6, <2>2 DEF Close, Record
  <2> QED
    BY <1>1, <2>1, <2>2, <2>3
<1>7. CASE Tell
  <2>1. EventOf(walk.verdict) \notin {"action", "undo", "race", "running", "waiting"}
    BY DEF EventOf
  <2>2. PICK v : v = EventOf(walk.verdict)
    OBVIOUS
  <2>3. PICK next : Answers(<<v, walk.at>>, "done", next) /\ slip' = slip /\ defects' = defects /\ acted' = acted
    BY <1>7, <2>2 DEF Tell, Announce
  <2> QED
    BY <1>1, <2>1, <2>2, <2>3
<1>8. CASE Started
  BY <1>8, <1>1 DEF Started, Announce
<1>9. CASE InDoubt
  <2>1. PICK i \in Steps : \/ walk.pc[i] = "noted" /\ Attempt("action", i)
                           \/ Attempt("undo", i)
    BY <1>9 DEF InDoubt
  <2>2. slip' = slip /\ defects' = defects /\ journal' = journal /\ acted \subseteq acted'
    BY <2>1 DEF Attempt
  <2>3. walk.pc[i] = "noted" => Journaled(<<"running", i>>)
    BY DEF Replay, Course, Met, Meets
  <2>4. \A k \in Steps : Acted("action", k)' => Acted("action", k) \/ Journaled(<<"running", k>>)
    BY <2>1, <2>3 DEF Attempt, Acted
  <2> QED
    BY <1>2, <2>2, <2>4
<1>10. ASSUME NEW i \in Steps, Fires(i) \/ \E o \in Signals(i) : Signalled(i, o) PROVE Log'
  BY <1>10, <1>2 DEF Fires, Signalled, Acted
<1>11. CASE Defect
  BY <1>2, <1>11, DefectAdds DEF Replay, Acted
<1> QED
  BY <1>3, <1>4, <1>5, <1>6, <1>7, <1>8, <1>9, <1>10, <1>11 DEF Next, WalkNext, Walk, Ending, Defect

(* Nothing that died is answered.                                            *)
LEMMA ApartKept == ASSUME Replay, [Next]_vars PROVE Apart' /\ defects \subseteq defects'
<1>0. /\ Types /\ \A a \in defects : Note(a) /\ ~Journaled(a)
      /\ \A i \in Steps : \A name \in {"waiting", "flow.waiting", "resumed"} :
           <<name, i>> \in defects => Kind(i) = "wait"
  BY DEF Replay, Apart
<1>1. ASSUME defects' = defects, slip' = slip, NEW a, Adds(a), a \notin defects \/ ~Note(a)
      PROVE  Apart' /\ defects \subseteq defects'
  BY <1>0, <1>1 DEF Apart, Adds, Journaled, Steps, Kind
<1>2. ASSUME defects' = defects, slip' = slip, journal' = journal PROVE Apart' /\ defects \subseteq defects'
  BY <1>0, <1>2 DEF Apart, Journaled, Steps, Kind
<1>3. ASSUME NEW a, NEW state, NEW waiting, NEW next, Record(a, state, waiting, next)
      PROVE  Apart' /\ defects \subseteq defects'
  BY <1>1, <1>3, AnswersEither DEF Record
<1>4. ASSUME NEW name, NEW i, NEW ordinal, NEW next, Announce(name, i, ordinal, next)
      PROVE  Apart' /\ defects \subseteq defects'
  BY <1>1, <1>4, AnswersEither DEF Announce
<1>5. ASSUME NEW kind \in {"action", "undo"}, NEW i, NEW succeeded, NEW refused, Call(kind, i, succeeded, refused)
      PROVE  Apart' /\ defects \subseteq defects'
  <2>1. PICK r, next : Answers(<<kind, i>>, r, next) /\ slip' = slip /\ defects' = defects
    BY <1>5 DEF Call
  <2>2. Adds(<<kind, i>>) /\ ~Note(<<kind, i>>)
    BY <2>1, AnswersEither DEF Note
  <2> QED
    BY <1>1, <2>1, <2>2
<1>6. ASSUME NEW i \in Steps, StepOf(i) PROVE Apart' /\ defects \subseteq defects'
  <2>1. CASE Race(i)
    <3>1. PICK r, next : Answers(<<"race", i>>, r, next) /\ slip' = slip /\ defects' = defects
      BY <2>1 DEF Race
    <3>2. Adds(<<"race", i>>) /\ ~Note(<<"race", i>>)
      BY <3>1, AnswersEither DEF Note
    <3> QED
      BY <1>1, <3>1, <3>2
  <2>2. CASE Pass(i)
    BY <1>2, <2>2 DEF Pass, durable
  <2> QED
    BY <1>3, <1>4, <1>5, <1>6, <2>1, <2>2 DEF StepOf, Begin, Act, Park, AnnounceWait, Resume
<1>7. CASE Ending \/ Started
  <2>1. CASE Decide \/ Undone \/ Return
    BY <1>2, <2>1 DEF Decide, Undone, Return, durable
  <2> QED
    BY <1>3, <1>4, <1>5, <1>7, <2>1 DEF Ending, Undo, Close, Tell, Started
<1>8. CASE InDoubt \/ Retry \/ Crash \/ UNCHANGED vars \/ \E i \in Steps : Fires(i)
  BY <1>2, <1>8 DEF InDoubt, Attempt, Retry, Crash, Fires, vars, durable
<1>9. ASSUME NEW i \in Steps, NEW o \in Signals(i), Signalled(i, o) PROVE Apart' /\ defects \subseteq defects'
  BY <1>2, <1>9 DEF Signalled
<1>10. CASE Defect
  <2>1. /\ slip' = slip /\ journal' = journal
        /\ \E a : Note(a) /\ ~Journaled(a) /\ defects' = defects \union {a}
    BY <1>0, <1>10, DefectAdds
  <2>2. ASSUME NEW i \in Steps, NEW name \in {"waiting", "flow.waiting", "resumed"}, <<name, i>> \in defects'
        PROVE  Kind(i) = "wait"
    <3>1. CASE Collapse
      <4>1. walk.verdict \notin {"waiting", "flow.waiting", "resumed"}
        BY <1>0 DEF Types, WalkOf, Finals
      <4>2. EventOf(walk.verdict) \notin {"waiting", "flow.waiting", "resumed"}
        BY DEF EventOf
      <4>3. PICK died, at : /\ defects' = defects \union {<<died, at>>}
                            /\ died \in {"flow.started", walk.verdict, EventOf(walk.verdict)}
        <5>1. \/ Dies(<<"flow.started", 0>>, Died)
              \/ Dies(<<walk.verdict, walk.at>>, Died)
              \/ Dies(<<EventOf(walk.verdict), walk.at>>, Died)
          BY <3>1 DEF Collapse, RecordDies, AnnounceDies
        <5>2. \/ defects' = defects \union {<<"flow.started", 0>>}
              \/ defects' = defects \union {<<walk.verdict, walk.at>>}
              \/ defects' = defects \union {<<EventOf(walk.verdict), walk.at>>}
          BY <5>1 DEF Dies
        <5> QED
          BY <5>2
      <4> QED
        BY <1>0, <2>2, <4>1, <4>2, <4>3
    <3>2. ASSUME NEW k \in Steps, Breaks(k) PROVE Kind(i) = "wait"
      <4>1. PICK died : /\ defects' = defects \union {<<died, k>>}
                        /\ died \in {"waiting", "flow.waiting", "resumed"} => Kind(k) = "wait"
        <5>1. Meets(k, walk.pc[k])
          BY DEF Replay, Course, Met
        <5>2. \/ Dies(<<"waiting", k>>, Lost(k)) /\ Kind(k) = "wait"
              \/ Dies(<<"running", k>>, Lost(k))
              \/ Dies(<<"flow.waiting", k>>, Lost(k)) /\ Kind(k) = "wait"
              \/ Dies(<<"resumed", k>>, Lost(k)) /\ Kind(k) = "wait"
          BY <3>2, <5>1 DEF Breaks, RecordDies, AnnounceDies, Meets
        <5>3. \/ defects' = defects \union {<<"waiting", k>>} /\ Kind(k) = "wait"
              \/ defects' = defects \union {<<"running", k>>}
              \/ defects' = defects \union {<<"flow.waiting", k>>} /\ Kind(k) = "wait"
              \/ defects' = defects \union {<<"resumed", k>>} /\ Kind(k) = "wait"
          BY <5>2 DEF Dies
        <5> QED
          BY <5>3
      <4> QED
        BY <1>0, <2>2, <4>1
    <3> QED
      BY <1>10, <3>1, <3>2 DEF Defect
  <2> QED
    BY <1>0, <2>1, <2>2 DEF Apart, Journaled, Steps, Kind
<1> QED
  BY <1>6, <1>7, <1>8, <1>9, <1>10 DEF Next, WalkNext, Walk, Defect


(* A walk replays its journal: types, course and journal are an invariant.   *)
LEMMA ReplayStep == Replay /\ [Next]_vars => Replay'
<1> SUFFICES ASSUME Replay, [Next]_vars PROVE Replay'
  OBVIOUS
<1>1. Types'
  <2>1. CASE Next
    BY <2>1, WalkTyped, SignalTyped DEF Next, Replay
  <2>2. CASE UNCHANGED vars
    BY <2>2 DEF vars, durable, Replay, Types, WalkOf, Steps, Kind
  <2> QED
    BY <2>1, <2>2
<1>2. Course'
  BY StepCourse, RestCourse DEF Next, WalkNext, Walk, Defect
<1> QED
  BY <1>1, <1>2, LogKept, ApartKept DEF Replay

(* A flow starts with no course and an empty journal.                        *)
LEMMA ReplayStart == Init => Replay
<1> SUFFICES ASSUME Init PROVE Replay
  OBVIOUS
<1>1. \A i \in Steps : Fresh.pc[i] = "todo"
  BY DEF Fresh
<1>2. walk = Fresh /\ walk.phase = "starting" /\ walk.stranded = 0 /\ walk.done = <<>> /\ Len(<<>>) = 0
  BY EmptySeq DEF Init, Fresh
<1>3. Order /\ Together /\ Quiet /\ Strand /\ Met /\ Skips /\ DoneAll
  BY <1>1, <1>2 DEF Order, Together, Fallen, Quiet, Strand, Active, Met, Meets, Skips, DoneAll
<1>4. DoneLater
  BY <1>2 DEF DoneLater
<1>5. Log /\ Apart
  BY DEF Init, Log, LogOf, Journaled, Said, Acted, Began, Apart
<1> QED
  BY <1>3, <1>4, <1>5, InitTyped DEF Replay, Course

(* What the journal and the participants hold they hold for good.            *)
LEMMA WorldGrows ==
  ASSUME Replay, [Next]_vars
  PROVE  Kept /\ slip' = slip /\ acted \subseteq acted' /\ defects \subseteq defects'
<1>1. CASE WalkNext
  <2>1. Kept
    BY <1>1, JournalGrows DEF Replay, Kept, Extends
  <2>2. ASSUME NEW i \in Steps, StepOf(i) PROVE acted \subseteq acted'
    BY <2>2 DEF StepOf, Begin, Act, Park, AnnounceWait, Race, Resume, Pass, Record, Call, Announce, durable
  <2>3. ASSUME Ending PROVE acted \subseteq acted'
    <3>1. CASE Decide \/ Undone \/ Close \/ Tell \/ Return
      BY <3>1 DEF Decide, Undone, Close, Tell, Return, Record, Announce, durable
    <3>2. CASE Undo
      BY <3>2 DEF Undo, Call
    <3> QED
      BY <2>3, <3>1, <3>2 DEF Ending
  <2>4. ASSUME Started \/ Retry \/ Crash \/ \E i \in Steps : Fires(i) PROVE acted \subseteq acted'
    BY <2>4 DEF Started, Retry, Crash, Fires, Announce, durable
  <2>5. ASSUME InDoubt PROVE acted \subseteq acted'
    BY <2>5 DEF InDoubt, Attempt
  <2>6. ASSUME Defect PROVE acted \subseteq acted'
    BY <2>6, DefectAdds DEF Replay
  <2> QED
    BY <1>1, <2>1, <2>2, <2>3, <2>4, <2>5, <2>6, WalkLeavesAnswers, ApartKept DEF WalkNext, Walk, Defect, Next
<1>2. CASE (\E i \in Steps : \E o \in Signals(i) : Signalled(i, o)) \/ UNCHANGED vars
  BY <1>2, ApartKept DEF Signalled, vars, durable, Kept, Next
<1> QED
  BY <1>1, <1>2 DEF Next

(* A store's failure leaves a walk walking, or returning with nothing said.  *)
LEMMA DefectEnds ==
  ASSUME Replay, Defect
  PROVE  /\ UNCHANGED <<slip, journal, result, acted, deferred, clock>>
         /\ \/ walk.phase = "walking" /\ walk'.phase = "walking"
            \/ /\ walk.phase \in {"starting", "closing", "telling"} /\ walk'.phase = "returning"
               /\ walk'.verdict = "died" /\ walk' = Died
<1>1. UNCHANGED <<slip, journal, result, acted, deferred, clock>>
  BY DefectAdds DEF Replay
<1>2. CASE Collapse
  <2>1. walk' = Died /\ walk.phase \in {"starting", "closing", "telling"}
    BY <1>2 DEF Collapse, RecordDies, AnnounceDies, Dies
  <2> QED
    BY <1>1, <2>1 DEF Died, Replay, Types, WalkOf
<1>3. ASSUME NEW i \in Steps, Breaks(i) PROVE walk.phase = "walking" /\ walk'.phase = "walking"
  <2>1. walk' = Lost(i)
    BY <1>3 DEF Breaks, RecordDies, AnnounceDies, Dies
  <2>2. walk.phase = "walking"
    BY <1>3 DEF Breaks, Turn, Replay, Course, Quiet, Active
  <2> QED
    BY <2>1, <2>2 DEF Lost, Replay, Types, WalkOf
<1> QED
  BY <1>1, <1>2, <1>3 DEF Defect

(* So what stands by it stands for good.                                     *)
LEMMA Stands ==
  ASSUME Kept, slip' = slip, defects \subseteq defects'
  PROVE  /\ \A kind, k, r : Said(kind, k, r) => Said(kind, k, r)'
         /\ StrandedBeside => StrandedBeside'
         /\ FailedBefore => FailedBefore'
         /\ Settled => Settled'
         /\ Stopped => Stopped'
<1>0. /\ Steps' = Steps /\ CommitPoint' = CommitPoint
      /\ \A k : Stage(k)' = Stage(k) /\ Group(k)' = Group(k) /\ Prior(k)' = Prior(k) /\ Kind(k)' = Kind(k)
      /\ \A k : PastCommit(k)' <=> PastCommit(k)
  BY DEF Steps, CommitPoint, Stage, Group, Prior, Kind, PastCommit
<1>1. \A kind, k, r : Said(kind, k, r) => Said(kind, k, r)'
  BY DEF Kept, Said, Journaled
<1>2. StrandedBeside => StrandedBeside'
  BY <1>0, <1>1 DEF StrandedBeside
<1>3. FailedBefore => FailedBefore'
  BY <1>0, <1>1 DEF FailedBefore
<1>4. (\A k : Dropped(k) => Dropped(k)') /\ (Settled => Settled')
  <2>1. \A k : Dropped(k) => Dropped(k)'
    BY <1>0 DEF Dropped, Broke
  <2> QED
    BY <1>0, <1>1, <2>1 DEF Settled
<1>5. \A k : Halts(k) => Halts(k)'
  BY <1>0, <1>1 DEF Halts
<1>6. Stopped => Stopped'
  BY <1>0, <1>1, <1>2, <1>4, <1>5 DEF Stopped
<1> QED
  BY <1>1, <1>2, <1>3, <1>4, <1>6

(* A step is undone, or its undoing is in doubt, while the walk undoes it.   *)
LEMMA UndoneNow ==
  ASSUME Replay, [Next]_vars, NEW i \in Steps, Acted("undo", i)', ~Acted("undo", i)
  PROVE  walk.phase = "undoing" /\ walk.done # <<>> /\ i = NextUndone(walk.done)
<1>1. ASSUME NEW k \in Steps, StepOf(k) PROVE FALSE
  BY <1>1 DEF StepOf, Begin, Act, Park, AnnounceWait, Race, Resume, Pass, Record, Call, Announce, durable, Acted
<1>2. CASE Undo
  BY <1>2 DEF Undo, Call, Acted
<1>3. CASE InDoubt
  BY <1>3 DEF InDoubt, Attempt, Acted
<1>4. CASE \/ Decide \/ Undone \/ Close \/ Tell \/ Return \/ Started \/ Retry \/ Crash \/ UNCHANGED vars
           \/ \E k \in Steps : Fires(k) \/ \E o \in Signals(k) : Signalled(k, o)
  BY <1>4 DEF Decide, Undone, Close, Tell, Return, Started, Retry, Crash, Fires, Signalled, Record, Announce,
     vars, durable, Acted
<1>5. ASSUME Defect PROVE FALSE
  BY <1>5, DefectEnds DEF Acted
<1> QED
  BY <1>1, <1>2, <1>3, <1>4, <1>5 DEF Next, WalkNext, Walk, Ending, Defect

(* A call of a step is answered while the walk makes it.                     *)
LEMMA ActedNow ==
  ASSUME Replay, [Next]_vars, NEW j \in Steps, Journaled(<<"action", j>>)', ~Journaled(<<"action", j>>)
  PROVE  walk.pc[j] = "noted"
<1>1. ASSUME NEW a, NEW r, NEW next, Answers(a, r, next), a # <<"action", j>> PROVE FALSE
  BY <1>1, AnswersEither DEF Adds, Journaled
<1>2. ASSUME NEW k \in Steps, StepOf(k), k # j \/ ~Act(k) PROVE FALSE
  <2>1. CASE Begin(k)
    BY <2>1, <1>1 DEF Begin, Record
  <2>2. CASE Act(k)
    BY <2>2, <1>1, <1>2 DEF Act, Call
  <2>3. CASE Park(k)
    BY <2>3, <1>1 DEF Park, Record
  <2>4. CASE AnnounceWait(k)
    BY <2>4, <1>1 DEF AnnounceWait, Announce
  <2>5. CASE Race(k)
    BY <2>5, <1>1 DEF Race
  <2>6. CASE Resume(k)
    BY <2>6, <1>1 DEF Resume, Record
  <2>7. CASE Pass(k)
    BY <2>7 DEF Pass, durable, Journaled
  <2> QED
    BY <1>2, <2>1, <2>2, <2>3, <2>4, <2>5, <2>6, <2>7 DEF StepOf
<1>3. CASE Undo
  BY <1>3, <1>1 DEF Undo, Call
<1>4. CASE Close
  <2>1. walk.verdict # "action"
    BY DEF Replay, Types, WalkOf, Finals
  <2> QED
    BY <1>4, <2>1, <1>1 DEF Close, Record
<1>5. CASE Tell
  <2>1. EventOf(walk.verdict) # "action"
    BY DEF EventOf
  <2> QED
    BY <1>5, <2>1, <1>1 DEF Tell, Announce
<1>6. CASE Started
  BY <1>6, <1>1 DEF Started, Announce
<1>7. CASE \/ Decide \/ Undone \/ Return \/ InDoubt \/ Retry \/ Crash \/ UNCHANGED vars
           \/ \E k \in Steps : Fires(k) \/ \E o \in Signals(k) : Signalled(k, o)
  BY <1>7 DEF Decide, Undone, Return, InDoubt, Attempt, Retry, Crash, Fires, Signalled, vars, durable, Journaled
<1>8. ASSUME Defect PROVE FALSE
  BY <1>8, DefectEnds DEF Journaled
<1> QED
  BY <1>2, <1>3, <1>4, <1>5, <1>6, <1>7, <1>8 DEF Next, WalkNext, Walk, Ending, Act, Defect


(* What stands before a step that stands before the commit point does too.   *)
LEMMA EarlierBefore ==
  ASSUME slip \in Slips, NEW j \in Steps, NEW k \in Steps, k <= j, ~PastCommit(j)
  PROVE  ~PastCommit(k)
BY StepsCounted DEF PastCommit, CommitPoint

(* What the journal says of a step that the walk found failed.               *)
LEMMA FailedSaid ==
  ASSUME Replay, NEW f \in Failed
  PROVE  /\ f \in Steps /\ Halts(f) /\ walk.pc[f] = "failed"
         /\ ~PastCommit(f) => Said("action", f, "failed")
<1>1. f \in Steps /\ walk.pc[f] = "failed" /\ slip \in Slips
  BY DEF Failed, Replay, Types
<1>2. Halts(f)
  BY <1>1 DEF Replay, Course, Met, Meets
<1>3. ~PastCommit(f) => Kind(f) # "wait"
  BY <1>1, BeforeCommit
<1> QED
  BY <1>1, <1>2, <1>3 DEF Halts

(* Before the commit point, what a store's failure dropped never begins.     *)
LEMMA NeverBegins ==
  ASSUME Replay, NEW i \in Steps, ~PastCommit(i), Dropped(i)
  PROVE  ~Began(i) /\ ~Journaled(<<"action", i>>)
<1>0. slip \in Slips /\ Log /\ Apart /\ \A a \in Steps : a \in Nat
  BY StepsCounted DEF Replay, Types
<1>1. PICK k \in Group(i) : k <= i /\ Broke(k)
  BY DEF Dropped
<1>2. k \in Steps /\ ~PastCommit(k)
  BY <1>0, <1>1, EarlierBefore DEF Group, Stage
<1>3. Kind(k) # "wait" /\ Kind(i) # "wait"
  BY <1>0, <1>2, BeforeCommit
<1>4. <<"running", k>> \in defects
  BY <1>0, <1>1, <1>2, <1>3 DEF Broke, Apart
<1>5. ~Journaled(<<"running", k>>)
  BY <1>0, <1>4 DEF Apart
<1>6. ~Said("action", k, "ok")
  BY <1>0, <1>2, <1>5 DEF Log, LogOf, Said
<1>7. CASE k = i
  BY <1>0, <1>3, <1>5, <1>7 DEF Log, LogOf, Began
<1>8. CASE k # i
  <2>1. k < i /\ k \in Prior(i)
    BY <1>0, <1>1, <1>2, <1>8 DEF Prior
  <2> QED
    BY <1>0, <1>1, <1>2, <1>6, <2>1 DEF Log, LogOf, Began
<1> QED
  BY <1>7, <1>8

(* A step that has begun is not one that comes after a failed one before the *)
(* commit point, nor has it failed if it succeeded.                          *)
LEMMA BegunAfter ==
  ASSUME Replay, NEW j \in Steps, Began(j), NEW k \in Prior(j), ~PastCommit(k)
  PROVE  /\ Said("action", k, "ok") \/ (Dropped(k) /\ k \notin Group(j))
         /\ ~Said("action", k, "failed")
<1>1. Said("action", k, "ok") \/ (Dropped(k) /\ k \notin Group(j))
  BY DEF Replay, Log, LogOf
<1>2. k \in Steps
  BY DEF Prior, Group, Stage
<1> QED
  BY <1>1, <1>2, NeverBegins DEF Said

(* What was called has begun.                                                *)
LEMMA CalledBegan ==
  ASSUME Replay, NEW j \in Steps
  PROVE  Journaled(<<"action", j>>) \/ Acted("action", j) \/ Journaled(<<"race", j>>) => Began(j)
BY DEF Replay, Log, LogOf, Began

(* The walk turns back: everything before the commit point is settled, and   *)
(* what has to be undone is what it found done.                              *)
LEMMA TurnSettles ==
  ASSUME Replay, walk.phase = "walking", Failed # {}, \A i \in Stage(Min(Failed)) : Over(Group(i)),
         ~PastCommit(Min(Failed))
  PROVE  /\ FailedBefore
         /\ StrandedBeside \/ (Settled /\ \A j \in Steps : ToUndo(j) => j \in Range(walk.done))
<1>0. slip \in Slips /\ \A a \in Steps : a \in Nat
  BY StepsCounted DEF Replay, Types
<1>1. Min(Failed) \in Failed
  <2>1. Min(Failed) \in Failed \/ Steps = {}
    BY StoppedStage
  <2> QED
    BY <2>1 DEF Failed
<1>2. FailedBefore
  BY <1>1, FailedSaid DEF FailedBefore
<1> SUFFICES ASSUME ~StrandedBeside PROVE Settled /\ \A j \in Steps : ToUndo(j) => j \in Range(walk.done)
  BY <1>2
<1>3. ASSUME NEW j \in Steps, ~PastCommit(j)
      PROVE  \/ walk.pc[j] = "ok" /\ Said("action", j, "ok")
             \/ Said("action", j, "failed")
             \/ \E k \in Prior(j) : ~PastCommit(k) /\ Said("action", k, "failed")
             \/ Dropped(j)
  <2>1. CASE Ended(j)
    BY <1>3, <2>1, EndedBefore
  <2>2. CASE j \in Failed
    BY <1>3, <2>2, FailedSaid
  <2>3. ASSUME NEW f \in Failed, f \in Prior(j)
        PROVE  \E k \in Prior(j) : ~PastCommit(k) /\ Said("action", k, "failed")
    <3>1. f \in Steps /\ f <= j
      BY <1>0, <2>3, PriorIsBefore
    <3> QED
      BY <1>0, <1>3, <2>3, <3>1, EarlierBefore, FailedSaid
  <2> QED
    BY <2>1, <2>2, <2>3, StoppedStage
<1>4. Settled
  BY <1>3 DEF Settled
<1>5. ASSUME NEW j \in Steps, ToUndo(j) PROVE j \in Range(walk.done)
  <2>1. ~PastCommit(j) /\ Began(j) /\ ~Said("action", j, "failed")
    BY <1>0, <1>5, BeforeCommit, CalledBegan DEF ToUndo, Said
  <2>2. \A k \in Prior(j) : ~PastCommit(k) => ~Said("action", k, "failed")
    BY <2>1, BegunAfter
  <2>3. walk.pc[j] = "ok"
    BY <1>3, <2>1, <2>2, NeverBegins
  <2> QED
    BY <1>5, <2>3 DEF ToUndo, Replay, Course, DoneAll
<1> QED
  BY <1>4, <1>5

(* The walk stops past the commit point: everything before it succeeded.     *)
LEMMA StopsPast ==
  ASSUME Replay, Failed # {}, \A i \in Stage(Min(Failed)) : Over(Group(i)), PastCommit(Min(Failed))
  PROVE  Stopped
<1>0. slip \in Slips /\ \A a \in Steps : a \in Nat
  BY StepsCounted DEF Replay, Types
<1>1. Min(Failed) \in Failed /\ \A f \in Failed : Min(Failed) <= f
  <2>1. Steps = {} \/ (Min(Failed) \in Failed /\ \A f \in Failed : Min(Failed) <= f)
    BY StoppedStage
  <2> QED
    BY <2>1 DEF Failed
<1>2. \E i \in Steps : PastCommit(i) /\ Halts(i)
  BY <1>1, FailedSaid
<1>3. ASSUME NEW j \in Steps, ~PastCommit(j), ~StrandedBeside PROVE Said("action", j, "ok") \/ Dropped(j)
  <2>1. \A f \in Failed : f \in Steps /\ ~(f <= j)
    <3> SUFFICES ASSUME NEW f \in Failed, f <= j PROVE FALSE
      BY FailedSaid
    <3>1. f \in Steps /\ Min(Failed) \in Steps /\ Min(Failed) <= j
      BY <1>0, <1>1, FailedSaid
    <3> QED
      BY <1>0, <1>3, <3>1, EarlierBefore
  <2>2. j \notin Failed /\ \A f \in Failed : f \notin Prior(j)
    BY <1>0, <2>1, PriorIsBefore
  <2>3. Ended(j)
    BY <2>2, StoppedStage
  <2> QED
    BY <1>3, <2>3, EndedBefore
<1> QED
  BY <1>2, <1>3 DEF Stopped


(* A walk that takes its steps, or starts afresh, has not come to its end.   *)
LEMMA WalksOn ==
  ASSUME Replay, Started \/ Retry \/ Crash \/ \E i \in Steps : StepOf(i)
  PROVE  walk'.phase \in {"starting", "walking"}
<1>0. Fresh.phase = "starting"
  BY DEF Fresh
<1>1. ASSUME NEW a, NEW r, NEW next, Answers(a, r, next), next.phase = "walking"
      PROVE  walk'.phase \in {"starting", "walking"}
  BY <1>0, <1>1, AnswersEither
<1>2. CASE Started
  <2>1. [walk EXCEPT !.phase = "walking"].phase = "walking"
    BY DEF Replay, Types, WalkOf
  <2> QED
    BY <1>1, <1>2, <2>1 DEF Started, Announce
<1>3. CASE Retry \/ Crash
  BY <1>0, <1>3 DEF Retry, Crash
<1>4. ASSUME NEW i \in Steps, StepOf(i) PROVE walk'.phase \in {"starting", "walking"}
  <2>1. walk.phase = "walking"
    BY <1>4 DEF StepOf, Begin, Act, Park, AnnounceWait, Race, Resume, Pass, Turn, Replay, Course, Quiet, Active
  <2>2. \A p : Move(i, p).phase = "walking"
    BY <2>1 DEF Move, Replay, Types, WalkOf
  <2>3. Done(i).phase = "walking" /\ [walk EXCEPT !.pc[i] = "stranded", !.stranded = i].phase = "walking"
    BY <2>1 DEF Done, Replay, Types, WalkOf
  <2>4. CASE Begin(i)
    BY <2>2, <2>4, <1>1 DEF Begin, Record
  <2>5. CASE Act(i)
    <3>1. PICK r, next : next \in {Done(i), Move(i, "failed")} /\ Answers(<<"action", i>>, r, next)
      BY <2>5 DEF Act, Call
    <3> QED
      BY <2>2, <2>3, <3>1, <1>1
  <2>6. CASE Park(i)
    BY <2>2, <2>6, <1>1 DEF Park, Record
  <2>7. CASE AnnounceWait(i)
    BY <2>2, <2>7, <1>1 DEF AnnounceWait, Announce
  <2>8. CASE Race(i)
    <3>1. PICK r, next : /\ Answers(<<"race", i>>, r, next)
                         /\ next \in {Move(i, "answered"), Move(i, "failed"),
                                      [walk EXCEPT !.pc[i] = "stranded", !.stranded = i]}
      BY <2>8 DEF Race
    <3> QED
      BY <2>2, <2>3, <3>1, <1>1
  <2>9. CASE Resume(i)
    BY <2>2, <2>9, <1>1 DEF Resume, Record
  <2>10. CASE Pass(i)
    BY <2>2, <2>10 DEF Pass
  <2> QED
    BY <1>4, <2>4, <2>5, <2>6, <2>7, <2>8, <2>9, <2>10 DEF StepOf
<1> QED
  BY <1>2, <1>3, <1>4

(* Closing, telling and returning leave the verdict and what was called.     *)
LEMMA ClosesOn ==
  ASSUME Replay, Close \/ Tell \/ Return
  PROVE  \/ walk'.phase = "starting"
         \/ /\ walk.phase \in {"closing", "telling", "returning"}
            /\ walk'.phase \in {"telling", "returning", "over"}
            /\ walk'.verdict = walk.verdict /\ walk'.pc = walk.pc
<1>0. Fresh.phase = "starting"
  BY DEF Fresh
<1>1. \A p : /\ [walk EXCEPT !.phase = p].phase = p
             /\ [walk EXCEPT !.phase = p].verdict = walk.verdict
             /\ [walk EXCEPT !.phase = p].pc = walk.pc
  BY DEF Replay, Types, WalkOf
<1>2. CASE Close
  <2>1. walk' = Fresh \/ walk' = [walk EXCEPT !.phase = "telling"]
    BY <1>2 DEF Close, Record, Answers
  <2> QED
    BY <1>0, <1>1, <1>2, <2>1 DEF Close
<1>3. CASE Tell
  <2>1. walk' = Fresh \/ walk' = [walk EXCEPT !.phase = "returning"]
    BY <1>3 DEF Tell, Announce, Answers
  <2> QED
    BY <1>0, <1>1, <1>3, <2>1 DEF Tell
<1>4. CASE Return
  BY <1>1, <1>4 DEF Return
<1> QED
  BY <1>2, <1>3, <1>4

(* What has to be undone is settled while the walk turns back.               *)
LEMMA UndoFixed ==
  ASSUME Replay, [Next]_vars, walk.phase \notin {"starting", "walking"}, NEW j \in Steps, ToUndo(j)'
  PROVE  ToUndo(j)
<1>1. Kept /\ slip' = slip
  BY WorldGrows
<1>2. walk.pc[j] # "noted"
  BY DEF Replay, Course, Quiet, Active
<1>3. Journaled(<<"action", j>>)
  BY <1>2, ActedNow DEF ToUndo, Said
<1> QED
  BY <1>1, <1>3 DEF ToUndo, Said, Kept, Journaled, Kind

(* A walk that turns back has found a failure before the commit point, and   *)
(* undoes all that was done.                                                 *)
LEMMA TurnsBackKept == ASSUME Replay, TurnsBack, [Next]_vars PROVE TurnsBack'
<1>0. Kept /\ slip' = slip /\ Steps' = Steps /\ defects \subseteq defects'
  BY WorldGrows DEF Steps
<1>1. /\ \A kind, k, r : Said(kind, k, r) => Said(kind, k, r)'
      /\ StrandedBeside => StrandedBeside'
      /\ FailedBefore => FailedBefore'
      /\ Settled => Settled'
  BY <1>0, Stands
<1>2. CASE Started \/ Retry \/ Crash \/ \E i \in Steps : StepOf(i)
  BY <1>2, WalksOn DEF TurnsBack, Closes
<1>3. CASE Decide
  <2>1. walk.phase = "walking" /\ journal' = journal
    BY <1>3 DEF Decide, durable
  <2>2. \A j : ToUndo(j)' <=> ToUndo(j)
    BY <1>0, <2>1 DEF ToUndo, Said, Journaled, Kind
  <2>3. CASE walk' = [walk EXCEPT !.phase = "undoing", !.at = Min(Failed)] /\ ~PastCommit(Min(Failed))
             /\ Failed # {} /\ \A i \in Stage(Min(Failed)) : Over(Group(i))
    <3>1. walk'.phase = "undoing" /\ walk'.done = walk.done
      BY <2>3 DEF Replay, Types, WalkOf
    <3>2. /\ FailedBefore
          /\ StrandedBeside \/ (Settled /\ \A j \in Steps : ToUndo(j) => j \in Range(walk.done))
      BY <2>1, <2>3, TurnSettles
    <3> QED
      BY <1>0, <1>1, <2>2, <3>1, <3>2 DEF TurnsBack, Closes
  <2>4. ASSUME NEW v \in {"suspended", "stranded", "completed"}, NEW k, walk' = Closing(v, k) PROVE TurnsBack'
    <3>1. walk'.phase = "closing" /\ walk'.verdict = v
      BY <2>4 DEF Closing, Replay, Types, WalkOf
    <3> QED
      BY <3>1 DEF TurnsBack, Closes
  <2> QED
    BY <1>3, <2>3, <2>4 DEF Decide
<1>4. CASE Undo
  <2>0. PICK u : u = NextUndone(walk.done)
    OBVIOUS
  <2> DEFINE a == <<"undo", u>>
             d == walk.done
  <2>1. PICK r : /\ r \in IF Journaled(a) THEN {journal[a]} ELSE {"ok", "failed"}
                 /\ Answers(a, r, IF r = "ok" THEN [walk EXCEPT !.done = Front(@)] ELSE Closing("failed", u))
    BY <1>4, <2>0 DEF Undo, Call
  <2>2. walk.phase = "undoing" /\ d # <<>>
    BY <1>4 DEF Undo
  <2>3. /\ FailedBefore
        /\ StrandedBeside \/ (Settled /\ \A j \in Steps : ToUndo(j) => j \in Range(d) \/ Said("undo", j, "ok"))
    BY <2>2 DEF TurnsBack
  <2>4. \A j \in Steps : ToUndo(j)' => ToUndo(j)
    BY <2>2, UndoFixed
  <2>5. CASE walk' = Fresh
    BY <2>5 DEF Fresh, TurnsBack, Closes
  <2>6. CASE walk' # Fresh /\ r # "ok"
    <3>1. walk' = Closing("failed", u)
      BY <2>1, <2>6, AnswersEither
    <3>2. walk'.phase = "closing" /\ walk'.verdict = "failed"
      BY <3>1 DEF Closing, Replay, Types, WalkOf
    <3> QED
      BY <1>1, <2>3, <3>2 DEF TurnsBack, Closes
  <2>7. CASE walk' # Fresh /\ r = "ok"
    <3>1. PICK next : next = [walk EXCEPT !.done = Front(@)]
      OBVIOUS
    <3>2. walk' = next /\ Said("undo", u, "ok")'
      BY <2>1, <2>7, <3>1, AnswersEither DEF Adds, Kept, Said, Journaled
    <3>3. walk'.phase = "undoing" /\ walk'.done = Front(d)
      BY <2>2, <3>1, <3>2 DEF Replay, Types, WalkOf
    <3>4. \A j \in Range(d) : j = u \/ j \in Range(Front(d))
      <4>1. d \in Seq(Steps) /\ Len(d) \in Nat \ {0}
        BY <2>2, EmptySeq DEF Replay, Types, WalkOf
      <4>2. \A n \in 1 .. Len(d) - 1 : d[n] \in Steps
        BY <4>1, ElementOfSeq
      <4>3. /\ Front(d) \in Seq(Steps) /\ Len(Front(d)) = Len(d) - 1
            /\ \A n \in 1 .. Len(d) - 1 : Front(d)[n] = d[n]
        BY <4>1, <4>2, SubSeqProperties DEF Front
      <4>4. Range(d) = {d[n] : n \in 1 .. Len(d)} /\ Range(Front(d)) = {Front(d)[n] : n \in 1 .. Len(d) - 1}
        BY <4>1, <4>3, RangeEquality
      <4>5. u = d[Len(d)]
        BY <2>0 DEF NextUndone, Last
      <4> QED
        BY <4>1, <4>3, <4>4, <4>5
    <3> QED
      BY <1>0, <1>1, <2>3, <2>4, <3>2, <3>3, <3>4 DEF TurnsBack, Closes
  <2> QED
    BY <2>5, <2>6, <2>7
<1>5. CASE Undone
  <2>1. walk.phase = "undoing" /\ walk.done = <<>> /\ Range(<<>>) = {}
    BY <1>5 DEF Undone, Range
  <2>2. walk'.phase = "closing" /\ walk'.verdict = "compensated"
    BY <1>5 DEF Undone, Closing, Replay, Types, WalkOf
  <2>3. \A j \in Steps : ToUndo(j)' => ToUndo(j)
    BY <2>1, UndoFixed
  <2> QED
    BY <1>0, <1>1, <2>1, <2>2, <2>3 DEF TurnsBack, Closes
<1>6. CASE Close \/ Tell \/ Return
  <2>1. CASE walk'.phase = "starting"
    BY <2>1 DEF TurnsBack, Closes
  <2>2. CASE /\ walk.phase \in {"closing", "telling", "returning"}
             /\ walk'.phase \in {"telling", "returning", "over"} /\ walk'.verdict = walk.verdict
    <3>1. \A j \in Steps : ToUndo(j)' => ToUndo(j)
      BY <2>2, UndoFixed
    <3>2. \A V : Closes(V)' => Closes(V)
      BY <2>2 DEF Closes
    <3> QED
      BY <1>0, <1>1, <2>2, <3>1, <3>2 DEF TurnsBack
  <2> QED
    BY <1>6, <2>1, <2>2, ClosesOn
<1>7. CASE \/ InDoubt \/ UNCHANGED vars
           \/ \E i \in Steps : Fires(i) \/ \E o \in Signals(i) : Signalled(i, o)
  <2>1. walk' = walk /\ journal' = journal
    BY <1>7 DEF InDoubt, Attempt, Fires, Signalled, vars, durable
  <2>2. \A j : ToUndo(j)' <=> ToUndo(j)
    BY <1>0, <2>1 DEF ToUndo, Said, Journaled, Kind
  <2> QED
    BY <1>0, <1>1, <2>1, <2>2 DEF TurnsBack, Closes
<1>8. CASE Defect
  BY <1>8, DefectEnds DEF TurnsBack, Closes
<1> QED
  BY <1>2, <1>3, <1>4, <1>5, <1>6, <1>7, <1>8 DEF Next, WalkNext, Walk, Ending, Defect


(* Only what succeeded is undone, and last first.                            *)
LEMMA UndoneInOrderKept == ASSUME Replay, TurnsBack, UndoneInOrder, [Next]_vars PROVE UndoneInOrder'
<1>0. /\ Kept /\ slip' = slip /\ Steps' = Steps /\ defects \subseteq defects'
      /\ \A k : Prior(k)' = Prior(k) /\ Kind(k)' = Kind(k)
  BY WorldGrows DEF Steps, Prior, Group, Stage, Kind
<1>1. /\ \A kind, k, r : Said(kind, k, r) => Said(kind, k, r)'
      /\ StrandedBeside => StrandedBeside'
      /\ FailedBefore => FailedBefore'
      /\ Settled => Settled'
  BY <1>0, Stands
<1>2. slip \in Slips /\ \A k \in Steps : k \in Nat
  BY StepsCounted DEF Replay, Types
<1> DEFINE d == walk.done
<1>3. ASSUME NEW u \in Steps, Acted("undo", u)', ~Acted("undo", u)
      PROVE  /\ walk.phase = "undoing" /\ d \in Seq(Steps) /\ Len(d) \in Nat \ {0} /\ u = d[Len(d)]
             /\ Said("action", u, "ok")
  <2>1. walk.phase = "undoing" /\ d # <<>> /\ u = d[Len(d)]
    BY <1>3, UndoneNow DEF NextUndone, Last
  <2>2. d \in Seq(Steps) /\ Len(d) \in Nat \ {0}
    BY <2>1, EmptySeq DEF Replay, Types, WalkOf
  <2>3. u \in Range(d)
    BY <2>1, <2>2, RangeEquality
  <2>4. walk.pc[u] = "ok" /\ Kind(u) = "compensatable"
    BY <2>3 DEF Replay, Types, WalkOf
  <2> QED
    BY <2>1, <2>2, <2>4 DEF Replay, Course, Met, Meets
<1>4. ASSUME NEW i \in Steps, Acted("undo", i)'
      PROVE  Said("action", i, "ok")' /\ FailedBefore' /\ (StrandedBeside' \/ Settled')
  <2>1. CASE Acted("undo", i)
    BY <1>1, <2>1 DEF UndoneInOrder
  <2>2. CASE ~Acted("undo", i)
    BY <1>1, <1>3, <1>4, <2>2 DEF TurnsBack
  <2> QED
    BY <2>1, <2>2
<1>5. ASSUME NEW j \in Steps, NEW i \in Prior(j), Acted("undo", i)', ToUndo(j)'
      PROVE  Said("undo", j, "ok")' \/ StrandedBeside'
  <2>0. i \in Steps /\ i < j
    BY <1>2, PriorIsBefore
  <2>1. CASE ~Acted("undo", i)
    <3>1. walk.phase = "undoing" /\ d \in Seq(Steps) /\ Len(d) \in Nat \ {0} /\ i = d[Len(d)]
      BY <1>3, <1>5, <2>0, <2>1
    <3>2. ToUndo(j)
      BY <1>5, <3>1, UndoFixed
    <3>3. StrandedBeside \/ j \in Range(d) \/ Said("undo", j, "ok")
      BY <3>1, <3>2 DEF TurnsBack
    <3>4. CASE j \in Range(d)
      <4>1. PICK n \in 1 .. Len(d) : j = d[n]
        BY <3>1, <3>4, RangeEquality
      <4>2. n # Len(d)
        BY <1>2, <2>0, <3>1, <4>1
      <4>3. n < Len(d) /\ Len(d) \in 1 .. Len(d)
        BY <3>1, <4>2
      <4>4. d[Len(d)] \notin Prior(d[n])
        BY <4>3 DEF Replay, Course, DoneLater
      <4> QED
        BY <1>5, <3>1, <4>1, <4>4
    <3> QED
      BY <1>1, <3>3, <3>4
  <2>2. CASE Acted("undo", i) /\ ToUndo(j)
    BY <1>1, <2>2 DEF UndoneInOrder
  <2>3. CASE Acted("undo", i) /\ ~ToUndo(j)
    <3>1. ~Said("action", j, "ok") /\ Kind(j) = "compensatable" /\ Said("action", j, "ok")'
      BY <1>0, <1>5, <2>3 DEF ToUndo
    <3>2. ~Journaled(<<"action", j>>)
      BY <1>0, <3>1 DEF Said, Kept, Journaled
    <3>3. walk.pc[j] = "noted"
      BY <3>1, <3>2, ActedNow DEF Said
    <3>4. Began(j) /\ ~PastCommit(j)
      BY <1>2, <3>1, <3>3, BeforeCommit DEF Replay, Course, Met, Meets, Began
    <3>5. \A k \in Prior(j) : ~PastCommit(k) => ~Said("action", k, "failed")
      BY <3>4, BegunAfter
    <3>6. ~Settled
      BY <3>1, <3>2, <3>4, <3>5, NeverBegins DEF Settled, Said
    <3> QED
      BY <1>1, <2>0, <2>3, <3>6 DEF UndoneInOrder
  <2> QED
    BY <2>1, <2>2, <2>3
<1> QED
  BY <1>0, <1>4, <1>5 DEF UndoneInOrder

(* The news is a sequence, and one event more comes last.                    *)
LEMMA OneMore ==
  ASSUME Types, NEW e
  PROVE  /\ Len(news) \in Nat /\ DOMAIN news = 1 .. Len(news)
         /\ DOMAIN Append(news, e) = 1 .. Len(news) + 1
         /\ \A m \in 1 .. Len(news) : Append(news, e)[m] = news[m]
         /\ Append(news, e)[Len(news) + 1] = e
<1>1. PICK E : news \in Seq(E)
  BY DEF Types
<1>2. news \in Seq(E \union {e}) /\ e \in E \union {e}
  <2>1. Len(news) \in Nat /\ news \in [1 .. Len(news) -> E]
    BY <1>1, LenProperties
  <2>2. news \in [1 .. Len(news) -> E \union {e}]
    BY <2>1
  <2> QED
    BY <2>1, <2>2, SeqDef
<1> QED
  BY <1>2, AppendProperties, LenProperties

(* A suspension is announced where the walk closes with one.                 *)
LEMMA SuspensionTold ==
  ASSUME Replay, [Next]_vars, NEW n \in DOMAIN news', news'[n].name = "flow.suspended"
  PROVE  \/ \E m \in DOMAIN news : news[m].name = "flow.suspended"
         \/ Closes({"suspended"})
<1>1. ASSUME NEW name, NEW i, NEW ordinal, NEW next,
             Announce(name, i, ordinal, next) \/ AnnounceDies(name, i, ordinal, next)
      PROVE  (\E m \in DOMAIN news : news[m].name = "flow.suspended") \/ name = "flow.suspended"
  <2>1. PICK e : e.name = name /\ (news' = news \/ news' = Append(news, e))
    BY <1>1 DEF Announce, AnnounceDies
  <2>4. /\ DOMAIN news = 1 .. Len(news) /\ DOMAIN Append(news, e) = 1 .. Len(news) + 1 /\ Len(news) \in Nat
        /\ \A m \in 1 .. Len(news) : Append(news, e)[m] = news[m]
        /\ Append(news, e)[Len(news) + 1] = e
    BY OneMore DEF Replay
  <2>5. CASE news' = news
    BY <2>5
  <2>6. CASE news' = Append(news, e)
    <3>1. n \in 1 .. Len(news) \/ n = Len(news) + 1
      BY <2>4, <2>6
    <3> QED
      BY <2>1, <2>4, <2>6, <3>1
  <2> QED
    BY <2>1, <2>5, <2>6
<1>2. CASE Tell
  <2>1. PICK name : name = EventOf(walk.verdict)
    OBVIOUS
  <2>2. PICK i, ordinal, next : Announce(name, i, ordinal, next)
    BY <1>2, <2>1 DEF Tell
  <2>3. name = "flow.suspended" => walk.verdict = "suspended"
    BY <2>1 DEF EventOf
  <2> QED
    BY <1>1, <1>2, <2>2, <2>3 DEF Tell, Closes
<1>3. CASE Started
  BY <1>1, <1>3 DEF Started
<1>4. ASSUME NEW i \in Steps, StepOf(i)
      PROVE  \E m \in DOMAIN news : news[m].name = "flow.suspended"
  <2>1. CASE AnnounceWait(i)
    BY <1>1, <2>1 DEF AnnounceWait
  <2>2. CASE ~AnnounceWait(i)
    <3>1. news' = news
      BY <1>4, <2>2 DEF StepOf, Begin, Act, Park, Race, Resume, Pass, Record, Call, durable
    <3> QED
      BY <3>1
  <2> QED
    BY <2>1, <2>2
<1>5. ASSUME \/ Decide \/ Undo \/ Undone \/ Close \/ Return \/ InDoubt \/ Retry \/ Crash \/ UNCHANGED vars
             \/ \E k \in Steps : Fires(k) \/ \E o \in Signals(k) : Signalled(k, o)
      PROVE  news' = news
  <2>1. CASE Undo
    BY <2>1 DEF Undo, Call
  <2>2. CASE InDoubt
    BY <2>2 DEF InDoubt, Attempt
  <2> QED
    BY <1>5, <2>1, <2>2 DEF Decide, Undone, Close, Return, Retry, Crash, Fires, Signalled, Record, vars, durable
<1>6. CASE Collapse
  <2>1. CASE walk.phase = "starting" /\ AnnounceDies("flow.started", 0, 0, Died)
    BY <1>1, <2>1
  <2>2. CASE /\ walk.phase = "telling"
             /\ AnnounceDies(EventOf(walk.verdict), walk.at, OrdinalOf(walk.verdict, walk.at), Died)
    <3>1. EventOf(walk.verdict) = "flow.suspended" => walk.verdict = "suspended"
      BY DEF EventOf
    <3>2. (\E m \in DOMAIN news : news[m].name = "flow.suspended") \/ EventOf(walk.verdict) = "flow.suspended"
      BY <1>1, <2>2
    <3> QED
      BY <2>2, <3>1, <3>2 DEF Closes
  <2>3. CASE RecordDies(<<walk.verdict, walk.at>>, walk.verdict, 0, Died)
    BY <2>3 DEF RecordDies
  <2> QED
    BY <1>6, <2>1, <2>2, <2>3 DEF Collapse
<1>7. ASSUME NEW i \in Steps, Breaks(i)
      PROVE  \E m \in DOMAIN news : news[m].name = "flow.suspended"
  <2>1. AnnounceDies("flow.waiting", i, i, Lost(i)) \/ news' = news
    BY <1>7 DEF Breaks, RecordDies
  <2> QED
    BY <1>1, <2>1
<1> QED
  BY <1>2, <1>3, <1>4, <1>5, <1>6, <1>7 DEF Next, WalkNext, Walk, Ending


(* How a walk comes to be suspended, or completed.                           *)
LEMMA ClosesFrom ==
  ASSUME Replay, [Next]_vars, NEW v \in {"suspended", "completed"}, Closes({v})'
  PROVE  \/ Closes({v}) /\ walk'.pc = walk.pc
         \/ /\ v = "suspended"
            /\ Failed # {} /\ (\A i \in Stage(Min(Failed)) : Over(Group(i))) /\ PastCommit(Min(Failed))
         \/ /\ v = "completed"
            /\ walk.stranded = 0 /\ (\A i \in Steps : Ended(i)) /\ walk'.pc = walk.pc
<1>1. CASE Started \/ Retry \/ Crash \/ \E i \in Steps : StepOf(i)
  BY <1>1, WalksOn DEF Closes
<1>2. CASE Decide
  <2>1. CASE Failed # {} /\ \A i \in Stage(Min(Failed)) : Over(Group(i))
    <3>1. walk' = Closing("suspended", Min(Failed)) => walk'.verdict = "suspended"
      BY DEF Closing, Replay, Types, WalkOf
    <3>2. walk' = [walk EXCEPT !.phase = "undoing", !.at = Min(Failed)] => walk'.phase = "undoing"
      BY DEF Replay, Types, WalkOf
    <3> QED
      BY <1>2, <2>1, <3>1, <3>2 DEF Decide, Closes
  <2>2. CASE walk' = Closing("stranded", walk.stranded)
    <3>1. walk'.verdict = "stranded"
      BY <2>2 DEF Closing, Replay, Types, WalkOf
    <3> QED
      BY <3>1 DEF Closes
  <2>3. CASE walk' = Closing("completed", 0) /\ walk.stranded = 0 /\ \A i \in Steps : Ended(i)
    <3>1. walk'.verdict = "completed" /\ walk'.pc = walk.pc
      BY <2>3 DEF Closing, Replay, Types, WalkOf
    <3> QED
      BY <2>3, <3>1 DEF Closes
  <2> QED
    BY <1>2, <2>1, <2>2, <2>3 DEF Decide
<1>3. CASE Undo
  <2>1. PICK next : /\ next \in {[walk EXCEPT !.done = Front(@)], Closing("failed", NextUndone(walk.done))}
                    /\ walk' = next \/ walk' = Fresh
    BY <1>3 DEF Undo, Call, Answers
  <2>2. CASE next = [walk EXCEPT !.done = Front(@)]
    <3>1. next.phase = "undoing" /\ Fresh.phase = "starting"
      BY <1>3, <2>2 DEF Undo, Fresh, Replay, Types, WalkOf
    <3> QED
      BY <2>1, <3>1 DEF Closes
  <2>3. CASE next = Closing("failed", NextUndone(walk.done))
    <3>1. next.verdict = "failed" /\ Fresh.phase = "starting"
      BY <2>3 DEF Closing, Fresh, Replay, Types, WalkOf
    <3> QED
      BY <2>1, <3>1 DEF Closes
  <2> QED
    BY <2>1, <2>2, <2>3
<1>4. CASE Undone
  <2>1. walk'.verdict = "compensated"
    BY <1>4 DEF Undone, Closing, Replay, Types, WalkOf
  <2> QED
    BY <2>1 DEF Closes
<1>5. CASE Close \/ Tell \/ Return
  BY <1>5, ClosesOn DEF Closes
<1>6. CASE \/ InDoubt \/ UNCHANGED vars
           \/ \E i \in Steps : Fires(i) \/ \E o \in Signals(i) : Signalled(i, o)
  <2>1. walk' = walk
    BY <1>6 DEF InDoubt, Attempt, Fires, Signalled, vars
  <2> QED
    BY <2>1 DEF Closes
<1>7. CASE Defect
  BY <1>7, DefectEnds DEF Closes
<1> QED
  BY <1>1, <1>2, <1>3, <1>4, <1>5, <1>6, <1>7 DEF Next, WalkNext, Walk, Ending, Defect

(* A flow that was suspended is stopped by what the journal holds.           *)
LEMMA StopsKept == ASSUME Replay, Stops, [Next]_vars PROVE Stops'
<1>1. Stopped => Stopped'
  BY WorldGrows, Stands
<1>2. Closes({"suspended"})' => Stopped'
  BY <1>1, ClosesFrom, StopsPast DEF Stops
<1>3. (\E n \in DOMAIN news' : news'[n].name = "flow.suspended") => Stopped'
  BY <1>1, SuspensionTold DEF Stops
<1> QED
  BY <1>2, <1>3 DEF Stops

(* A walk completes over steps that succeeded or were passed by their guard. *)
LEMMA CompletesKept == ASSUME Replay, Completes, [Next]_vars PROVE Completes'
<1>1. Steps' = Steps
  BY WorldGrows DEF Steps
<1> SUFFICES ASSUME Closes({"completed"})', NEW i \in Steps PROVE walk'.pc[i] \in {"ok", "skipped"} \union Fallen
  BY <1>1 DEF Completes, Fallen
<1>2. CASE Closes({"completed"}) /\ walk'.pc = walk.pc
  BY <1>2 DEF Completes
<1>3. CASE walk.stranded = 0 /\ (\A j \in Steps : Ended(j)) /\ walk'.pc = walk.pc
  BY <1>3 DEF Replay, Course, Strand, Ended, Fallen
<1> QED
  BY <1>2, <1>3, ClosesFrom

(* The result of the workflow is the verdict of the walk that is over.       *)
LEMMA ResultedKept == ASSUME Replay, Resulted, [Next]_vars PROVE Resulted'
<1>0. Fresh.phase = "starting"
  BY DEF Fresh
<1> DEFINE Returned == result = IF walk.phase = "over" THEN walk.verdict ELSE "none"
<1>gone. CASE Gone
  <2>1. walk.phase = "over" /\ walk.stranded = 0 /\ (\A i \in Steps : walk.pc[i] = "todo") /\ result = "interrupted"
    BY <1>gone DEF Gone, Fresh
  <2>2. ~Walk /\ ~Retry /\ ~Crash
    <3>1. \A i \in Steps : ~StepOf(i)
      BY <2>1 DEF StepOf, Begin, Act, Park, AnnounceWait, Race, Resume, Pass, Turn
    <3>2. ~Collapse /\ \A i \in Steps : ~Breaks(i)
      BY <2>1 DEF Collapse, Breaks, Turn
    <3> QED
      BY <2>1, <3>1, <3>2 DEF Walk, Ending, Started, Decide, Undo, Undone, Close, Tell, Return, Retry, Crash
  <2>3. walk' = walk /\ result' = result /\ slip' = slip
    BY <2>2 DEF Next, WalkNext, InDoubt, Attempt, Fires, Signalled, vars, durable
  <2> QED
    BY <1>gone, <2>3 DEF Resulted, Gone, Fresh, Steps
<1> SUFFICES ASSUME Returned PROVE Returned'
  BY <1>gone DEF Resulted
<1>1. CASE Started \/ \E i \in Steps : StepOf(i)
  <2>1. walk'.phase \in {"starting", "walking"}
    BY <1>1, WalksOn
  <2>2. walk.phase \in {"starting", "walking"}
    BY <1>1 DEF Started, StepOf, Begin, Act, Park, AnnounceWait, Race, Resume, Pass, Turn, Replay, Course,
       Quiet, Active
  <2>3. result' = result
    BY <1>1 DEF Started, StepOf, Begin, Act, Park, AnnounceWait, Race, Resume, Pass, Record, Call, Announce,
       durable
  <2> QED
    BY <2>1, <2>2, <2>3
<1>2. CASE Retry \/ Crash
  BY <1>0, <1>2 DEF Retry, Crash, durable
<1>3. CASE Decide \/ Undone
  <2>1. PICK v, k : walk' = Closing(v, k) \/ walk' = [walk EXCEPT !.phase = "undoing", !.at = k]
    BY <1>3 DEF Decide, Undone
  <2>2. walk'.phase # "over"
    BY <2>1 DEF Closing, Replay, Types, WalkOf
  <2> QED
    BY <1>3, <2>2 DEF Decide, Undone, durable
<1>4. CASE Undo
  <2>1. PICK next : /\ next \in {[walk EXCEPT !.done = Front(@)], Closing("failed", NextUndone(walk.done))}
                    /\ walk' = next \/ walk' = Fresh
    BY <1>4 DEF Undo, Call, Answers
  <2>2. next.phase # "over"
    BY <1>4, <2>1 DEF Undo, Closing, Replay, Types, WalkOf
  <2> QED
    BY <1>0, <1>4, <2>1, <2>2 DEF Undo, Call
<1>5. CASE Close \/ Tell
  <2>1. PICK p \in {"telling", "returning"} : walk' = [walk EXCEPT !.phase = p] \/ walk' = Fresh
    BY <1>5 DEF Close, Tell, Record, Announce, Answers
  <2>2. walk'.phase # "over"
    BY <1>0, <2>1 DEF Replay, Types, WalkOf
  <2> QED
    BY <1>5, <2>2 DEF Close, Tell, Record, Announce
<1>6. CASE Return
  <2>1. walk'.phase = "over" /\ walk'.verdict = walk.verdict
    BY <1>6 DEF Return, Replay, Types, WalkOf
  <2> QED
    BY <1>6, <2>1 DEF Return
<1>7. CASE \/ InDoubt \/ UNCHANGED vars
           \/ \E i \in Steps : Fires(i) \/ \E o \in Signals(i) : Signalled(i, o)
  <2>1. walk' = walk /\ result' = result
    BY <1>7 DEF InDoubt, Attempt, Fires, Signalled, vars, durable
  <2> QED
    BY <2>1
<1>8. CASE Defect
  <2>1. result' = result /\ walk.phase # "over" /\ walk'.phase # "over"
    BY <1>8, DefectEnds
  <2> QED
    BY <2>1
<1> QED
  BY <1>1, <1>2, <1>3, <1>4, <1>5, <1>6, <1>7, <1>8 DEF Next, WalkNext, Walk, Ending, Defect

(* A flow that starts has ended in no way.                                   *)
LEMMA ClosingsStart == Init => Closings
<1> SUFFICES ASSUME Init PROVE Closings
  OBVIOUS
<1>1. walk.phase = "starting" /\ result = "none" /\ acted = {} /\ DOMAIN news = {}
  <2>1. news = <<>> /\ Len(<<>>) = 0 /\ DOMAIN <<>> = 1 .. 0
    BY EmptySeq DEF Init
  <2> QED
    BY <2>1 DEF Init, Fresh
<1> QED
  BY <1>1 DEF Closings, TurnsBack, UndoneInOrder, Stops, Completes, Resulted, Closes, Acted

(* Replays of the journal and how they end: an invariant of a flow.          *)
THEOREM ReplaysInvariant == Spec => [](Replay /\ Closings)
<1>1. Init => Replay /\ Closings
  BY ReplayStart, ClosingsStart
<1>2. Replay /\ Closings /\ [Next]_vars => (Replay /\ Closings)'
  <2> SUFFICES ASSUME Replay, Closings, [Next]_vars PROVE (Replay /\ Closings)'
    OBVIOUS
  <2>1. Replay'
    BY ReplayStep
  <2>2. TurnsBack' /\ UndoneInOrder'
    BY TurnsBackKept, UndoneInOrderKept DEF Closings
  <2>3. Stops' /\ Completes' /\ Resulted'
    BY StopsKept, CompletesKept, ResultedKept DEF Closings
  <2> QED
    BY <2>1, <2>2, <2>3 DEF Closings
<1> QED
  BY <1>1, <1>2, PTL DEF Spec


(* What failed before the commit point is not what the pivot came after.     *)
LEMMA BackBeside == Replay /\ Closings => NeverBack
<1> SUFFICES ASSUME Replay, Closings, NEW p \in CommitPoint, Said("action", p, "ok"),
                    result \in {"compensated", "failed"} \/ \E i \in Steps : Acted("undo", i)
             PROVE  \E i \in Stage(p) \ Group(p) : i < p /\ Said("action", i, "failed")
  BY DEF NeverBack
<1>0. slip \in Slips /\ p \in Steps /\ \A a \in Steps : a \in Nat /\ slip[a].stage \in Nat
  <2>1. slip \in Slips /\ p \in Steps
    BY DEF Replay, Types, CommitPoint
  <2> QED
    BY <2>1, StepsCounted DEF Step
<1>1. FailedBefore
  <2>1. CASE result \in {"compensated", "failed"}
    <3>1. Closes({"compensated", "failed"})
      BY <2>1 DEF Closings, Resulted, Gone, Closes
    <3> QED
      BY <3>1 DEF Closings, TurnsBack
  <2>2. CASE \E i \in Steps : Acted("undo", i)
    BY <2>2 DEF Closings, UndoneInOrder
  <2> QED
    BY <2>1, <2>2
<1>2. PICK m \in Steps : ~PastCommit(m) /\ Said("action", m, "failed")
  BY <1>1 DEF FailedBefore
<1>3. m < p
  <2>1. ~(m > p) /\ m # p
    BY <1>2 DEF PastCommit, Said
  <2> QED
    BY <1>0, <2>1
<1>4. m \notin Prior(p)
  <2>1. Began(p)
    BY <1>0, CalledBegan DEF Said
  <2> QED
    BY <1>0, <1>2, <2>1, BegunAfter
<1>5. slip[m].stage = slip[p].stage
  <2>1. slip[m].stage <= slip[p].stage
    BY <1>0, <1>3, SlipsAssumption DEF Steps
  <2> QED
    BY <1>0, <1>4, <2>1 DEF Prior
<1>6. m \in Stage(p) \ Group(p)
  BY <1>3, <1>4, <1>5 DEF Stage, Prior
<1> QED
  BY <1>2, <1>3, <1>6

(* Once the pivot has answered, a flow goes back only because of a step that *)
(* ran beside it and stands before it, through every crash and replay: what  *)
(* failed before the commit point is not what the pivot came after.          *)
THEOREM GoesBackOnlyBeside == Spec => []NeverBack
  BY BackBeside, ReplaysInvariant, PTL

(* What had to be undone is undone, and in order.                            *)
LEMMA AllUndone == Replay /\ Closings => UndoesWhatItDid
<1> SUFFICES ASSUME Replay, Closings PROVE UndoesWhatItDid
  OBVIOUS
<1>0. slip \in Slips /\ \A a \in Steps : a \in Nat
  BY StepsCounted DEF Replay, Types
<1>1. \A i \in Steps : Acted("undo", i) => Said("action", i, "ok")
  BY DEF Closings, UndoneInOrder
<1>2. ASSUME result = "compensated", ~StrandedBeside, NEW i \in Steps,
             Kind(i) = "compensatable", Acted("action", i), ~Acted("undo", i)
      PROVE  Said("action", i, "failed")
  <2>1. Closes({"compensated"})
    BY <1>2 DEF Closings, Resulted, Gone, Closes
  <2>2. Settled /\ (ToUndo(i) => Said("undo", i, "ok"))
    BY <1>2, <2>1 DEF Closings, TurnsBack
  <2>3. ~Said("action", i, "ok")
    BY <1>2, <2>2 DEF ToUndo, Replay, Log, LogOf
  <2>4. Began(i) /\ ~PastCommit(i)
    BY <1>0, <1>2, CalledBegan, BeforeCommit
  <2>5. \A k \in Prior(i) : ~PastCommit(k) => ~Said("action", k, "failed")
    BY <2>4, BegunAfter
  <2> QED
    BY <2>2, <2>3, <2>4, <2>5, NeverBegins DEF Settled
<1>3. ASSUME NEW i \in Steps, NEW j \in Steps,
             i < j, j \in Group(i) \/ slip[i].stage < slip[j].stage,
             Kind(j) = "compensatable", Said("action", j, "ok"), Acted("undo", i)
      PROVE  Said("undo", j, "ok") \/ StrandedBeside
  <2>1. i \in Prior(j)
    BY <1>3, OneGroup DEF Prior
  <2> QED
    BY <1>3, <2>1 DEF Closings, UndoneInOrder, ToUndo
<1> QED
  BY <1>1, <1>2, <1>3 DEF UndoesWhatItDid

(* A flow that ends compensated has undone each step that answered and       *)
(* nothing else, and a step after every later one that may rest on it,       *)
(* through every crash, replay and answer that was lost, but for steps that  *)
(* a strand passed over.                                                     *)
THEOREM UndoesAll == Spec => []UndoesWhatItDid
  BY AllUndone, ReplaysInvariant, PTL

(* What a flow that completed did not come to was dropped.                   *)
LEMMA OneGroupLost == Replay /\ Closings => LosesOneGroup
<1> SUFFICES ASSUME Replay, Closings, result = "completed", NEW i \in Steps, walk.pc[i] \notin {"ok", "skipped"}
             PROVE  Dropped(i)
  BY DEF LosesOneGroup, Dropped, Broke
<1>1. Closes({"completed"})
  BY DEF Closings, Resulted, Gone, Closes
<1>2. walk.pc[i] \in Fallen
  BY <1>1 DEF Closings, Completes
<1> QED
  BY <1>2, FallenDropped

(* A flow that completes has run every step or skipped it by its guard, but  *)
(* for those of a group of which an earlier step, or the step itself, died   *)
(* of the store: no other group loses anything by it, in any replay.         *)
THEOREM LosesNoOther == Spec => []LosesOneGroup
  BY OneGroupLost, ReplaysInvariant, PTL

-----------------------------------------------------------------------------
(* How a flow ends.  Unless its replays race, the journal settles one        *)
(* ending: each step has its answers, or comes after one that stopped the    *)
(* walk, or its guard does not let it in; and that changes no more.          *)
Races == GuardedAcross \/ StrandedBeside

LetIn(i) == slip[i].guard # 0 =>
  Journaled(<<"race", slip[i].guard>>) /\ journal[<<"race", slip[i].guard>>] \in slip[i].on

Succeeded(i) ==
  IF Kind(i) = "wait" THEN Journaled(<<"race", i>>) /\ ~Said("race", i, "timeout")
  ELSE Said("action", i, "ok")

Passed(i) == Succeeded(i) \/ ~LetIn(i)

Finished(i) ==
  IF Kind(i) = "wait"
    THEN Journaled(<<"race", i>>) /\ (Said("race", i, "timeout") \/ Journaled(<<"resumed", i>>))
    ELSE Journaled(<<"action", i>>)

Closed == \A i \in Steps : Finished(i) \/ ~LetIn(i) \/ \E k \in Prior(i) : Halts(k)

TimedOut == \E w \in Steps : Said("race", w, "timeout") /\ slip[w].onTimeout = "strand"

EndsAs(v) ==
  /\ v = "stranded" => TimedOut
  /\ v # "stranded" => Closed
  /\ v = "completed" => \A i \in Steps : Passed(i)
  /\ v \in {"failed", "compensated"} => FailedBefore
  /\ v = "failed" => \E j \in Steps : ToUndo(j) /\ Said("undo", j, "failed")
  /\ v = "compensated" => \A j \in Steps : ToUndo(j) => Said("undo", j, "ok")

(* What the walk and the journal have to do with it: a step was skipped      *)
(* because its guard is against it, a step began where all it follows        *)
(* passed, and a wait that is over was recorded resumed.                     *)
Outs == \A i \in Steps : walk.pc[i] = "skipped" => ~LetIn(i)
InTurn == \A i \in Steps : Began(i) => \A k \in Prior(i) : Passed(k)
Resumed == \A i \in Steps : walk.pc[i] = "ok" /\ Kind(i) = "wait" => Journaled(<<"resumed", i>>)
UndoSaid == \A i \in Steps : Journaled(<<"undo", i>>) => Said("undo", i, "ok") \/ Said("undo", i, "failed")

(* While no store has failed, none fails now, and nothing is dropped.        *)
LEMMA NoneDies ==
  ASSUME Types, [Next]_vars, defects' = {}
  PROVE  defects = {} /\ ~Collapse /\ \A i \in Steps : ~Breaks(i)
<1>1. ~Defect
  BY DefectAdds
<1>2. defects' = defects
  <2>1. ASSUME NEW i \in Steps, StepOf(i) PROVE defects' = defects
    BY <2>1 DEF StepOf, Begin, Act, Park, AnnounceWait, Race, Resume, Pass, Record, Call, Announce, durable
  <2>2. ASSUME Ending PROVE defects' = defects
    BY <2>2 DEF Ending, Decide, Undo, Undone, Close, Tell, Return, Record, Announce, Call, durable
  <2>3. ASSUME \/ Started \/ InDoubt \/ Retry \/ Crash \/ UNCHANGED vars
               \/ \E i \in Steps : Fires(i) \/ \E o \in Signals(i) : Signalled(i, o)
        PROVE  defects' = defects
    BY <2>3 DEF Started, InDoubt, Attempt, Retry, Crash, Fires, Signalled, Announce, vars, durable
  <2> QED
    BY <1>1, <2>1, <2>2, <2>3 DEF Next, WalkNext, Walk, Defect
<1> QED
  BY <1>1, <1>2 DEF Defect

LEMMA NothingFell ==
  ASSUME Replay, defects = {}
  PROVE  (\A k : ~Dropped(k)) /\ \A i \in Steps : walk.pc[i] \notin Fallen
<1>1. \A k : ~Dropped(k)
  BY DEF Dropped, Broke
<1> QED
  BY <1>1, FallenDropped

(* A guard stands before what it guards, unless it is in another segment.    *)
LEMMA GuardBefore ==
  ASSUME slip \in Slips, ~GuardedAcross, NEW i \in Steps, slip[i].guard # 0
  PROVE  slip[i].guard \in Prior(i) /\ slip[i].guard \in Steps /\ Kind(slip[i].guard) = "wait"
<1> DEFINE w == slip[i].guard
<1>1. slip \in [Steps -> Step] /\ ValidSlip(slip)
  BY StepsCounted, SlipsAssumption
<1>2. w \in Steps /\ w < i /\ Kind(w) = "wait"
  <2>1. w < i /\ Kind(w) = "wait" /\ w \in Nat
    BY <1>1 DEF ValidSlip, Step, Steps, Kind
  <2> QED
    BY <1>1, <2>1, StepsCounted
<1>3. w \notin Stage(i) \ Group(i)
  BY DEF GuardedAcross
<1>4. slip[w].stage <= slip[i].stage /\ slip[w].stage \in Nat /\ slip[i].stage \in Nat
  BY <1>1, <1>2, SlipsAssumption DEF Steps, Step
<1> QED
  BY <1>2, <1>3, <1>4 DEF Prior, Stage

(* To stand before is transitive.                                            *)
LEMMA PriorOfPrior ==
  ASSUME slip \in Slips, NEW i \in Steps, NEW g \in Prior(i), NEW k \in Prior(g)
  PROVE  k \in Prior(i)
<1>1. g \in Steps /\ g < i /\ slip[g].stage <= slip[i].stage
  BY PriorIsBefore
<1>2. k \in Steps /\ k < g /\ slip[k].stage <= slip[g].stage
  BY <1>1, PriorIsBefore
<1>3. slip \in [Steps -> Step] /\ \A a \in Steps : a \in Nat /\ slip[a].stage \in Nat
  BY StepsCounted DEF Step
<1>4. CASE slip[k].stage < slip[i].stage
  BY <1>2, <1>4 DEF Prior
<1>5. CASE slip[k].stage = slip[g].stage /\ slip[g].stage = slip[i].stage
  <2>1. g \in Group(i) /\ k \in Group(g)
    BY <1>1, <1>2, <1>3, <1>5 DEF Prior
  <2>2. k \in Group(i)
    BY <1>1, <2>1, OneGroup
  <2> QED
    BY <1>1, <1>2, <1>3, <2>2 DEF Prior
<1> QED
  BY <1>1, <1>2, <1>3, <1>4, <1>5

(* A step that stopped the walk was let in and did not succeed.              *)
LEMMA FellNotPassed ==
  ASSUME Replay, NEW k \in Steps, Halts(k) \/ Said("race", k, "timeout") \/ Said("action", k, "failed")
  PROVE  ~Passed(k)
<1>1. LogOf(k)
  BY DEF Replay, Log
<1>2. LetIn(k)
  BY <1>1 DEF LogOf, Halts, Said, Began, LetIn
<1>3. ~Succeeded(k)
  BY <1>1 DEF LogOf, Halts, Said, Succeeded
<1> QED
  BY <1>2, <1>3 DEF Passed

(* When it is the turn of a step, all that it follows passed.                *)
LEMMA TurnPassed ==
  ASSUME Replay, defects = {}, Outs, NEW i \in Steps, Turn(i), walk.stranded = 0, NEW k \in Prior(i)
  PROVE  Passed(k)
<1>1. k \in Steps /\ Ended(k)
  BY DEF Prior, Turn
<1>2. walk.pc[k] \notin {"void", "stranded"}
  BY <1>1 DEF Replay, Course, Strand
<1>3. CASE walk.pc[k] = "ok"
  BY <1>1, <1>3 DEF Replay, Course, Met, Meets, Passed, Succeeded
<1>4. CASE walk.pc[k] = "skipped"
  BY <1>1, <1>4 DEF Outs, Passed
<1> QED
  BY <1>1, <1>2, <1>3, <1>4, NothingFell DEF Ended, Fallen

(* A strand comes after everything before the commit point, if it is not     *)
(* beside it.                                                                *)
LEMMA StrandAfter ==
  ASSUME Replay, defects = {}, ~StrandedBeside, NEW w \in Steps, Said("race", w, "timeout"),
         slip[w].onTimeout = "strand",
         NEW m \in Steps, ~PastCommit(m)
  PROVE  Said("action", m, "ok")
<1>1. slip \in Slips /\ LogOf(w)
  BY DEF Replay, Types, Log
<1>2. Began(w) /\ Kind(w) = "wait"
  BY <1>1 DEF LogOf, Said, Began
<1>3. PICK p \in CommitPoint : w > p
  BY <1>1, <1>2, BeforeCommit DEF PastCommit
<1>4. p \in Steps /\ ~(m > p)
  BY DEF CommitPoint, PastCommit
<1>5. \A a \in Steps : a \in Nat /\ slip[a].stage \in Nat
  BY <1>1, StepsCounted DEF Step
<1>6. m < w /\ slip[m].stage <= slip[p].stage /\ slip[p].stage <= slip[w].stage
  <2>1. \A a, b \in Steps : a < b => slip[a].stage <= slip[b].stage
    BY <1>1, SlipsAssumption DEF Steps
  <2> QED
    BY <1>3, <1>4, <1>5, <2>1
<1>7. m \in Prior(w)
  <2>1. CASE slip[m].stage < slip[w].stage
    BY <2>1 DEF Prior
  <2>2. CASE slip[m].stage = slip[p].stage /\ slip[p].stage = slip[w].stage
    <3>1. w \in Stage(p) /\ m \in Stage(p)
      BY <2>2 DEF Stage
    <3>2. Group(p) = Stage(p)
      BY <3>1 DEF StrandedBeside
    <3>3. m \in Group(w)
      BY <1>4, <3>1, <3>2, OneGroup
    <3> QED
      BY <1>6, <3>3 DEF Prior
  <2> QED
    BY <1>4, <1>5, <1>6, <2>1, <2>2
<1> QED
  BY <1>1, <1>2, <1>7, NothingFell DEF LogOf

(* What a step adds to the journal is the answer of the activity it runs.    *)
Entry(b) ==
  \/ \E i \in Steps : \/ b = <<"running", i>> /\ Begin(i)
                      \/ b = <<"action", i>> /\ Act(i)
                      \/ b = <<"waiting", i>> /\ Park(i)
                      \/ b = <<"flow.waiting", i>> /\ AnnounceWait(i)
                      \/ b = <<"race", i>> /\ Race(i)
                      \/ b = <<"resumed", i>> /\ Resume(i)
  \/ b = <<"flow.started", 0>> /\ Started
  \/ b = <<"undo", NextUndone(walk.done)>> /\ Undo
  \/ b = <<walk.verdict, walk.at>> /\ Close
  \/ b = <<EventOf(walk.verdict), walk.at>> /\ Tell

(* A key that is new in the journal is that of an activity that answers now. *)
LEMMA KeyNow ==
  ASSUME Replay, [Next]_vars, NEW b, Journaled(b)', ~Journaled(b)
  PROVE  Entry(b)
<1>1. ASSUME NEW a, NEW r, NEW next, Answers(a, r, next) PROVE b = a
  BY <1>1, AnswersEither DEF Adds, Journaled
<1>2. ASSUME journal' = journal PROVE FALSE
  BY <1>2 DEF Journaled
<1>3. ASSUME NEW i \in Steps, StepOf(i) PROVE Entry(b)
  <2>1. CASE Begin(i)
    BY <2>1, <1>1 DEF Begin, Record, Entry
  <2>2. CASE Act(i)
    <3>1. b = <<"action", i>>
      BY <2>2, <1>1 DEF Act, Call
    <3> QED
      BY <2>2, <3>1 DEF Entry
  <2>3. CASE Park(i)
    BY <2>3, <1>1 DEF Park, Record, Entry
  <2>4. CASE AnnounceWait(i)
    BY <2>4, <1>1 DEF AnnounceWait, Announce, Entry
  <2>5. CASE Race(i)
    <3>1. b = <<"race", i>>
      BY <2>5, <1>1 DEF Race
    <3> QED
      BY <2>5, <3>1 DEF Entry
  <2>6. CASE Resume(i)
    BY <2>6, <1>1 DEF Resume, Record, Entry
  <2>7. CASE Pass(i)
    BY <2>7, <1>2 DEF Pass, durable
  <2> QED
    BY <1>3, <2>1, <2>2, <2>3, <2>4, <2>5, <2>6, <2>7 DEF StepOf
<1>4. CASE Undo
  <2>1. PICK u : u = NextUndone(walk.done)
    OBVIOUS
  <2>2. b = <<"undo", u>>
    BY <1>1, <1>4, <2>1 DEF Undo, Call
  <2> QED
    BY <1>4, <2>1, <2>2 DEF Entry
<1>5. CASE Close
  <2>1. PICK v : v = walk.verdict
    OBVIOUS
  <2>2. b = <<v, walk.at>>
    BY <1>1, <1>5, <2>1 DEF Close, Record
  <2> QED
    BY <1>5, <2>1, <2>2 DEF Entry
<1>6. CASE Tell
  <2>1. PICK name : name = EventOf(walk.verdict)
    OBVIOUS
  <2>2. b = <<name, walk.at>>
    BY <1>1, <1>6, <2>1 DEF Tell, Announce
  <2> QED
    BY <1>6, <2>1, <2>2 DEF Entry
<1>7. CASE Started
  BY <1>7, <1>1 DEF Started, Announce, Entry
<1>8. CASE \/ Decide \/ Undone \/ Return \/ Retry \/ Crash \/ InDoubt \/ UNCHANGED vars
           \/ \E k \in Steps : Fires(k) \/ \E o \in Signals(k) : Signalled(k, o)
  <2>1. journal' = journal
    BY <1>8 DEF Decide, Undone, Return, Retry, Crash, InDoubt, Attempt, Fires, Signalled, vars, durable
  <2> QED
    BY <1>2, <2>1
<1>9. CASE Defect
  BY <1>2, <1>9, DefectEnds
<1> QED
  BY <1>3, <1>4, <1>5, <1>6, <1>7, <1>8, <1>9 DEF Next, WalkNext, Walk, Ending, Defect

(* A walk changes the record where it records something for the first time.  *)
LEMMA RecordNow ==
  ASSUME Types, WalkNext, defects' = {}, status' # status
  PROVE  \/ \E i \in Steps : \/ Begin(i) /\ ~Journaled(<<"running", i>>)
                             \/ Park(i) /\ ~Journaled(<<"waiting", i>>)
                             \/ Resume(i) /\ ~Journaled(<<"resumed", i>>)
         \/ Close /\ ~Journaled(<<walk.verdict, walk.at>>) /\ status'.state = walk.verdict
<1>1. ASSUME NEW a, NEW state, NEW waiting, NEW next, Record(a, state, waiting, next)
      PROVE  ~Journaled(a) /\ status'.state = state
  BY <1>1 DEF Record, Written
<1>2. ASSUME NEW i \in Steps, StepOf(i)
      PROVE  \/ Begin(i) /\ ~Journaled(<<"running", i>>)
             \/ Park(i) /\ ~Journaled(<<"waiting", i>>)
             \/ Resume(i) /\ ~Journaled(<<"resumed", i>>)
  <2>1. CASE Begin(i)
    BY <2>1, <1>1 DEF Begin
  <2>2. CASE Park(i)
    BY <2>2, <1>1 DEF Park
  <2>3. CASE Resume(i)
    BY <2>3, <1>1 DEF Resume
  <2>4. CASE Act(i) \/ AnnounceWait(i) \/ Race(i) \/ Pass(i)
    BY <2>4 DEF Act, AnnounceWait, Race, Pass, Call, Announce, durable
  <2> QED
    BY <1>2, <2>1, <2>2, <2>3, <2>4 DEF StepOf
<1>3. CASE Close
  <2>1. PICK v : v = walk.verdict
    OBVIOUS
  <2> QED
    BY <1>1, <1>3, <2>1 DEF Close
<1>4. CASE \/ Decide \/ Undo \/ Undone \/ Tell \/ Return \/ Started \/ Retry \/ Crash \/ InDoubt
           \/ \E k \in Steps : Fires(k)
  <2>1. CASE InDoubt
    BY <2>1 DEF InDoubt, Attempt
  <2>2. CASE Undo
    BY <2>2 DEF Undo, Call
  <2> QED
    BY <1>4, <2>1, <2>2 DEF Decide, Undone, Tell, Return, Started, Retry, Crash, Fires, Announce, durable
<1> QED
  BY <1>2, <1>3, <1>4, NoneDies DEF Next, WalkNext, Walk, Ending

(* A step is skipped by its guard, or over by its answer.                    *)
LEMMA OverNow ==
  ASSUME Replay, [Next]_vars, defects' = {}, NEW i \in Steps, NEW p \in {"skipped", "ok"}, walk'.pc[i] = p,
         walk.pc[i] # p
  PROVE  \/ p = "skipped" /\ Pass(i) /\ walk.stranded = 0 /\ ~GuardPasses(i)
         \/ p = "ok" /\ Act(i)
         \/ p = "ok" /\ Resume(i) /\ Journaled(<<"resumed", i>>)'
<1>0. Fresh.pc[i] = "todo" /\ walk.pc \in [Steps -> Pcs]
  BY DEF Fresh, Replay, Types, WalkOf
<1>1. ASSUME NEW k \in Steps, NEW q PROVE Move(k, q).pc[i] = IF k = i THEN q ELSE walk.pc[i]
  <2>1. Move(k, q).pc = [walk.pc EXCEPT ![k] = q]
    BY DEF Move, Replay, Types, WalkOf
  <2> QED
    BY <1>0, <2>1
<1>2. ASSUME NEW k \in Steps, StepOf(k), k # i \/ ~(Act(i) \/ Resume(i) \/ Pass(i)) PROVE FALSE
  <2>1. ASSUME NEW a, NEW r, NEW next, Answers(a, r, next), next.pc[i] # p PROVE FALSE
    BY <1>0, <2>1, AnswersEither
  <2>2. CASE Begin(k)
    BY <1>0, <1>1, <2>1, <2>2 DEF Begin, Record
  <2>3. CASE Act(k)
    <3>1. PICK r, next : /\ next \in {Done(k), Move(k, "failed")} /\ Answers(<<"action", k>>, r, next)
      BY <2>3 DEF Act, Call
    <3>2. k # i /\ Done(k).pc[i] = walk.pc[i]
      BY <1>0, <1>2, <2>3 DEF Done, Replay, Types, WalkOf
    <3> QED
      BY <1>0, <1>1, <1>2, <2>1, <2>3, <3>1, <3>2
  <2>4. CASE Park(k)
    BY <1>0, <1>1, <2>1, <2>4 DEF Park, Record
  <2>5. CASE AnnounceWait(k)
    BY <1>0, <1>1, <2>1, <2>5 DEF AnnounceWait, Announce
  <2>6. CASE Race(k)
    <3>1. PICK r, next : /\ Answers(<<"race", k>>, r, next)
                         /\ next \in {Move(k, "answered"), Move(k, "failed"),
                                      [walk EXCEPT !.pc[k] = "stranded", !.stranded = k]}
      BY <2>6 DEF Race
    <3>2. [walk EXCEPT !.pc[k] = "stranded", !.stranded = k].pc[i] \in {"stranded", walk.pc[i]}
      BY <1>0 DEF Replay, Types, WalkOf
    <3>3. Move(k, "answered").pc[i] \in {"answered", walk.pc[i]} /\ Move(k, "failed").pc[i] \in {"failed", walk.pc[i]}
      BY <1>1
    <3> QED
      BY <1>0, <2>1, <3>1, <3>2, <3>3
  <2>7. CASE Resume(k)
    BY <1>0, <1>1, <1>2, <2>1, <2>7 DEF Resume, Record
  <2>8. CASE Pass(k)
    BY <1>0, <1>1, <1>2, <2>8 DEF Pass
  <2> QED
    BY <1>2, <2>2, <2>3, <2>4, <2>5, <2>6, <2>7, <2>8 DEF StepOf
<1>3. CASE Act(i)
  <2>1. PICK next : next \in {Done(i), Move(i, "failed")} /\ walk' \in {next, Fresh}
    BY <1>3 DEF Act, Call, Answers
  <2>2. Done(i).pc[i] = "ok"
    BY <1>0 DEF Done, Replay, Types, WalkOf
  <2> QED
    BY <1>0, <1>1, <1>3, <2>1, <2>2
<1>4. CASE Resume(i)
  BY <1>0, <1>1, <1>4, AnswersEither DEF Resume, Record
<1>5. CASE Pass(i)
  BY <1>0, <1>1, <1>5 DEF Pass
<1>6. CASE Undo
  <2>1. PICK next : /\ next \in {[walk EXCEPT !.done = Front(@)], Closing("failed", NextUndone(walk.done))}
                    /\ walk' \in {next, Fresh}
    BY <1>6 DEF Undo, Call, Answers
  <2>2. next.pc = walk.pc
    BY <2>1 DEF Closing, Replay, Types, WalkOf
  <2> QED
    BY <1>0, <2>1, <2>2
<1>7. CASE Decide \/ Undone
  <2>1. PICK v, k : walk' \in {Closing(v, k), [walk EXCEPT !.phase = "undoing", !.at = k]}
    BY <1>7 DEF Decide, Undone
  <2>2. walk'.pc = walk.pc
    BY <2>1 DEF Closing, Replay, Types, WalkOf
  <2> QED
    BY <2>2
<1>8. CASE Started \/ Close \/ Tell \/ Return
  <2>1. PICK q : walk' \in {[walk EXCEPT !.phase = q], Fresh}
    BY <1>8 DEF Started, Close, Tell, Return, Record, Announce, Answers
  <2>2. walk'.pc \in {walk.pc, Fresh.pc}
    BY <2>1 DEF Replay, Types, WalkOf
  <2> QED
    BY <1>0, <2>2
<1>9. CASE \/ Retry \/ Crash \/ InDoubt \/ UNCHANGED vars
           \/ \E k \in Steps : Fires(k) \/ \E o \in Signals(k) : Signalled(k, o)
  <2>1. walk' \in {walk, Fresh}
    BY <1>9 DEF Retry, Crash, InDoubt, Attempt, Fires, Signalled, vars
  <2> QED
    BY <1>0, <2>1
<1> QED
  BY <1>2, <1>3, <1>4, <1>5, <1>6, <1>7, <1>8, <1>9, NoneDies DEF Replay, Next, WalkNext, Walk, Ending

(* A step that succeeded, or that stopped the walk, did so for good; and a   *)
(* wait is answered only once it has begun.                                  *)
LEMMA SucceedsForGood ==
  ASSUME Replay, [Next]_vars, defects' = {}
  PROVE  /\ Steps' = Steps /\ \A k : Prior(k)' = Prior(k) /\ Kind(k)' = Kind(k)
         /\ GuardedAcross' <=> GuardedAcross
         /\ \A k : Succeeded(k) => Succeeded(k)'
         /\ \A k : Finished(k) => Finished(k)'
         /\ \A k : Halts(k) => Halts(k)'
<1>1. Kept /\ slip' = slip
  BY WorldGrows
<1>2. Steps' = Steps /\ \A k : Prior(k)' = Prior(k) /\ Kind(k)' = Kind(k)
  BY <1>1 DEF Steps, Kind, Prior, Group, Stage
<1>3. GuardedAcross' <=> GuardedAcross
  BY <1>1 DEF GuardedAcross, Steps, Stage, Group
<1>4. \A b : Journaled(b) => Journaled(b)' /\ journal'[b] = journal[b]
  BY <1>1 DEF Kept, Journaled
<1>5. \A k : Succeeded(k) => Succeeded(k)'
  BY <1>2, <1>4 DEF Succeeded, Said
<1>6. \A k : Finished(k) => Finished(k)'
  BY <1>2, <1>4 DEF Finished, Said
<1>7. \A k : Halts(k) => Halts(k)'
  BY <1>1, <1>2, <1>4 DEF Halts, Said
<1> QED
  BY <1>2, <1>3, <1>5, <1>6, <1>7

(* A guard comes to let a step in only by the answer of its wait.            *)
LEMMA LetInNow ==
  ASSUME Replay, [Next]_vars, defects' = {}, ~GuardedAcross, NEW i \in Steps, LetIn(i)', ~LetIn(i)
  PROVE  /\ slip[i].guard \in Steps /\ slip[i].guard \in Prior(i) /\ Kind(slip[i].guard) = "wait"
         /\ Race(slip[i].guard) /\ ~Journaled(<<"race", slip[i].guard>>)
<1>0. slip \in Slips
  BY DEF Replay, Types
<1>1. Kept /\ slip' = slip
  BY WorldGrows
<1>2. PICK w, b : w = slip[i].guard /\ b = <<"race", w>>
  OBVIOUS
<1>3. w # 0 /\ Journaled(b)' /\ ~Journaled(b)
  BY <1>1, <1>2 DEF LetIn, Kept, Journaled
<1>4. w \in Steps /\ w \in Prior(i) /\ Kind(w) = "wait"
  BY <1>0, <1>3, <1>2, GuardBefore
<1>5. Race(w)
  <2>1. Entry(b)
    BY <1>3, KeyNow
  <2>2. walk.verdict # "race" /\ EventOf(walk.verdict) # "race"
    BY DEF EventOf, Replay, Types, WalkOf, Finals
  <2> QED
    BY <1>2, <2>1, <2>2 DEF Entry
<1> QED
  BY <1>3, <1>4, <1>5, <1>2

(* What passed, together with what guards it, passed for good.               *)
LEMMA PassesForGood ==
  ASSUME Replay, [Next]_vars, defects' = {}, ~GuardedAcross, NEW S, S \subseteq Steps,
         \A k \in S : Passed(k) /\ (slip[k].guard \in Prior(k) => slip[k].guard \in S),
         NEW k \in S
  PROVE  Passed(k)'
<1>1. CASE Succeeded(k)
  BY <1>1, SucceedsForGood DEF Passed
<1>2. CASE ~LetIn(k) /\ LetIn(k)'
  <2> DEFINE w == slip[k].guard
  <2>1. w \in Steps /\ w \in S /\ Kind(w) = "wait" /\ Race(w) /\ ~Journaled(<<"race", w>>)
    BY <1>2, LetInNow
  <2>2. Journaled(<<"waiting", w>>)
    BY <2>1 DEF Race, Replay, Course, Met, Meets
  <2>3. LetIn(w)
    BY <2>1, <2>2 DEF Replay, Log, LogOf, Began, LetIn
  <2> QED
    BY <2>1, <2>3 DEF Passed, Succeeded
<1> QED
  BY <1>1, <1>2 DEF Passed

(* A step begins in its turn.                                                *)
LEMMA InTurnKept == ASSUME Replay, Outs, InTurn, ~GuardedAcross, [Next]_vars, defects' = {} PROVE InTurn'
<1>0. slip \in Slips /\ Steps' = Steps /\ \A k : Prior(k)' = Prior(k)
  BY SucceedsForGood DEF Replay, Types
<1> SUFFICES ASSUME NEW i \in Steps, Began(i)', NEW k \in Prior(i) PROVE Passed(k)'
  BY <1>0 DEF InTurn
<1>1. \A m \in Prior(i) : Passed(m)
  <2>1. CASE Began(i)
    BY <2>1 DEF InTurn
  <2>2. CASE ~Began(i)
    <3>1. PICK b : b \in {<<"running", i>>, <<"waiting", i>>} /\ Journaled(b)' /\ ~Journaled(b)
      BY <2>2 DEF Began
    <3>2. Entry(b)
      BY <3>1, KeyNow
    <3>3. walk.verdict \notin {"running", "waiting"} /\ EventOf(walk.verdict) \notin {"running", "waiting"}
      BY DEF EventOf, Replay, Types, WalkOf, Finals
    <3>4. Begin(i) \/ Park(i)
      BY <3>1, <3>2, <3>3 DEF Entry
    <3>5. Turn(i) /\ walk.stranded = 0
      BY <3>4 DEF Begin, Park
    <3> QED
      BY <3>5, TurnPassed, NoneDies DEF Replay
  <2> QED
    BY <2>1, <2>2
<1>2. Prior(i) \subseteq Steps
  BY DEF Prior
<1>3. \A m \in Prior(i) : slip[m].guard \in Prior(m) => slip[m].guard \in Prior(i)
  BY <1>0, PriorOfPrior
<1> QED
  BY <1>1, <1>2, <1>3, PassesForGood

(* A step is skipped where its guard is, and stays, against it.              *)
LEMMA OutsKept == ASSUME Replay, Outs, ~GuardedAcross, [Next]_vars, defects' = {} PROVE Outs'
<1>0. slip \in Slips /\ Steps' = Steps /\ Kept /\ slip' = slip
  BY WorldGrows, SucceedsForGood DEF Replay, Types
<1> SUFFICES ASSUME NEW i \in Steps, walk'.pc[i] = "skipped", LetIn(i)' PROVE FALSE
  BY <1>0 DEF Outs
<1> DEFINE w == slip[i].guard
<1>1. CASE walk.pc[i] = "skipped"
  <2>1. w \in Steps /\ w \in Prior(i) /\ walk.pc[w] = "waiting"
    BY <1>1, LetInNow DEF Outs, Race
  <2>2. Ended(w)
    BY <1>1, <2>1 DEF Replay, Course, Order
  <2> QED
    BY <2>1, <2>2 DEF Ended
<1>2. CASE walk.pc[i] # "skipped"
  <2>1. Pass(i) /\ walk.stranded = 0 /\ ~GuardPasses(i)
    BY <1>2, OverNow
  <2>2. w # 0 /\ Answered(w) \notin slip[i].on /\ journal' = journal /\ Turn(i)
    BY <2>1 DEF GuardPasses, Pass, durable
  <2>3. LetIn(i)
    BY <1>0, <2>2 DEF LetIn, Journaled
  <2>4. w \in Prior(i) /\ w \in Steps
    BY <1>0, <2>2, GuardBefore
  <2>5. Journaled(<<"race", w>>) /\ journal[<<"race", w>>] \in slip[i].on /\ Began(w)
    BY <2>2, <2>3, <2>4 DEF LetIn, Replay, Log, LogOf, Began
  <2>6. Ended(w) /\ walk.pc[w] \notin {"void", "stranded"}
    BY <2>1, <2>2, <2>4 DEF Turn, Prior, Replay, Course, Strand
  <2>7. walk.pc[w] # "ok"
    BY <2>2, <2>5 DEF Answered
  <2>8. walk.pc[w] # "skipped"
    BY <2>4, <2>5, NoneDies DEF Replay, Course, Skips
  <2> QED
    BY <2>4, <2>6, <2>7, <2>8, NothingFell, NoneDies DEF Ended, Fallen, Replay
<1> QED
  BY <1>1, <1>2

(* A wait that is over was recorded resumed.                                 *)
LEMMA ResumedKept == ASSUME Replay, Resumed, [Next]_vars, defects' = {} PROVE Resumed'
<1>0. Steps' = Steps /\ Kept /\ \A k : Kind(k)' = Kind(k)
  BY WorldGrows, SucceedsForGood
<1> SUFFICES ASSUME NEW i \in Steps, walk'.pc[i] = "ok", Kind(i) = "wait" PROVE Journaled(<<"resumed", i>>)'
  BY <1>0 DEF Resumed
<1>1. CASE walk.pc[i] = "ok"
  BY <1>0, <1>1 DEF Resumed, Kept, Journaled
<1>2. CASE walk.pc[i] # "ok"
  <2>1. ~Act(i)
    BY DEF Act, Replay, Course, Met, Meets
  <2> QED
    BY <1>2, <2>1, OverNow
<1> QED
  BY <1>1, <1>2

-----------------------------------------------------------------------------
(* Where the journal is closed a walk, this one or a later one, journals and *)
(* records no step any more: what has begun is finished, and what has not    *)
(* does not come to its turn.                                                *)
LEMMA ClosedIsOver ==
  ASSUME Replay, defects = {}, Outs, InTurn, Closed, NEW i \in Steps
  PROVE  /\ Turn(i) /\ walk.stranded = 0 /\ GuardPasses(i) => Finished(i)
         /\ Began(i) => Finished(i)
<1>1. \A k \in Prior(i) : Halts(k) => ~Passed(k)
  BY FellNotPassed DEF Prior
<1>2. ASSUME Turn(i), walk.stranded = 0, GuardPasses(i) PROVE Finished(i)
  <2>1. LetIn(i)
    BY <1>2, TurnAfter DEF LetIn
  <2>2. \A k \in Prior(i) : Passed(k)
    BY <1>2, TurnPassed
  <2> QED
    BY <1>1, <2>1, <2>2 DEF Closed
<1>3. ASSUME Began(i) PROVE Finished(i)
  <2>1. LetIn(i)
    BY <1>3 DEF Replay, Log, LogOf, LetIn
  <2> QED
    BY <1>1, <1>3, <2>1 DEF Closed, InTurn
<1> QED
  BY <1>2, <1>3

(* So every activity that it comes to has answered before.                   *)
LEMMA ClosedAddsNothing ==
  ASSUME Replay, defects = {}, Outs, InTurn, Closed, NEW i \in Steps
  PROVE  /\ Begin(i) => Journaled(<<"running", i>>)
         /\ Park(i) => Journaled(<<"waiting", i>>)
         /\ Act(i) => Journaled(<<"action", i>>)
         /\ Race(i) => Journaled(<<"race", i>>)
         /\ Resume(i) => Journaled(<<"resumed", i>>)
<1>0. Meets(i, walk.pc[i]) /\ LogOf(i)
  BY DEF Replay, Course, Met, Log
<1>1. Begin(i) => Journaled(<<"running", i>>)
  BY <1>0, ClosedIsOver DEF Begin, Finished, LogOf
<1>2. Park(i) => Journaled(<<"waiting", i>>)
  BY <1>0, ClosedIsOver DEF Park, Finished, LogOf
<1>3. Act(i) => Journaled(<<"action", i>>)
  BY <1>0, ClosedIsOver DEF Act, Finished, Meets, Began
<1>4. Race(i) => Journaled(<<"race", i>>)
  BY <1>0, ClosedIsOver DEF Race, Finished, Meets, Began
<1>5. Resume(i) => Journaled(<<"resumed", i>>)
  BY <1>0, ClosedIsOver DEF Resume, Finished, Meets, Began
<1> QED
  BY <1>1, <1>2, <1>3, <1>4, <1>5

(* A closed journal stays closed, and lets nothing more in.                  *)
LEMMA ClosedForGood ==
  ASSUME Replay, Outs, InTurn, ~GuardedAcross, [Next]_vars, defects' = {}, Closed
  PROVE  Closed' /\ \A i \in Steps : ~LetIn(i) => ~LetIn(i)'
<1>1. \A i \in Steps : ~LetIn(i) => ~LetIn(i)'
  BY LetInNow, ClosedAddsNothing, NoneDies DEF Replay
<1> QED
  BY <1>1, SucceedsForGood DEF Closed

(* So does the ending it has come to.                                        *)
LEMMA EndsForGood ==
  ASSUME Replay, Outs, InTurn, ~GuardedAcross, [Next]_vars, defects' = {}, NEW v \in Finals, EndsAs(v)
  PROVE  EndsAs(v)'
<1>0. /\ Kept /\ defects = defects' /\ slip' = slip /\ Steps' = Steps
      /\ \A k : Prior(k)' = Prior(k) /\ Kind(k)' = Kind(k)
  BY WorldGrows, SucceedsForGood, NoneDies DEF Replay
<1>1. \A kind, k, r : Said(kind, k, r) => Said(kind, k, r)'
  BY <1>0, Stands
<1>2. v = "stranded" => TimedOut'
  BY <1>0, <1>1 DEF EndsAs, TimedOut
<1>3. FailedBefore => FailedBefore'
  BY <1>0, Stands
<1> SUFFICES ASSUME Closed, v # "stranded" PROVE EndsAs(v)'
  BY <1>2 DEF EndsAs, Finals
<1>4. \A i \in Steps : ~LetIn(i) => ~LetIn(i)'
  BY ClosedForGood
<1>5. Closed'
  BY ClosedForGood
<1>6. (\A i \in Steps : Passed(i)) => \A i \in Steps : Passed(i)'
  BY <1>4, SucceedsForGood DEF Passed
<1>7. \A j \in Steps : ToUndo(j) => ToUndo(j)'
  BY <1>0, <1>1 DEF ToUndo
<1>8. ASSUME NEW j \in Steps, ToUndo(j)' PROVE ToUndo(j)
  <2>1. Journaled(<<"action", j>>)' /\ Kind(j) = "compensatable"
    BY <1>0, <1>8 DEF ToUndo, Said
  <2>2. Journaled(<<"action", j>>)
    <3>1. SUFFICES ASSUME ~Journaled(<<"action", j>>) PROVE FALSE
      OBVIOUS
    <3>2. Entry(<<"action", j>>)
      BY <2>1, <3>1, KeyNow
    <3>3. walk.verdict # "action" /\ EventOf(walk.verdict) # "action"
      BY DEF EventOf, Replay, Types, WalkOf, Finals
    <3>4. Act(j)
      BY <3>2, <3>3 DEF Entry
    <3> QED
      BY <3>1, <3>4, ClosedAddsNothing, NoneDies DEF Replay
  <2> QED
    BY <1>0, <1>8, <2>1, <2>2 DEF ToUndo, Said, Kept, Journaled
<1> QED
  BY <1>0, <1>1, <1>3, <1>5, <1>6, <1>7, <1>8 DEF EndsAs

-----------------------------------------------------------------------------
(* An undoing answers that it is done, or that it failed.                    *)
LEMMA UndoSaidKept == ASSUME Replay, UndoSaid, [Next]_vars, defects' = {} PROVE UndoSaid'
<1>0. Steps' = Steps /\ Kept
  BY WorldGrows, SucceedsForGood
<1> SUFFICES ASSUME NEW i \in Steps, Journaled(<<"undo", i>>)'
             PROVE  Said("undo", i, "ok")' \/ Said("undo", i, "failed")'
  BY <1>0 DEF UndoSaid
<1>1. PICK b : b = <<"undo", i>>
  OBVIOUS
<1>2. CASE Journaled(b)
  BY <1>0, <1>1, <1>2 DEF UndoSaid, Said, Kept, Journaled
<1>3. CASE ~Journaled(b)
  <2>1. Entry(b)
    BY <1>1, <1>3, KeyNow
  <2>2. walk.verdict # "undo" /\ EventOf(walk.verdict) # "undo"
    BY DEF EventOf, Replay, Types, WalkOf, Finals
  <2>3. PICK u : u = NextUndone(walk.done)
    OBVIOUS
  <2>4. b = <<"undo", u>> /\ Undo
    BY <1>1, <2>1, <2>2, <2>3 DEF Entry
  <2>5. PICK r, next : r \in {"ok", "failed"} /\ Answers(b, r, next)
    BY <1>3, <2>3, <2>4 DEF Undo, Call
  <2>6. journal'[b] = r
    BY <1>1, <1>3, <2>5, AnswersEither DEF Journaled
  <2> QED
    BY <1>1, <2>5, <2>6 DEF Said
<1> QED
  BY <1>2, <1>3

(* How a walk comes to a verdict, to what it records and to what it tells.   *)
LEMMA VerdictNow ==
  ASSUME Replay, UndoSaid, [Next]_vars, defects' = {}, NEW v \in Finals, Closes({v})'
  PROVE  \/ Closes({v})
         \/ v = "stranded" /\ Decide /\ walk.stranded # 0
         \/ v = "completed" /\ Decide /\ walk.stranded = 0 /\ \A i \in Steps : Ended(i)
         \/ /\ v = "failed" /\ walk.phase = "undoing"
            /\ \E j \in Range(walk.done) : Said("undo", j, "failed")'
         \/ v = "compensated" /\ walk.phase = "undoing"
<1>1. CASE Started \/ Retry \/ Crash \/ \E i \in Steps : StepOf(i)
  BY <1>1, WalksOn DEF Closes
<1>2. CASE Decide
  <2>1. CASE walk' = Closing("suspended", Min(Failed))
    <3>1. walk'.verdict = "suspended"
      BY <2>1 DEF Closing, Replay, Types, WalkOf
    <3> QED
      BY <3>1 DEF Closes, Finals
  <2>2. CASE walk' = [walk EXCEPT !.phase = "undoing", !.at = Min(Failed)]
    <3>1. walk'.phase = "undoing"
      BY <2>2 DEF Replay, Types, WalkOf
    <3> QED
      BY <3>1 DEF Closes
  <2>3. CASE walk.stranded # 0 /\ walk' = Closing("stranded", walk.stranded)
    <3>1. walk'.verdict = "stranded"
      BY <2>3 DEF Closing, Replay, Types, WalkOf
    <3> QED
      BY <1>2, <2>3, <3>1 DEF Closes
  <2>4. CASE walk' = Closing("completed", 0) /\ walk.stranded = 0 /\ \A i \in Steps : Ended(i)
    <3>1. walk'.verdict = "completed"
      BY <2>4 DEF Closing, Replay, Types, WalkOf
    <3> QED
      BY <1>2, <2>4, <3>1 DEF Closes
  <2> QED
    BY <1>2, <2>1, <2>2, <2>3, <2>4 DEF Decide
<1>3. CASE Undo
  <2>0. PICK u : u = NextUndone(walk.done)
    OBVIOUS
  <2> DEFINE a == <<"undo", u>>
  <2>1. PICK r : /\ r \in IF Journaled(a) THEN {journal[a]} ELSE {"ok", "failed"}
                 /\ Answers(a, r, IF r = "ok" THEN [walk EXCEPT !.done = Front(@)] ELSE Closing("failed", u))
    BY <1>3, <2>0 DEF Undo, Call
  <2>2. walk.phase = "undoing" /\ walk.done # <<>> /\ Fresh.phase = "starting"
    BY <1>3 DEF Undo, Fresh
  <2>3. CASE walk' = Fresh
    BY <2>2, <2>3 DEF Closes
  <2>4. CASE walk' # Fresh /\ r = "ok"
    <3>1. walk' = [walk EXCEPT !.done = Front(@)]
      BY <2>1, <2>4, AnswersEither
    <3>2. walk'.phase = "undoing"
      BY <2>2, <3>1 DEF Replay, Types, WalkOf
    <3> QED
      BY <3>2 DEF Closes
  <2>5. CASE walk' # Fresh /\ r # "ok"
    <3>0. u \in Range(walk.done) /\ u \in Steps
      BY <2>0, <2>2, FrontFits DEF Replay, Types, WalkOf
    <3>1. walk' = Closing("failed", u) /\ Adds(a) /\ Journaled(a)' /\ (Journaled(a) \/ journal'[a] = r)
      BY <2>1, <2>5, AnswersEither
    <3>2. walk'.verdict = "failed"
      BY <3>1 DEF Closing, Replay, Types, WalkOf
    <3>3. journal'[a] = r
      BY <2>1, <3>1 DEF Adds, Kept, Journaled
    <3>4. r = "failed"
      <4>1. Journaled(a) => journal[a] \in {"ok", "failed"}
        BY <3>0 DEF UndoSaid, Said
      <4> QED
        BY <2>1, <2>5, <4>1
    <3>5. Said("undo", u, "failed")'
      BY <3>1, <3>3, <3>4 DEF Said
    <3> QED
      BY <2>2, <3>0, <3>2, <3>5 DEF Closes
  <2> QED
    BY <2>3, <2>4, <2>5
<1>4. CASE Undone
  <2>1. walk'.verdict = "compensated" /\ walk.phase = "undoing"
    BY <1>4 DEF Undone, Closing, Replay, Types, WalkOf
  <2> QED
    BY <2>1 DEF Closes
<1>5. CASE Close \/ Tell \/ Return
  BY <1>5, ClosesOn DEF Closes
<1>6. CASE \/ InDoubt \/ UNCHANGED vars
           \/ \E i \in Steps : Fires(i) \/ \E o \in Signals(i) : Signalled(i, o)
  <2>1. walk' = walk
    BY <1>6 DEF InDoubt, Attempt, Fires, Signalled, vars
  <2> QED
    BY <2>1 DEF Closes
<1> QED
  BY <1>1, <1>2, <1>3, <1>4, <1>5, <1>6, NoneDies DEF Replay, Next, WalkNext, Walk, Ending

-----------------------------------------------------------------------------
(* What the flow has told.                                                   *)
Heard == {news[n].name : n \in DOMAIN news}

Told == \A v \in Finals : \A x : Journaled(<<EventOf(v), x>>) => EventOf(v) \in Heard
Tells == walk.phase \in {"returning", "over"} /\ walk.verdict \in Finals => EventOf(walk.verdict) \in Heard
Writes ==
  walk.phase \in {"telling", "returning", "over"} /\ walk.verdict # "none" => Journaled(<<walk.verdict, walk.at>>)

(* The names that final verdicts are told by.                                *)
LEMMA EndingNames ==
  ASSUME NEW v \in Finals
  PROVE  EventOf(v) \in {"flow.completed", "flow.failed", "flow.stranded"}
BY DEF EventOf, Finals

(* To announce adds no name but that of the event, and that if the journal   *)
(* does not hold it.                                                         *)
LEMMA HeardMore ==
  ASSUME Types, NEW name, NEW i, NEW ordinal, NEW next, Announce(name, i, ordinal, next)
  PROVE  /\ Heard \subseteq Heard' /\ Heard' \subseteq Heard \union {name}
         /\ Journaled(<<name, i>>) \/ name \in Heard'
<1>1. PICK e : /\ e.name = name
               /\ news' = IF Journaled(<<name, i>>) \/ e \in Range(news) THEN news ELSE Append(news, e)
  BY DEF Announce
<1>4. /\ DOMAIN news = 1 .. Len(news) /\ DOMAIN Append(news, e) = 1 .. Len(news) + 1 /\ Len(news) \in Nat
      /\ \A m \in 1 .. Len(news) : Append(news, e)[m] = news[m]
      /\ Append(news, e)[Len(news) + 1] = e
  BY OneMore
<1>5. CASE Journaled(<<name, i>>)
  BY <1>1, <1>5 DEF Heard
<1>6. CASE e \in Range(news) /\ news' = news
  <2>1. \E n \in DOMAIN news : news[n] = e
    BY <1>6 DEF Range
  <2> QED
    BY <1>1, <1>6, <2>1 DEF Heard
<1>7. CASE news' = Append(news, e)
  <2>1. Heard \subseteq Heard'
    BY <1>4, <1>7 DEF Heard
  <2>2. Heard' \subseteq Heard \union {name}
    <3> SUFFICES ASSUME NEW n \in DOMAIN news' PROVE news'[n].name \in Heard \union {name}
      BY DEF Heard
    <3>1. n \in 1 .. Len(news) \/ n = Len(news) + 1
      BY <1>4, <1>7
    <3> QED
      BY <1>1, <1>4, <1>7, <3>1 DEF Heard
  <2>3. name \in Heard'
    <3>1. Len(news) + 1 \in DOMAIN news' /\ news'[Len(news) + 1].name = name
      BY <1>1, <1>4, <1>7
    <3> QED
      BY <3>1 DEF Heard
  <2> QED
    BY <2>1, <2>2, <2>3
<1> QED
  BY <1>1, <1>5, <1>6, <1>7

(* What is heard is heard for good, and an ending is heard where the walk    *)
(* tells it.                                                                 *)
LEMMA HeardNow ==
  ASSUME Replay, [Next]_vars, defects' = {}
  PROVE  /\ Heard \subseteq Heard'
         /\ Heard' \subseteq Heard \union {"flow.started", "flow.waiting"}
              \union (IF Tell THEN {EventOf(walk.verdict)} ELSE {})
         /\ Tell => Journaled(<<EventOf(walk.verdict), walk.at>>) \/ EventOf(walk.verdict) \in Heard'
<1>0. Types
  BY DEF Replay
<1>1. CASE Tell
  <2>1. PICK name : name = EventOf(walk.verdict)
    OBVIOUS
  <2>2. PICK ordinal, next : Announce(name, walk.at, ordinal, next)
    BY <1>1, <2>1 DEF Tell
  <2> QED
    BY <1>0, <1>1, <2>1, <2>2, HeardMore
<1>2. CASE Started /\ ~Tell
  BY <1>0, <1>2, HeardMore DEF Started
<1>3. ASSUME NEW i \in Steps, AnnounceWait(i), ~Tell
      PROVE  Heard \subseteq Heard' /\ Heard' \subseteq Heard \union {"flow.waiting"}
  BY <1>0, <1>3, HeardMore DEF AnnounceWait
<1>4. ASSUME \/ Decide \/ Undo \/ Undone \/ Close \/ Return \/ InDoubt \/ Retry \/ Crash \/ UNCHANGED vars
             \/ \E k \in Steps : Fires(k) \/ \E o \in Signals(k) : Signalled(k, o)
             \/ \E i \in Steps : StepOf(i) /\ ~AnnounceWait(i)
      PROVE  news' = news
  <2>1. CASE Undo
    BY <2>1 DEF Undo, Call
  <2>2. CASE InDoubt
    BY <2>2 DEF InDoubt, Attempt
  <2>3. CASE \E i \in Steps : StepOf(i) /\ ~AnnounceWait(i)
    BY <2>3 DEF StepOf, Begin, Act, Park, Race, Resume, Pass, Record, Call, durable
  <2> QED
    BY <1>4, <2>1, <2>2, <2>3
       DEF Decide, Undone, Close, Return, Retry, Crash, Fires, Signalled, Record, vars, durable
<1>5. news' = news => Heard' = Heard
  BY DEF Heard
<1> QED
  BY <1>1, <1>2, <1>3, <1>4, <1>5, NoneDies DEF Replay, Next, WalkNext, Walk, Ending

(* How a walk goes on once it has closed.                                    *)
LEMMA ClosingNow ==
  ASSUME Replay, [Next]_vars, defects' = {}, walk'.phase \in {"telling", "returning", "over"}
  PROVE  \/ walk' = walk
         \/ /\ walk'.verdict = walk.verdict /\ walk'.at = walk.at
            /\ \/ walk'.phase = "telling" /\ Journaled(<<walk.verdict, walk.at>>)'
               \/ Tell /\ walk'.phase = "returning"
               \/ walk.phase = "returning" /\ walk'.phase = "over"
<1>0. Fresh.phase = "starting"
  BY DEF Fresh
<1>1. \A p : LET w == [walk EXCEPT !.phase = p]
             IN w.phase = p /\ w.verdict = walk.verdict /\ w.at = walk.at
  BY DEF Replay, Types, WalkOf
<1>2. CASE Started \/ Retry \/ Crash \/ \E i \in Steps : StepOf(i)
  BY <1>2, WalksOn
<1>3. CASE Decide \/ Undone
  <2>1. PICK v, k : walk' = Closing(v, k) \/ walk' = [walk EXCEPT !.phase = "undoing", !.at = k]
    BY <1>3 DEF Decide, Undone
  <2>2. walk'.phase \in {"closing", "undoing"}
    BY <2>1 DEF Closing, Replay, Types, WalkOf
  <2> QED
    BY <2>2
<1>4. CASE Undo
  <2>1. PICK next : /\ next \in {[walk EXCEPT !.done = Front(@)], Closing("failed", NextUndone(walk.done))}
                    /\ walk' = next \/ walk' = Fresh
    BY <1>4 DEF Undo, Call, Answers
  <2>2. next.phase \in {"closing", "undoing"}
    BY <1>4, <2>1 DEF Undo, Closing, Replay, Types, WalkOf
  <2> QED
    BY <1>0, <2>1, <2>2
<1>5. CASE Close
  <2>1. PICK v : v = walk.verdict
    OBVIOUS
  <2>2. PICK k : k = walk.at
    OBVIOUS
  <2>3. walk' = [walk EXCEPT !.phase = "telling"] /\ Journaled(<<v, k>>)'
    BY <1>0, <1>5, <2>1, <2>2, AnswersEither DEF Close, Record
  <2>4. walk'.verdict = v /\ walk'.at = k /\ walk'.phase = "telling"
    BY <1>1, <2>1, <2>2, <2>3
  <2> QED
    BY <2>1, <2>2, <2>3, <2>4
<1>6. CASE Tell
  <2>1. walk' = Fresh \/ walk' = [walk EXCEPT !.phase = "returning"]
    BY <1>6 DEF Tell, Announce, Answers
  <2> QED
    BY <1>0, <1>1, <1>6, <2>1
<1>7. CASE Return
  BY <1>1, <1>7 DEF Return
<1>8. CASE \/ InDoubt \/ UNCHANGED vars
           \/ \E i \in Steps : Fires(i) \/ \E o \in Signals(i) : Signalled(i, o)
  BY <1>8 DEF InDoubt, Attempt, Fires, Signalled, vars
<1> QED
  BY <1>2, <1>3, <1>4, <1>5, <1>6, <1>7, <1>8, NoneDies DEF Replay, Next, WalkNext, Walk, Ending

(* A walk that goes on to tell how it ended has recorded it.                 *)
LEMMA WritesKept == ASSUME Replay, Writes, [Next]_vars, defects' = {} PROVE Writes'
<1>1. \A b : Journaled(b) => Journaled(b)'
  BY WorldGrows DEF Kept, Journaled
<1> SUFFICES ASSUME walk'.phase \in {"telling", "returning", "over"}, walk'.verdict # "none"
             PROVE  Journaled(<<walk.verdict, walk.at>>)'
  BY DEF Writes
<1>2. CASE walk' = walk
  <2>1. PICK b : b = <<walk.verdict, walk.at>>
    OBVIOUS
  <2>2. Journaled(b)'
    BY <1>1, <1>2, <2>1 DEF Writes
  <2> QED
    BY <1>2, <2>1, <2>2
<1>3. CASE /\ walk'.verdict = walk.verdict /\ walk'.at = walk.at
           /\ walk.phase \in {"telling", "returning"}
  <2>1. PICK b : b = <<walk.verdict, walk.at>>
    OBVIOUS
  <2>2. Journaled(b)'
    BY <1>1, <1>3, <2>1 DEF Writes
  <2> QED
    BY <1>3, <2>1, <2>2
<1> QED
  BY <1>2, <1>3, ClosingNow DEF Tell

(* An ending is in the journal as told only where it was, and a walk that    *)
(* returns has told it.                                                      *)
LEMMA ToldKept == ASSUME Replay, Told, Tells, [Next]_vars, defects' = {} PROVE Told' /\ Tells'
<1>1. Heard \subseteq Heard'
  BY HeardNow
<1>2. ASSUME Tell, walk.verdict \in Finals PROVE EventOf(walk.verdict) \in Heard'
  <2>1. Journaled(<<EventOf(walk.verdict), walk.at>>) => EventOf(walk.verdict) \in Heard
    BY <1>2 DEF Told
  <2> QED
    BY <1>1, <1>2, <2>1, HeardNow
<1>3. Told'
  <2> SUFFICES ASSUME NEW v \in Finals, NEW x, Journaled(<<EventOf(v), x>>)' PROVE EventOf(v) \in Heard'
    BY DEF Told
  <2>1. PICK name, b : name = EventOf(v) /\ b = <<name, x>>
    OBVIOUS
  <2>2. CASE Journaled(b)
    BY <1>1, <2>1, <2>2 DEF Told
  <2>3. CASE ~Journaled(b)
    <3>1. Entry(b)
      BY <2>1, <2>3, KeyNow
    <3>2. name \in {"flow.completed", "flow.failed", "flow.stranded"}
      BY <2>1, EndingNames
    <3>3. walk.verdict # name
      BY <3>2 DEF Replay, Types, WalkOf, Finals
    <3>4. PICK told : told = EventOf(walk.verdict)
      OBVIOUS
    <3>5. Tell /\ told = name
      BY <2>1, <3>1, <3>2, <3>3, <3>4 DEF Entry
    <3>6. walk.verdict \in Finals
      <4>1. walk.verdict \in Finals \union {"none", "suspended"}
        BY <3>5 DEF Tell, Replay, Types, WalkOf
      <4>2. walk.verdict # "suspended"
        BY <3>2, <3>4, <3>5 DEF EventOf
      <4>3. walk.verdict # "none"
        BY <3>5 DEF Tell, Replay, Types, WalkOf
      <4> QED
        BY <4>1, <4>2, <4>3
    <3> QED
      BY <1>2, <2>1, <3>4, <3>5, <3>6
  <2> QED
    BY <2>2, <2>3
<1>4. Tells'
  <2> SUFFICES ASSUME walk'.phase \in {"returning", "over"}, walk'.verdict \in Finals
               PROVE  EventOf(walk'.verdict) \in Heard'
    BY DEF Tells, EventOf
  <2>1. CASE walk' = walk
    BY <1>1, <2>1 DEF Tells
  <2>2. CASE walk'.verdict = walk.verdict /\ Tell
    BY <1>2, <2>2
  <2>3. CASE walk'.verdict = walk.verdict /\ walk.phase = "returning"
    BY <1>1, <2>3 DEF Tells
  <2> QED
    BY <2>1, <2>2, <2>3, ClosingNow
<1> QED
  BY <1>3, <1>4

-----------------------------------------------------------------------------
(* What the flow says of its end is what the journal settled: where it turns *)
(* back or comes to a verdict, what it recorded and what it told.            *)
TurnsClosed == walk.phase = "undoing" => Closed
Verdicts == \A v \in Finals : Closes({v}) => EndsAs(v)
Records == \A v \in Finals : \A x : Journaled(<<v, x>>) => EndsAs(v)
Announces == \A v \in Finals : EventOf(v) \in Heard =>
  \E u \in Finals : EventOf(u) = EventOf(v) /\ EndsAs(u)

Endings == TurnsClosed /\ Verdicts /\ Records /\ Announces

(* And the record of the flow holds it, unless a strand was passed over.     *)
Rows == \A v \in Finals \ {"stranded"} : \A x : Journaled(<<v, x>>) => status.state = v

(* The journal settles one ending only.                                      *)
LEMMA OneEnding ==
  ASSUME Replay, defects = {}, ~StrandedBeside, NEW v \in Finals, EndsAs(v)
  PROVE  /\ \A u \in Finals : EndsAs(u) => u = v
         /\ Stopped => v = "stranded"
<1>1. FailedBefore => \E m \in Steps : ~PastCommit(m) /\ Said("action", m, "failed") /\ ~Passed(m)
  BY FellNotPassed DEF FailedBefore
<1>2. TimedOut => /\ \E w \in Steps : ~Passed(w)
                  /\ \A m \in Steps : ~PastCommit(m) => Said("action", m, "ok")
  <2> SUFFICES ASSUME NEW w \in Steps, Said("race", w, "timeout"), slip[w].onTimeout = "strand"
               PROVE  ~Passed(w) /\ \A m \in Steps : ~PastCommit(m) => Said("action", m, "ok")
    BY DEF TimedOut
  <2> QED
    BY FellNotPassed, StrandAfter
<1>3. Stopped => /\ \E i \in Steps : ~Passed(i)
                 /\ \A m \in Steps : ~PastCommit(m) => Said("action", m, "ok")
  BY FellNotPassed, NothingFell DEF Stopped
<1>4. FailedBefore => ~\A m \in Steps : ~PastCommit(m) => Said("action", m, "ok")
  BY DEF FailedBefore, Said
<1>5. ASSUME NEW u \in Finals, EndsAs(u), u # v PROVE FALSE
  <2>1. ~({u, v} = {"compensated", "failed"})
    BY <1>5 DEF EndsAs, Said
  <2>2. ~("completed" \in {u, v})
    BY <1>1, <1>2, <1>5 DEF EndsAs, Finals
  <2>3. ~("stranded" \in {u, v})
    BY <1>2, <1>4, <1>5, <2>2 DEF EndsAs, Finals
  <2> QED
    BY <1>5, <2>1, <2>2, <2>3 DEF Finals
<1>6. Stopped => v = "stranded"
  BY <1>1, <1>3, <1>4 DEF EndsAs, Finals
<1> QED
  BY <1>5, <1>6

(* Where nothing is stranded, a step the walk has ended is finished, or its  *)
(* guard does not let it in; and it passed.                                  *)
LEMMA EndedIsOver ==
  ASSUME Replay, defects = {}, Outs, Resumed, walk.stranded = 0, NEW j \in Steps, Ended(j)
  PROVE  (Finished(j) \/ ~LetIn(j)) /\ Passed(j)
<1>1. walk.pc[j] \in {"ok", "skipped"}
  BY NothingFell DEF Ended, Fallen, Replay, Course, Strand
<1>2. Meets(j, walk.pc[j])
  BY DEF Replay, Course, Met
<1>3. CASE walk.pc[j] = "skipped"
  BY <1>3 DEF Outs, Passed
<1>4. CASE walk.pc[j] = "ok"
  BY <1>2, <1>4 DEF Resumed, Meets, Finished, Passed, Succeeded, Said
<1> QED
  BY <1>1, <1>3, <1>4

(* Where the walk turns back, no step is left that it may still take.        *)
LEMMA TurnsWhereClosed ==
  ASSUME Replay, defects = {}, Outs, Resumed, ~StrandedBeside, walk.phase = "walking",
         Failed # {}, \A i \in Stage(Min(Failed)) : Over(Group(i)), ~PastCommit(Min(Failed))
  PROVE  Closed
<1>1. Min(Failed) \in Failed
  <2>1. Steps = {} \/ Min(Failed) \in Failed
    BY StoppedStage
  <2> QED
    BY <2>1 DEF Failed
<1>2. PICK m \in Steps : m = Min(Failed) /\ ~PastCommit(m) /\ Said("action", m, "failed")
  BY <1>1, FailedSaid
<1>3. walk.stranded = 0
  <2> SUFFICES ASSUME walk.stranded # 0 PROVE FALSE
    OBVIOUS
  <2> DEFINE w == walk.stranded
  <2>1. w \in Steps /\ walk.pc[w] = "stranded"
    BY DEF Replay, Types, WalkOf, Course, Strand
  <2>2. Said("race", w, "timeout") /\ slip[w].onTimeout = "strand"
    BY <2>1 DEF Replay, Course, Met, Meets
  <2>3. Said("action", m, "ok")
    BY <1>2, <2>1, <2>2, StrandAfter
  <2> QED
    BY <1>2, <2>3 DEF Said
<1>4. ASSUME NEW j \in Steps PROVE Finished(j) \/ ~LetIn(j) \/ \E k \in Prior(j) : Halts(k)
  <2>1. CASE j \in Failed
    BY <2>1, FailedSaid DEF Halts, Finished, Said
  <2>2. CASE \E f \in Failed : f \in Prior(j)
    BY <2>2, FailedSaid
  <2>3. CASE Ended(j)
    BY <1>3, <2>3, EndedIsOver
  <2> QED
    BY <2>1, <2>2, <2>3, StoppedStage
<1> QED
  BY <1>4 DEF Closed

(* A walk turns back where a step before the commit point failed.            *)
LEMMA TurnsNow ==
  ASSUME Replay, [Next]_vars, defects' = {}, walk'.phase = "undoing"
  PROVE  \/ walk.phase = "undoing"
         \/ /\ Decide /\ Failed # {} /\ \A i \in Stage(Min(Failed)) : Over(Group(i))
            /\ ~PastCommit(Min(Failed))
<1>1. CASE Started \/ Retry \/ Crash \/ \E i \in Steps : StepOf(i)
  BY <1>1, WalksOn
<1>2. CASE Decide
  <2>1. \A v, k : Closing(v, k).phase = "closing"
    BY DEF Closing, Replay, Types, WalkOf
  <2> QED
    BY <1>2, <2>1 DEF Decide
<1>3. CASE Undo \/ Undone
  BY <1>3 DEF Undo, Undone
<1>4. CASE Close \/ Tell \/ Return
  BY <1>4, ClosesOn
<1>5. CASE \/ InDoubt \/ UNCHANGED vars
           \/ \E i \in Steps : Fires(i) \/ \E o \in Signals(i) : Signalled(i, o)
  BY <1>5 DEF InDoubt, Attempt, Fires, Signalled, vars
<1> QED
  BY <1>1, <1>2, <1>3, <1>4, <1>5, NoneDies DEF Replay, Next, WalkNext, Walk, Ending

(* A walk that turns back is over with its steps.                            *)
LEMMA TurnsClosedKept ==
  ASSUME Replay, Outs, InTurn, Resumed, ~GuardedAcross, ~StrandedBeside, TurnsClosed, [Next]_vars, defects' = {}
  PROVE  TurnsClosed'
<1>0. defects = {}
  BY NoneDies DEF Replay
<1> SUFFICES ASSUME walk'.phase = "undoing" PROVE Closed'
  BY DEF TurnsClosed
<1>1. walk.phase = "undoing" \/ Decide => Closed
  BY <1>0, TurnsNow, TurnsWhereClosed DEF TurnsClosed, Decide
<1> QED
  BY <1>1, TurnsNow, ClosedForGood

(* A walk comes to the verdict that the journal settles.                     *)
LEMMA VerdictsKept ==
  ASSUME Replay, Replay', Outs, InTurn, Resumed, UndoSaid, ~GuardedAcross, ~StrandedBeside, ~StrandedBeside',
         TurnsClosed, TurnsBack', Verdicts, [Next]_vars, defects' = {}
  PROVE  Verdicts'
<1>0. Kept /\ defects = defects' /\ slip' = slip /\ Steps' = Steps /\ \A k : Kind(k)' = Kind(k)
  BY WorldGrows, SucceedsForGood, NoneDies DEF Replay
<1>1. \A kind, k, r : Said(kind, k, r) => Said(kind, k, r)'
  BY <1>0, Stands
<1> SUFFICES ASSUME NEW v \in Finals, Closes({v})' PROVE EndsAs(v)'
  BY DEF Verdicts
<1>2. CASE Closes({v})
  BY <1>2, EndsForGood DEF Verdicts
<1>3. CASE v = "stranded" /\ Decide /\ walk.stranded # 0
  <2> DEFINE w == walk.stranded
  <2>1. w \in Steps /\ walk.pc[w] = "stranded"
    BY <1>3 DEF Replay, Types, WalkOf, Course, Strand
  <2>2. Said("race", w, "timeout") /\ slip[w].onTimeout = "strand"
    BY <2>1 DEF Replay, Course, Met, Meets
  <2>3. EndsAs(v)
    BY <1>3, <2>1, <2>2 DEF EndsAs, TimedOut
  <2> QED
    BY <2>3, EndsForGood
<1>4. CASE v = "completed" /\ Decide /\ walk.stranded = 0 /\ \A i \in Steps : Ended(i)
  <2>1. \A i \in Steps : (Finished(i) \/ ~LetIn(i)) /\ Passed(i)
    BY <1>0, <1>4, EndedIsOver
  <2>2. EndsAs(v)
    BY <1>4, <2>1 DEF EndsAs, Closed
  <2> QED
    BY <2>2, EndsForGood
<1>5. v \in {"failed", "compensated"} => FailedBefore'
  BY DEF TurnsBack, Closes
<1>6. CASE v = "failed" /\ walk.phase = "undoing" /\ \E j \in Range(walk.done) : Said("undo", j, "failed")'
  <2>1. PICK j \in Range(walk.done) : Said("undo", j, "failed")'
    BY <1>6
  <2>2. j \in Steps /\ walk.pc[j] = "ok" /\ Kind(j) = "compensatable"
    BY DEF Replay, Types, WalkOf
  <2>3. Said("action", j, "ok")
    BY <2>2 DEF Replay, Course, Met, Meets
  <2>4. ToUndo(j)'
    BY <1>0, <1>1, <2>2, <2>3 DEF ToUndo
  <2>5. Closed'
    BY <1>6, ClosedForGood DEF TurnsClosed
  <2> QED
    BY <1>0, <1>5, <1>6, <2>1, <2>2, <2>4, <2>5 DEF EndsAs
<1>7. CASE v = "compensated" /\ walk.phase = "undoing"
  <2>1. \A j \in Steps : ToUndo(j)' => Said("undo", j, "ok")'
    BY <1>0, <1>7 DEF TurnsBack, Closes
  <2>2. Closed'
    BY <1>7, ClosedForGood DEF TurnsClosed
  <2> QED
    BY <1>0, <1>5, <1>7, <2>1, <2>2 DEF EndsAs
<1> QED
  BY <1>2, <1>3, <1>4, <1>6, <1>7, VerdictNow

(* It records no other.                                                      *)
LEMMA RecordsKept ==
  ASSUME Replay, Outs, InTurn, ~GuardedAcross, Verdicts, Records, [Next]_vars, defects' = {}, NEW v \in Finals, NEW x,
         Journaled(<<v, x>>)'
  PROVE  /\ EndsAs(v)'
         /\ ~Journaled(<<v, x>>) => EndsAs(v) /\ status'.state = v
<1>1. PICK b : b = <<v, x>>
  OBVIOUS
<1>2. CASE Journaled(b)
  BY <1>1, <1>2, EndsForGood DEF Records
<1>3. CASE ~Journaled(b)
  <2>1. Entry(b)
    BY <1>1, <1>3, KeyNow
  <2>2. EventOf(walk.verdict) # v
    BY DEF EventOf, Finals
  <2>3. PICK u, at, told : u = walk.verdict /\ at = walk.at /\ told = EventOf(walk.verdict)
    OBVIOUS
  <2>4. Close /\ u = v /\ b = <<u, at>>
    BY <1>1, <2>1, <2>2, <2>3 DEF Entry, Finals
  <2>5. EndsAs(v)
    BY <2>3, <2>4 DEF Verdicts, Closes, Close
  <2>6. status'.state = v
    <3>1. status' = [state |-> u, waiting |-> 0]
      BY <1>3, <2>3, <2>4 DEF Close, Record, Written
    <3> QED
      BY <2>4, <3>1
  <2> QED
    BY <1>1, <1>3, <2>5, <2>6, EndsForGood
<1> QED
  BY <1>2, <1>3

(* Nothing is recorded after it.                                             *)
LEMMA RowsKept ==
  ASSUME Replay, Outs, InTurn, ~GuardedAcross, ~StrandedBeside, Stops, Verdicts, Records, Rows, [Next]_vars,
         defects' = {}
  PROVE  Rows'
<1>0. defects = {}
  BY NoneDies DEF Replay
<1>1. ASSUME NEW u \in Finals \union {"suspended"}, Close, walk.verdict = u, NEW v \in Finals, EndsAs(v)
      PROVE  v = "stranded" \/ u = v
  <2>1. Closes({u})
    BY <1>1 DEF Close, Closes
  <2>2. CASE u = "suspended"
    BY <1>1, <2>1, <2>2, <1>0, OneEnding DEF Stops
  <2>3. CASE u \in Finals
    BY <1>1, <2>1, <2>3, <1>0, OneEnding DEF Verdicts
  <2> QED
    BY <2>2, <2>3
<1>2. Close => walk.verdict \in Finals \union {"suspended"}
  BY DEF Close, Replay, Types, WalkOf
<1>3. ASSUME NEW v \in Finals \ {"stranded"}, EndsAs(v), status.state = v PROVE status'.state = v
  <2>1. Closed
    BY <1>3 DEF EndsAs
  <2>2. CASE WalkNext
    BY <1>0, <1>1, <1>2, <1>3, <2>1, <2>2, RecordNow, ClosedAddsNothing DEF Finals, Replay
  <2>3. CASE (\E i \in Steps : \E o \in Signals(i) : Signalled(i, o)) \/ UNCHANGED vars
    BY <1>3, <2>3 DEF Signalled, vars, durable, Finals
  <2> QED
    BY <2>2, <2>3 DEF Next
<1> SUFFICES ASSUME NEW v \in Finals \ {"stranded"}, NEW x, Journaled(<<v, x>>)' PROVE status'.state = v
  BY DEF Rows
<1>4. CASE Journaled(<<v, x>>)
  BY <1>3, <1>4 DEF Records, Rows
<1> QED
  BY <1>4, RecordsKept

(* And it tells no other.                                                    *)
LEMMA AnnouncesKept ==
  ASSUME Replay, Outs, InTurn, ~GuardedAcross, Verdicts, Announces, [Next]_vars, defects' = {}
  PROVE  Announces'
<1> SUFFICES ASSUME NEW v \in Finals, EventOf(v) \in Heard'
             PROVE  \E u \in Finals : EventOf(u) = EventOf(v) /\ EndsAs(u)'
  BY DEF Announces, EventOf
<1>1. CASE EventOf(v) \in Heard
  <2>1. PICK u \in Finals : EventOf(u) = EventOf(v) /\ EndsAs(u)
    BY <1>1 DEF Announces
  <2> QED
    BY <2>1, EndsForGood
<1>2. CASE EventOf(v) \notin Heard
  <2>1. EventOf(v) \in {"flow.completed", "flow.failed", "flow.stranded"}
    BY EndingNames
  <2>2. Tell /\ EventOf(walk.verdict) = EventOf(v)
    BY <1>2, <2>1, HeardNow
  <2>3. walk.verdict \in Finals
    <3>1. walk.verdict \in Finals \union {"none", "suspended"}
      BY <2>2 DEF Tell, Replay, Types, WalkOf
    <3>2. walk.verdict # "suspended"
      BY <2>1, <2>2 DEF EventOf
    <3>3. walk.verdict # "none"
      BY <2>2 DEF Tell, Replay, Types, WalkOf
    <3> QED
      BY <3>1, <3>2, <3>3
  <2>4. PICK u \in Finals : u = walk.verdict
    BY <2>3
  <2>5. EndsAs(u)
    BY <2>2, <2>4 DEF Verdicts, Closes, Tell
  <2> QED
    BY <2>2, <2>4, <2>5, EndsForGood
<1> QED
  BY <1>1, <1>2

(* How a flow ends, through its replays: what holds of it with ReplaysInvariant.  *)
Settles ==
  /\ Resumed /\ UndoSaid /\ Told /\ Tells /\ Writes
  /\ GuardedAcross \/ (Outs /\ InTurn /\ (StrandedBeside \/ Endings))

(* Every step of the flow keeps it.                                          *)
LEMMA SettlesKept ==
  ASSUME Replay, Replay', Closings, Closings', Settles, [Next]_vars, defects' = {}
  PROVE  Settles'
<1>1. GuardedAcross' <=> GuardedAcross
  BY SucceedsForGood
<1>2. StrandedBeside => StrandedBeside'
  BY WorldGrows, Stands
<1>3. Resumed' /\ UndoSaid' /\ Told' /\ Tells' /\ Writes'
  BY ResumedKept, UndoSaidKept, ToldKept, WritesKept DEF Settles
<1>4. ~GuardedAcross => Outs' /\ InTurn'
  BY OutsKept, InTurnKept DEF Settles
<1>5. ASSUME ~GuardedAcross, ~StrandedBeside' PROVE Endings'
  <2>1. Outs /\ InTurn /\ Resumed /\ UndoSaid /\ ~StrandedBeside /\ Endings
    BY <1>2, <1>5 DEF Settles
  <2>2. TurnsClosed'
    BY <1>5, <2>1, TurnsClosedKept DEF Endings
  <2>3. Verdicts'
    BY <1>5, <2>1, VerdictsKept DEF Endings, Closings
  <2>4. Records' /\ Announces'
    BY <1>5, <2>1, RecordsKept, AnnouncesKept DEF Endings, Records
  <2> QED
    BY <2>2, <2>3, <2>4 DEF Endings
<1> QED
  BY <1>1, <1>3, <1>4, <1>5 DEF Settles

(* The record stays what the flow recorded of its end, unless it races.      *)
LEMMA RowsOrRaces ==
  ASSUME Replay, Closings, Settles, Races \/ Rows, [Next]_vars, defects' = {}
  PROVE  (Races \/ Rows)'
<1>1. Races => Races'
  BY SucceedsForGood, WorldGrows, Stands DEF Races
<1>2. ASSUME ~GuardedAcross, ~StrandedBeside, Rows PROVE Rows'
  BY <1>2, RowsKept DEF Settles, Endings, Closings
<1> QED
  BY <1>1, <1>2 DEF Races

(* It holds of a flow that starts.                                           *)
LEMMA SettlesStart == Init => Settles /\ Rows
<1> SUFFICES ASSUME Init PROVE Settles /\ Rows
  OBVIOUS
<1>1. walk.phase = "starting" /\ \A i \in Steps : walk.pc[i] = "todo"
  BY DEF Init, Fresh
<1>2. \A b : ~Journaled(b)
  BY DEF Init, Journaled
<1>3. Heard = {}
  <2>1. news = <<>> /\ Len(<<>>) = 0 /\ DOMAIN <<>> = 1 .. 0
    BY EmptySeq DEF Init
  <2> QED
    BY <2>1 DEF Heard
<1>4. Resumed /\ UndoSaid /\ Told /\ Tells /\ Writes /\ Outs /\ InTurn
  BY <1>1, <1>2 DEF Resumed, UndoSaid, Told, Tells, Writes, Outs, InTurn, Began
<1>5. Endings
  BY <1>1, <1>2, <1>3 DEF Endings, TurnsClosed, Verdicts, Records, Announces, Closes
<1> QED
  BY <1>2, <1>4, <1>5 DEF Settles, Rows

(* However often a flow is replayed it says one ending: what it announced is *)
(* what it ends with, and its record agrees, unless its replays race a guard *)
(* or a strand.                                                              *)
THEOREM SaysOneEnding == Spec => [](defects = {} => SaysHowItEnded)
<1>1. Replay /\ Closings /\ (defects = {} => Settles /\ (Races \/ Rows)) => (defects = {} => SaysHowItEnded)
  <2> SUFFICES ASSUME defects = {}, Replay, Closings, Settles, Rows, ~GuardedAcross, ~StrandedBeside
               PROVE  LET Known == {e.name : e \in Range(news)}
                                    \intersect {"flow.completed", "flow.failed", "flow.stranded"}
                      IN /\ Cardinality(Known) < 2
                         /\ result \in Finals => Known = {EventOf(result)}
                         /\ result \in Finals \ {"stranded"} => status.state = result
    BY DEF SaysHowItEnded, Races
  <2> DEFINE Known == {e.name : e \in Range(news)} \intersect {"flow.completed", "flow.failed", "flow.stranded"}
  <2>1. Endings /\ Tells /\ Writes
    BY DEF Settles
  <2>2. Known = Heard \intersect {"flow.completed", "flow.failed", "flow.stranded"}
    BY DEF Range, Heard
  <2>3. ASSUME NEW name \in Known PROVE \E v \in Finals : EventOf(v) = name /\ EndsAs(v)
    <3>1. \E v \in Finals : EventOf(v) = name
      BY <2>2, <2>3 DEF EventOf, Finals
    <3> QED
      BY <2>1, <2>2, <2>3, <3>1 DEF Endings, Announces
  <2>4. \A v \in Finals : EndsAs(v) => Known \subseteq {EventOf(v)}
    BY <2>3, OneEnding
  <2>5. Known = {} \/ \E name : Known = {name}
    <3>1. \A a, b \in Known : a = b
      BY <2>3, <2>4
    <3> QED
      BY <3>1
  <2>6. Cardinality(Known) < 2
    <3>1. Cardinality({}) = 0 /\ \A name : Cardinality({name}) = 1
      BY FS_EmptySet, FS_Singleton
    <3>2. Known = {} \/ \E name : Known = {name}
      BY <2>5
    <3> HIDE DEF Known
    <3>3. Cardinality(Known) = 0 \/ Cardinality(Known) = 1
      BY <3>1, <3>2, Zenon
    <3> QED
      BY <3>3
  <2>7. ASSUME result \in Finals
        PROVE  Known = {EventOf(result)} /\ (result # "stranded" => status.state = result)
    <3>1. walk.phase = "over" /\ walk.verdict = result
      BY <2>7 DEF Closings, Resulted, Gone, Finals
    <3>2. EndsAs(result)
      BY <2>1, <2>7, <3>1 DEF Endings, Verdicts, Closes
    <3>3. EventOf(result) \in Heard
      BY <2>1, <2>7, <3>1 DEF Tells
    <3>4. EventOf(result) \in Known
      BY <2>2, <2>7, <3>3, EndingNames
    <3>5. result # "stranded" => status.state = result
      BY <2>1, <2>7, <3>1 DEF Writes, Rows, Finals
    <3> QED
      BY <2>4, <2>7, <3>2, <3>4, <3>5
  <2> QED
    BY <2>6, <2>7
<1>2. Spec => [](defects = {} => Settles /\ (Races \/ Rows))
  <2>1. Replay /\ Replay' /\ Closings /\ Closings' /\ (defects = {} => Settles /\ (Races \/ Rows)) /\ [Next]_vars
          => (defects = {} => Settles /\ (Races \/ Rows))'
    BY SettlesKept, RowsOrRaces, NoneDies DEF Replay
  <2> QED
    BY <2>1, SettlesStart, ReplaysInvariant, PTL DEF Spec
<1> QED
  BY <1>1, <1>2, ReplaysInvariant, PTL

-----------------------------------------------------------------------------
(* A flow beside its callers.  They write its record, complete its waits and *)
(* interrupt it; the rest of it they leave alone.                            *)

(* What is said of a flow is read from its slip, its journal, its news and   *)
(* what its participants did.                                                *)
LEMMA SaysTheSame ==
  ASSUME UNCHANGED <<slip, journal, defects, news, acted>>
  PROVE  /\ Steps' = Steps /\ CommitPoint' = CommitPoint
         /\ \A k : /\ Stage(k)' = Stage(k) /\ Group(k)' = Group(k) /\ Prior(k)' = Prior(k) /\ Kind(k)' = Kind(k)
                   /\ PastCommit(k)' <=> PastCommit(k)
         /\ \A b : Journaled(b)' <=> Journaled(b)
         /\ \A kind, k, r : Said(kind, k, r)' <=> Said(kind, k, r)
         /\ \A kind, k : Acted(kind, k)' <=> Acted(kind, k)
         /\ \A k : /\ Halts(k)' <=> Halts(k)
                   /\ Began(k)' <=> Began(k)
                   /\ ToUndo(k)' <=> ToUndo(k)
                   /\ LetIn(k)' <=> LetIn(k)
                   /\ Passed(k)' <=> Passed(k)
                   /\ Broke(k)' <=> Broke(k)
         /\ \A v : EndsAs(v)' <=> EndsAs(v)
         /\ FailedBefore' <=> FailedBefore
         /\ Settled' <=> Settled
         /\ Stopped' <=> Stopped
         /\ Closed' <=> Closed
         /\ GuardedAcross' <=> GuardedAcross
         /\ StrandedBeside' <=> StrandedBeside
         /\ Heard' = Heard
         /\ (Log => Log') /\ (Apart => Apart')
<1>0. slip' = slip /\ journal' = journal /\ defects' = defects /\ news' = news /\ acted' = acted
  OBVIOUS
<1>1. /\ Steps' = Steps /\ CommitPoint' = CommitPoint
      /\ \A k : /\ Stage(k)' = Stage(k) /\ Group(k)' = Group(k) /\ Prior(k)' = Prior(k) /\ Kind(k)' = Kind(k)
                /\ PastCommit(k)' <=> PastCommit(k)
      /\ GuardedAcross' <=> GuardedAcross
  BY <1>0 DEF Steps, CommitPoint, Stage, Group, Prior, Kind, PastCommit, GuardedAcross
<1>2. /\ \A b : Journaled(b)' <=> Journaled(b)
      /\ \A kind, k, r : Said(kind, k, r)' <=> Said(kind, k, r)
      /\ \A kind, k : Acted(kind, k)' <=> Acted(kind, k)
      /\ Heard' = Heard
      /\ \A k : Broke(k)' <=> Broke(k)
  BY <1>0 DEF Journaled, Said, Acted, Heard, Broke
<1>d. \A k : Dropped(k)' <=> Dropped(k)
  BY <1>1, <1>2 DEF Dropped
<1>a. Apart => Apart'
  BY <1>0, <1>1, <1>2 DEF Apart, Note
<1>3. \A k : /\ Halts(k)' <=> Halts(k)
             /\ Began(k)' <=> Began(k)
             /\ Succeeded(k)' <=> Succeeded(k)
             /\ Finished(k)' <=> Finished(k)
             /\ LetIn(k)' <=> LetIn(k)
             /\ ToUndo(k)' <=> ToUndo(k)
  BY <1>0, <1>1, <1>2 DEF Halts, Began, Succeeded, Finished, LetIn, ToUndo
<1>4. /\ FailedBefore' <=> FailedBefore
      /\ Settled' <=> Settled
      /\ StrandedBeside' <=> StrandedBeside
      /\ Closed' <=> Closed
      /\ TimedOut' <=> TimedOut
      /\ \A k : Passed(k)' <=> Passed(k)
  BY <1>0, <1>1, <1>2, <1>3, <1>d DEF FailedBefore, Settled, StrandedBeside, Closed, TimedOut, Passed
<1>5. /\ Stopped' <=> Stopped
      /\ \A v : EndsAs(v)' <=> EndsAs(v)
  BY <1>0, <1>1, <1>2, <1>3, <1>4, <1>d DEF Stopped, EndsAs
<1>6. Log => Log'
  <2>1. Log => \A k \in Steps : LogOf(k)'
    BY <1>0, <1>1, <1>2, <1>3, <1>d DEF Log, LogOf
  <2> QED
    BY <1>1, <2>1 DEF Log
<1> QED
  BY <1>1, <1>2, <1>3, <1>4, <1>5, <1>6, <1>a

(* Nothing of a replay, and of how it ends, rests on what the callers write. *)
LEMMA BesideKeeps ==
  ASSUME Replay, Closings, Types', UNCHANGED <<slip, journal, defects, result, news, acted, walk>>
  PROVE  (Replay /\ Closings)' /\ (Settles => Settles')
<1>0. slip' = slip /\ journal' = journal /\ defects' = defects /\ result' = result /\ walk' = walk
  OBVIOUS
<1>1. \A verdicts : Closes(verdicts)' <=> Closes(verdicts)
  BY <1>0 DEF Closes
<1>2. Log' /\ Apart'
  BY <1>0, SaysTheSame DEF Replay
<1>3. Course'
  <2>1. Order' /\ Quiet' /\ Strand' /\ DoneAll' /\ DoneLater'
    BY <1>0, SaysTheSame DEF Replay, Course, Order, Quiet, Strand, DoneAll, DoneLater, Ended, Active
  <2>2. Met' /\ Skips' /\ Together'
    BY <1>0, SaysTheSame DEF Replay, Course, Met, Meets, Skips, Together
  <2> QED
    BY <2>1, <2>2 DEF Course
<1>4. Closings'
  <2>1. TurnsBack' /\ UndoneInOrder'
    BY <1>0, <1>1, SaysTheSame DEF Closings, TurnsBack, UndoneInOrder
  <2>2. Stops' /\ Completes' /\ Resulted'
    BY <1>0, <1>1, SaysTheSame DEF Closings, Stops, Completes, Resulted, Gone, Fresh, Steps
  <2> QED
    BY <2>1, <2>2 DEF Closings
<1>5. ASSUME Settles PROVE Settles'
  <2>1. Resumed' /\ UndoSaid' /\ (Outs => Outs') /\ (InTurn => InTurn')
    BY <1>0, <1>5, SaysTheSame DEF Settles, Resumed, UndoSaid, Outs, InTurn
  <2>2. Told' /\ Tells' /\ Writes'
    BY <1>0, <1>5, SaysTheSame DEF Settles, Told, Tells, Writes, EventOf
  <2>3. Endings => Endings'
    BY <1>0, <1>1, SaysTheSame DEF Endings, TurnsClosed, Verdicts, Records, Announces, EventOf
  <2>4. (GuardedAcross' <=> GuardedAcross) /\ (StrandedBeside' <=> StrandedBeside)
    BY <1>0, SaysTheSame
  <2> QED
    BY <1>5, <2>1, <2>2, <2>3, <2>4 DEF Settles
<1> QED
  BY <1>2, <1>3, <1>4, <1>5 DEF Replay

(* Nor is any of it lost with the locals of a walk that is interrupted.      *)
LEMMA GoneKeeps ==
  ASSUME Replay, Closings, Types', Interrupted
  PROVE  (Replay /\ Closings)' /\ (Settles => Settles')
<1>0. UNCHANGED <<slip, journal, defects, news, acted>>
  BY DEF Interrupted
<1>1. /\ walk'.phase = "over" /\ walk'.verdict = "none" /\ walk'.stranded = 0 /\ walk'.done = <<>>
      /\ \A i \in Steps : walk'.pc[i] = "todo"
  BY DEF Interrupted, Fresh
<1>2. \A verdicts : "none" \notin verdicts => ~Closes(verdicts)'
  BY <1>1 DEF Closes
<1>3. Log' /\ Apart'
  BY <1>0, SaysTheSame DEF Replay
<1>4. Course'
  <2>1. DoneLater'
    BY <1>1, EmptySeq DEF DoneLater
  <2>2. Order' /\ Together' /\ Quiet' /\ Strand' /\ DoneAll' /\ Met' /\ Skips'
    BY <1>0, <1>1, SaysTheSame DEF Order, Together, Fallen, Quiet, Strand, DoneAll, Met, Meets, Skips, Active
  <2> QED
    BY <2>1, <2>2 DEF Course
<1>5. Closings'
  <2>1. TurnsBack' /\ UndoneInOrder' /\ Stops' /\ Completes'
    BY <1>0, <1>1, <1>2, SaysTheSame DEF Closings, TurnsBack, UndoneInOrder, Stops, Completes
  <2>2. Resulted'
    BY <1>0 DEF Interrupted, Resulted, Gone, Fresh, Steps
  <2> QED
    BY <2>1, <2>2 DEF Closings
<1>6. ASSUME Settles PROVE Settles'
  <2>1. Resumed' /\ UndoSaid' /\ Outs' /\ (InTurn => InTurn')
    BY <1>0, <1>1, <1>6, SaysTheSame DEF Settles, Resumed, UndoSaid, Outs, InTurn
  <2>2. Told' /\ Tells' /\ Writes'
    BY <1>0, <1>1, <1>6, SaysTheSame DEF Settles, Told, Tells, Writes, EventOf, Finals
  <2>3. Endings => Endings'
    BY <1>0, <1>1, <1>2, SaysTheSame DEF Endings, TurnsClosed, Verdicts, Records, Announces, EventOf, Finals
  <2>4. (GuardedAcross' <=> GuardedAcross) /\ (StrandedBeside' <=> StrandedBeside)
    BY <1>0, SaysTheSame
  <2> QED
    BY <1>0, <1>6, <2>1, <2>2, <2>3, <2>4 DEF Settles
<1> QED
  BY <1>3, <1>4, <1>5, <1>6 DEF Replay

(* What its callers leave of a flow.                                         *)
LEMMA BesideSteps ==
  ASSUME [FlowNext]_flowVars, ~Flow
  PROVE  /\ Interrupted \/ UNCHANGED <<slip, journal, defects, result, news, acted, walk>>
         /\ UNCHANGED <<slip, journal, defects, news, acted>>
         /\ \/ status' = status
            \/ status.state = "waiting"
            \/ \E s \in Signallers : PutBack(s)
            \/ RecordInterrupt
<1>1. CASE \E s \in Starters : Register(s) \/ Execute(s) \/ StarterDies(s)
  BY <1>1 DEF Register, Execute, StarterDies, vars, durable
<1>2. ASSUME NEW s \in Signallers, SignalStep(s)
      PROVE  /\ UNCHANGED <<slip, journal, defects, result, news, acted, walk>>
             /\ status' = status \/ status.state = "waiting" \/ PutBack(s)
  <2>1. CASE Find(s) \/ FindCorrelated(s) \/ SignallerDies(s)
    BY <2>1 DEF Find, FindCorrelated, SignallerDies, vars, durable
  <2>2. CASE Claim(s)
    BY <2>2 DEF Claim, Claimable
  <2>3. CASE Complete(s) \/ CompletionFails(s) \/ PutBack(s)
    BY <2>3 DEF Complete, CompletionFails, PutBack
  <2> QED
    BY <1>2, <2>1, <2>2, <2>3 DEF SignalStep
<1>3. CASE AskInterrupt \/ RecordInterrupt \/ Interrupted
  BY <1>3 DEF AskInterrupt, RecordInterrupt, Interrupted, vars, durable
<1>4. CASE UNCHANGED flowVars
  BY <1>4 DEF flowVars, vars, durable
<1> QED
  BY <1>1, <1>2, <1>3, <1>4 DEF FlowNext

(* What a put-back, or an interrupt, writes over the record it writes only   *)
(* after a completion failed in doubt, or an interrupt was recorded.         *)
Overwritten == unsure # {} \/ stop = "done"

Lasts == Settles /\ (Overwritten \/ Races \/ Rows)

FlowInv == CallersInv /\ Replay /\ Closings /\ (defects = {} => Lasts)

(* Every step of the flow and of its callers keeps it.                       *)
LEMMA FlowInvKept == FlowInv /\ [FlowNext]_flowVars => FlowInv'
<1> SUFFICES ASSUME FlowInv, [FlowNext]_flowVars PROVE FlowInv'
  OBVIOUS
<1>1. CallersInv' /\ Types'
  BY CallersStep DEF FlowInv, CallersInv
<1>2. CASE Flow
  <2>1. [Next]_vars /\ unsure' = unsure /\ stop' = stop
    BY <1>2 DEF Flow, Next, calls
  <2>2. Replay'
    BY <2>1, ReplayStep DEF FlowInv
  <2>3. Closings'
    BY <2>1, TurnsBackKept, UndoneInOrderKept, StopsKept, CompletesKept, ResultedKept DEF FlowInv, Closings
  <2>4. ASSUME defects' = {} PROVE Lasts'
    <3>1. Lasts
      BY <2>1, <2>4, NoneDies DEF FlowInv, Replay
    <3>2. Settles'
      BY <2>1, <2>2, <2>3, <2>4, <3>1, SettlesKept DEF FlowInv, Lasts
    <3>3. (Overwritten \/ Races \/ Rows)'
      BY <2>1, <2>4, <3>1, RowsOrRaces DEF FlowInv, Lasts, Overwritten
    <3> QED
      BY <3>2, <3>3 DEF Lasts
  <2> QED
    BY <1>1, <2>2, <2>3, <2>4 DEF FlowInv
<1>3. CASE ~Flow
  <2>1. (Replay /\ Closings)' /\ (Settles => Settles')
    BY <1>1, <1>3, BesideSteps, BesideKeeps, GoneKeeps DEF FlowInv
  <2>2. UNCHANGED <<slip, journal, defects, news, acted>>
    BY <1>3, BesideSteps
  <2>3. unsure \subseteq unsure' /\ (stop = "done" => stop' = "done")
    BY <1>3 DEF FlowNext, Register, Execute, StarterDies, SignalStep, Find, FindCorrelated, Claim, Complete,
       CompletionFails, PutBack, SignallerDies, AskInterrupt, RecordInterrupt, Interrupted, calls, history, flowVars
  <2>4. ASSUME ~Overwritten', Rows PROVE Rows'
    <3>1. ~Overwritten
      BY <2>3, <2>4 DEF Overwritten
    <3>2. ~RecordInterrupt /\ \A s \in Signallers : ~PutBack(s)
      <4>1. ASSUME NEW s \in Signallers, PutBack(s) PROVE unsure # {}
        BY <4>1 DEF FlowInv, CallersInv, Answering, PutsBackInDoubt, PutBack
      <4> QED
        BY <2>4, <3>1, <4>1 DEF Overwritten, RecordInterrupt
    <3>3. status' = status \/ status.state = "waiting"
      BY <1>3, <3>2, BesideSteps
    <3> QED
      BY <2>2, <2>4, <3>3, SaysTheSame DEF Rows, Finals
  <2>5. Races => Races'
    BY <2>2, SaysTheSame DEF Races
  <2>6. ASSUME defects' = {} PROVE Lasts'
    <3>1. Lasts
      BY <2>2, <2>6 DEF FlowInv
    <3>2. (Overwritten \/ Races \/ Rows)'
      BY <2>3, <2>4, <2>5, <3>1 DEF Lasts, Overwritten
    <3> QED
      BY <2>1, <3>1, <3>2 DEF Lasts
  <2> QED
    BY <1>1, <2>1, <2>6 DEF FlowInv
<1> QED
  BY <1>2, <1>3

(* Replays and how they end, beside the callers of the flow: an invariant.   *)
THEOREM FlowInvariant == FlowSpec => []FlowInv
<1>1. Init => Closings
  BY ClosingsStart
<1>2. FlowInit => FlowInv
  BY <1>1, CallersStart, ReplayStart, SettlesStart DEF FlowInit, FlowInv, Lasts
<1> QED
  BY <1>2, FlowInvKept, PTL DEF FlowSpec

(* The callers take nothing from what a flow keeps by its journal: beside    *)
(* them, and interrupted, it still undoes what it did and goes back only for *)
(* what ran beside its pivot.                                                *)
THEOREM KeepsBesideCallers == FlowSpec => [](UndoesWhatItDid /\ NeverBack)
<1>1. FlowInv => UndoesWhatItDid /\ NeverBack
  BY AllUndone, BackBeside DEF FlowInv
<1> QED
  BY <1>1, FlowInvariant, PTL

(* The record of a flow that ended says how it ended, whatever signals,      *)
(* replays and crashes come after, but for what a completion that failed, or *)
(* an interrupt, wrote over it, and unless its replays race a guard or a     *)
(* strand.                                                                   *)
THEOREM StaysEnded == FlowSpec => [](defects = {} => EndedStays)
<1>1. FlowInv => (defects = {} => EndedStays)
  <2> SUFFICES ASSUME FlowInv, defects = {}, result \in Finals \ {"stranded"}, ~Overwritten, ~Races
               PROVE status.state = result
    BY DEF EndedStays, Overwritten, Races
  <2>1. walk.phase = "over" /\ walk.verdict = result
    BY DEF FlowInv, Closings, Resulted, Gone, Finals
  <2>2. Journaled(<<walk.verdict, walk.at>>)
    BY <2>1 DEF FlowInv, Lasts, Settles, Writes, Finals
  <2> QED
    BY <2>1, <2>2 DEF FlowInv, Lasts, Rows
<1> QED
  BY <1>1, FlowInvariant, PTL

-----------------------------------------------------------------------------
(* A flow that is parked.  From when a wait is recorded until its race the   *)
(* walk, this one or a later one, records nothing else: what it follows is   *)
(* finished, what follows it has not begun, and nothing runs beside it.      *)
Awaited(i) == Group(i) = Stage(i) /\ Journaled(<<"waiting", i>>) /\ ~Journaled(<<"race", i>>)

InOrder == \A i \in Steps : Began(i) => \A k \in Prior(i) : Finished(k) \/ ~LetIn(k)
NotEnding == walk.phase \in {"undoing", "closing"} => \A i \in Steps : ~Awaited(i)

(* A step begins where all it follows is finished, and stays so.             *)
LEMMA InOrderKept == ASSUME Replay, Outs, Resumed, InOrder, ~GuardedAcross, [Next]_vars, defects' = {} PROVE InOrder'
<1>0. slip \in Slips /\ Steps' = Steps /\ (\A k : Prior(k)' = Prior(k)) /\ \A k : Finished(k) => Finished(k)'
  BY SucceedsForGood DEF Replay, Types
<1> SUFFICES ASSUME NEW i \in Steps, Began(i)', NEW k \in Prior(i), LetIn(k)' PROVE Finished(k)'
  BY <1>0 DEF InOrder
<1>1. \A m \in Prior(i) : Finished(m) \/ ~LetIn(m)
  <2>1. CASE Began(i)
    BY <2>1 DEF InOrder
  <2>2. CASE ~Began(i)
    <3>1. PICK b : b \in {<<"running", i>>, <<"waiting", i>>} /\ Journaled(b)' /\ ~Journaled(b)
      BY <2>2 DEF Began
    <3>2. Entry(b)
      BY <3>1, KeyNow
    <3>3. walk.verdict \notin {"running", "waiting"} /\ EventOf(walk.verdict) \notin {"running", "waiting"}
      BY DEF EventOf, Replay, Types, WalkOf, Finals
    <3>4. Begin(i) \/ Park(i)
      BY <3>1, <3>2, <3>3 DEF Entry
    <3>5. Turn(i) /\ walk.stranded = 0
      BY <3>4 DEF Begin, Park
    <3>6. \A m \in Prior(i) : m \in Steps /\ Ended(m)
      BY <3>5 DEF Prior, Turn
    <3> QED
      BY <3>5, <3>6, EndedIsOver, NoneDies DEF Replay
  <2> QED
    BY <2>1, <2>2
<1>2. CASE LetIn(k)
  BY <1>0, <1>1, <1>2
<1>3. CASE ~LetIn(k)
  <2> DEFINE w == slip[k].guard
  <2>1. k \in Steps
    BY DEF Prior
  <2>2. w \in Steps /\ w \in Prior(k) /\ Kind(w) = "wait" /\ Race(w) /\ ~Journaled(<<"race", w>>)
    BY <1>3, <2>1, LetInNow
  <2>3. w \in Prior(i)
    BY <1>0, <2>2, PriorOfPrior
  <2>4. Journaled(<<"waiting", w>>)
    BY <2>2 DEF Race, Replay, Course, Met, Meets
  <2>5. LetIn(w) /\ ~Finished(w)
    BY <2>2, <2>4 DEF Replay, Log, LogOf, Began, LetIn, Finished
  <2> QED
    BY <1>1, <2>3, <2>5
<1> QED
  BY <1>2, <1>3

(* Nothing of the slip is beside a wait of a stage without segments.         *)
LEMMA Nearby ==
  ASSUME slip \in Slips, NEW i \in Steps, Group(i) = Stage(i), NEW j \in Steps
  PROVE  j \in Prior(i) \/ j = i \/ i \in Prior(j)
<1>1. i \in Nat /\ j \in Nat /\ slip[i].stage \in Nat /\ slip[j].stage \in Nat
  BY StepsCounted DEF Step
<1>2. CASE slip[j].stage < slip[i].stage \/ slip[i].stage < slip[j].stage
  BY <1>2 DEF Prior
<1>3. CASE slip[j].stage = slip[i].stage
  <2>1. j \in Group(i)
    BY <1>3 DEF Stage
  <2>2. i \in Group(j)
    BY <2>1, OneGroup
  <2> QED
    BY <1>1, <2>1, <2>2 DEF Prior
<1> QED
  BY <1>1, <1>2, <1>3

(* The walk is not past a wait that has not been raced.                      *)
LEMMA NotPastIt ==
  ASSUME Replay, defects = {}, Outs, NEW i \in Steps, Awaited(i)
  PROVE  /\ walk.pc[i] \notin {"ok", "skipped", "answered", "stranded", "failed"}
         /\ \A j \in Steps : i \in Prior(j) /\ walk.pc[j] \notin {"todo", "void"} => FALSE
         /\ \A j \in Steps : i \in Prior(j) /\ Turn(j) => walk.stranded # 0
<1>1. Kind(i) = "wait" /\ LetIn(i)
  BY DEF Awaited, Replay, Log, LogOf, Began, LetIn
<1>2. walk.pc[i] \notin {"ok", "skipped", "answered", "stranded", "failed"}
  BY <1>1 DEF Awaited, Outs, Replay, Course, Met, Meets, Halts, Said
<1>3. ASSUME NEW j \in Steps, i \in Prior(j), walk.pc[j] \notin {"todo", "void"} PROVE FALSE
  <2>1. Ended(i) /\ walk.pc[i] \notin {"void", "stranded"}
    BY <1>3 DEF Replay, Course, Order, Strand
  <2> QED
    BY <1>2, <2>1, NothingFell DEF Ended, Fallen
<1>4. ASSUME NEW j \in Steps, i \in Prior(j), Turn(j) PROVE walk.stranded # 0
  <2>1. Ended(i)
    BY <1>4 DEF Prior, Turn
  <2>2. walk.pc[i] = "void"
    BY <1>2, <2>1, NothingFell DEF Ended, Fallen
  <2> QED
    BY <2>2 DEF Replay, Course, Strand
<1> QED
  BY <1>2, <1>3, <1>4

(* A walk does not come to its end over such a wait.                         *)
LEMMA NotEndingKept ==
  ASSUME Replay, Outs, InTurn, NotEnding, ~GuardedAcross, [Next]_vars, defects' = {}
  PROVE  NotEnding'
<1>0. /\ slip \in Slips /\ slip' = slip /\ Kept /\ Steps' = Steps
      /\ defects = {} /\ ~Collapse /\ \A k \in Steps : ~Breaks(k)
  BY WorldGrows, SucceedsForGood, NoneDies DEF Replay, Types
<1> SUFFICES ASSUME walk'.phase \in {"undoing", "closing"}, NEW i \in Steps, Awaited(i)' PROVE FALSE
  BY <1>0 DEF NotEnding
<1>1. Awaited(i)
  <2>1. Group(i) = Stage(i) /\ ~Journaled(<<"race", i>>)
    BY <1>0 DEF Awaited, Group, Stage, Steps, Kept, Journaled
  <2>2. Journaled(<<"waiting", i>>)
    <3> SUFFICES ASSUME ~Journaled(<<"waiting", i>>) PROVE FALSE
      OBVIOUS
    <3>1. Entry(<<"waiting", i>>)
      BY KeyNow DEF Awaited
    <3>2. walk.verdict # "waiting" /\ EventOf(walk.verdict) # "waiting"
      BY DEF EventOf, Replay, Types, WalkOf, Finals
    <3>3. Park(i)
      BY <3>1, <3>2 DEF Entry
    <3>4. walk'.phase \in {"starting", "walking"}
      BY <3>3, WalksOn DEF StepOf
    <3> QED
      BY <3>4
  <2> QED
    BY <2>1, <2>2 DEF Awaited
<1>2. walk.phase \notin {"undoing", "closing"}
  BY <1>1 DEF NotEnding
<1>3. Decide
  <2>1. CASE Started \/ Retry \/ Crash \/ \E k \in Steps : StepOf(k)
    BY <2>1, WalksOn
  <2>2. CASE Undo \/ Undone
    BY <1>2, <2>2 DEF Undo, Undone
  <2>3. CASE Close \/ Tell \/ Return
    BY <2>3, ClosesOn
  <2>4. CASE \/ InDoubt \/ UNCHANGED vars
             \/ \E k \in Steps : Fires(k) \/ \E o \in Signals(k) : Signalled(k, o)
    BY <1>2, <2>4 DEF InDoubt, Attempt, Fires, Signalled, vars
  <2> QED
    BY <1>0, <2>1, <2>2, <2>3, <2>4 DEF Next, WalkNext, Walk, Ending
<1>4. ASSUME NEW m \in Steps, walk.pc[m] \in {"failed", "stranded"} PROVE FALSE
  <2>1. Halts(m) \/ Said("race", m, "timeout")
    BY <1>4 DEF Replay, Course, Met, Meets
  <2>2. ~Passed(m)
    BY <2>1, FellNotPassed
  <2>3. m \notin Prior(i)
    BY <1>1, <2>2 DEF InTurn, Began, Awaited
  <2>4. m # i /\ i \notin Prior(m)
    BY <1>0, <1>1, <1>4, NotPastIt
  <2> QED
    BY <1>0, <1>1, <2>3, <2>4, Nearby DEF Awaited
<1>5. Failed = {}
  BY <1>4 DEF Failed
<1>6. walk.stranded = 0
  <2>1. walk.stranded # 0 => walk.stranded \in Steps /\ walk.pc[walk.stranded] = "stranded"
    BY DEF Replay, Types, WalkOf, Course, Strand
  <2> QED
    BY <1>4, <2>1
<1>7. Ended(i) /\ walk.pc[i] \notin {"void", "stranded"}
  BY <1>3, <1>5, <1>6 DEF Decide, Replay, Course, Strand
<1> QED
  BY <1>0, <1>1, <1>7, NotPastIt, NothingFell DEF Ended, Fallen

(* While a wait is to be raced the walk records nothing else.                *)
LEMMA AwaitedIsLast ==
  ASSUME Replay, Outs, InOrder, NotEnding, ~GuardedAcross, NEW i \in Steps, Awaited(i), WalkNext, defects' = {}
  PROVE  status' = status
<1>0. slip \in Slips /\ Began(i) /\ Kind(i) = "wait" /\ Group(i) = Stage(i) /\ defects = {}
  BY NoneDies DEF Next, Replay, Types, Log, LogOf, Began, Awaited
<1>1. ASSUME NEW j \in Prior(i), LetIn(j) PROVE j \in Steps /\ Finished(j)
  BY <1>0, <1>1 DEF InOrder, Prior
<1>2. ASSUME NEW j \in Steps, Begin(j), ~Journaled(<<"running", j>>) PROVE FALSE
  <2>1. LetIn(j) /\ Turn(j) /\ walk.stranded = 0 /\ Kind(j) # "wait"
    BY <1>2, TurnAfter DEF Begin, LetIn
  <2>2. ~Journaled(<<"action", j>>)
    BY <1>2 DEF Replay, Log, LogOf
  <2>3. j \notin Prior(i)
    BY <1>1, <2>1, <2>2 DEF Finished
  <2> QED
    BY <1>0, <2>1, <2>3, Nearby, NotPastIt
<1>3. ASSUME NEW j \in Steps, Park(j), ~Journaled(<<"waiting", j>>) PROVE FALSE
  <2>1. LetIn(j) /\ Turn(j) /\ walk.stranded = 0 /\ Kind(j) = "wait"
    BY <1>3, TurnAfter DEF Park, LetIn
  <2>2. ~Journaled(<<"race", j>>)
    BY <1>3 DEF Replay, Log, LogOf
  <2>3. j \notin Prior(i)
    BY <1>1, <2>1, <2>2 DEF Finished
  <2>4. j # i
    BY <1>3 DEF Awaited
  <2> QED
    BY <1>0, <2>1, <2>3, <2>4, Nearby, NotPastIt
<1>4. ASSUME NEW j \in Steps, Resume(j), ~Journaled(<<"resumed", j>>) PROVE FALSE
  <2>1. walk.pc[j] = "answered"
    BY <1>4 DEF Resume
  <2>2. Kind(j) = "wait" /\ Journaled(<<"waiting", j>>) /\ Journaled(<<"race", j>>) /\ ~Said("race", j, "timeout")
    BY <2>1 DEF Replay, Course, Met, Meets
  <2>3. LetIn(j)
    BY <2>2 DEF Replay, Log, LogOf, Began, LetIn
  <2>4. j \notin Prior(i)
    BY <1>1, <1>4, <2>2, <2>3 DEF Finished
  <2> QED
    BY <1>0, <2>1, <2>4, Nearby, NotPastIt
<1>5. ~Close
  BY DEF NotEnding, Close
<1> QED
  BY <1>2, <1>3, <1>4, <1>5, RecordNow DEF Replay

(* A wait that is to be raced is in the record, or a caller has it in hand.  *)
Addresses == \A i \in Steps :
  /\ Awaited(i) /\ deferred[i] = "empty" /\ i \notin clock
  /\ i \notin lost /\ unsure \ {i} = {} /\ stop # "done"
  => Addressed(i)

Parks == GuardedAcross \/ (InOrder /\ NotEnding /\ Addresses)

(* The record of a wait carries what identifies it, unless it was put back.  *)
Correlates == \A i \in Steps : Claimable(i) => address = AddressOf(i) \/ i \in unsure

ParkInv == (defects = {} => Parks) /\ Correlates

(* The walk parks on a wait by recording it.                                 *)
LEMMA WalkAddresses ==
  ASSUME FlowInv, ~GuardedAcross, InOrder, NotEnding, Addresses, Flow, defects' = {}
  PROVE  Addresses'
<1>0. /\ Replay /\ Outs /\ Kept /\ slip' = slip /\ Steps' = Steps /\ [Next]_vars /\ WalkNext /\ defects = {}
      /\ deferred' = deferred /\ clock \subseteq clock'
      /\ signaller' = signaller /\ lost' = lost /\ unsure' = unsure /\ stop' = stop
  <2>0. WalkNext /\ [Next]_vars /\ Replay
    BY DEF Flow, Next, FlowInv
  <2>1. WalkNext /\ [Next]_vars /\ Replay /\ defects = {} /\ Outs
    BY <2>0, NoneDies DEF FlowInv, Replay, Lasts, Settles
  <2>2. deferred' = deferred /\ clock \subseteq clock' /\ slip' = slip
    BY <2>1, WalkLeavesAnswers
  <2>3. Kept /\ Steps' = Steps
    BY <2>1, WorldGrows, SucceedsForGood
  <2> QED
    BY <2>1, <2>2, <2>3 DEF Flow, calls
<1> SUFFICES ASSUME NEW i \in Steps, Awaited(i)', deferred[i] = "empty", i \notin clock, i \notin lost,
                    unsure \ {i} = {}, stop # "done"
             PROVE  Addressed(i)'
  BY <1>0 DEF Addresses
<1>1. Group(i) = Stage(i) /\ ~Journaled(<<"race", i>>)
  BY <1>0 DEF Awaited, Group, Stage, Steps, Kept, Journaled
<1>2. CASE Journaled(<<"waiting", i>>)
  <2>1. Awaited(i)
    BY <1>1, <1>2 DEF Awaited
  <2>2. status' = status
    BY <1>0, <2>1, AwaitedIsLast
  <2> QED
    BY <1>0, <2>1, <2>2 DEF Addresses, Addressed, Claimable, Held
<1>3. CASE ~Journaled(<<"waiting", i>>)
  <2>1. Entry(<<"waiting", i>>)
    BY <1>0, <1>3, KeyNow DEF Awaited
  <2>2. walk.verdict # "waiting" /\ EventOf(walk.verdict) # "waiting"
    BY <1>0 DEF EventOf, Replay, Types, WalkOf, Finals
  <2>3. Park(i)
    BY <2>1, <2>2 DEF Entry
  <2> QED
    BY <1>3, <2>3 DEF Park, Record, Written, Addressed, Claimable
<1> QED
  BY <1>2, <1>3

(* A caller that takes the wait from the record has it in hand until it is   *)
(* completed or put back.                                                    *)
LEMMA CallersAddress ==
  ASSUME FlowInv, Addresses, [FlowNext]_flowVars, ~Flow
  PROVE  Addresses'
<1>0. UNCHANGED <<slip, journal, news, acted>> /\ Steps' = Steps /\ \A i : Awaited(i)' <=> Awaited(i)
  <2>1. slip' = slip /\ journal' = journal /\ news' = news /\ acted' = acted
    BY BesideSteps DEF Interrupted
  <2> QED
    BY <2>1 DEF Steps, Awaited, Group, Stage, Journaled
<1>1. CallerTypes /\ PutsBackInDoubt /\ deferred \in [Steps -> Outcomes \union {"empty", "unnamed"}]
  BY DEF FlowInv, CallersInv, Types, Answering
<1> DEFINE Out(i) == /\ Awaited(i) /\ deferred[i] = "empty" /\ i \notin clock
                     /\ i \notin lost /\ unsure \ {i} = {} /\ stop # "done"
<1> SUFFICES ASSUME NEW i \in Steps, Out(i)' PROVE Addressed(i)'
  BY <1>0 DEF Addresses
<1>2. ASSUME Addressed(i), signaller' = signaller, status' = status PROVE Addressed(i)'
  BY <1>2 DEF Addressed, Claimable, Held
<1>3. ASSUME Out(i) PROVE Addressed(i)
  BY <1>3 DEF Addresses
<1>4. ASSUME UNCHANGED <<deferred, clock, lost, unsure, stop>> PROVE Out(i)
  BY <1>0, <1>4
<1>5. CASE (\E s \in Starters : Register(s) \/ Execute(s) \/ StarterDies(s)) \/ Interrupted \/ UNCHANGED flowVars
  BY <1>2, <1>3, <1>4, <1>5
     DEF Register, Execute, StarterDies, Interrupted, vars, durable, calls, history, flowVars
<1>6. CASE AskInterrupt \/ RecordInterrupt
  BY <1>0, <1>2, <1>3, <1>6 DEF AskInterrupt, RecordInterrupt, vars, durable, history
<1>7. ASSUME NEW s \in Signallers, SignalStep(s) PROVE Addressed(i)'
  <2>0. /\ signaller[s].wait \in Steps \union {0}
        /\ signaller[s].pc \in Bound => signaller[s].wait \in Steps /\ signaller[s].outcome \in Outcomes
        /\ \A c, p : /\ signaller' = [signaller EXCEPT ![s] = c] => signaller'[s] = c
                     /\ Signalling(s, p) => signaller'[s].pc = p /\ signaller'[s].wait = signaller[s].wait
        /\ \A c, p : signaller' = [signaller EXCEPT ![s] = c] \/ Signalling(s, p)
             => \A t \in Signallers \ {s} : signaller'[t] = signaller[t]
    <3>1. /\ signaller[s] \in Signal(SigPcs) /\ DOMAIN signaller = Signallers
          /\ signaller[s].pc \in Bound => signaller[s].wait \in Steps /\ signaller[s].outcome \in Outcomes
      BY <1>1 DEF CallerTypes
    <3>2. signaller[s].wait \in Steps \union {0}
      BY <3>1 DEF Signal
    <3>3. \A p : [signaller[s] EXCEPT !.pc = p].pc = p /\ [signaller[s] EXCEPT !.pc = p].wait = signaller[s].wait
      BY <3>1 DEF Signal
    <3>4. \A c : signaller' = [signaller EXCEPT ![s] = c] =>
            signaller'[s] = c /\ \A t \in Signallers \ {s} : signaller'[t] = signaller[t]
      BY <3>1
    <3>5. ASSUME NEW p, Signalling(s, p)
          PROVE  /\ signaller'[s].pc = p /\ signaller'[s].wait = signaller[s].wait
                 /\ \A t \in Signallers \ {s} : signaller'[t] = signaller[t]
      <4>1. signaller' = [signaller EXCEPT ![s] = [signaller[s] EXCEPT !.pc = p]]
        BY <3>5 DEF Signalling
      <4>2. PICK c : c = [signaller[s] EXCEPT !.pc = p]
        OBVIOUS
      <4> QED
        BY <3>3, <3>4, <4>1, <4>2
    <3> QED
      BY <3>1, <3>2, <3>4, <3>5
  <2>1. ASSUME NEW t \in Signallers \ {s}, signaller'[t] = signaller[t],
               signaller[t].wait = i, signaller[t].pc \in {"claimed", "puttingBack"}
        PROVE  Addressed(i)'
    BY <2>1 DEF Addressed, Held
  <2>2. CASE Find(s) \/ FindCorrelated(s)
    <3>1. PICK c : signaller' = [signaller EXCEPT ![s] = c] /\ signaller[s].pc = "idle"
      BY <2>2 DEF Find, FindCorrelated, Found
    <3>2. status' = status /\ UNCHANGED <<deferred, clock, lost, unsure, stop>>
      BY <2>2 DEF Find, FindCorrelated, vars, durable, history
    <3> QED
      BY <1>3, <1>4, <2>0, <2>1, <3>1, <3>2 DEF Addressed, Held, Claimable
  <2>3. CASE Claim(s)
    <3>1. Out(i) /\ signaller[s].pc = "found"
      BY <1>4, <2>3 DEF Claim, history
    <3>2. PICK c, p : /\ signaller' = [signaller EXCEPT ![s] = c] \/ Signalling(s, p)
                      /\ Claimable(signaller[s].wait) => Signalling(s, "claimed")
                      /\ ~Claimable(signaller[s].wait) => status' = status
      BY <2>3 DEF Claim, Ends
    <3>3. CASE Held(i)
      BY <2>0, <2>1, <3>1, <3>2, <3>3 DEF Held
    <3>4. CASE Claimable(i) /\ signaller[s].wait = i
      BY <2>0, <3>2, <3>4 DEF Addressed, Held
    <3>5. CASE Claimable(i) /\ signaller[s].wait # i
      <4>1. ~Claimable(signaller[s].wait)
        BY <3>5 DEF Claimable
      <4> QED
        BY <3>2, <3>5, <4>1 DEF Addressed, Claimable
    <3> QED
      BY <1>3, <3>1, <3>3, <3>4, <3>5 DEF Addressed
  <2>4. CASE Complete(s) \/ CompletionFails(s)
    <3> DEFINE k == signaller[s].wait
    <3>1. /\ signaller[s].pc = "claimed" /\ status' = status
          /\ UNCHANGED <<clock, lost, stop>> /\ unsure \subseteq unsure'
          /\ \/ deferred' = deferred
             \/ deferred[k] = "empty" /\ deferred' = [deferred EXCEPT ![k] = signaller[s].outcome]
      BY <2>4 DEF Complete, CompletionFails, Resolved, history
    <3>2. k \in Steps /\ signaller[s].outcome # "empty"
      BY <2>0, <3>1, DialsAssumption DEF Bound
    <3>3. Out(i)
      BY <1>0, <1>1, <3>1, <3>2
    <3>4. \A t \in Signallers \ {s} : signaller'[t] = signaller[t]
      BY <1>1, <2>4 DEF Complete, CompletionFails, Signalling, Accepted, CallerTypes
    <3>5. CASE k # i
      BY <1>3, <2>0, <2>1, <3>1, <3>3, <3>4, <3>5 DEF Addressed, Held, Claimable
    <3>6. CASE k = i
      <4>1. ~Complete(s)
        <5>1. Complete(s) => deferred'[i] # "empty"
          BY <1>1, <3>2, <3>6 DEF Complete, Resolved
        <5> QED
          BY <5>1
      <4>2. Signalling(s, "puttingBack")
        BY <2>4, <4>1 DEF CompletionFails
      <4> QED
        BY <2>0, <3>6, <4>2 DEF Addressed, Held
    <3> QED
      BY <3>5, <3>6
  <2>5. CASE PutBack(s)
    <3>1. /\ signaller[s].wait \in unsure
          /\ unsure' = unsure
          /\ status' = [state |-> "waiting", waiting |-> signaller[s].wait]
      BY <1>1, <2>5 DEF PutBack, PutsBackInDoubt, history
    <3>2. signaller[s].wait = i
      BY <3>1
    <3> QED
      BY <3>1, <3>2 DEF Addressed, Claimable
  <2>6. CASE SignallerDies(s)
    <3>1. /\ status' = status /\ UNCHANGED <<deferred, clock, unsure, stop>>
          /\ lost' = lost \union {signaller[s].wait}
      BY <2>6 DEF SignallerDies, vars, durable
    <3>2. Out(i) /\ signaller[s].wait # i
      BY <1>0, <3>1
    <3>3. PICK c : signaller' = [signaller EXCEPT ![s] = c]
      BY <2>6 DEF SignallerDies, Ends
    <3> QED
      BY <1>3, <2>0, <2>1, <3>1, <3>2, <3>3 DEF Addressed, Held, Claimable
  <2> QED
    BY <1>7, <2>2, <2>3, <2>4, <2>5, <2>6 DEF SignalStep
<1> QED
  BY <1>5, <1>6, <1>7 DEF FlowNext

(* The walk writes the record whole: which wait it is parked on, and what    *)
(* identifies that wait.                                                     *)
LEMMA WritesWhole ==
  ASSUME WalkNext
  PROVE  UNCHANGED <<status, address>> \/ address' = AddressOf(status'.waiting)
<1>1. ASSUME NEW a, NEW state, NEW waiting, NEW next,
             Record(a, state, waiting, next) \/ RecordDies(a, state, waiting, next)
      PROVE  UNCHANGED <<status, address>> \/ address' = AddressOf(status'.waiting)
  BY <1>1 DEF Record, RecordDies, Written
<1>2. ASSUME NEW i \in Steps, StepOf(i)
      PROVE  UNCHANGED <<status, address>> \/ address' = AddressOf(status'.waiting)
  BY <1>1, <1>2 DEF StepOf, Begin, Act, Park, AnnounceWait, Race, Resume, Pass, Call, Announce, durable
<1>3. ASSUME NEW i \in Steps, Breaks(i)
      PROVE  UNCHANGED <<status, address>> \/ address' = AddressOf(status'.waiting)
  BY <1>1, <1>3 DEF Breaks, AnnounceDies
<1>4. CASE Ending
  BY <1>1, <1>4 DEF Ending, Decide, Undo, Undone, Close, Tell, Return, Call, Announce, durable
<1>5. CASE Collapse
  BY <1>1, <1>5 DEF Collapse, AnnounceDies
<1>6. CASE Started \/ InDoubt \/ Retry \/ Crash \/ \E i \in Steps : Fires(i)
  BY <1>6 DEF Started, InDoubt, Attempt, Retry, Crash, Fires, Announce, durable
<1> QED
  BY <1>2, <1>3, <1>4, <1>5, <1>6 DEF WalkNext, Walk

(* What a caller writes over it is not a wait, or one put back in doubt.     *)
LEMMA CorrelatesKept ==
  ASSUME FlowInv, Correlates, [FlowNext]_flowVars
  PROVE  Correlates'
<1>0. Steps' = Steps
  BY BesideSteps, WalkLeavesAnswers DEF Flow, Steps
<1> SUFFICES ASSUME NEW i \in Steps, Claimable(i)' PROVE address' = AddressOf(i) \/ i \in unsure'
  BY <1>0 DEF Correlates, AddressOf
<1>1. ASSUME UNCHANGED <<status, address>>, unsure \subseteq unsure' PROVE address' = AddressOf(i) \/ i \in unsure'
  BY <1>1 DEF Correlates, Claimable
<1>2. CASE Flow
  <2>1. status'.waiting = i
    BY DEF Claimable
  <2> QED
    BY <1>1, <1>2, <2>1, WritesWhole DEF Flow
<1>3. ASSUME NEW s \in Signallers, SignalStep(s) PROVE address' = AddressOf(i) \/ i \in unsure'
  <2>1. CASE Find(s) \/ FindCorrelated(s) \/ SignallerDies(s) \/ Complete(s) \/ CompletionFails(s)
    BY <1>1, <2>1 DEF Find, FindCorrelated, SignallerDies, Complete, CompletionFails, vars, durable, history
  <2>2. CASE Claim(s)
    BY <1>1, <2>2 DEF Claim, Claimable, history
  <2>3. CASE PutBack(s)
    <3>1. signaller[s].wait \in unsure /\ unsure' = unsure /\ status'.waiting = signaller[s].wait
      BY <2>3 DEF PutBack, PutsBackInDoubt, FlowInv, CallersInv, Answering, history
    <3> QED
      BY <3>1 DEF Claimable
  <2> QED
    BY <1>3, <2>1, <2>2, <2>3 DEF SignalStep
<1>4. CASE RecordInterrupt
  BY <1>4 DEF RecordInterrupt, Claimable
<1>5. CASE \/ \E s \in Starters : Register(s) \/ Execute(s) \/ StarterDies(s)
           \/ AskInterrupt \/ Interrupted \/ UNCHANGED flowVars
  BY <1>1, <1>5 DEF Register, Execute, StarterDies, AskInterrupt, Interrupted, vars, durable, history, flowVars
<1> QED
  BY <1>2, <1>3, <1>4, <1>5 DEF FlowNext

(* Every step of the flow and of its callers keeps it.                       *)
LEMMA ParkInvKept == FlowInv /\ ParkInv /\ [FlowNext]_flowVars => ParkInv'
<1> SUFFICES ASSUME FlowInv, ParkInv, [FlowNext]_flowVars PROVE ParkInv'
  OBVIOUS
<1>0. Correlates'
  BY CorrelatesKept DEF ParkInv
<1>1. ASSUME Flow, defects' = {} PROVE Parks'
  <2>0. Replay /\ [Next]_vars
    BY <1>1 DEF Flow, Next, FlowInv
  <2>1. Parks /\ Settles
    BY <1>1, <2>0, NoneDies DEF Replay, FlowInv, Lasts, ParkInv
  <2>2. (Outs \/ GuardedAcross) /\ Resumed /\ (InTurn \/ GuardedAcross)
    BY <2>1 DEF Settles
  <2>3. GuardedAcross' <=> GuardedAcross
    BY <1>1, <2>0, SucceedsForGood
  <2> QED
    BY <1>1, <2>0, <2>1, <2>2, <2>3, InOrderKept, NotEndingKept, WalkAddresses DEF Parks
<1>2. ASSUME ~Flow, defects' = {} PROVE Parks'
  <2>1. slip' = slip /\ journal' = journal /\ defects' = defects
    BY <1>2, BesideSteps
  <2>2. walk' = walk \/ walk'.phase = "over"
    BY <1>2, BesideSteps DEF Interrupted, Fresh
  <2>3. /\ Steps' = Steps /\ (\A k : Prior(k)' = Prior(k)) /\ (GuardedAcross' <=> GuardedAcross)
        /\ \A k : /\ Began(k)' <=> Began(k)
                  /\ Finished(k)' <=> Finished(k)
                  /\ LetIn(k)' <=> LetIn(k)
                  /\ Awaited(k)' <=> Awaited(k)
    BY <2>1 DEF Steps, Prior, GuardedAcross, Began, Finished, LetIn, Awaited, Kind, Group, Stage, Journaled, Said
  <2>4. InOrder => InOrder'
    BY <2>3 DEF InOrder
  <2>5. NotEnding => NotEnding'
    BY <2>2, <2>3 DEF NotEnding
  <2> QED
    BY <1>2, <2>1, <2>3, <2>4, <2>5, CallersAddress DEF ParkInv, Parks
<1> QED
  BY <1>0, <1>1, <1>2 DEF ParkInv

(* A flow parked on a wait can be signalled, through every replay, refusal   *)
(* and repetition of a signal, unless a caller died with the wait in hand, a *)
(* put-back or an interrupt wrote over the record, or something ran beside   *)
(* the wait or races its guard.                                              *)
THEOREM ParksSignallable == FlowSpec => [](defects = {} => ParkedIsSignallable)
<1>1. FlowInv /\ ParkInv => (defects = {} => ParkedIsSignallable)
  <2> SUFFICES ASSUME FlowInv, defects = {}, Parks, ~GuardedAcross, NEW i \in Steps, Parked(i), Group(i) = Stage(i),
                      i \notin lost, unsure \ {i} = {}, stop # "done"
               PROVE  Addressed(i)
    BY DEF ParkedIsSignallable, ParkInv, Correlates
  <2>1. Journaled(<<"waiting", i>>)
    BY DEF Parked, FlowInv, Replay, Course, Met, Meets
  <2>2. ~Journaled(<<"race", i>>)
    BY DEF Parked, FlowInv, CallersInv, Answering, Raced
  <2> QED
    BY <2>1, <2>2 DEF Parks, Addresses, Awaited, Parked
<1>2. FlowInit => ParkInv
  BY DEF FlowInit, Init, Fresh, ParkInv, Parks, Correlates, Claimable, InOrder, NotEnding, Addresses, Awaited, Began,
     Journaled
<1> QED
  BY <1>1, <1>2, ParkInvKept, FlowInvariant, PTL DEF FlowSpec

-----------------------------------------------------------------------------
(* What a consumer hears that orders events on their versions.  A wait is    *)
(* told before it is raced, a flow goes back at a step before the commit     *)
(* point, and is stranded at a wait that timed out.                          *)
Waited(i) == \E m \in DOMAIN news : news[m].name = "flow.waiting" /\ news[m].version = i

WaitsTold == \A i \in Steps :
  Kind(i) = "wait" /\ (walk.pc[i] = "waiting" \/ Journaled(<<"race", i>>) \/ Journaled(<<"flow.waiting", i>>))
  => Waited(i)

Versions == \A n \in DOMAIN news :
  /\ news[n].name # "flow.completed" => news[n].version <= Len(slip)
  /\ news[n].name = "flow.started" => news[n].version = 0

Places ==
  /\ walk.phase = "undoing" \/ Closes({"compensated", "failed"}) => walk.at \in Steps /\ ~PastCommit(walk.at)
  /\ Closes({"stranded"}) => walk.at \in Steps /\ Said("race", walk.at, "timeout")

Came == \A m \in Steps : ~PastCommit(m) => Said("action", m, "ok")
Causes ==
  /\ "flow.completed" \in Heard => Came
  /\ "flow.stranded" \in Heard => \E w \in Steps : Said("race", w, "timeout")

(* What is announced, and by which step of the walk.                         *)
LEMMA NewsNow ==
  ASSUME Replay, [Next]_vars, defects' = {}, news' # news
  PROVE  \E e : /\ news' = Append(news, e)
                /\ \/ e.name = "flow.started" /\ e.version = 0
                   \/ e.name = "flow.waiting" /\ \E i \in Steps : AnnounceWait(i) /\ e.version = i
                   \/ /\ Tell /\ e.name = EventOf(walk.verdict)
                      /\ e.version = OrdinalOf(walk.verdict, walk.at)
<1>1. ASSUME NEW name, NEW i, NEW ordinal, NEW next, Announce(name, i, ordinal, next)
      PROVE  \E e : news' = Append(news, e) /\ e.name = name /\ e.version = ordinal
  BY <1>1 DEF Announce
<1>2. CASE Started
  BY <1>1, <1>2 DEF Started
<1>3. CASE Tell
  <2>1. PICK name, ordinal, i : /\ name = EventOf(walk.verdict)
                                /\ ordinal = OrdinalOf(walk.verdict, walk.at)
                                /\ i = walk.at
    OBVIOUS
  <2>2. PICK next : Announce(name, i, ordinal, next)
    BY <1>3, <2>1 DEF Tell
  <2> QED
    BY <1>1, <1>3, <2>1, <2>2
<1>4. ASSUME NEW i \in Steps, AnnounceWait(i)
      PROVE  \E e : news' = Append(news, e) /\ e.name = "flow.waiting" /\ e.version = i
  BY <1>1, <1>4 DEF AnnounceWait
<1>5. ASSUME \/ Decide \/ Undo \/ Undone \/ Close \/ Return \/ InDoubt \/ Retry \/ Crash \/ UNCHANGED vars
             \/ \E k \in Steps : Fires(k) \/ \E o \in Signals(k) : Signalled(k, o)
             \/ \E i \in Steps : StepOf(i) /\ ~AnnounceWait(i)
      PROVE  FALSE
  <2>1. CASE Undo
    BY <2>1 DEF Undo, Call
  <2>2. CASE InDoubt
    BY <2>2 DEF InDoubt, Attempt
  <2>3. CASE \E i \in Steps : StepOf(i) /\ ~AnnounceWait(i)
    BY <2>3 DEF StepOf, Begin, Act, Park, Race, Resume, Pass, Record, Call, durable
  <2> QED
    BY <1>5, <2>1, <2>2, <2>3
       DEF Decide, Undone, Close, Return, Retry, Crash, Fires, Signalled, Record, vars, durable
<1> QED
  BY <1>2, <1>3, <1>4, <1>5, NoneDies DEF Replay, Next, WalkNext, Walk, Ending

(* What was announced stays where it is.                                     *)
LEMMA NewsStays ==
  ASSUME Replay, [Next]_vars, defects' = {}
  PROVE  /\ \A n \in DOMAIN news : n \in DOMAIN news' /\ news'[n] = news[n]
         /\ \A i : Waited(i) => Waited(i)'
         /\ DOMAIN news \subseteq Nat
<1>0. Types
  BY DEF Replay
<1>1. \A n \in DOMAIN news : n \in DOMAIN news' /\ news'[n] = news[n]
  <2>1. CASE news' = news
    BY <2>1
  <2>2. CASE news' # news
    <3>1. PICK e : news' = Append(news, e)
      BY <2>2, NewsNow
    <3> QED
      BY <1>0, <3>1, OneMore
  <2> QED
    BY <2>1, <2>2
<1>2. DOMAIN news \subseteq Nat
  <2>1. Len(news) \in Nat /\ DOMAIN news = 1 .. Len(news)
    BY <1>0, OneMore
  <2> QED
    BY <2>1
<1> QED
  BY <1>1, <1>2 DEF Waited

(* Only the last event is that of the flow's completion.                     *)
LEMMA VersionsKept == ASSUME Replay, Versions, [Next]_vars, defects' = {} PROVE Versions'
<1>0. Types /\ slip' = slip /\ Len(slip) \in Nat /\ Steps = 1 .. Len(slip)
  BY WorldGrows, StepsCounted DEF Replay, Types
<1>1. CASE news' = news
  BY <1>0, <1>1 DEF Versions
<1>2. CASE news' # news
  <2>1. PICK e : /\ news' = Append(news, e)
                 /\ \/ e.name = "flow.started" /\ e.version = 0
                    \/ e.name = "flow.waiting" /\ \E i \in Steps : AnnounceWait(i) /\ e.version = i
                    \/ /\ Tell /\ e.name = EventOf(walk.verdict)
                       /\ e.version = OrdinalOf(walk.verdict, walk.at)
    BY <1>2, NewsNow
  <2>2. /\ e.name # "flow.completed" => e.version <= Len(slip)
        /\ e.name = "flow.started" => e.version = 0
    <3>1. walk.at \in Steps \union {0}
      BY DEF Replay, Types, WalkOf
    <3>2. EventOf(walk.verdict) # "flow.completed" => walk.verdict # "completed"
      BY DEF EventOf
    <3>3. EventOf(walk.verdict) # "flow.started"
      BY DEF EventOf
    <3> QED
      BY <1>0, <2>1, <3>1, <3>2, <3>3 DEF OrdinalOf
  <2>3. ASSUME NEW n \in DOMAIN news' PROVE n \in DOMAIN news \/ news'[n] = e
    <3>1. n \in 1 .. Len(news) \/ n = Len(news) + 1
      BY <1>0, <2>1, <2>3, OneMore
    <3> QED
      BY <1>0, <2>1, <3>1, OneMore
  <2> QED
    BY <1>0, <2>2, <2>3, NewsStays DEF Versions
<1> QED
  BY <1>1, <1>2

(* A wait that is announced is heard of, now or before.                      *)
LEMMA WaitHeard ==
  ASSUME Replay, [Next]_vars, defects' = {}, WaitsTold, NEW i \in Steps, AnnounceWait(i)
  PROVE  Waited(i)'
<1>0. Types /\ Kind(i) = "wait"
  BY DEF AnnounceWait, Replay, Course, Met, Meets
<1>1. Waited(i) => Waited(i)'
  BY NewsStays
<1>2. CASE Journaled(<<"flow.waiting", i>>)
  BY <1>0, <1>1, <1>2 DEF WaitsTold
<1>3. CASE ~Journaled(<<"flow.waiting", i>>)
  <2>1. PICK e : /\ e.name = "flow.waiting" /\ e.version = i
                 /\ news' = IF e \in Range(news) THEN news ELSE Append(news, e)
    BY <1>3 DEF AnnounceWait, Announce
  <2>2. CASE e \in Range(news)
    BY <1>1, <2>1, <2>2 DEF Range, Waited
  <2>3. CASE news' = Append(news, e)
    BY <1>0, <2>1, <2>3, OneMore DEF Waited
  <2> QED
    BY <2>1, <2>2, <2>3
<1> QED
  BY <1>2, <1>3

(* A wait past the commit point waits once it is announced.                  *)
LEMMA WaitingNow ==
  ASSUME Replay, [Next]_vars, defects' = {}, NEW i \in Steps, Kind(i) = "wait",
         walk'.pc[i] = "waiting", walk.pc[i] # "waiting"
  PROVE  AnnounceWait(i)
<1>0. walk.pc \in [Steps -> Pcs] /\ PastCommit(i) /\ Fresh.pc[i] # "waiting"
  BY BeforeCommit DEF Replay, Types, WalkOf, Fresh
<1>1. ASSUME NEW k \in Steps, NEW p, Move(k, p).pc[i] = "waiting" PROVE k = i /\ p = "waiting"
  <2>1. Move(k, p).pc = [walk.pc EXCEPT ![k] = p]
    BY DEF Move, Replay, Types, WalkOf
  <2> QED
    BY <1>0, <1>1, <2>1
<1>2. ASSUME NEW a, NEW r, NEW next, Answers(a, r, next) PROVE next.pc[i] = "waiting"
  BY <1>0, <1>2, AnswersEither
<1>3. ASSUME NEW k \in Steps, StepOf(k) PROVE AnnounceWait(i)
  <2>1. ~Begin(k) /\ ~Resume(k)
    <3>1. Move(k, "noted").pc[i] # "waiting" /\ Move(k, "ok").pc[i] # "waiting"
      BY <1>1
    <3> QED
      BY <3>1, <1>2 DEF Begin, Resume, Record
  <2>2. ~Act(k)
    <3>1. Move(k, "failed").pc[i] # "waiting"
      BY <1>1
    <3>2. Done(k).pc = [walk.pc EXCEPT ![k] = "ok"]
      BY DEF Done, Replay, Types, WalkOf
    <3>3. Done(k).pc[i] # "waiting"
      BY <1>0, <3>2
    <3>4. Act(k) => \E r, next : next \in {Done(k), Move(k, "failed")} /\ Answers(<<"action", k>>, r, next)
      BY DEF Act, Call
    <3> QED
      BY <3>1, <3>3, <3>4, <1>2
  <2>3. ~Park(k)
    <3> SUFFICES ASSUME Park(k) PROVE FALSE
      OBVIOUS
    <3>1. PICK p : p = IF PastCommit(k) THEN "parked" ELSE "waiting"
      OBVIOUS
    <3>2. Answers(<<"waiting", k>>, "done", Move(k, p))
      BY <3>1 DEF Park, Record
    <3>3. Move(k, p).pc[i] = "waiting"
      BY <1>2, <3>2
    <3> QED
      BY <1>0, <1>1, <3>1, <3>3
  <2>4. ~Race(k)
    <3> DEFINE stranded == [walk EXCEPT !.pc[k] = "stranded", !.stranded = k]
    <3>1. Move(k, "failed").pc[i] # "waiting" /\ Move(k, "answered").pc[i] # "waiting"
      BY <1>1
    <3>2. stranded.pc = [walk.pc EXCEPT ![k] = "stranded"]
      BY DEF Replay, Types, WalkOf
    <3>3. stranded.pc[i] # "waiting"
      BY <1>0, <3>2
    <3>4. Race(k) => \E r, next : /\ Answers(<<"race", k>>, r, next)
                                  /\ next \in {Move(k, "answered"), Move(k, "failed"), stranded}
      BY DEF Race
    <3> HIDE DEF stranded
    <3> QED
      BY <3>1, <3>3, <3>4, <1>2
  <2>5. ~Pass(k)
    <3>1. Move(k, "void").pc[i] # "waiting" /\ Move(k, "skipped").pc[i] # "waiting"
      BY <1>1
    <3> QED
      BY <3>1 DEF Pass
  <2>6. AnnounceWait(k)
    BY <1>3, <2>1, <2>2, <2>3, <2>4, <2>5 DEF StepOf
  <2>7. Move(k, "waiting").pc[i] = "waiting"
    BY <2>6, <1>2 DEF AnnounceWait, Announce
  <2> QED
    BY <1>1, <2>6, <2>7
<1>4. ASSUME Started \/ Close \/ Tell \/ Return PROVE FALSE
  <2>1. PICK p : walk' = [walk EXCEPT !.phase = p] \/ walk' = Fresh
    BY <1>4 DEF Started, Close, Tell, Return, Record, Announce, Answers
  <2>2. [walk EXCEPT !.phase = p].pc = walk.pc
    BY DEF Replay, Types, WalkOf
  <2> QED
    BY <1>0, <2>1, <2>2
<1>5. ASSUME Decide \/ Undone PROVE FALSE
  <2>1. PICK v, k : walk' = Closing(v, k) \/ walk' = [walk EXCEPT !.phase = "undoing", !.at = k]
    BY <1>5 DEF Decide, Undone
  <2>2. [walk EXCEPT !.phase = "undoing", !.at = k].pc = walk.pc /\ Closing(v, k).pc = walk.pc
    BY DEF Closing, Replay, Types, WalkOf
  <2> QED
    BY <2>1, <2>2
<1>6. ASSUME Undo PROVE FALSE
  <2>1. PICK k : k = NextUndone(walk.done)
    OBVIOUS
  <2>2. PICK next : /\ next \in {[walk EXCEPT !.done = Front(@)], Closing("failed", k)}
                    /\ walk' = next \/ walk' = Fresh
    BY <1>6, <2>1 DEF Undo, Call, Answers
  <2>3. next.pc = walk.pc
    BY <2>2 DEF Closing, Replay, Types, WalkOf
  <2> QED
    BY <1>0, <2>2, <2>3
<1>7. ASSUME \/ InDoubt \/ Retry \/ Crash \/ UNCHANGED vars
             \/ \E k \in Steps : Fires(k) \/ \E o \in Signals(k) : Signalled(k, o)
      PROVE  FALSE
  <2>1. walk' = walk \/ walk' = Fresh
    BY <1>7 DEF InDoubt, Attempt, Retry, Crash, Fires, Signalled, vars
  <2> QED
    BY <1>0, <2>1
<1> QED
  BY <1>3, <1>4, <1>5, <1>6, <1>7, NoneDies DEF Replay, Next, WalkNext, Walk, Ending

(* A wait is told before it is raced.                                        *)
LEMMA WaitsToldKept == ASSUME Replay, WaitsTold, [Next]_vars, defects' = {} PROVE WaitsTold'
<1>0. slip' = slip /\ Steps' = Steps /\ \A k : Kind(k)' = Kind(k)
  BY WorldGrows DEF Steps, Kind
<1> SUFFICES ASSUME NEW i \in Steps, Kind(i) = "wait",
                    walk'.pc[i] = "waiting" \/ Journaled(<<"race", i>>)' \/ Journaled(<<"flow.waiting", i>>)'
             PROVE  Waited(i)'
  BY <1>0 DEF WaitsTold
<1>1. Waited(i) => Waited(i)'
  BY NewsStays
<1>2. walk.pc[i] = "waiting" \/ Journaled(<<"race", i>>) \/ Journaled(<<"flow.waiting", i>>) => Waited(i)
  BY DEF WaitsTold
<1>3. CASE walk'.pc[i] = "waiting" /\ walk.pc[i] # "waiting"
  BY <1>3, WaitingNow, WaitHeard
<1>4. ASSUME NEW name \in {"race", "flow.waiting"}, Journaled(<<name, i>>)', ~Journaled(<<name, i>>)
      PROVE  Waited(i)'
  <2>1. Entry(<<name, i>>)
    BY <1>4, KeyNow
  <2>2. walk.verdict # name /\ EventOf(walk.verdict) # name
    BY DEF EventOf, Replay, Types, WalkOf, Finals
  <2>3. (name = "race" /\ Race(i)) \/ AnnounceWait(i)
    BY <2>1, <2>2 DEF Entry
  <2> QED
    BY <1>1, <1>2, <2>3, WaitHeard DEF Race
<1> QED
  BY <1>1, <1>2, <1>3, <1>4

(* A walk that turns back is at a step before the commit point, and one that *)
(* is stranded at a wait that timed out.                                     *)
LEMMA PlacesKept == ASSUME Replay, Places, [Next]_vars, defects' = {} PROVE Places'
<1>0. /\ slip' = slip /\ Steps' = Steps /\ \A k : PastCommit(k)' <=> PastCommit(k)
      /\ \A kind, k, r : Said(kind, k, r) => Said(kind, k, r)'
  BY WorldGrows, Stands DEF Steps, PastCommit, CommitPoint, Kind
<1> DEFINE Turned(w) == w.phase = "undoing"
                          \/ (w.phase \in {"closing", "telling", "returning", "over"}
                              /\ w.verdict \in {"compensated", "failed"})
           Left(w) == w.phase \in {"closing", "telling", "returning", "over"} /\ w.verdict = "stranded"
<1>1. /\ Turned(walk) => walk.at \in Steps /\ ~PastCommit(walk.at)
      /\ Left(walk) => walk.at \in Steps /\ Said("race", walk.at, "timeout")
  BY DEF Places, Closes
<1> SUFFICES /\ Turned(walk') => walk'.at \in Steps /\ ~PastCommit(walk'.at)
             /\ Left(walk') => walk'.at \in Steps /\ Said("race", walk'.at, "timeout")
  BY <1>0 DEF Places, Closes
<1>2. CASE Started \/ Retry \/ Crash \/ \E i \in Steps : StepOf(i)
  BY <1>2, WalksOn
<1>3. CASE Decide
  <2>1. CASE walk' = Closing("suspended", Min(Failed)) \/ walk' = Closing("completed", 0)
    <3>1. walk'.verdict \in {"suspended", "completed"} /\ walk'.phase = "closing"
      BY <2>1 DEF Closing, Replay, Types, WalkOf
    <3> QED
      BY <3>1
  <2>2. CASE /\ walk' = [walk EXCEPT !.phase = "undoing", !.at = Min(Failed)] /\ ~PastCommit(Min(Failed))
             /\ Failed # {} /\ \A i \in Stage(Min(Failed)) : Over(Group(i))
    <3>1. walk'.phase = "undoing" /\ walk'.at = Min(Failed)
      BY <2>2 DEF Replay, Types, WalkOf
    <3>2. Min(Failed) \in Steps
      BY <2>2, StoppedStage DEF Replay, Failed
    <3> QED
      BY <2>2, <3>1, <3>2
  <2>3. CASE walk.stranded # 0 /\ walk' = Closing("stranded", walk.stranded)
    <3> DEFINE w == walk.stranded
    <3>1. walk'.phase = "closing" /\ walk'.verdict = "stranded" /\ walk'.at = w
      BY <2>3 DEF Closing, Replay, Types, WalkOf
    <3>2. w \in Steps /\ walk.pc[w] = "stranded"
      BY <2>3 DEF Replay, Types, WalkOf, Course, Strand
    <3>3. Said("race", w, "timeout")
      BY <3>2 DEF Replay, Course, Met, Meets
    <3> QED
      BY <3>1, <3>2, <3>3
  <2> QED
    BY <1>3, <2>1, <2>2, <2>3 DEF Decide
<1>4. CASE Undo
  <2>1. PICK u : u = NextUndone(walk.done)
    OBVIOUS
  <2>2. PICK next : /\ next \in {[walk EXCEPT !.done = Front(@)], Closing("failed", u)}
                    /\ walk' = next \/ walk' = Fresh
    BY <1>4, <2>1 DEF Undo, Call, Answers
  <2>3. CASE walk' = Fresh
    BY <2>3 DEF Fresh
  <2>4. CASE walk' = [walk EXCEPT !.done = Front(@)]
    <3>1. walk'.phase = "undoing" /\ walk'.at = walk.at
      BY <1>4, <2>4 DEF Undo, Replay, Types, WalkOf
    <3> QED
      BY <1>1, <1>4, <3>1 DEF Undo
  <2>5. CASE walk' = Closing("failed", u)
    <3>1. walk'.verdict = "failed" /\ walk'.at = u
      BY <2>5 DEF Closing, Replay, Types, WalkOf
    <3>2. u \in Range(walk.done)
      BY <1>4, <2>1, FrontFits DEF Undo, Replay, Types
    <3>3. u \in Steps /\ Kind(u) = "compensatable" /\ slip \in Slips
      BY <3>2 DEF Replay, Types, WalkOf
    <3> QED
      BY <3>1, <3>3, BeforeCommit
  <2> QED
    BY <2>2, <2>3, <2>4, <2>5
<1>5. CASE Undone
  <2>1. walk'.verdict = "compensated" /\ walk'.at = walk.at
    BY <1>5 DEF Undone, Closing, Replay, Types, WalkOf
  <2> QED
    BY <1>1, <1>5, <2>1 DEF Undone
<1>6. CASE Close \/ Tell \/ Return
  <2>1. PICK p : walk' = [walk EXCEPT !.phase = p] \/ walk' = Fresh
    BY <1>6 DEF Close, Tell, Return, Record, Announce, Answers
  <2>2. CASE walk' = Fresh
    BY <2>2 DEF Fresh
  <2>3. CASE walk' = [walk EXCEPT !.phase = p]
    <3>1. walk'.verdict = walk.verdict /\ walk'.at = walk.at
      BY <2>3 DEF Replay, Types, WalkOf
    <3>2. \/ walk'.phase = "starting"
          \/ walk.phase \in {"closing", "telling", "returning"} /\ walk'.phase # "undoing"
      BY <1>6, ClosesOn
    <3> QED
      BY <1>1, <3>1, <3>2
  <2> QED
    BY <2>1, <2>2, <2>3
<1>7. CASE \/ InDoubt \/ UNCHANGED vars
           \/ \E i \in Steps : Fires(i) \/ \E o \in Signals(i) : Signalled(i, o)
  <2>1. walk' = walk
    BY <1>7 DEF InDoubt, Attempt, Fires, Signalled, vars
  <2> QED
    BY <1>1, <2>1
<1> QED
  BY <1>2, <1>3, <1>4, <1>5, <1>6, <1>7, NoneDies DEF Replay, Next, WalkNext, Walk, Ending

(* A flow that said it completed came past the commit point; one that said   *)
(* it was stranded has a wait that timed out.                                *)
LEMMA CausesKept ==
  ASSUME Replay, Completes, Places, Causes, [Next]_vars, defects' = {}
  PROVE  Causes'
<1>0. /\ slip' = slip /\ Steps' = Steps /\ \A k : PastCommit(k)' <=> PastCommit(k)
      /\ \A kind, k, r : Said(kind, k, r) => Said(kind, k, r)'
  BY WorldGrows, Stands DEF Steps, PastCommit, CommitPoint, Kind
<1>1. Came => Came'
  BY <1>0 DEF Came
<1>2. Closes({"completed"}) => Came
  <2> SUFFICES ASSUME Closes({"completed"}), NEW m \in Steps, ~PastCommit(m) PROVE Said("action", m, "ok")
    BY DEF Came
  <2>1. walk.pc[m] \in {"ok", "skipped"} /\ Meets(m, walk.pc[m])
    BY NoneDies, NothingFell DEF Completes, Replay, Course, Met
  <2>2. Kind(m) # "wait" /\ slip[m].guard = 0
    BY BeforeCommit DEF Replay, Types
  <2> QED
    BY <2>1, <2>2 DEF Meets
<1>3. "flow.completed" \in Heard' => Came'
  <2> SUFFICES ASSUME "flow.completed" \in Heard', "flow.completed" \notin Heard PROVE Came'
    BY <1>1 DEF Causes
  <2>1. Tell /\ EventOf(walk.verdict) = "flow.completed"
    BY HeardNow
  <2>2. Closes({"completed"})
    BY <2>1 DEF EventOf, Tell, Closes
  <2> QED
    BY <1>1, <1>2, <2>2
<1>4. "flow.stranded" \in Heard' => \E w \in Steps : Said("race", w, "timeout")'
  <2>1. CASE "flow.stranded" \in Heard
    BY <1>0, <2>1 DEF Causes
  <2>2. CASE "flow.stranded" \in Heard' \ Heard
    <3>1. Tell /\ EventOf(walk.verdict) = "flow.stranded"
      BY <2>2, HeardNow
    <3>2. Closes({"stranded"})
      BY <3>1 DEF EventOf, Tell, Closes
    <3> QED
      BY <1>0, <3>2 DEF Places
  <2> QED
    BY <2>1, <2>2
<1> QED
  BY <1>0, <1>3, <1>4 DEF Causes

(* An ending that was heard comes in order, or after a wait that was told.   *)
Overtaken(n) == \E m \in 1 .. n - 1 : news[m].name = "flow.waiting" /\ news[m].version >= news[n].version
InOrderOr(n) == Stale(n) => news[n].name # "flow.completed" /\ Overtaken(n)
Hears == \A v \in Finals : EventOf(v) \in Heard =>
  \E n \in DOMAIN news : news[n].name = EventOf(v) /\ InOrderOr(n)

(* A wait that timed out was told, and stands after what a flow turns back   *)
(* at.                                                                       *)
LEMMA TimedOutTold ==
  ASSUME Replay, WaitsTold, NEW w \in Steps, Said("race", w, "timeout"), NEW k \in Steps, ~PastCommit(k)
  PROVE  Waited(w) /\ k <= w
<1>1. Kind(w) = "wait" /\ slip \in Slips
  BY DEF Said, Replay, Types, Log, LogOf
<1>2. Waited(w)
  BY <1>1 DEF WaitsTold, Said
<1>3. PastCommit(w)
  BY <1>1, BeforeCommit
<1> QED
  BY <1>1, <1>2, <1>3, StepsCounted DEF PastCommit, CommitPoint

(* Where an ending is told for the first time, what comes before it is known. *)
LEMMA ToldInOrder ==
  ASSUME Replay, defects = {}, TurnsBack, Stops, WaitsTold, Versions, Places, Causes, Tell, NEW v \in Finals,
         walk.verdict = v, EventOf(v) \notin Heard,
         NEW m \in DOMAIN news, OrdinalOf(v, walk.at) <= news[m].version
  PROVE  v # "completed" /\ \E k \in DOMAIN news : news[k].name = "flow.waiting" /\ news[k].version >= walk.at
<1> DEFINE at == walk.at
<1>0. /\ Len(slip) \in Nat /\ Steps = 1 .. Len(slip) /\ at \in Steps \union {0}
      /\ news[m].name \in Names /\ news[m].version \in Nat
  <2>1. news[m] \in [name : Names, step : Steps \union {0}, version : Nat]
    <3>1. DOMAIN news = 1 .. Len(news) /\ news \in Seq([name : Names, step : Steps \union {0}, version : Nat])
      BY LenProperties DEF Replay, Types
    <3> QED
      BY <3>1, ElementOfSeq
  <2> QED
    BY <2>1, StepsCounted DEF Replay, Types, WalkOf
<1>1. v # "completed"
  <2>1. v = "completed" => news[m].name # "flow.completed"
    BY DEF Heard, EventOf
  <2> QED
    BY <1>0, <2>1 DEF Versions, OrdinalOf
<1>2. at <= news[m].version
  BY <1>1 DEF OrdinalOf
<1>3. ASSUME NEW w \in Steps, Waited(w), at <= w
      PROVE  \E k \in DOMAIN news : news[k].name = "flow.waiting" /\ news[k].version >= at
  BY <1>0, <1>3 DEF Waited
<1>4. CASE v = "stranded"
  <2>1. at \in Steps /\ Said("race", at, "timeout")
    BY <1>4 DEF Places, Closes, Tell
  <2>2. Kind(at) = "wait"
    BY <2>1 DEF Said, Replay, Log, LogOf
  <2>3. Waited(at)
    BY <2>1, <2>2 DEF WaitsTold, Said
  <2> QED
    BY <1>0, <1>1, <1>3, <2>1, <2>3
<1>5. CASE v \in {"failed", "compensated"}
  <2>1. at \in Steps /\ ~PastCommit(at) /\ FailedBefore
    BY <1>5 DEF Places, TurnsBack, Closes, Tell
  <2>2. ~Came
    BY <2>1 DEF FailedBefore, Came, Said
  <2>3. news[m].name # "flow.completed"
    BY <2>2 DEF Causes, Heard
  <2>4. news[m].name # "flow.failed"
    BY <1>5 DEF Heard, EventOf
  <2>5. news[m].name # "flow.started"
    BY <1>0, <1>2, <2>1 DEF Versions
  <2>6. news[m].name \in {"flow.suspended", "flow.stranded"} => \E w \in Steps : Said("race", w, "timeout")
    <3>1. CASE news[m].name = "flow.suspended"
      <4>1. Stopped
        BY <3>1 DEF Stops
      <4>2. StrandedBeside
        BY <2>1, <4>1, NothingFell DEF Stopped, FailedBefore, Said
      <4> QED
        BY <4>2 DEF StrandedBeside, Stage
    <3>2. CASE news[m].name = "flow.stranded"
      BY <3>2 DEF Causes, Heard
    <3> QED
      BY <3>1, <3>2
  <2>7. CASE news[m].name = "flow.waiting"
    BY <1>0, <1>1, <1>2, <2>7
  <2>8. CASE news[m].name \in {"flow.suspended", "flow.stranded"}
    <3>1. PICK w \in Steps : Said("race", w, "timeout")
      BY <2>6, <2>8
    <3> QED
      BY <1>1, <1>3, <2>1, <3>1, TimedOutTold
  <2> QED
    BY <1>0, <2>3, <2>4, <2>5, <2>7, <2>8 DEF Names
<1> QED
  BY <1>1, <1>4, <1>5 DEF Finals

(* What was heard of the end in order stays so, and what is told of it is.   *)
LEMMA HearsKept ==
  ASSUME Replay, TurnsBack, Stops, WaitsTold, Versions, Places, Causes, Hears, [Next]_vars, defects' = {}
  PROVE  Hears'
<1>0. Types /\ Len(news) \in Nat /\ DOMAIN news = 1 .. Len(news)
  BY OneMore DEF Replay
<1> SUFFICES ASSUME NEW v \in Finals, EventOf(v) \in Heard'
             PROVE  \E n \in DOMAIN news' : news'[n].name = EventOf(v) /\ InOrderOr(n)'
  BY DEF Hears, EventOf
<1>1. CASE EventOf(v) \in Heard
  <2>1. PICK n \in DOMAIN news : news[n].name = EventOf(v) /\ InOrderOr(n)
    BY <1>1 DEF Hears
  <2>2. \A m \in DOMAIN news : m \in DOMAIN news' /\ news'[m] = news[m]
    BY NewsStays
  <2>3. \A m \in 1 .. n - 1 : news'[m] = news[m]
    BY <1>0, <2>2
  <2>4. InOrderOr(n)'
    BY <2>1, <2>2, <2>3 DEF InOrderOr, Stale, Overtaken
  <2> QED
    BY <2>1, <2>2, <2>4
<1>2. CASE EventOf(v) \notin Heard
  <2>1. news' # news
    BY <1>2 DEF Heard
  <2>2. PICK e : /\ news' = Append(news, e)
                 /\ \/ e.name = "flow.started" /\ e.version = 0
                    \/ e.name = "flow.waiting" /\ \E i \in Steps : AnnounceWait(i) /\ e.version = i
                    \/ /\ Tell /\ e.name = EventOf(walk.verdict)
                       /\ e.version = OrdinalOf(walk.verdict, walk.at)
    BY <2>1, NewsNow
  <2>n. PICK n : n = Len(news) + 1
    OBVIOUS
  <2>3. n \in DOMAIN news' /\ news'[n] = e /\ 1 .. n - 1 = DOMAIN news /\ \A m \in DOMAIN news : news'[m] = news[m]
    BY <1>0, <2>2, <2>n, OneMore
  <2>4. e.name = EventOf(v)
    <3>1. PICK k \in DOMAIN news' : news'[k].name = EventOf(v)
      BY DEF Heard
    <3>2. k \in DOMAIN news \/ k = n
      BY <1>0, <2>2, <2>n, OneMore
    <3> QED
      BY <1>2, <2>3, <3>1, <3>2 DEF Heard
  <2>5. Tell /\ EventOf(walk.verdict) = EventOf(v) /\ e.version = OrdinalOf(walk.verdict, walk.at)
    BY <2>2, <2>4, EndingNames
  <2>6. PICK u \in Finals : u = walk.verdict
    <3>1. walk.verdict \in Finals \union {"none", "suspended", "died"} /\ walk.verdict \notin {"none", "died"}
      BY <2>5 DEF Replay, Types, WalkOf, Tell
    <3>2. walk.verdict # "suspended"
      BY <2>5, EndingNames DEF EventOf
    <3> QED
      BY <3>1, <3>2
  <2>7. ASSUME NEW m \in DOMAIN news, e.version <= news[m].version
        PROVE  /\ e.name # "flow.completed"
               /\ \E k \in DOMAIN news : news[k].name = "flow.waiting" /\ news[k].version >= e.version
    <3>1. u # "completed" /\ \E k \in DOMAIN news : news[k].name = "flow.waiting" /\ news[k].version >= walk.at
      BY <1>2, <2>5, <2>6, <2>7, NoneDies, ToldInOrder DEF Replay
    <3>2. e.version = walk.at
      BY <2>5, <2>6, <3>1 DEF OrdinalOf
    <3>3. e.name # "flow.completed"
      BY <2>4, <2>5, <2>6, <3>1 DEF EventOf
    <3> QED
      BY <3>1, <3>2, <3>3
  <2>8. InOrderOr(n)'
    <3>1. (\E m \in 1 .. n - 1 : news'[n].version <= news'[m].version)
            => /\ news'[n].name # "flow.completed"
               /\ \E m \in 1 .. n - 1 : news'[m].name = "flow.waiting" /\ news'[m].version >= news'[n].version
      BY <2>3, <2>7
    <3> QED
      BY <3>1 DEF InOrderOr, Stale, Overtaken
  <2> QED
    BY <2>3, <2>4, <2>8
<1> QED
  BY <1>1, <1>2

(* What is heard of a flow, with ReplaysInvariant.                           *)
HearInv == Told /\ Tells /\ WaitsTold /\ Versions /\ Places /\ Causes /\ Hears

(* Every step of the flow keeps it.                                          *)
LEMMA HearInvKept == ASSUME Replay, Closings, HearInv, [Next]_vars, defects' = {} PROVE HearInv'
<1>1. Told' /\ Tells'
  BY ToldKept DEF HearInv
<1>2. WaitsTold' /\ Versions' /\ Places'
  BY WaitsToldKept, VersionsKept, PlacesKept DEF HearInv
<1>3. Causes' /\ Hears'
  BY CausesKept, HearsKept DEF HearInv, Closings
<1> QED
  BY <1>1, <1>2, <1>3 DEF HearInv

(* It holds of a flow that starts.                                           *)
LEMMA HearInvStart == Init => HearInv
<1> SUFFICES ASSUME Init PROVE HearInv
  OBVIOUS
<1>1. walk.phase = "starting" /\ \A i \in Steps : walk.pc[i] = "todo"
  BY DEF Init, Fresh
<1>2. \A b : ~Journaled(b)
  BY DEF Init, Journaled
<1>3. DOMAIN news = {} /\ Heard = {}
  <2>1. news = <<>> /\ Len(<<>>) = 0 /\ DOMAIN <<>> = 1 .. 0
    BY EmptySeq DEF Init
  <2> QED
    BY <2>1 DEF Heard
<1> QED
  BY <1>1, <1>2, <1>3 DEF HearInv, Told, Tells, WaitsTold, Versions, Places, Causes, Hears, Closes

(* An ending that was heard in order, or overtaken by a wait, is what        *)
(* HeardUnlessWaited asks for.                                               *)
LEMMA HeardOfIt == Replay /\ Closings /\ HearInv => HeardUnlessWaited
<1> SUFFICES ASSUME Replay, Closings, HearInv, result \in Finals
             PROVE  \E n \in DOMAIN news :
                      /\ news[n].name = EventOf(result)
                      /\ Stale(n) => /\ result # "completed"
                                     /\ \E m \in 1 .. n - 1 : /\ news[m].name = "flow.waiting"
                                                              /\ news[m].version >= news[n].version
  BY DEF HeardUnlessWaited
<1>1. walk.phase = "over" /\ walk.verdict = result
  BY DEF Closings, Resulted, Gone, Finals
<1>2. EventOf(result) \in Heard
  BY <1>1 DEF HearInv, Tells
<1>3. PICK n \in DOMAIN news : news[n].name = EventOf(result) /\ InOrderOr(n)
  BY <1>2 DEF HearInv, Hears
<1>4. news[n].name # "flow.completed" => result # "completed"
  BY <1>3 DEF EventOf
<1> QED
  BY <1>3, <1>4 DEF InOrderOr, Overtaken

(* A consumer that drops what is behind the version it has hears that a flow *)
(* completed, and hears any other ending unless a wait at or after it was    *)
(* told, through every crash and replay.                                     *)
THEOREM HearsTheEnd == Spec => [](defects = {} => HeardUnlessWaited)
<1>1. Replay /\ Closings /\ (defects = {} => HearInv) /\ [Next]_vars => (defects = {} => HearInv)'
  BY HearInvKept, NoneDies DEF Replay
<1> QED
  BY <1>1, HearInvStart, HeardOfIt, ReplaysInvariant, PTL DEF Spec

(* The callers do not announce.                                              *)
LEMMA HearBeside == ASSUME FlowInv, HearInv, [FlowNext]_flowVars, ~Flow PROVE HearInv'
<1>1. UNCHANGED <<slip, journal, defects, news, acted>>
  BY BesideSteps
<1>2. /\ walk' = walk \/ (/\ walk'.phase = "over" /\ walk'.verdict = "none"
                         /\ \A i \in Steps : walk'.pc[i] = "todo")
  BY BesideSteps DEF Interrupted, Fresh
<1>3. \A i : Waited(i)' <=> Waited(i)
  BY <1>1 DEF Waited
<1>4. Told' /\ Tells'
  BY <1>1, <1>2, SaysTheSame DEF HearInv, Told, Tells, EventOf, Finals
<1>5. WaitsTold' /\ Versions'
  BY <1>1, <1>2, <1>3, SaysTheSame DEF HearInv, WaitsTold, Versions
<1>6. Places' /\ Causes'
  BY <1>1, <1>2, SaysTheSame DEF HearInv, Places, Causes, Came, Closes
<1>7. Hears'
  BY <1>1, SaysTheSame DEF HearInv, Hears, InOrderOr, Stale, Overtaken, EventOf
<1> QED
  BY <1>4, <1>5, <1>6, <1>7 DEF HearInv

(* A consumer of a flow with callers hears as much of its end, interrupts    *)
(* and signals whenever they come.                                           *)
THEOREM HearsBesideCallers == FlowSpec => [](defects = {} => HeardUnlessWaited)
<1>1. FlowInv /\ (defects = {} => HearInv) /\ [FlowNext]_flowVars => (defects = {} => HearInv)'
  <2> SUFFICES ASSUME FlowInv, defects = {} => HearInv, [FlowNext]_flowVars, defects' = {} PROVE HearInv'
    OBVIOUS
  <2>1. CASE Flow
    <3>1. [Next]_vars /\ defects = {}
      BY <2>1, NoneDies DEF FlowInv, Replay, Flow, Next
    <3> QED
      BY <3>1, HearInvKept DEF FlowInv
  <2>2. CASE ~Flow
    BY <2>2, BesideSteps, HearBeside
  <2> QED
    BY <2>1, <2>2
<1>2. FlowInv /\ HearInv => HeardUnlessWaited
  BY HeardOfIt DEF FlowInv
<1>3. FlowInit => HearInv
  BY HearInvStart DEF FlowInit
<1> QED
  BY <1>1, <1>2, <1>3, FlowInvariant, PTL DEF FlowSpec

=============================================================================
