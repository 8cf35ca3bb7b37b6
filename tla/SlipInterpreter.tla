--------------------------- MODULE SlipInterpreter ---------------------------
(***************************************************************************)
(* One flow: walkSlip of workflow/src/interpreter/slip-workflow.ts over a  *)
(* pinned slip. The walk's own variables are lost when the runner stops;   *)
(* it then walks again from the start, and every activity the journal      *)
(* holds answers what it answered before without having its effect again.  *)
(* A step is its ordinal in the slip. Grammar 2, which announces the waits *)
(* past the commit point.                                                  *)
(***************************************************************************)
EXTENDS Naturals, FiniteSets, SequencesExt

CONSTANTS Slips,          \* the slips the flow may be started with
          Outcomes,       \* what a signal, or a timeout, may answer a wait with
          concurrency,    \* the dial: segments of one stage run at once
          MaxCrashes, MaxDefects   \* bounds

NoSegment == "none"

(* The rules of validateSlip on where a step may stand and what it may be guarded on. *)
ValidSlip(s) ==
  LET Pivots == {i \in DOMAIN s : s[i].kind = "pivot"}
      Before(i) == \A p \in Pivots : i < p        \* with no pivot, every step
      After(i) == \E p \in Pivots : i > p
      AnswersOf(w) == s[w].accepts \union ({s[w].onTimeout} \intersect Outcomes)
  IN /\ \A p, q \in Pivots : p = q
     /\ \A i \in DOMAIN s :
          /\ s[i].kind = "retriable" => After(i)
          /\ s[i].kind = "compensatable" => ~After(i)
          /\ s[i].kind = "wait" => ~Before(i)
          /\ s[i].guard # 0 =>
               /\ s[i].guard < i /\ s[s[i].guard].kind = "wait"
               /\ s[i].on \subseteq AnswersOf(s[i].guard)

Step == [kind : {"compensatable", "pivot", "retriable", "wait"},
         stage : Nat \ {0},
         segment : STRING,
         guard : Nat, on : SUBSET Outcomes,            \* 0: no guard
         accepts : SUBSET Outcomes,                    \* a wait's; {}: undeclared
         onTimeout : {"never", "fail", "strand"} \union Outcomes]

ASSUME SlipsAssumption == \A s \in Slips :
  /\ s \in Seq(Step)
  /\ \A i, j \in DOMAIN s : i < j => s[i].stage <= s[j].stage
  /\ ValidSlip(s)

ASSUME DialsAssumption ==
  /\ concurrency \in Nat \ {0} /\ MaxCrashes \in Nat /\ MaxDefects \in Nat
  /\ {"never", "fail", "strand", "empty", "none", "unnamed", "timeout"} \intersect Outcomes = {}

VARIABLES slip,       \* the payload of the workflow
          journal,    \* what each activity answered, for those that have
          defects,    \* those that died of their store, journaled like an answer
          result,     \* the workflow's: none | suspended | how the flow ended
          status,     \* the flow's record: its state, and the wait it is parked on
          address,    \* the waits whose correlation and accepts the record carries
          news,       \* the flow.* events enqueued, in order
          acted,      \* the calls that had their effect, at the participant
          deferred,   \* what each wait's durable deferred holds
          clock,      \* the waits whose durable clock has fired
          walk,       \* the locals of walkSlip
          crashes

durable == <<slip, journal, defects, result, status, address, news, acted, deferred, clock>>
vars == <<durable, walk, crashes>>

Steps == DOMAIN slip
Kind(i) == slip[i].kind

(* commitPoint: the pivot's place; past it the flow rolls forward. *)
CommitPoint == {i \in Steps : Kind(i) = "pivot"}

(* Mutant: the step after the pivot still counts as before it. *)
PastCommitLate(i) == \E p \in CommitPoint : i > p + 1

PastCommit(i) == \E p \in CommitPoint : i > p

-----------------------------------------------------------------------------
(* Stages and groups *)

Stage(i) == {j \in Steps : slip[j].stage = slip[i].stage}

(* groupsOf: one group for each segment, if every step of the stage has one. *)
Group(i) ==
  IF \E j \in Stage(i) : slip[j].segment = NoSegment
    THEN Stage(i) ELSE {j \in Stage(i) : slip[j].segment = slip[i].segment}

(* A step is todo, then noted (recorded running), parked, waiting, answered, *)
(* and ends ok, failed, skipped by its guard, void, stranded, died of its store, or  *)
(* lost to a step of its group that did.                                             *)
Ended(i) == walk.pc[i] \in {"ok", "skipped", "void", "stranded", "died", "lost"}
Failed == {i \in Steps : walk.pc[i] = "failed"}

(* Mutant: the join waits for every step, not for every group's exit. *)
EveryStepOver(g) == \A i \in g : Ended(i)

Over(g) == (\A i \in g : Ended(i)) \/ g \intersect Failed # {}

(* forEach with its concurrency: groups start in order, so many at once. *)
Running(i) == Cardinality({Group(j) : j \in {k \in Stage(i) :
                Min(Group(k)) < Min(Group(i)) /\ ~Over(Group(k))}}) < concurrency

(* It is this step's turn: the stages before are over and the group has come to it. *)
Turn(i) ==
  /\ walk.phase = "walking" /\ walk.pc[i] = "todo"
  /\ \A j \in Steps : slip[j].stage < slip[i].stage => Ended(j)
  /\ \A j \in Group(i) : j < i => Ended(j)
  /\ Failed \ Stage(i) = {} /\ walk.stranded \in Stage(i) \union {0}
  /\ Running(i)

Fresh == [phase |-> "starting", pc |-> [i \in Steps |-> "todo"], done |-> <<>>,
          stranded |-> 0, verdict |-> "none", at |-> 0]

AddressOf(i) == [correlation |-> i, accepts |-> i]

Move(i, p) == [walk EXCEPT !.pc[i] = p]

Init ==
  /\ slip \in Slips
  /\ journal = <<>> /\ defects = {} /\ result = "none" /\ news = <<>> /\ acted = {} /\ clock = {}
  /\ status = [state |-> "running", waiting |-> 0] /\ address = AddressOf(0)
  /\ deferred = [i \in Steps |-> "empty"]
  /\ walk = Fresh /\ crashes = 0

-----------------------------------------------------------------------------
(* Activities *)

(* Mutant: only what succeeded is kept, and a replay calls what failed again. *)
JournaledIfDone(a) == a \in DOMAIN journal /\ journal[a] # "failed"

Journaled(a) == a \in DOMAIN journal

(* Once its effect has happened the journal keeps what it answered; a runner *)
(* that stops between the two leaves the effect alone.                       *)
Answers(a, r, next) ==
  IF Journaled(a) THEN walk' = next /\ UNCHANGED <<journal, crashes>>
  ELSE \/ /\ journal' = [b \in DOMAIN journal \union {a} |-> IF b = a THEN r ELSE journal[b]]
          /\ walk' = next /\ UNCHANGED crashes
       \/ /\ crashes < MaxCrashes /\ crashes' = crashes + 1
          /\ walk' = Fresh /\ UNCHANGED journal

(* The flow's record is written, whole. *)
Written(state, waiting) ==
  /\ status' = [state |-> state, waiting |-> waiting]
  /\ address' = AddressOf(waiting)

(* record *)
Record(a, state, waiting, next) ==
  /\ a \notin defects
  /\ IF Journaled(a) THEN UNCHANGED <<status, address>> ELSE Written(state, waiting)
  /\ Answers(a, "done", next)
  /\ UNCHANGED <<slip, defects, result, news, acted, deferred, clock>>

(* announce: an event enqueued, once by its id, with the ordinal as its version. *)
Announce(name, i, ordinal, next) ==
  LET e == [name |-> name, step |-> i, version |-> ordinal]
  IN /\ <<name, i>> \notin defects
     /\ news' = IF Journaled(<<name, i>>) \/ e \in Range(news) THEN news ELSE Append(news, e)
     /\ Answers(<<name, i>>, "done", next)
     /\ UNCHANGED <<slip, defects, result, status, address, acted, deferred, clock>>

(* The store fails the write, which may have landed; orDie makes it a defect, which  *)
(* every replay meets again.                                                         *)
Dies(a, next) ==
  /\ ~Journaled(a) /\ defects' = defects \union {a} /\ Cardinality(defects') <= MaxDefects
  /\ walk' = next
  /\ UNCHANGED <<slip, journal, result, acted, deferred, clock, crashes>>

RecordDies(a, state, waiting, next) ==
  /\ Dies(a, next) /\ UNCHANGED news
  /\ \/ UNCHANGED <<status, address>>
     \/ a \notin defects /\ Written(state, waiting)

AnnounceDies(name, i, ordinal, next) ==
  LET e == [name |-> name, step |-> i, version |-> ordinal]
  IN /\ Dies(<<name, i>>, next) /\ UNCHANGED <<status, address>>
     /\ \/ UNCHANGED news
        \/ <<name, i>> \notin defects /\ e \notin Range(news) /\ news' = Append(news, e)

(* call: the participant's answer, or the failure its attempts ended with. A call  *)
(* that failed may have had its effect, by an attempt that was not answered.       *)
Call(kind, i, succeeded, refused) ==
  \E r \in IF Journaled(<<kind, i>>) THEN {journal[<<kind, i>>]} ELSE {"ok", "failed"} :
    /\ acted' = IF r = "ok" THEN acted \union {<<kind, i>>} ELSE acted
    /\ Answers(<<kind, i>>, r, IF r = "ok" THEN succeeded ELSE refused)
    /\ UNCHANGED <<slip, defects, result, status, address, news, deferred, clock>>

Attempt(kind, i) ==
  /\ ~Journaled(<<kind, i>>) /\ <<kind, i>> \notin acted
  /\ acted' = acted \union {<<kind, i>>}
  /\ UNCHANGED <<slip, defects, journal, result, status, address, news, deferred, clock, walk, crashes>>

-----------------------------------------------------------------------------
(* run: one step *)

Started ==
  /\ walk.phase = "starting"
  /\ Announce("flow.started", 0, 0, [walk EXCEPT !.phase = "walking"])

(* What a wait was answered with, for the guards on it. *)
Answered(w) ==
  IF walk.pc[w] \in {"answered", "ok"} \/ (walk.pc[w] = "died" /\ Journaled(<<"race", w>>))
    THEN journal[<<"race", w>>] ELSE "none"

GuardPasses(i) ==
  LET w == slip[i].guard IN IF w = 0 THEN TRUE ELSE Answered(w) \in slip[i].on

(* A stranded flow runs nothing more; a step its guard does not let in is skipped. *)
Pass(i) ==
  /\ Turn(i)
  /\ \/ walk.stranded # 0 /\ walk' = Move(i, "void")
     \/ walk.stranded = 0 /\ ~GuardPasses(i) /\ walk' = Move(i, "skipped")
  /\ UNCHANGED <<durable, crashes>>

Begin(i) ==
  /\ Turn(i) /\ walk.stranded = 0 /\ GuardPasses(i) /\ Kind(i) # "wait"
  /\ Record(<<"running", i>>, "running", 0, Move(i, "noted"))

(* Mutant: a step is to be undone once it has been called, whatever it answered. *)
DoneCalled(i) == [walk EXCEPT !.pc[i] = "ok", !.done = <<i>> \o @]

(* What succeeded and can be undone is remembered in the order it was done. *)
Done(i) == [walk EXCEPT !.pc[i] = "ok",
              !.done = IF Kind(i) = "compensatable" THEN Append(@, i) ELSE @]

Act(i) == walk.pc[i] = "noted" /\ Call("action", i, Done(i), Move(i, "failed"))

Park(i) ==
  /\ Turn(i) /\ walk.stranded = 0 /\ GuardPasses(i) /\ Kind(i) = "wait"
  /\ Record(<<"waiting", i>>, "waiting", i, Move(i, IF PastCommit(i) THEN "parked" ELSE "waiting"))

AnnounceWait(i) ==
  walk.pc[i] = "parked" /\ Announce("flow.waiting", i, i, Move(i, "waiting"))

(* The durable race of the signal and the clock, where the wait has a timeout. *)
Race(i) ==
  LET Clocked == IF slip[i].onTimeout \in Outcomes THEN slip[i].onTimeout ELSE "timeout"
      Possible == ({deferred[i]} \ {"empty"}) \union (IF i \in clock THEN {Clocked} ELSE {})
      After(r) == IF r # "timeout" THEN Move(i, "answered")
                  ELSE IF slip[i].onTimeout = "strand"
                    THEN [walk EXCEPT !.pc[i] = "stranded", !.stranded = i]
                    ELSE Move(i, "failed")
  IN /\ walk.pc[i] = "waiting"
     /\ \E r \in IF Journaled(<<"race", i>>) THEN {journal[<<"race", i>>]} ELSE Possible :
          Answers(<<"race", i>>, r, After(r))
     /\ UNCHANGED <<slip, defects, result, status, address, news, acted, deferred, clock>>

Resume(i) ==
  walk.pc[i] = "answered" /\ Record(<<"resumed", i>>, "running", 0, Move(i, "ok"))

(* Mutant: a defect of one group interrupts the others of the stage. *)
LostStage(i) == [walk EXCEPT !.pc = [j \in Steps |->
                  IF j = i THEN "died" ELSE IF j \in Stage(i) /\ @[j] = "todo" THEN "lost" ELSE @[j]]]

(* A defect ends the group: its exit is no failure, so the stage counts it as over.  *)
Lost(i) == [walk EXCEPT !.pc = [j \in Steps |->
             IF j = i THEN "died" ELSE IF j \in Group(i) /\ @[j] = "todo" THEN "lost" ELSE @[j]]]

Breaks(i) ==
  \/ /\ Turn(i) /\ walk.stranded = 0 /\ GuardPasses(i)
     /\ IF Kind(i) = "wait" THEN RecordDies(<<"waiting", i>>, "waiting", i, Lost(i))
                            ELSE RecordDies(<<"running", i>>, "running", 0, Lost(i))
  \/ walk.pc[i] = "parked" /\ AnnounceDies("flow.waiting", i, i, Lost(i))
  \/ walk.pc[i] = "answered" /\ RecordDies(<<"resumed", i>>, "running", 0, Lost(i))

-----------------------------------------------------------------------------
(* The walk's end *)

Closing(verdict, i) == [walk EXCEPT !.phase = "closing", !.verdict = verdict, !.at = i]

(* Once every group of the stage is over, the earliest step that failed decides. *)
Decide ==
  /\ walk.phase = "walking"
  /\ \/ /\ Failed # {} /\ \A i \in Stage(Min(Failed)) : Over(Group(i))
        /\ walk' = IF PastCommit(Min(Failed)) THEN Closing("suspended", Min(Failed))
                   ELSE [walk EXCEPT !.phase = "undoing", !.at = Min(Failed)]
     \/ /\ Failed = {} /\ walk.stranded # 0
        /\ \A i \in Stage(walk.stranded) : Ended(i)
        /\ walk' = Closing("stranded", walk.stranded)
     \/ /\ Failed = {} /\ walk.stranded = 0 /\ \A i \in Steps : Ended(i)
        /\ walk' = Closing("completed", 0)
  /\ UNCHANGED <<durable, crashes>>

(* Mutant: undone in the order done. *)
NextUndoneFirst(done) == Head(done)

(* What was done is undone in reverse. *)
NextUndone(done) == Last(done)

(* An undoing that fails stops the flow where it is. *)
Undo ==
  LET u == NextUndone(walk.done) IN
  /\ walk.phase = "undoing" /\ walk.done # <<>>
  /\ Call("undo", u, [walk EXCEPT !.done = Front(@)], Closing("failed", u))

Undone ==
  /\ walk.phase = "undoing" /\ walk.done = <<>>
  /\ walk' = Closing("compensated", walk.at)
  /\ UNCHANGED <<durable, crashes>>

Close ==
  /\ walk.phase = "closing"
  /\ Record(<<walk.verdict, walk.at>>, walk.verdict, 0, [walk EXCEPT !.phase = "telling"])

EventOf(verdict) ==
  CASE verdict = "suspended" -> "flow.suspended"
    [] verdict = "stranded" -> "flow.stranded"
    [] verdict = "completed" -> "flow.completed"
    [] OTHER -> "flow.failed"

(* Mutant: the completion carries the last step's ordinal. *)
OrdinalOfLast(verdict, i) == IF verdict = "completed" THEN Len(slip) ELSE i

OrdinalOf(verdict, i) == IF verdict = "completed" THEN Len(slip) + 1 ELSE i

Tell ==
  /\ walk.phase = "telling"
  /\ Announce(EventOf(walk.verdict), walk.at, OrdinalOf(walk.verdict, walk.at),
              [walk EXCEPT !.phase = "returning"])

(* Outside the groups a defect is the end of the walk. *)
Died == [walk EXCEPT !.phase = "returning", !.verdict = "died"]

Collapse ==
  \/ walk.phase = "starting" /\ AnnounceDies("flow.started", 0, 0, Died)
  \/ walk.phase = "closing" /\ RecordDies(<<walk.verdict, walk.at>>, walk.verdict, 0, Died)
  \/ /\ walk.phase = "telling"
     /\ AnnounceDies(EventOf(walk.verdict), walk.at, OrdinalOf(walk.verdict, walk.at), Died)

(* The workflow's result; SuspendOnFailure makes the last failure a suspension. *)
Return ==
  /\ walk.phase = "returning"
  /\ result' = walk.verdict /\ walk' = [walk EXCEPT !.phase = "over"]
  /\ UNCHANGED <<slip, defects, journal, status, address, news, acted, deferred, clock, crashes>>

(* suspendedRetrySchedule: a suspended flow is walked again, from its journal. *)
Retry ==
  /\ result = "suspended"
  /\ result' = "none" /\ walk' = Fresh
  /\ UNCHANGED <<slip, defects, journal, status, address, news, acted, deferred, clock, crashes>>

-----------------------------------------------------------------------------
(* The rest of the world *)

(* The runner stops; the flow is walked again elsewhere. A parked flow that is no *)
(* longer resident comes back the same way.                                       *)
Crash ==
  /\ crashes < MaxCrashes /\ walk.phase \notin {"starting", "over"}
  /\ crashes' = crashes + 1 /\ walk' = Fresh
  /\ UNCHANGED durable

(* The durable clock of a wait with a timeout. *)
Fires(i) ==
  /\ walk.pc[i] = "waiting" /\ slip[i].onTimeout # "never" /\ i \notin clock
  /\ clock' = clock \union {i}
  /\ UNCHANGED <<slip, defects, journal, result, status, address, news, acted, deferred, walk, crashes>>

(* A signal, here in one step; FlowEngine has its parts. *)
Signalled(i, outcome) ==
  /\ status = [state |-> "waiting", waiting |-> i] /\ deferred[i] = "empty"
  /\ status' = [state |-> "running", waiting |-> 0] /\ address' = [address EXCEPT !.accepts = 0]
  /\ deferred' = [deferred EXCEPT ![i] = outcome]
  /\ UNCHANGED <<slip, defects, journal, result, news, acted, clock, walk, crashes>>

StepOf(i) == Begin(i) \/ Act(i) \/ Park(i) \/ AnnounceWait(i) \/ Race(i) \/ Resume(i) \/ Pass(i)
Ending == Decide \/ Undo \/ Undone \/ Close \/ Tell \/ Return
Walk == Started \/ (\E i \in Steps : StepOf(i) \/ Breaks(i)) \/ Ending \/ Collapse

InDoubt == \E i \in Steps : \/ walk.pc[i] = "noted" /\ Attempt("action", i)
                            \/ /\ walk.phase = "undoing" /\ walk.done # <<>>
                               /\ i = NextUndone(walk.done) /\ Attempt("undo", i)

WalkNext == Walk \/ InDoubt \/ Retry \/ Crash \/ \E i \in Steps : Fires(i)

(* What a signal may answer a wait with: an undeclared wait takes one that names nothing. *)
Signals(i) == IF slip[i].accepts = {} THEN {"unnamed"} ELSE slip[i].accepts

Next == WalkNext \/ \E i \in Steps : \E o \in Signals(i) : Signalled(i, o)

Spec == Init /\ [][Next]_vars

(* The workflow engine drives a walk, fires clocks and retries a suspended flow; *)
(* calls end, for every step of one is bounded. Nothing makes a signal come.      *)
Fairness == WF_vars(Walk) /\ WF_vars(Retry) /\ WF_vars(\E i \in Steps : Fires(i))

FairSpec == Spec /\ Fairness

(* A participant that is asked again and again answers, once it is back. *)
AnswersOk == \E i \in Steps : ~Journaled(<<"action", i>>) /\ Act(i) /\ walk'.pc[i] = "ok"

BackSpec == FairSpec /\ SF_vars(AnswersOk)

-----------------------------------------------------------------------------
(* Properties *)

Finals == {"completed", "compensated", "failed", "stranded"}
Pcs == {"todo", "noted", "parked", "waiting", "answered", "ok", "failed", "skipped", "void", "stranded",
        "died", "lost"}
Names == {"flow.started", "flow.waiting", "flow.suspended", "flow.stranded", "flow.completed", "flow.failed"}

(* The types of the state; what the walk holds, the journal can rebuild. *)
TypeOK ==
  /\ slip \in Slips
  /\ result \in Finals \union {"none", "suspended", "died"}
  /\ status \in [state : Finals \union {"running", "waiting", "suspended"}, waiting : Steps \union {0}]
  /\ address \in [correlation : Steps \union {0}, accepts : Steps \union {0}]
  /\ news \in Seq([name : Names, step : Steps \union {0}, version : Nat])
  /\ acted \subseteq ({"action", "undo"} \X Steps)
  /\ deferred \in [Steps -> Outcomes \union {"empty", "unnamed"}] /\ clock \subseteq Steps
  /\ walk.pc \in [Steps -> Pcs] /\ walk.done \in Seq(Steps) /\ walk.stranded \in Steps \union {0}
  /\ walk.verdict \in Finals \union {"none", "suspended", "died"} /\ walk.at \in Steps \union {0}
  /\ \A i \in Steps : walk.pc[i] \in {"answered", "stranded"} => Journaled(<<"race", i>>)
  /\ Range(walk.done) \subseteq {i \in Steps : walk.pc[i] = "ok" /\ Kind(i) = "compensatable"}
  /\ crashes \in 0 .. MaxCrashes /\ Cardinality(defects) <= MaxDefects

Acted(kind, i) == <<kind, i>> \in acted
Said(kind, i, r) == Journaled(<<kind, i>>) /\ journal[<<kind, i>>] = r

(* Two things are raced, not read from the journal, and a replay may find otherwise: *)
(* a guard on a wait of another segment of the stage, and a strand in the pivot's    *)
(* stage, which may pass over, or not, the steps of the segments beside it.          *)
GuardedAcross == \E i \in Steps : slip[i].guard \in Stage(i) \ Group(i)
StrandedBeside == \E p \in CommitPoint : \E w \in Stage(p) :
  Group(p) # Stage(p) /\ slip[w].onTimeout = "strand" /\ Said("race", w, "timeout")

(* Through every crash and replay, a flow that ends compensated has undone each step *)
(* that answered, and nothing that never acted (what it leaves standing are calls    *)
(* whose answer was lost and that counted as failed); and a step is undone after     *)
(* every later one that may rest on it, of its own group or of a later stage, in     *)
(* whatever order a replay found them done; but for steps a strand passed over.      *)
UndoesWhatItDid ==
  /\ \A i \in Steps : Acted("undo", i) => Said("action", i, "ok")
  /\ result = "compensated" => StrandedBeside \/ \A i \in Steps :
       Kind(i) = "compensatable" /\ Acted("action", i) /\ ~Acted("undo", i) => Said("action", i, "failed")
  /\ \A i, j \in Steps :
       /\ i < j /\ (j \in Group(i) \/ slip[i].stage < slip[j].stage)
       /\ Kind(j) = "compensatable" /\ Said("action", j, "ok") /\ Acted("undo", i)
       => Said("undo", j, "ok") \/ StrandedBeside

(* Once the pivot has answered, the flow goes back only because of a step that ran   *)
(* beside it, in another segment of its stage, and stands before it in the slip.     *)
NeverBack == \A p \in CommitPoint :
  /\ Said("action", p, "ok")
  /\ result \in {"compensated", "failed"} \/ \E i \in Steps : Acted("undo", i)
  => \E i \in Stage(p) \ Group(p) : i < p /\ Said("action", i, "failed")

(* However often it is replayed, a flow never announces two contrary endings: what   *)
(* it announced is what it ends with, and its record agrees (a stranded flow's may   *)
(* be behind: a replay can run a step the strand had passed over, and record that);  *)
(* unless its replays race a guard or a strand.                                      *)
SaysHowItEnded ==
  LET Told == {e.name : e \in Range(news)} \intersect {"flow.completed", "flow.failed", "flow.stranded"}
  IN \/ GuardedAcross \/ StrandedBeside
     \/ /\ Cardinality(Told) < 2
        /\ result \in Finals => Told = {EventOf(result)}
        /\ result \in Finals \ {"stranded"} => status.state = result

(* A store's failure costs a flow that completes no more than the rest of the group  *)
(* it came in: every other step ran, or was skipped by its guard.                    *)
LosesOneGroup ==
  result = "completed" => \A i \in Steps : walk.pc[i] \notin {"ok", "skipped"} =>
    \E k \in Group(i) : k <= i /\ \E name \in {"running", "waiting", "flow.waiting", "resumed"} :
      <<name, k>> \in defects

(* What discardIfStale drops, of events that come in the order they were announced.  *)
Stale(n) == \E m \in 1 .. n - 1 : news[n].version <= news[m].version

(* A consumer that orders on the version hears that a flow completed, and hears any  *)
(* other ending unless a wait of that step, or of a later one beside it, was told.   *)
HeardUnlessWaited ==
  result \in Finals => \E n \in DOMAIN news :
    /\ news[n].name = EventOf(result)
    /\ Stale(n) => /\ result # "completed"
                   /\ \E m \in 1 .. n - 1 : news[m].name = "flow.waiting" /\ news[m].version >= news[n].version

(* slip-workflow.ts, past the commit point: "a participant that comes back gets the  *)
(* step again", "so the flow rolls forward when the participant comes back". But     *)
(* what the step answered is in the journal, and each walk of a retry finds it there.*)
RollsForward == (result = "suspended" /\ Kind(walk.at) # "wait") ~> (result = "completed")

(* A flow comes to its result: it ends, is suspended, or dies of a store's failure   *)
(* outside its groups; unless it waits for a signal that has no timeout.             *)
Concludes == []<>(\/ result # "none"
                  \/ \E i \in Steps : /\ walk.pc[i] = "waiting" /\ deferred[i] = "empty"
                                      /\ slip[i].onTimeout = "never")

=============================================================================
