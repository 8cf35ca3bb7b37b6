---------------------------- MODULE AmqpConnector ----------------------------
(***************************************************************************)
(* The self-healing connection of amqp-client/src/amqp-connection/         *)
(* amqp-connection.ts: one process, its callers of withChannel, the        *)
(* consumers it binds again after every reconnect, the watch that pauses   *)
(* a consumer while a breaker is open (amqp-event-bus.ts), and a shutdown. *)
(* A step is one turn of the event loop, up to the next await.             *)
(***************************************************************************)
EXTENDS Naturals, SequencesExt

CONSTANTS Callers,     \* users of withChannel: publishers, the health probe
          Consumers,   \* subscriptions, each added by a call of addConsumer
          Pausable,    \* the subscriptions with pauseWhileOpen
          MaxConns, MaxFaults, MaxWire   \* bounds

Conns == 1 .. MaxConns
Open == "open()"                   \* the binding pass of open()
Passes == Consumers \union {Open}  \* the others are those of addConsumer

ASSUME BoundsAssumption ==
  /\ Pausable \subseteq Consumers /\ Open \notin Consumers
  /\ MaxConns \in Nat \ {0}
  /\ {MaxFaults, MaxWire} \subseteq Nat

VARIABLES conn,       \* each connection: none | up | bare (its channel closed) | down
          live,       \* the connection in use, 0 for undefined
          opening,    \* the pending open(): no | connecting | binding
          cancelled, closed,
          consumers,  \* the registered consumers, in order
          boundTo, binding, tags,   \* of each consumer: a connection, or 0
          pass,       \* each bindAll: its step, its connection and its index
          pc, using,  \* each caller's step, and the connection it was given
          wire,       \* each pausable consumer's requests, unanswered, in order
          watching,   \* ... and its watch on each channel: none | held | paused
          stop,       \* cancelConsumers: its step, its channel and its index
          consuming,  \* broker: how often each consumer consumes on a connection
          discarded,  \* history: a healthy connection was dropped after a throw
          late,       \* history: intake was stopped while a consumer was being set up
          slow,       \* history: a resume was not answered before the next poll
          faults      \* how often something broke or threw

made == Cardinality({k \in Conns : conn[k] # "none"})
link == <<conn, live, opening, closed>>
subs == <<consumers, boundTo, binding, tags, pass>>
calls == <<pc, using>>
watch == <<wire, watching>>
hist == <<discarded, late, slow, faults>>
vars == <<link, cancelled, subs, calls, watch, stop, consuming, hist>>

Up(k) == k # 0 /\ conn[k] = "up"
Pass(step, k, i) == [step |-> step, on |-> k, at |-> i]

Init ==
  /\ conn = [k \in Conns |-> "none"]
  /\ live = 0 /\ opening = "no" /\ cancelled = FALSE /\ closed = FALSE
  /\ consumers = <<>>
  /\ boundTo = [c \in Consumers |-> 0]
  /\ binding = [c \in Consumers |-> 0]
  /\ tags = [c \in Consumers |-> 0]
  /\ pass = [p \in Passes |-> Pass("idle", 0, 0)]
  /\ pc = [d \in Callers |-> "idle"] /\ using = [d \in Callers |-> 0]
  /\ wire = [c \in Pausable |-> [k \in Conns |-> <<>>]]
  /\ watching = [c \in Pausable |-> [k \in Conns |-> "none"]]
  /\ stop = Pass("no", 0, 0)
  /\ consuming = [c \in Consumers |-> [k \in Conns |-> 0]]
  /\ discarded = FALSE /\ late = FALSE /\ slow = FALSE
  /\ faults = 0

-----------------------------------------------------------------------------
(* ensure, withChannel *)

(* Every call waiting for open() learns how it ended: with the connection r  *)
(* or, for r = 0, a rejection, upon which withChannel tries once more.       *)
OpenEnds(r, passes) ==
  LET Retrying(d) == pc[d] = "waiting" /\ r = 0 /\ ~closed IN
  /\ pc' = [d \in Callers |->
       IF pc[d] \notin {"waiting", "rewaiting"} THEN pc[d]
       ELSE IF r # 0 THEN IF pc[d] = "waiting" THEN "using" ELSE "reusing"
       ELSE IF Retrying(d) THEN "rewaiting" ELSE "idle"]
  /\ using' = [d \in Callers |-> IF pc[d] \in {"waiting", "rewaiting"} THEN r ELSE using[d]]
  /\ pass' = [p \in Passes |->
       IF p = Open THEN Pass("idle", 0, 0)
       ELSE IF passes[p].step = "waiting"
         THEN IF r = 0 THEN Pass("done", 0, 0) ELSE Pass("ready", r, 0)
         ELSE passes[p]]
  /\ opening' = IF \E d \in Callers : Retrying(d) THEN "connecting" ELSE "no"

Call(d) ==
  /\ pc[d] = "idle" /\ ~closed
  /\ IF live # 0
       THEN /\ pc' = [pc EXCEPT ![d] = "using"]
            /\ using' = [using EXCEPT ![d] = live]
            /\ UNCHANGED opening
       ELSE /\ pc' = [pc EXCEPT ![d] = "waiting"]
            /\ opening' = IF opening = "no" THEN "connecting" ELSE opening
            /\ UNCHANGED using
  /\ UNCHANGED <<conn, live, closed, cancelled, subs, watch, stop, consuming, hist>>

UseOk(d) ==
  /\ pc[d] \in {"using", "reusing"} /\ Up(using[d])
  /\ pc' = [pc EXCEPT ![d] = "idle"] /\ using' = [using EXCEPT ![d] = 0]
  /\ UNCHANGED <<link, cancelled, subs, watch, stop, consuming, hist>>

(* use() of these callers rejects: the first time, withChannel drops `live`, *)
(* whatever it is by now, and waits for another connection.                  *)
UsesFail(ds, alive) ==
  LET again == {d \in ds : pc[d] = "using" /\ ~closed} IN
  /\ pc' = [d \in Callers |-> IF d \in again THEN "rewaiting"
                              ELSE IF d \in ds THEN "idle" ELSE pc[d]]
  /\ live' = IF again # {} THEN 0 ELSE alive
  /\ discarded' = (discarded \/ (again # {} /\ Up(alive)))
  /\ opening' = IF again # {} /\ opening = "no" THEN "connecting" ELSE opening
  /\ using' = [d \in Callers |-> IF d \in ds THEN 0 ELSE using[d]]

UseThrows(d) ==
  /\ pc[d] \in {"using", "reusing"} /\ Up(using[d])
  /\ faults < MaxFaults
  /\ faults' = faults + 1
  /\ UsesFail({d}, live)
  /\ UNCHANGED <<conn, closed, cancelled, subs, watch, stop, consuming, late, slow>>

(* What the broker forgets with a channel. *)
Silence(k) ==
  /\ consuming' = [c \in Consumers |-> [consuming[c] EXCEPT ![k] = 0]]
  /\ wire' = [c \in Pausable |-> [wire[c] EXCEPT ![k] = <<>>]]
  /\ watching' = [c \in Pausable |-> [watching[c] EXCEPT ![k] = "none"]]

(* Mutant: a connection's end is not noticed. *)
DroppedNone(k) == live

(* drop(): only the connection in use is forgotten. *)
Dropped(k) == IF live = k THEN 0 ELSE live

(* A channel or its connection breaks, and what was pending on it rejects. *)
Break(k) ==
  /\ faults < MaxFaults
  /\ faults' = faults + 1
  /\ \/ conn[k] = "up" /\ \E how \in {"bare", "down"} : conn' = [conn EXCEPT ![k] = how]
     \/ conn[k] = "bare" /\ conn' = [conn EXCEPT ![k] = "down"]
  /\ Silence(k)
  /\ UsesFail({d \in Callers : pc[d] \in {"using", "reusing"} /\ using[d] = k}, Dropped(k))
  /\ UNCHANGED <<closed, cancelled, subs, stop, late, slow>>

-----------------------------------------------------------------------------
(* open, bindAll, addConsumer *)

(* Mutant: a consumer being bound is not claimed. *)
TodoUnclaimed(k, i) == {j \in i .. Len(consumers) : boundTo[consumers[j]] # k}

(* Mutant: a consumer bound once is not bound again. *)
TodoOnce(k, i) == {j \in i .. Len(consumers) : boundTo[consumers[j]] = 0 /\ binding[consumers[j]] # k}

(* The consumers from index i on that bindAll has to bind to k. *)
Todo(k, i) ==
  {j \in i .. Len(consumers) : boundTo[consumers[j]] # k /\ binding[consumers[j]] # k}

Claim(p, k, j, bound) ==
  /\ pass' = [pass EXCEPT ![p] = Pass("setting", k, j)]
  /\ binding' = [bound EXCEPT ![consumers[j]] = k]
  /\ UNCHANGED <<calls, opening>>

(* bindAll of pass p goes on to its next consumer, or ends. *)
Visit(p, k, i, bound, alive) ==
  IF Todo(k, i) # {} THEN Claim(p, k, Min(Todo(k, i)), bound)
  ELSE /\ binding' = bound
       /\ IF p = Open THEN OpenEnds(alive, pass)
          ELSE /\ pass' = [pass EXCEPT ![p] = Pass("done", 0, 0)]
               /\ UNCHANGED <<calls, opening>>

Connect ==
  /\ opening = "connecting" /\ made < MaxConns
  /\ LET k == made + 1 IN
     /\ conn' = [conn EXCEPT ![k] = "up"]
     /\ live' = k
     /\ IF cancelled \/ Todo(k, 1) = {}
          THEN OpenEnds(k, pass) /\ UNCHANGED binding
          ELSE /\ pass' = [pass EXCEPT ![Open] = Pass("setting", k, Min(Todo(k, 1)))]
               /\ binding' = [binding EXCEPT ![consumers[Min(Todo(k, 1))]] = k]
               /\ opening' = "binding"
               /\ UNCHANGED calls
  /\ UNCHANGED <<closed, cancelled, consumers, boundTo, tags, watch, stop, consuming, hist>>

ConnectFails ==
  /\ opening = "connecting"
  /\ OpenEnds(0, pass)
  /\ UNCHANGED <<conn, live, closed, cancelled, consumers, boundTo, binding, tags,
                 watch, stop, consuming, hist>>

AddConsumer(c) ==
  /\ pass[c].step = "idle"
  /\ consumers' = Append(consumers, c)
  /\ pass' = [pass EXCEPT ![c] =
       IF closed THEN Pass("done", 0, 0)
       ELSE IF live # 0 THEN Pass("ready", live, 0) ELSE Pass("waiting", 0, 0)]
  /\ opening' = IF ~closed /\ live = 0 /\ opening = "no" THEN "connecting" ELSE opening
  /\ UNCHANGED <<conn, live, closed, cancelled, boundTo, binding, tags, calls, watch,
                 stop, consuming, hist>>

(* Mutant: a pass does not ask whether intake was stopped. *)
BindAllways(c) ==
  /\ pass[c].step = "ready"
  /\ Visit(c, pass[c].on, 1, binding, live)
  /\ UNCHANGED <<conn, live, closed, cancelled, consumers, boundTo, tags, watch, stop,
                 consuming, hist>>

(* addConsumer's own pass, on the channel it was given. *)
BindAll(c) ==
  /\ pass[c].step = "ready"
  /\ IF cancelled
       THEN pass' = [pass EXCEPT ![c] = Pass("done", 0, 0)] /\ UNCHANGED <<binding, calls, opening>>
       ELSE Visit(c, pass[c].on, 1, binding, live)
  /\ UNCHANGED <<conn, live, closed, cancelled, consumers, boundTo, tags, watch, stop,
                 consuming, hist>>

(* What a consumer's own setup leaves: its watch, if it is to be paused. *)
SetupOk(p) ==
  LET k == pass[p].on
      c == consumers[pass[p].at] IN
  /\ pass[p].step = "setting" /\ Up(k)
  /\ consuming' = [consuming EXCEPT ![c][k] = @ + 1]
  /\ tags' = [tags EXCEPT ![c] = k]
  /\ boundTo' = [boundTo EXCEPT ![c] = k]
  /\ watching' = IF c \in Pausable THEN [watching EXCEPT ![c][k] = "held"] ELSE watching
  /\ Visit(p, k, pass[p].at + 1, [binding EXCEPT ![c] = 0], live)
  /\ UNCHANGED <<conn, live, closed, cancelled, consumers, wire, stop, hist>>

(* Its channel has gone: the pass rejects, and open() or addConsumer with it. *)
SetupFails(p) ==
  /\ pass[p].step = "setting" /\ ~Up(pass[p].on)
  /\ binding' = [binding EXCEPT ![consumers[pass[p].at]] = 0]
  /\ IF p = Open THEN OpenEnds(0, pass)
                 ELSE /\ pass' = [pass EXCEPT ![p] = Pass("done", 0, 0)]
                      /\ UNCHANGED <<calls, opening>>
  /\ UNCHANGED <<conn, live, closed, cancelled, consumers, boundTo, tags, watch, stop,
                 consuming, hist>>

-----------------------------------------------------------------------------
(* watchBreakers: each poll that finds the breaker open, or shut again *)

Pause(c, k) ==
  /\ watching[c][k] = "held" /\ ~cancelled /\ ~slow
  /\ watching' = [watching EXCEPT ![c][k] = "paused"]
  /\ tags' = [tags EXCEPT ![c] = 0]
  /\ wire' = [wire EXCEPT ![c][k] = Append(@, "cancel")]
  /\ UNCHANGED <<link, cancelled, consumers, boundTo, binding, pass, calls, stop,
                 consuming, hist>>

(* A poll that finds the last consume unanswered sends another. The watches are    *)
(* followed up to the first time that happens.                                     *)
Resume(c, k) ==
  /\ watching[c][k] = "paused" /\ ~cancelled /\ ~slow
  /\ Len(wire[c][k]) < MaxWire
  /\ wire' = [wire EXCEPT ![c][k] = Append(@, "consume")]
  /\ slow' = Contains(wire[c][k], "consume")
  /\ UNCHANGED <<link, cancelled, subs, calls, watching, stop, consuming, discarded,
                 late, faults>>

(* The broker takes requests in their order; its answer to a consume is the tag. *)
Answered(c, k) ==
  /\ wire[c][k] # <<>> /\ Up(k)
  /\ wire' = [wire EXCEPT ![c][k] = Tail(@)]
  /\ IF Head(wire[c][k]) = "cancel"
       THEN /\ consuming' = [consuming EXCEPT ![c][k] = @ - 1]
            /\ UNCHANGED <<watching, tags>>
       ELSE /\ consuming' = [consuming EXCEPT ![c][k] = @ + 1]
            /\ watching' = [watching EXCEPT ![c][k] = "held"]
            /\ tags' = [tags EXCEPT ![c] = k]
  /\ UNCHANGED <<link, cancelled, consumers, boundTo, binding, pass, calls, stop, hist>>

-----------------------------------------------------------------------------
(* cancelConsumers, close *)

Underway == \/ \E p \in Passes : pass[p].step = "setting"
            \/ \E c \in Pausable, k \in Conns : Contains(wire[c][k], "consume")

StopIntake ==
  /\ ~cancelled
  /\ cancelled' = TRUE
  /\ late' = Underway
  /\ stop' = IF live = 0 THEN Pass("done", 0, 0) ELSE Pass("running", live, 1)
  /\ UNCHANGED <<link, subs, calls, watch, consuming, discarded, slow, faults>>

(* The tags of one more consumer are cancelled on that channel. *)
StopNext ==
  LET c == consumers[stop.at]
      k == stop.on IN
  /\ stop.step = "running"
  /\ IF stop.at > Len(consumers)
       THEN stop' = [stop EXCEPT !.step = "done"] /\ UNCHANGED <<consuming, tags>>
       ELSE /\ stop' = [stop EXCEPT !.at = @ + 1]
            /\ consuming' = IF tags[c] = k /\ Up(k)
                              THEN [consuming EXCEPT ![c][k] = @ - 1] ELSE consuming
            /\ tags' = [tags EXCEPT ![c] = 0]
  /\ UNCHANGED <<link, cancelled, consumers, boundTo, binding, pass, calls, watch, hist>>

Close ==
  /\ ~closed
  /\ closed' = TRUE /\ live' = 0
  /\ IF live = 0 THEN UNCHANGED <<conn, consuming, watch, pc>>
     ELSE /\ conn' = [conn EXCEPT ![live] = "down"]
          /\ Silence(live)
          /\ pc' = [d \in Callers |->
               IF pc[d] \in {"using", "reusing"} /\ using[d] = live THEN "idle" ELSE pc[d]]
  /\ UNCHANGED <<opening, cancelled, subs, using, stop, hist>>

-----------------------------------------------------------------------------
(* Reactions of promises run before the loop takes another event: a pass that has *)
(* its channel goes on, and one whose channel has gone rejects.                   *)
Drained == \A p \in Passes :
  pass[p].step # "ready" /\ (pass[p].step = "setting" => Up(pass[p].on))

Reactions ==
  \/ \E c \in Consumers : BindAll(c)
  \/ \E p \in Passes : SetupFails(p)

Events ==
  \/ \E d \in Callers : Call(d) \/ UseOk(d) \/ UseThrows(d)
  \/ \E k \in Conns : Break(k)
  \/ Connect \/ ConnectFails
  \/ \E c \in Consumers : AddConsumer(c)
  \/ \E p \in Passes : SetupOk(p)
  \/ \E c \in Pausable, k \in Conns : Pause(c, k) \/ Resume(c, k) \/ Answered(c, k)
  \/ StopIntake \/ StopNext \/ Close

Next == Reactions \/ (Drained /\ Events)

Spec == Init /\ [][Next]_vars

(* Calls keep coming (the health probe is polled), the broker answers, and it *)
(* can be reached again and again.                                            *)
Fairness ==
  /\ \A d \in Callers : WF_vars(Drained /\ (Call(d) \/ UseOk(d)))
  /\ SF_vars(Drained /\ Connect) /\ WF_vars(Drained /\ ConnectFails)
  /\ WF_vars(Reactions)
  /\ \A p \in Passes : WF_vars(Drained /\ SetupOk(p))

FairSpec == Spec /\ Fairness

-----------------------------------------------------------------------------
(* Properties *)

(* The types of the state; and `live` is never a connection known to be dead. *)
TypeOK ==
  /\ conn \in [Conns -> {"none", "up", "bare", "down"}]
  /\ live \in Conns \union {0} /\ (live # 0 => Up(live))
  /\ opening \in {"no", "connecting", "binding"}
  /\ opening = "connecting" => live = 0
  /\ (opening = "binding") = (pass[Open].step = "setting")
  /\ {cancelled, closed, discarded, late, slow} \subseteq BOOLEAN
  /\ consumers \in Seq(Consumers)
  /\ {boundTo, binding, tags} \subseteq [Consumers -> Conns \union {0}]
  /\ pass \in [Passes -> [step : {"idle", "waiting", "ready", "setting", "done"},
                          on : Conns \union {0}, at : Nat]]
  /\ pc \in [Callers -> {"idle", "waiting", "using", "rewaiting", "reusing"}]
  /\ using \in [Callers -> Conns \union {0}]
  /\ wire \in [Pausable -> [Conns -> Seq({"cancel", "consume"})]]
  /\ watching \in [Pausable -> [Conns -> {"none", "held", "paused"}]]
  /\ stop \in [step : {"no", "running", "done"}, on : Conns \union {0}, at : Nat]
  /\ consuming \in [Consumers -> [Conns -> Nat]]
  /\ faults \in Nat

(* "A doubly-bound subscriber folds every event twice": through every            *)
(* overlap of passes, reconnects, pauses and resumes, a subscription consumes    *)
(* once at most, unless a healthy connection was dropped or a resume outlasted   *)
(* the poll that asked for it.                                                   *)
OneSubscription == discarded \/ slow \/
  \A c \in Consumers, k \in Conns : consuming[c][k] > 0 =>
    consuming[c][k] = 1 /\ \A l \in Conns \ {k} : consuming[c][l] = 0

(* Once cancelConsumers has ended, the broker hands over nothing more, and no    *)
(* reconnect re-arms a consumer: but for what a setup or a resume that was       *)
(* under way when it began, a dropped connection or a slow resume still takes.   *)
Quiet == \A c \in Consumers, k \in Conns :
  consuming[c][k] = 0 \/ (c \in Pausable /\ Contains(wire[c][k], "cancel"))
IntakeStops == stop.step = "done" => late \/ discarded \/ slow \/ Quiet

(* Every registered consumer ends up consuming on the connection in use, or      *)
(* paused there by its breaker, whatever broke before, as long as the process    *)
(* keeps calling and is not stopping.                                            *)
Armed(c) == live # 0 /\ (consuming[c][live] > 0 \/ (c \in Pausable /\ watching[c][live] # "none"))
Rearmed == \A c \in Consumers :
  <>[](closed \/ cancelled \/ ~Contains(consumers, c) \/ Armed(c))

=============================================================================
