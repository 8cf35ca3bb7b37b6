------------------------- MODULE AmqpConnectorProofs -------------------------
(***************************************************************************)
(* Proofs about AmqpConnector: its types, that a subscription consumes     *)
(* once, and that intake stops, for any callers, subscriptions and numbers *)
(* of connections, faults and unanswered requests.                         *)
(***************************************************************************)
EXTENDS AmqpConnector, FiniteSetTheorems, SequenceTheorems, TLAPS

(* The cancels among the requests of a wire: what the broker is to take away. *)
Cancels(w) == {i \in 1 .. Len(w) : w[i] = "cancel"}
Requests == {"cancel", "consume"}

(* The cancels of a wire can be counted.                                     *)
LEMMA CancelsAreFinite ==
  ASSUME NEW w \in Seq(Requests)
  PROVE  IsFiniteSet(Cancels(w)) /\ Cardinality(Cancels(w)) \in Nat
<1>1. IsFiniteSet(1 .. Len(w))
  BY FS_Interval
<1>2. Cancels(w) \in SUBSET (1 .. Len(w))
  BY DEF Cancels
<1> QED
  BY <1>1, <1>2, FS_Subset, FS_CardinalityType

(* An empty wire holds none.                                                 *)
LEMMA CancelsOfNone == Cardinality(Cancels(<<>>)) = 0
<1>1. Cancels(<<>>) = {}
  BY DEF Cancels
<1> QED
  BY <1>1, FS_EmptySet

(* A request sent counts if it is a cancel.                                  *)
LEMMA CancelsOfAppend ==
  ASSUME NEW w \in Seq(Requests)
  PROVE  /\ Cardinality(Cancels(Append(w, "cancel"))) = Cardinality(Cancels(w)) + 1
         /\ Cardinality(Cancels(Append(w, "consume"))) = Cardinality(Cancels(w))
<1>1. Cancels(Append(w, "consume")) = Cancels(w)
  BY DEF Cancels, Requests
<1>2. Cancels(Append(w, "cancel")) = Cancels(w) \union {Len(w) + 1}
  BY DEF Cancels, Requests
<1>3. Len(w) + 1 \notin Cancels(w)
  BY DEF Cancels
<1> QED
  BY <1>1, <1>2, <1>3, CancelsAreFinite, FS_AddElement

(* A request taken from the front no longer counts.                          *)
LEMMA CancelsOfTail ==
  ASSUME NEW w \in Seq(Requests), w # <<>>
  PROVE  Cardinality(Cancels(w)) =
           Cardinality(Cancels(Tail(w))) + (IF Head(w) = "cancel" THEN 1 ELSE 0)
<1> DEFINE S == Cancels(w) \ {1}
           T == Cancels(Tail(w))
           f == [i \in T |-> i + 1]
<1>1. /\ Tail(w) \in Seq(Requests) /\ Len(Tail(w)) = Len(w) - 1 /\ Len(w) \in Nat \ {0}
      /\ \A i \in 1 .. Len(Tail(w)) : Tail(w)[i] = w[i + 1]
  OBVIOUS
<1>2. T \subseteq Nat /\ S \subseteq Nat
  BY <1>1 DEF Cancels
<1>3. \A i \in T : i + 1 \in S
  BY <1>1 DEF Cancels
<1>4. \A j \in S : j - 1 \in T
  BY <1>1 DEF Cancels
<1>5. f \in Bijection(T, S)
  <2>1. f \in Injection(T, S)
    BY <1>2, <1>3 DEF Injection, IsInjective
  <2>2. f \in Surjection(T, S)
    <3> SUFFICES ASSUME NEW j \in S PROVE \E i \in T : f[i] = j
      BY <1>3 DEF Surjection
    <3> QED
      BY <1>2, <1>4
  <2> QED
    BY <2>1, <2>2 DEF Bijection
<1>6. IsFiniteSet(T) /\ Cardinality(T) \in Nat
  BY <1>1, CancelsAreFinite
<1>7. Cardinality(S) = Cardinality(T)
  BY <1>5, <1>6, FS_Bijection DEF ExistsBijection
<1>8. Cardinality(S) = IF 1 \in Cancels(w) THEN Cardinality(Cancels(w)) - 1
                                           ELSE Cardinality(Cancels(w))
  BY CancelsAreFinite, FS_RemoveElement
<1>9. 1 \in Cancels(w) <=> Head(w) = "cancel"
  BY <1>1 DEF Cancels
<1> HIDE DEF T, S
<1> QED
  BY <1>6, <1>7, <1>8, <1>9, CancelsAreFinite DEF T

(* A finite set of numbers that is not empty has a least element: a smallest *)
(* part of it without one would have a smaller part without one.             *)
LEMMA MinOfFinite ==
  ASSUME NEW S, S \subseteq Nat, IsFiniteSet(S), S # {}
  PROVE  Min(S) \in S
<1> DEFINE HasMin(X) == \E x \in X : \A y \in X : x =< y
           T == {X \in SUBSET S : X # {} /\ ~HasMin(X)}
           R == StrictSubsetOrdering(S)
<1>1. IsWellFoundedOn(R, SUBSET S)
  BY FS_StrictSubsetOrderingWellFounded, FS_FiniteSubsetsOfFinite
<1>2. T = {}
  <2> SUFFICES ASSUME T # {} PROVE FALSE
    OBVIOUS
  <2>1. T \subseteq SUBSET S
    OBVIOUS
  <2> HIDE DEF T
  <2>2. PICK M \in T : \A N \in T : <<N, M>> \notin R
    BY <1>1, <2>1, WFMin
  <2> USE DEF T
  <2>3. M \subseteq S /\ M # {} /\ ~HasMin(M)
    BY <2>2
  <2>4. PICK a \in M : TRUE
    BY <2>3
  <2> DEFINE N == M \ {a}
  <2>5. N \subseteq S /\ <<N, M>> \in R
    BY <2>3, <2>4 DEF StrictSubsetOrdering
  <2>6. N = {} \/ HasMin(N)
    BY <2>2, <2>5
  <2>7. CASE N = {}
    <3>1. \A y \in M : y = a /\ a \in Nat
      BY <2>3, <2>4, <2>7
    <3> QED
      BY <2>3, <2>4, <3>1
  <2>8. CASE HasMin(N)
    <3>1. PICK b \in N : \A y \in N : b =< y
      BY <2>8
    <3>2. a \in Nat /\ b \in Nat /\ b \in M /\ \A y \in M : y \in Nat
      BY <2>3, <2>4, <3>1
    <3>3. (\A y \in M : a =< y) \/ (\A y \in M : b =< y)
      BY <3>1, <3>2
    <3> QED
      BY <2>3, <2>4, <3>2, <3>3
  <2> QED
    BY <2>6, <2>7, <2>8
<1>3. HasMin(S)
  BY <1>2
<1> QED
  BY <1>3 DEF Min

-----------------------------------------------------------------------------
(* What the helpers of the binding passes do *)

Setting(p) == pass[p].step = "setting"
Its(p) == consumers[pass[p].at]
PassStates == [step : {"idle", "waiting", "ready", "setting", "done"},
               on : Conns \union {0}, at : Nat]
CallsTyped ==
  /\ pc \in [Callers -> {"idle", "waiting", "using", "rewaiting", "reusing"}]
  /\ using \in [Callers -> Conns \union {0}]

(* A pass that has something to bind has a first consumer to bind.           *)
LEMMA FirstTodo ==
  ASSUME TypeOK, NEW k, NEW i \in Nat \ {0}, Todo(k, i) # {}
  PROVE  Min(Todo(k, i)) \in Todo(k, i) /\ Todo(k, i) \subseteq 1 .. Len(consumers)
<1>1. Len(consumers) \in Nat
  BY DEF TypeOK
<1>2. Todo(k, i) \subseteq 1 .. Len(consumers) /\ IsFiniteSet(1 .. Len(consumers))
  BY <1>1, FS_Interval DEF Todo
<1>3. IsFiniteSet(Todo(k, i)) /\ Todo(k, i) \subseteq Nat
  BY <1>1, <1>2, FS_Subset
<1> QED
  BY <1>2, <1>3, MinOfFinite

(* When open() ends with r, its own pass is over, nobody else's is set up or *)
(* given another connection, and it starts anew only after a rejection.      *)
LEMMA OpenEndsEffect ==
  ASSUME TypeOK, NEW r \in Conns \union {0}, OpenEnds(r, pass)
  PROVE  /\ CallsTyped'
         /\ pass' \in [Passes -> PassStates] /\ pass'[Open].step = "idle"
         /\ opening' \in {"no", "connecting"} /\ (opening' = "connecting" => r = 0)
         /\ \A q \in Passes : Setting(q)' => q # Open /\ pass'[q] = pass[q]
         /\ \A q \in Passes : pass'[q].step = "ready" => q # Open /\
              (pass'[q] = pass[q] \/ (r # 0 /\ pass'[q].on = r))
<1> USE DEF OpenEnds, TypeOK
<1>1. pc' \in [Callers -> {"idle", "waiting", "using", "rewaiting", "reusing"}]
  OBVIOUS
<1>2. using' \in [Callers -> Conns \union {0}]
  OBVIOUS
<1>3. opening' \in {"no", "connecting"} /\ (opening' = "connecting" => r = 0)
  OBVIOUS
<1>4. Pass("idle", 0, 0) \in PassStates /\ Pass("done", 0, 0) \in PassStates
        /\ Pass("ready", r, 0) \in PassStates
  BY DEF Pass, PassStates
<1>5. \A q \in Passes : pass[q] \in PassStates
  BY DEF PassStates
<1>6. pass' \in [Passes -> PassStates]
  BY <1>4, <1>5
<1>7. Open \in Passes
  BY DEF Passes
<1>8. pass'[Open].step = "idle"
  BY <1>7 DEF Pass
<1>9. ASSUME NEW q \in Passes
      PROVE  /\ Setting(q)' => q # Open /\ pass'[q] = pass[q]
             /\ pass'[q].step = "ready" => q # Open /\
                  (pass'[q] = pass[q] \/ (r # 0 /\ pass'[q].on = r))
  BY DEF Pass, Setting
<1> QED
  BY <1>1, <1>2, <1>3, <1>6, <1>8, <1>9 DEF CallsTyped

(* When a pass goes on from consumer i of connection k, it claims one of     *)
(* those left, or it is over; other passes are set up no further.            *)
LEMMA VisitEffect ==
  ASSUME TypeOK, NEW p \in Passes, NEW k \in Conns, NEW i \in Nat \ {0},
         NEW bound \in [Consumers -> Conns \union {0}],
         Setting(p) \/ p # Open, Visit(p, k, i, bound, live)
  PROVE  /\ CallsTyped'
         /\ pass' \in [Passes -> PassStates]
         /\ opening' \in {"no", "connecting", "binding"}
         /\ opening' = "connecting" => live = 0
         /\ (opening' = "binding") = Setting(Open)'
         /\ \A q \in Passes \ {p} : Setting(q)' => pass'[q] = pass[q]
         /\ \A q \in Passes : pass'[q].step = "ready" => q # p /\
              (pass'[q] = pass[q] \/ (q # Open /\ live # 0 /\ pass'[q].on = live))
         /\ Setting(p)' => /\ pass'[p].on = k /\ pass'[p].at \in Todo(k, i)
                           /\ pass'[p].at \in 1 .. Len(consumers)
                           /\ binding' = [bound EXCEPT ![consumers[pass'[p].at]] = k]
         /\ ~Setting(p)' => binding' = bound
<1>1. Open \in Passes /\ pass \in [Passes -> PassStates] /\ CallsTyped
      /\ opening \in {"no", "connecting", "binding"}
      /\ (opening = "connecting" => live = 0) /\ (opening = "binding") = Setting(Open)
  BY DEF TypeOK, CallsTyped, PassStates, Setting, Passes
<1>2. CASE Todo(k, i) # {}
  <2> DEFINE j == Min(Todo(k, i))
  <2>1. j \in Todo(k, i) /\ j \in 1 .. Len(consumers) /\ j \in Nat
    BY <1>2, FirstTodo
  <2> HIDE DEF j
  <2>2. Claim(p, k, j, bound)
    BY <1>2 DEF Visit, j
  <2>3. Pass("setting", k, j) \in PassStates
    BY <2>1 DEF Pass, PassStates
  <2>4. /\ pass' = [pass EXCEPT ![p] = Pass("setting", k, j)]
        /\ binding' = [bound EXCEPT ![consumers[j]] = k]
        /\ pc' = pc /\ using' = using /\ opening' = opening
    BY <2>2 DEF Claim, calls
  <2>5. pass'[p] = Pass("setting", k, j) /\ \A q \in Passes \ {p} : pass'[q] = pass[q]
    BY <1>1, <2>4
  <2>6. pass'[p].on = k /\ pass'[p].at = j /\ pass'[p].step = "setting"
    BY <2>5 DEF Pass
  <2>7. Setting(Open)' = Setting(Open)
    BY <1>1, <2>5, <2>6 DEF Setting
  <2>8. \A q \in Passes : pass'[q].step = "ready" => q # p /\ pass'[q] = pass[q]
    BY <2>5, <2>6
  <2>9. pass' \in [Passes -> PassStates]
    BY <1>1, <2>3, <2>4
  <2> QED
    BY <1>1, <2>1, <2>4, <2>5, <2>6, <2>7, <2>8, <2>9 DEF CallsTyped, Setting
<1>3. CASE Todo(k, i) = {} /\ p = Open
  <2>1. binding' = bound /\ OpenEnds(live, pass)
    BY <1>3 DEF Visit
  <2>2. live \in Conns \union {0}
    BY DEF TypeOK
  <2>3. /\ CallsTyped' /\ pass' \in [Passes -> PassStates] /\ pass'[Open].step = "idle"
        /\ opening' \in {"no", "connecting"} /\ (opening' = "connecting" => live = 0)
        /\ \A q \in Passes : Setting(q)' => q # Open /\ pass'[q] = pass[q]
        /\ \A q \in Passes : pass'[q].step = "ready" => q # Open /\
              (pass'[q] = pass[q] \/ (live # 0 /\ pass'[q].on = live))
    BY <2>1, <2>2, OpenEndsEffect
  <2>4. ~Setting(Open)' /\ opening' # "binding"
    BY <2>3 DEF Setting
  <2> QED
    BY <1>3, <2>1, <2>3, <2>4 DEF Setting
<1>4. CASE Todo(k, i) = {} /\ p # Open
  <2>1. /\ binding' = bound /\ pass' = [pass EXCEPT ![p] = Pass("done", 0, 0)]
        /\ pc' = pc /\ using' = using /\ opening' = opening
    BY <1>4 DEF Visit, calls
  <2>2. Pass("done", 0, 0) \in PassStates
    BY DEF Pass, PassStates
  <2>3. pass'[p].step = "done" /\ \A q \in Passes \ {p} : pass'[q] = pass[q]
    BY <1>1, <2>1 DEF Pass
  <2>4. pass' \in [Passes -> PassStates]
    BY <1>1, <2>1, <2>2
  <2> QED
    BY <1>1, <1>4, <2>1, <2>3, <2>4 DEF CallsTyped, Setting
<1> QED
  BY <1>2, <1>3, <1>4

-----------------------------------------------------------------------------
(* The invariant *)

(* Connections are made in order. A pass that is to go on has the connection  *)
(* in use, one that is setting up has a consumer in hand, and open() sets up   *)
(* on the connection it made.                                                 *)
Links ==
  /\ \A k \in Conns : conn[k] # "none" <=> k <= made
  /\ \A p \in Passes : pass[p].step = "ready" => p # Open /\ live # 0 /\ pass[p].on = live
  /\ \A p \in Passes : Setting(p) => pass[p].on \in Conns /\ pass[p].at \in 1 .. Len(consumers)
  /\ Setting(Open) => live \in {0, pass[Open].on}

(* What no longer has its channel is not consumed, watched or asked for.      *)
Unheard(c, k) ==
  consuming[c][k] = 0 /\ (c \in Pausable => wire[c][k] = <<>> /\ watching[c][k] = "none")
Silent == \A c \in Consumers, k \in Conns : ~Up(k) => Unheard(c, k)

(* The broker has a consumer for each cancel under way, and one more for the  *)
(* tag in hand, or for the watch that may yet pause it.                       *)
Tag(c, k) == IF tags[c] = k /\ Up(k) THEN 1 ELSE 0
Due(c, k) == Cardinality(Cancels(wire[c][k]))
Backed(c, k) ==
  /\ tags[c] = k => conn[k] # "none"
  /\ c \notin Pausable => Tag(c, k) <= consuming[c][k]
  /\ c \in Pausable =>
      /\ Due(c, k) + Tag(c, k) <= consuming[c][k]
      /\ watching[c][k] = "held" /\ ~cancelled => Due(c, k) + 1 <= consuming[c][k]
Counted == \A c \in Consumers, k \in Conns : Backed(c, k)

(* Unless a healthy connection was dropped: the only healthy one is in use;   *)
(* passes set up on one channel, and on none but that; each has a consumer of *)
(* its own, which it claimed and which is not bound there; and what consumes  *)
(* was bound.                                                                 *)
OneUp == \A k \in Conns : Up(k) => k = live
OneChannel == \A p, q \in Passes : Setting(p) /\ Setting(q) => pass[p].on = pass[q].on
Gone == \A p \in Passes : Setting(p) /\ ~Up(pass[p].on) => live = 0
Claimed == \A p \in Passes : Setting(p) =>
  binding[Its(p)] = pass[p].on /\ boundTo[Its(p)] # pass[p].on
Apart == \A p, q \in Passes : Setting(p) /\ Setting(q) /\ p # q => Its(p) # Its(q)
Attached == \A c \in Consumers, k \in Conns : Unheard(c, k) \/ boundTo[c] = k
Bindings == ~discarded => OneUp /\ OneChannel /\ Gone /\ Claimed /\ Apart /\ Attached

(* ... and no resume was slow: what a watch has asked for, and what the       *)
(* broker holds while it has not answered.                                    *)
Shape(c, k) ==
  /\ consuming[c][k] <= 1
  /\ c \in Pausable =>
     \/ watching[c][k] = "none" /\ wire[c][k] = <<>> /\ consuming[c][k] = 0
     \/ watching[c][k] = "held" /\ wire[c][k] = <<>>
     \/ watching[c][k] = "paused" /\ wire[c][k] \in {<<"cancel">>, <<"cancel", "consume">>}
     \/ watching[c][k] = "paused" /\ wire[c][k] \in {<<>>, <<"consume">>} /\ consuming[c][k] = 0
Shapes == ~discarded /\ ~slow => \A c \in Consumers, k \in Conns : Shape(c, k)

(* ... and nothing was under way when intake was stopped: what consumes has   *)
(* its tag or its cancel; nothing more is set up or resumed; the tags already *)
(* visited are gone; and in the end nothing consumes.                         *)
Idle(c, k) == consuming[c][k] = 0 \/ (c \in Pausable /\ Contains(wire[c][k], "cancel"))
Tagged == \A c \in Consumers, k \in Conns : Idle(c, k) \/ tags[c] = k
NoneComing == cancelled =>
  /\ \A p \in Passes : ~Setting(p)
  /\ \A c \in Pausable, k \in Conns : ~Contains(wire[c][k], "consume")
OnlyThere == stop.step = "running" =>
  /\ \A c \in Consumers, k \in Conns : consuming[c][k] = 0 \/ k = stop.on
  /\ \A i \in 1 .. Len(consumers) : i < stop.at => tags[consumers[i]] = 0
  /\ stop.at <= Len(consumers) + 1
Registered == \A c \in Consumers, k \in Conns : Unheard(c, k) \/ Contains(consumers, c)
Begun == ((stop.step = "no") <=> ~cancelled) /\ (late => cancelled)
Calm == ~discarded /\ ~slow /\ ~late => Tagged /\ NoneComing /\ OnlyThere
Stopping == Begun /\ Registered /\ Calm /\ IntakeStops

IInv == TypeOK /\ Links /\ Silent /\ Counted /\ Bindings /\ Shapes /\ Stopping

-----------------------------------------------------------------------------
(* Every step keeps the types *)

(* What happens to the callers whose use failed, and to the connection.      *)
LEMMA UsesFailEffect ==
  ASSUME TypeOK, NEW ds, NEW alive \in {0, live}, UsesFail(ds, alive)
  PROVE  /\ CallsTyped'
         /\ live' \in {0, alive}
         /\ discarded' \in BOOLEAN /\ (discarded => discarded')
         /\ (live' # alive => (Up(alive) => discarded'))
         /\ opening' \in {"no", "connecting", "binding"}
         /\ (opening' = "connecting" => live' = 0)
         /\ (opening' = "binding") = (opening = "binding")
<1> DEFINE again == {d \in ds : pc[d] = "using" /\ ~closed}
<1>1. CallsTyped'
  BY DEF UsesFail, TypeOK, CallsTyped
<1>2. live' = IF again # {} THEN 0 ELSE alive
  BY DEF UsesFail
<1>3. discarded' = (discarded \/ (again # {} /\ Up(alive)))
  BY DEF UsesFail
<1>4. opening' = IF again # {} /\ opening = "no" THEN "connecting" ELSE opening
  BY DEF UsesFail
<1>5. /\ discarded \in BOOLEAN /\ opening \in {"no", "connecting", "binding"}
      /\ (opening = "connecting" => live = 0)
  BY DEF TypeOK
<1> HIDE DEF again
<1>6. discarded' \in BOOLEAN /\ (discarded => discarded') /\ (live' # alive => (Up(alive) => discarded'))
  BY <1>2, <1>3, <1>5, Zenon
<1> QED
  BY <1>1, <1>2, <1>4, <1>5, <1>6

(* The connection a pass goes on to make is the next one.                    *)
LEMMA MadeNext ==
  ASSUME TypeOK, Links, made < MaxConns
  PROVE  /\ made \in Nat /\ made + 1 \in Conns /\ conn[made + 1] = "none"
         /\ \A h \in {"up", "bare", "down"} :
              conn' = [conn EXCEPT ![made + 1] = h] => made' = made + 1
<1> DEFINE S == {k \in Conns : conn[k] # "none"}
<1>1. IsFiniteSet(Conns)
  BY BoundsAssumption, FS_Interval DEF Conns
<1>2. S \in SUBSET Conns /\ made = Cardinality(S)
  BY DEF made
<1>3. IsFiniteSet(S) /\ made \in Nat
  BY <1>1, <1>2, FS_Subset, FS_CardinalityType
<1>4. made + 1 \in Conns /\ ~(made + 1 <= made)
  BY <1>3, BoundsAssumption DEF Conns
<1>5. conn[made + 1] = "none"
  BY <1>4 DEF Links
<1>6. ASSUME NEW h \in {"up", "bare", "down"}, conn' = [conn EXCEPT ![made + 1] = h]
      PROVE  made' = made + 1
  <2> DEFINE n == made + 1
  <2>1. {k \in Conns : conn'[k] # "none"} = S \union {n}
    <3>1. conn' = [conn EXCEPT ![n] = h] /\ n \in Conns /\ h # "none"
      BY <1>4, <1>6
    <3> HIDE DEF n
    <3> QED
      BY <3>1 DEF TypeOK
  <2>2. n \notin S
    BY <1>5
  <2>3. made' = Cardinality({k \in Conns : conn'[k] # "none"})
    BY DEF made
  <2> HIDE DEF S
  <2> QED
    BY <1>2, <1>3, <2>1, <2>2, <2>3, FS_AddElement
<1> QED
  BY <1>3, <1>4, <1>5, <1>6

(* What a setup that ended has in hand.                                      *)
LEMMA InHand ==
  ASSUME TypeOK, Links, NEW p \in Passes, Setting(p)
  PROVE  /\ pass[p].on \in Conns /\ Its(p) \in Consumers
         /\ pass[p].at \in Nat \ {0} /\ pass[p].at + 1 \in Nat \ {0}
<1>1. pass[p].on \in Conns /\ pass[p].at \in 1 .. Len(consumers) /\ consumers \in Seq(Consumers)
  BY DEF Links, TypeOK
<1> QED
  BY <1>1 DEF Its

(* A consumer set up: its connection, and what its pass does next.           *)
LEMMA SetupEffect ==
  ASSUME TypeOK, Links, NEW p \in Passes, SetupOk(p)
  PROVE  LET k == pass[p].on
             c == Its(p) IN
         /\ Setting(p) /\ k \in Conns /\ c \in Consumers /\ conn[k] = "up"
         /\ pass[p].at + 1 \in Nat \ {0}
         /\ [binding EXCEPT ![c] = 0] \in [Consumers -> Conns \union {0}]
         /\ Visit(p, k, pass[p].at + 1, [binding EXCEPT ![c] = 0], live)
         /\ consuming' = [consuming EXCEPT ![c][k] = @ + 1]
         /\ tags' = [tags EXCEPT ![c] = k]
         /\ boundTo' = [boundTo EXCEPT ![c] = k]
         /\ c \in Pausable => watching' = [watching EXCEPT ![c][k] = "held"]
         /\ c \notin Pausable => watching' = watching
<1>1. Setting(p)
  BY DEF SetupOk, Setting
<1>2. [binding EXCEPT ![Its(p)] = 0] \in [Consumers -> Conns \union {0}]
  BY DEF TypeOK
<1> QED
  BY <1>1, <1>2, InHand DEF SetupOk, Its, Up

(* Every step keeps the types.                                              *)
LEMMA TypesStep == ASSUME IInv, Next PROVE TypeOK'
<1> USE DEF IInv
<1>1. ASSUME NEW d \in Callers, Call(d) PROVE TypeOK'
  <2>1. CallsTyped' /\ opening' \in {"no", "connecting", "binding"}
    <3>1. CASE live # 0
      <4>1. pc' = [pc EXCEPT ![d] = "using"] /\ using' = [using EXCEPT ![d] = live] /\ opening' = opening
        BY <1>1, <3>1 DEF Call
      <4> QED
        BY <4>1 DEF TypeOK, CallsTyped
    <3>2. CASE live = 0
      <4>1. pc' = [pc EXCEPT ![d] = "waiting"] /\ using' = using
            /\ opening' = IF opening = "no" THEN "connecting" ELSE opening
        BY <1>1, <3>2 DEF Call
      <4> QED
        BY <4>1 DEF TypeOK, CallsTyped
    <3> QED
      BY <3>1, <3>2
  <2>2. (opening' = "connecting" => live = 0) /\ (opening' = "binding" <=> opening = "binding")
    BY <1>1 DEF Call, TypeOK
  <2> QED
    BY <1>1, <2>1, <2>2 DEF Call, TypeOK, CallsTyped, subs, watch, hist, Up
<1>2. ASSUME NEW d \in Callers, UseOk(d) PROVE TypeOK'
  BY <1>2 DEF UseOk, TypeOK, subs, watch, hist, Up, link
<1>3. ASSUME NEW d \in Callers, UseThrows(d) PROVE TypeOK'
  <2>1. UsesFail({d}, live) /\ live \in {0, live}
    BY <1>3 DEF UseThrows
  <2>2. /\ CallsTyped' /\ live' \in {0, live} /\ discarded' \in BOOLEAN
        /\ opening' \in {"no", "connecting", "binding"} /\ (opening' = "connecting" => live' = 0)
        /\ (opening' = "binding") = (opening = "binding")
    BY <2>1, UsesFailEffect
  <2> QED
    BY <1>3, <2>2 DEF UseThrows, TypeOK, CallsTyped, subs, watch, Up
<1>4. ASSUME NEW k \in Conns, Break(k) PROVE TypeOK'
  <2> DEFINE ds == {d \in Callers : pc[d] \in {"using", "reusing"} /\ using[d] = k}
  <2>1. UsesFail(ds, Dropped(k)) /\ Dropped(k) \in {0, live}
    BY <1>4 DEF Break, Dropped
  <2> HIDE DEF ds
  <2>2. /\ CallsTyped' /\ live' \in {0, Dropped(k)} /\ discarded' \in BOOLEAN
        /\ opening' \in {"no", "connecting", "binding"} /\ (opening' = "connecting" => live' = 0)
        /\ (opening' = "binding") = (opening = "binding")
    BY <2>1, UsesFailEffect
  <2>3. Dropped(k) = IF live = k THEN 0 ELSE live
    BY DEF Dropped
  <2>4. /\ conn' \in [Conns -> {"none", "up", "bare", "down"}]
        /\ \A l \in Conns \ {k} : conn'[l] = conn[l]
    <3>1. PICK h \in {"bare", "down"} : conn' = [conn EXCEPT ![k] = h]
      BY <1>4 DEF Break
    <3> QED
      BY <3>1 DEF TypeOK
  <2>5. live' \in Conns \union {0} /\ (live' # 0 => Up(live)')
    BY <2>2, <2>3, <2>4 DEF TypeOK, Up
  <2>6. /\ wire' \in [Pausable -> [Conns -> Seq({"cancel", "consume"})]]
        /\ watching' \in [Pausable -> [Conns -> {"none", "held", "paused"}]]
        /\ consuming' \in [Consumers -> [Conns -> Nat]]
    <3>1. <<>> \in Seq({"cancel", "consume"})
      OBVIOUS
    <3> QED
      BY <1>4, <3>1, BoundsAssumption DEF Break, Silence, TypeOK
  <2> QED
    BY <1>4, <2>2, <2>4, <2>5, <2>6 DEF Break, TypeOK, CallsTyped, subs
<1>5. CASE Connect
  <2> DEFINE k == made + 1
  <2>1. k \in Conns /\ conn[k] = "none" /\ opening = "connecting" /\ live = 0
    BY <1>5, MadeNext DEF Connect, TypeOK
  <2>2. /\ conn' = [conn EXCEPT ![k] = "up"] /\ live' = k
        /\ \/ OpenEnds(k, pass) /\ binding' = binding
           \/ /\ Todo(k, 1) # {}
              /\ pass' = [pass EXCEPT ![Open] = Pass("setting", k, Min(Todo(k, 1)))]
              /\ binding' = [binding EXCEPT ![consumers[Min(Todo(k, 1))]] = k]
              /\ opening' = "binding" /\ pc' = pc /\ using' = using
    BY <1>5 DEF Connect, calls
  <2> HIDE DEF k
  <2>3. conn' \in [Conns -> {"none", "up", "bare", "down"}] /\ live' \in Conns /\ Up(live)'
    BY <2>1, <2>2 DEF TypeOK, Up, Conns
  <2>4. CASE OpenEnds(k, pass) /\ binding' = binding
    <3>1. /\ CallsTyped' /\ pass' \in [Passes -> PassStates] /\ pass'[Open].step = "idle"
          /\ opening' \in {"no", "connecting"} /\ (opening' = "connecting" => k = 0)
      BY <2>1, <2>4, OpenEndsEffect
    <3> QED
      BY <1>5, <2>1, <2>3, <2>4, <3>1 DEF Connect, TypeOK, CallsTyped, PassStates, watch, hist, Conns
  <2>5. CASE /\ Todo(k, 1) # {}
             /\ pass' = [pass EXCEPT ![Open] = Pass("setting", k, Min(Todo(k, 1)))]
             /\ binding' = [binding EXCEPT ![consumers[Min(Todo(k, 1))]] = k]
             /\ opening' = "binding" /\ pc' = pc /\ using' = using
    <3>1. Min(Todo(k, 1)) \in 1 .. Len(consumers)
      BY <2>5, FirstTodo
    <3>2. Min(Todo(k, 1)) \in Nat
      BY <3>1
    <3>3. Pass("setting", k, Min(Todo(k, 1))) \in PassStates
      BY <2>1, <3>2 DEF Pass, PassStates
    <3>4. pass' \in [Passes -> PassStates] /\ pass'[Open].step = "setting"
      BY <2>5, <3>3 DEF TypeOK, PassStates, Passes, Pass
    <3>5. binding' \in [Consumers -> Conns \union {0}]
      BY <2>1, <2>5 DEF TypeOK
    <3> QED
      BY <1>5, <2>1, <2>3, <2>5, <3>4, <3>5 DEF Connect, TypeOK, PassStates, watch, hist, Conns
  <2> QED
    BY <2>2, <2>4, <2>5
<1>6. CASE ConnectFails
  <2>1. OpenEnds(0, pass) /\ live = 0
    BY <1>6 DEF ConnectFails, TypeOK
  <2>2. /\ CallsTyped' /\ pass' \in [Passes -> PassStates] /\ pass'[Open].step = "idle"
        /\ opening' \in {"no", "connecting"}
    BY <2>1, OpenEndsEffect
  <2> QED
    BY <1>6, <2>1, <2>2 DEF ConnectFails, TypeOK, CallsTyped, PassStates, watch, hist, Up
<1>7. ASSUME NEW c \in Consumers, AddConsumer(c) PROVE TypeOK'
  <2>1. /\ Pass("done", 0, 0) \in PassStates /\ Pass("waiting", 0, 0) \in PassStates
        /\ Pass("ready", live, 0) \in PassStates
    BY DEF TypeOK, Pass, PassStates
  <2>2. \E s \in PassStates : pass' = [pass EXCEPT ![c] = s]
    BY <1>7, <2>1 DEF AddConsumer
  <2>3. c \in Passes /\ c # Open
    BY BoundsAssumption DEF Passes
  <2>4. pass' \in [Passes -> PassStates] /\ pass'[Open] = pass[Open]
    BY <2>2, <2>3 DEF TypeOK, PassStates, Passes
  <2>5. consumers' \in Seq(Consumers)
    BY <1>7 DEF AddConsumer, TypeOK
  <2> QED
    BY <1>7, <2>4, <2>5 DEF AddConsumer, TypeOK, PassStates, calls, watch, hist, Up
<1>8. ASSUME NEW p \in Passes, SetupOk(p) PROVE TypeOK'
  <2> DEFINE k == pass[p].on
             c == Its(p)
             bound == [binding EXCEPT ![c] = 0]
             i == pass[p].at + 1
  <2>1. /\ k \in Conns /\ c \in Consumers /\ i \in Nat \ {0} /\ Setting(p) /\ conn[k] = "up"
        /\ bound \in [Consumers -> Conns \union {0}] /\ Visit(p, k, i, bound, live)
        /\ consuming' = [consuming EXCEPT ![c][k] = @ + 1]
        /\ tags' = [tags EXCEPT ![c] = k] /\ boundTo' = [boundTo EXCEPT ![c] = k]
        /\ watching' \in {watching, [watching EXCEPT ![c][k] = "held"]}
    BY <1>8, SetupEffect
  <2> HIDE DEF i, bound, c, k
  <2>2. /\ CallsTyped' /\ pass' \in [Passes -> PassStates]
        /\ opening' \in {"no", "connecting", "binding"} /\ (opening' = "connecting" => live = 0)
        /\ (opening' = "binding") = Setting(Open)'
        /\ Setting(p)' => /\ pass'[p].at \in 1 .. Len(consumers)
                          /\ binding' = [bound EXCEPT ![consumers[pass'[p].at]] = k]
        /\ ~Setting(p)' => binding' = bound
    BY <2>1, VisitEffect
  <2>3. binding' \in [Consumers -> Conns \union {0}]
    BY <2>1, <2>2
  <2>4. /\ watching' \in [Pausable -> [Conns -> {"none", "held", "paused"}]]
        /\ consuming' \in [Consumers -> [Conns -> Nat]]
    <3>1. watching \in [Pausable -> [Conns -> {"none", "held", "paused"}]]
      BY DEF TypeOK
    <3>2. consuming \in [Consumers -> [Conns -> Nat]]
      BY DEF TypeOK
    <3>3. consuming' \in [Consumers -> [Conns -> Nat]]
      BY <2>1, <3>2
    <3>4. [watching EXCEPT ![c][k] = "held"] \in [Pausable -> [Conns -> {"none", "held", "paused"}]]
      BY <2>1, <3>1
    <3> QED
      BY <2>1, <3>1, <3>3, <3>4
  <2>5. tags' \in [Consumers -> Conns \union {0}] /\ boundTo' \in [Consumers -> Conns \union {0}]
    <3>1. tags \in [Consumers -> Conns \union {0}] /\ boundTo \in [Consumers -> Conns \union {0}]
      BY DEF TypeOK
    <3> QED
      BY <2>1, <3>1
  <2> QED
    BY <1>8, <2>2, <2>3, <2>4, <2>5 DEF SetupOk, TypeOK, CallsTyped, PassStates, Setting, hist, Up
<1>9. ASSUME NEW c \in Pausable, NEW k \in Conns, Pause(c, k) PROVE TypeOK'
  <2>1. c \in Consumers
    BY BoundsAssumption
  <2>2. wire' \in [Pausable -> [Conns -> Seq({"cancel", "consume"})]]
    <3>1. Append(wire[c][k], "cancel") \in Seq({"cancel", "consume"})
      BY DEF TypeOK
    <3> QED
      BY <1>9, <3>1 DEF Pause, TypeOK
  <2> QED
    BY <1>9, <2>1, <2>2 DEF Pause, TypeOK, link, calls, hist, Up
<1>10. ASSUME NEW c \in Pausable, NEW k \in Conns, Resume(c, k) PROVE TypeOK'
  <2>1. slow' \in BOOLEAN
    BY <1>10 DEF Resume, Contains
  <2>2. wire' \in [Pausable -> [Conns -> Seq({"cancel", "consume"})]]
    <3>1. Append(wire[c][k], "consume") \in Seq({"cancel", "consume"})
      BY DEF TypeOK
    <3> QED
      BY <1>10, <3>1 DEF Resume, TypeOK
  <2> QED
    BY <1>10, <2>1, <2>2 DEF Resume, TypeOK, link, subs, calls, Up
<1>11. ASSUME NEW c \in Pausable, NEW k \in Conns, Answered(c, k) PROVE TypeOK'
  <2>1. c \in Consumers
    BY BoundsAssumption
  <2> DEFINE w == wire[c][k]
  <2>2. w \in Seq(Requests) /\ w # <<>>
    BY <1>11 DEF Answered, TypeOK, Requests
  <2>3. Tail(w) \in Seq(Requests)
    BY <2>2
  <2>4. Cardinality(Cancels(w)) = Cardinality(Cancels(Tail(w))) + (IF Head(w) = "cancel" THEN 1 ELSE 0)
        /\ Cardinality(Cancels(Tail(w))) \in Nat
    BY <2>2, <2>3, CancelsOfTail, CancelsAreFinite
  <2>5. Cardinality(Cancels(w)) + Tag(c, k) <= consuming[c][k]
    BY <2>1 DEF Counted, Backed, Due
  <2>6. Tag(c, k) \in {0, 1} /\ consuming[c][k] \in Nat
    BY <2>1 DEF Tag, TypeOK
  <2>7. Head(w) = "cancel" => consuming[c][k] - 1 \in Nat
    BY <2>4, <2>5, <2>6
  <2>8. wire' = [wire EXCEPT ![c][k] = Tail(w)]
    BY <1>11 DEF Answered
  <2>9. wire' \in [Pausable -> [Conns -> Seq({"cancel", "consume"})]]
    BY <2>3, <2>8 DEF TypeOK, Requests
  <2> HIDE DEF w
  <2>10. /\ consuming' \in [Consumers -> [Conns -> Nat]]
         /\ watching' \in [Pausable -> [Conns -> {"none", "held", "paused"}]]
         /\ tags' \in [Consumers -> Conns \union {0}]
    <3>1. CASE Head(w) = "cancel"
      <4>1. /\ consuming' = [consuming EXCEPT ![c][k] = @ - 1]
            /\ watching' = watching /\ tags' = tags
        BY <1>11, <3>1 DEF Answered, w
      <4> QED
        BY <2>1, <2>7, <3>1, <4>1 DEF TypeOK
    <3>2. CASE Head(w) # "cancel"
      <4>1. /\ consuming' = [consuming EXCEPT ![c][k] = @ + 1]
            /\ watching' = [watching EXCEPT ![c][k] = "held"] /\ tags' = [tags EXCEPT ![c] = k]
        BY <1>11, <3>2 DEF Answered, w
      <4> QED
        BY <2>1, <2>6, <4>1 DEF TypeOK
    <3> QED
      BY <3>1, <3>2
  <2> QED
    BY <1>11, <2>9, <2>10 DEF Answered, TypeOK, link, calls, hist, Up
<1>12. CASE StopIntake
  <2>1. late' \in BOOLEAN
    BY <1>12 DEF StopIntake, Underway, Contains
  <2>2. stop' \in [step : {"no", "running", "done"}, on : Conns \union {0}, at : Nat]
    BY <1>12 DEF StopIntake, TypeOK, Pass
  <2> QED
    BY <1>12, <2>1, <2>2 DEF StopIntake, TypeOK, link, subs, calls, watch, Up
<1>13. CASE StopNext
  <2> DEFINE c == consumers[stop.at]
             k == stop.on
  <2>1. stop' \in [step : {"no", "running", "done"}, on : Conns \union {0}, at : Nat]
    <3>1. stop' \in {[stop EXCEPT !.step = "done"], [stop EXCEPT !.at = @ + 1]}
      BY <1>13 DEF StopNext
    <3>2. stop \in [step : {"no", "running", "done"}, on : Conns \union {0}, at : Nat]
      BY DEF TypeOK
    <3>3. stop.at \in Nat /\ stop.at + 1 \in Nat
      BY <3>2
    <3> QED
      BY <3>1, <3>2, <3>3
  <2>2. consuming' \in [Consumers -> [Conns -> Nat]] /\ tags' \in [Consumers -> Conns \union {0}]
    <3>1. CASE consuming' = consuming
      BY <1>13, <3>1 DEF StopNext, TypeOK
    <3>2. CASE tags[c] = k /\ Up(k) /\ consuming' = [consuming EXCEPT ![c][k] = @ - 1]
               /\ tags' = [tags EXCEPT ![c] = 0]
      <4>1. CASE c \in Consumers
        <5>1. k \in Conns
          BY <3>2 DEF TypeOK, Up
        <5>2. Tag(c, k) = 1 /\ consuming[c][k] \in Nat
          BY <3>2, <4>1, <5>1 DEF Tag, TypeOK
        <5>3. consuming[c][k] >= 1
          <6>1. CASE c \notin Pausable
            BY <4>1, <5>1, <5>2, <6>1 DEF Counted, Backed
          <6>2. CASE c \in Pausable
            <7>1. Due(c, k) \in Nat
              BY <5>1, <6>2, CancelsAreFinite DEF Due, TypeOK, Requests
            <7> QED
              BY <4>1, <5>1, <5>2, <6>2, <7>1 DEF Counted, Backed
          <6> QED
            BY <6>1, <6>2
        <5>4. consuming[c][k] - 1 \in Nat
          BY <5>2, <5>3
        <5> HIDE DEF c, k
        <5> QED
          BY <3>2, <4>1, <5>1, <5>4 DEF TypeOK
      <4>2. CASE c \notin Consumers
        <5> HIDE DEF c, k
        <5> QED
          BY <3>2, <4>2 DEF TypeOK
      <4> QED
        BY <4>1, <4>2
    <3> QED
      BY <1>13, <3>1, <3>2 DEF StopNext
  <2> QED
    BY <1>13, <2>1, <2>2 DEF StopNext, TypeOK, link, calls, watch, hist, Up
<1>14. CASE Close
  <2>1. /\ conn' \in [Conns -> {"none", "up", "bare", "down"}]
        /\ pc' \in [Callers -> {"idle", "waiting", "using", "rewaiting", "reusing"}]
        /\ wire' \in [Pausable -> [Conns -> Seq({"cancel", "consume"})]]
        /\ watching' \in [Pausable -> [Conns -> {"none", "held", "paused"}]]
        /\ consuming' \in [Consumers -> [Conns -> Nat]]
    <3>1. CASE live = 0
      BY <1>14, <3>1 DEF Close, TypeOK, watch
    <3>2. CASE live # 0
      <4>1. /\ conn' = [conn EXCEPT ![live] = "down"] /\ Silence(live)
            /\ pc' = [d \in Callers |->
                 IF pc[d] \in {"using", "reusing"} /\ using[d] = live THEN "idle" ELSE pc[d]]
        BY <1>14, <3>2 DEF Close
      <4>2. <<>> \in Seq({"cancel", "consume"})
        OBVIOUS
      <4>3. wire' \in [Pausable -> [Conns -> Seq({"cancel", "consume"})]]
        BY <4>1, <4>2 DEF Silence, TypeOK
      <4>4. watching' \in [Pausable -> [Conns -> {"none", "held", "paused"}]]
        BY <4>1 DEF Silence, TypeOK
      <4> QED
        BY <4>1, <4>3, <4>4 DEF Silence, TypeOK
    <3> QED
      BY <3>1, <3>2
  <2> QED
    BY <1>14, <2>1 DEF Close, TypeOK, subs, hist
<1>15. ASSUME NEW c \in Consumers, BindAll(c) PROVE TypeOK'
  <2>1. c \in Passes /\ c # Open /\ pass[c].step = "ready"
    BY <1>15, BoundsAssumption DEF Passes, BindAll
  <2>2. pass[c].on \in Conns
    BY <2>1 DEF Links, TypeOK
  <2>3. CASE /\ pass' = [pass EXCEPT ![c] = Pass("done", 0, 0)]
             /\ binding' = binding /\ pc' = pc /\ using' = using /\ opening' = opening
    <3>1. Pass("done", 0, 0) \in PassStates
      BY DEF Pass, PassStates
    <3>2. pass' \in [Passes -> PassStates] /\ pass'[Open] = pass[Open]
      BY <2>1, <2>3, <3>1 DEF TypeOK, PassStates, Passes
    <3> QED
      BY <1>15, <2>3, <3>2 DEF BindAll, TypeOK, PassStates, watch, hist, Up
  <2>4. CASE Visit(c, pass[c].on, 1, binding, live)
    <3>1. binding \in [Consumers -> Conns \union {0}]
      BY DEF TypeOK
    <3>2. /\ CallsTyped' /\ pass' \in [Passes -> PassStates]
          /\ opening' \in {"no", "connecting", "binding"} /\ (opening' = "connecting" => live = 0)
          /\ (opening' = "binding") = Setting(Open)'
          /\ Setting(c)' => /\ pass'[c].at \in 1 .. Len(consumers)
                            /\ binding' = [binding EXCEPT ![consumers[pass'[c].at]] = pass[c].on]
          /\ ~Setting(c)' => binding' = binding
      BY <2>1, <2>2, <2>4, <3>1, VisitEffect
    <3>3. binding' \in [Consumers -> Conns \union {0}]
      BY <2>2, <3>1, <3>2
    <3> QED
      BY <1>15, <3>2, <3>3 DEF BindAll, TypeOK, CallsTyped, PassStates, Setting, watch, hist, Up
  <2> QED
    BY <1>15, <2>3, <2>4 DEF BindAll, calls
<1>16. ASSUME NEW p \in Passes, SetupFails(p) PROVE TypeOK'
  <2>1. Setting(p) /\ pass[p].on \in Conns /\ Its(p) \in Consumers /\ ~Up(pass[p].on)
    BY <1>16, InHand DEF SetupFails, Setting
  <2>2. binding' \in [Consumers -> Conns \union {0}]
    BY <1>16, <2>1 DEF SetupFails, TypeOK, Its
  <2>3. CASE p = Open
    <3>1. OpenEnds(0, pass) /\ live = 0
      BY <1>16, <2>1, <2>3 DEF SetupFails, Links, TypeOK
    <3>2. /\ CallsTyped' /\ pass' \in [Passes -> PassStates] /\ pass'[Open].step = "idle"
          /\ opening' \in {"no", "connecting"}
      BY <3>1, OpenEndsEffect
    <3> QED
      BY <1>16, <2>2, <3>1, <3>2 DEF SetupFails, TypeOK, CallsTyped, PassStates, watch, hist, Up
  <2>4. CASE p # Open
    <3>1. pass' = [pass EXCEPT ![p] = Pass("done", 0, 0)]
      BY <1>16, <2>4 DEF SetupFails
    <3>2. Pass("done", 0, 0) \in PassStates
      BY DEF Pass, PassStates
    <3>3. pass' \in [Passes -> PassStates] /\ pass'[Open] = pass[Open]
      BY <2>4, <3>1, <3>2 DEF TypeOK, PassStates, Passes
    <3> QED
      BY <1>16, <2>2, <2>4, <3>3 DEF SetupFails, TypeOK, PassStates, calls, watch, hist, Up
  <2> QED
    BY <2>3, <2>4
<1> QED
  BY <1>1, <1>2, <1>3, <1>4, <1>5, <1>6, <1>7, <1>8, <1>9, <1>10, <1>11, <1>12, <1>13, <1>14,
     <1>15, <1>16 DEF Next, Reactions, Events

-----------------------------------------------------------------------------
(* What the steps leave of a subscription on a connection *)

Same(c, k) ==
  /\ consuming'[c][k] = consuming[c][k]
  /\ c \in Pausable => wire'[c][k] = wire[c][k] /\ watching'[c][k] = watching[c][k]

(* A channel that ends takes what was on it, and nothing else.               *)
LEMMA SilenceEffect ==
  ASSUME TypeOK, NEW k \in Conns, Silence(k)
  PROVE  \A c \in Consumers, l \in Conns : IF l = k THEN Unheard(c, l)' ELSE Same(c, l)
<1> SUFFICES ASSUME NEW c \in Consumers, NEW l \in Conns
             PROVE  IF l = k THEN Unheard(c, l)' ELSE Same(c, l)
  OBVIOUS
<1>1. consuming'[c] = [consuming[c] EXCEPT ![k] = 0] /\ consuming[c] \in [Conns -> Nat]
  BY DEF Silence, TypeOK
<1>2. consuming'[c][l] = IF l = k THEN 0 ELSE consuming[c][l]
  BY <1>1
<1>3. ASSUME c \in Pausable
      PROVE  /\ wire'[c][l] = IF l = k THEN <<>> ELSE wire[c][l]
             /\ watching'[c][l] = IF l = k THEN "none" ELSE watching[c][l]
  <2>1. /\ wire'[c] = [wire[c] EXCEPT ![k] = <<>>] /\ DOMAIN wire[c] = Conns
        /\ watching'[c] = [watching[c] EXCEPT ![k] = "none"] /\ DOMAIN watching[c] = Conns
    BY <1>3 DEF Silence, TypeOK
  <2> QED
    BY <2>1
<1> QED
  BY <1>2, <1>3 DEF Unheard, Same

(* A consumer set up consumes, and is watched if it is to be paused.         *)
LEMMA SetupHeard ==
  ASSUME TypeOK, Links, NEW p \in Passes, SetupOk(p)
  PROVE  /\ consuming'[Its(p)][pass[p].on] = consuming[Its(p)][pass[p].on] + 1
         /\ Its(p) \in Pausable =>
              /\ watching'[Its(p)][pass[p].on] = "held"
              /\ wire'[Its(p)][pass[p].on] = wire[Its(p)][pass[p].on]
         /\ \A c \in Consumers, l \in Conns : c # Its(p) \/ l # pass[p].on => Same(c, l)
         /\ \A c \in Consumers : /\ tags'[c] = IF c = Its(p) THEN pass[p].on ELSE tags[c]
                                 /\ boundTo'[c] = IF c = Its(p) THEN pass[p].on ELSE boundTo[c]
<1> DEFINE k == pass[p].on
           c0 == Its(p)
<1>1. /\ k \in Conns /\ c0 \in Consumers
      /\ consuming' = [consuming EXCEPT ![c0][k] = @ + 1]
      /\ tags' = [tags EXCEPT ![c0] = k] /\ boundTo' = [boundTo EXCEPT ![c0] = k]
      /\ c0 \in Pausable => watching' = [watching EXCEPT ![c0][k] = "held"]
      /\ c0 \notin Pausable => watching' = watching
      /\ wire' = wire
  BY SetupEffect DEF SetupOk
<1> HIDE DEF k, c0
<1>2. tags \in [Consumers -> Conns \union {0}] /\ boundTo \in [Consumers -> Conns \union {0}]
  BY DEF TypeOK
<1>3. /\ consuming \in [Consumers -> [Conns -> Nat]]
      /\ watching \in [Pausable -> [Conns -> {"none", "held", "paused"}]]
  BY DEF TypeOK
<1>4. \A c \in Consumers : /\ tags'[c] = IF c = c0 THEN k ELSE tags[c]
                           /\ boundTo'[c] = IF c = c0 THEN k ELSE boundTo[c]
  BY <1>1, <1>2
<1>5. \A c \in Consumers, l \in Conns :
        consuming'[c][l] = IF c = c0 /\ l = k THEN consuming[c][l] + 1 ELSE consuming[c][l]
  BY <1>1, <1>3
<1>6. \A c \in Pausable, l \in Conns :
        watching'[c][l] = IF c = c0 /\ l = k THEN "held" ELSE watching[c][l]
  BY <1>1, <1>3
<1> QED
  BY <1>1, <1>4, <1>5, <1>6 DEF Same, k, c0

(* A pause asks for a cancel.                                                *)
LEMMA PauseHeard ==
  ASSUME TypeOK, NEW c0 \in Pausable, NEW k \in Conns, Pause(c0, k)
  PROVE  /\ watching[c0][k] = "held" /\ watching'[c0][k] = "paused"
         /\ wire'[c0][k] = Append(wire[c0][k], "cancel")
         /\ consuming' = consuming
         /\ \A c \in Consumers, l \in Conns : c # c0 \/ l # k => Same(c, l)
         /\ \A c \in Consumers : tags'[c] = IF c = c0 THEN 0 ELSE tags[c]
<1>1. /\ watching' = [watching EXCEPT ![c0][k] = "paused"] /\ consuming' = consuming
      /\ wire' = [wire EXCEPT ![c0][k] = Append(wire[c0][k], "cancel")]
      /\ tags' = [tags EXCEPT ![c0] = 0]
      /\ watching[c0][k] = "held"
  BY DEF Pause
<1>2. /\ tags \in [Consumers -> Conns \union {0}]
      /\ watching \in [Pausable -> [Conns -> {"none", "held", "paused"}]]
      /\ wire \in [Pausable -> [Conns -> Seq({"cancel", "consume"})]]
  BY DEF TypeOK
<1>3. \A c \in Consumers : tags'[c] = IF c = c0 THEN 0 ELSE tags[c]
  BY <1>1, <1>2
<1>4. \A c \in Pausable, l \in Conns :
        /\ watching'[c][l] = IF c = c0 /\ l = k THEN "paused" ELSE watching[c][l]
        /\ wire'[c][l] = IF c = c0 /\ l = k THEN Append(wire[c][l], "cancel") ELSE wire[c][l]
  BY <1>1, <1>2
<1>5. ASSUME NEW c \in Consumers, NEW l \in Conns, c # c0 \/ l # k PROVE Same(c, l)
  BY <1>1, <1>4, <1>5 DEF Same
<1>6. wire'[c0][k] = Append(wire[c0][k], "cancel") /\ watching'[c0][k] = "paused"
  BY <1>4
<1> QED
  BY <1>1, <1>3, <1>5, <1>6

(* A resume asks for a consume.                                              *)
LEMMA ResumeHeard ==
  ASSUME TypeOK, NEW c0 \in Pausable, NEW k \in Conns, Resume(c0, k)
  PROVE  /\ watching[c0][k] = "paused" /\ watching' = watching
         /\ wire'[c0][k] = Append(wire[c0][k], "consume")
         /\ consuming' = consuming /\ tags' = tags
         /\ \A c \in Consumers, l \in Conns : c # c0 \/ l # k => Same(c, l)
<1>1. /\ watching' = watching /\ consuming' = consuming /\ tags' = tags
      /\ wire' = [wire EXCEPT ![c0][k] = Append(wire[c0][k], "consume")]
      /\ watching[c0][k] = "paused"
  BY DEF Resume, subs
<1>2. wire \in [Pausable -> [Conns -> Seq({"cancel", "consume"})]]
  BY DEF TypeOK
<1>3. \A c \in Pausable, l \in Conns :
        wire'[c][l] = IF c = c0 /\ l = k THEN Append(wire[c][l], "consume") ELSE wire[c][l]
  BY <1>1, <1>2
<1>4. ASSUME NEW c \in Consumers, NEW l \in Conns, c # c0 \/ l # k PROVE Same(c, l)
  BY <1>1, <1>3, <1>4 DEF Same
<1>5. wire'[c0][k] = Append(wire[c0][k], "consume")
  BY <1>3
<1> QED
  BY <1>1, <1>4, <1>5

(* The broker does what it was asked first.                                  *)
LEMMA AnsweredHeard ==
  ASSUME TypeOK, NEW c0 \in Pausable, NEW k \in Conns, Answered(c0, k)
  PROVE  /\ conn[k] = "up" /\ wire[c0][k] # <<>> /\ wire'[c0][k] = Tail(wire[c0][k])
         /\ Head(wire[c0][k]) = "cancel" =>
              /\ consuming'[c0][k] = consuming[c0][k] - 1
              /\ watching'[c0][k] = watching[c0][k] /\ tags' = tags
         /\ Head(wire[c0][k]) # "cancel" =>
              /\ consuming'[c0][k] = consuming[c0][k] + 1 /\ watching'[c0][k] = "held"
              /\ \A c \in Consumers : tags'[c] = IF c = c0 THEN k ELSE tags[c]
         /\ \A c \in Consumers, l \in Conns : c # c0 \/ l # k => Same(c, l)
<1> DEFINE w == wire[c0][k]
<1>1. /\ conn[k] = "up" /\ w # <<>> /\ wire' = [wire EXCEPT ![c0][k] = Tail(w)]
      /\ Head(w) = "cancel" => /\ consuming' = [consuming EXCEPT ![c0][k] = @ - 1]
                               /\ watching' = watching /\ tags' = tags
      /\ Head(w) # "cancel" => /\ consuming' = [consuming EXCEPT ![c0][k] = @ + 1]
                               /\ watching' = [watching EXCEPT ![c0][k] = "held"]
                               /\ tags' = [tags EXCEPT ![c0] = k]
  BY DEF Answered, Up
<1> HIDE DEF w
<1>2. /\ tags \in [Consumers -> Conns \union {0}] /\ consuming \in [Consumers -> [Conns -> Nat]]
      /\ watching \in [Pausable -> [Conns -> {"none", "held", "paused"}]]
      /\ wire \in [Pausable -> [Conns -> Seq({"cancel", "consume"})]]
  BY DEF TypeOK
<1>3. c0 \in Consumers
  BY BoundsAssumption
<1>4. \A c \in Pausable, l \in Conns :
        wire'[c][l] = IF c = c0 /\ l = k THEN Tail(w) ELSE wire[c][l]
  BY <1>1, <1>2
<1>5. CASE Head(w) = "cancel"
  <2>1. \A c \in Consumers, l \in Conns :
          consuming'[c][l] = IF c = c0 /\ l = k THEN consuming[c][l] - 1 ELSE consuming[c][l]
    BY <1>1, <1>2, <1>3, <1>5
  <2> QED
    BY <1>1, <1>3, <1>4, <1>5, <2>1 DEF Same, w
<1>6. CASE Head(w) # "cancel"
  <2>1. \A c \in Consumers, l \in Conns :
          consuming'[c][l] = IF c = c0 /\ l = k THEN consuming[c][l] + 1 ELSE consuming[c][l]
    BY <1>1, <1>2, <1>3, <1>6
  <2>2. \A c \in Pausable, l \in Conns :
          watching'[c][l] = IF c = c0 /\ l = k THEN "held" ELSE watching[c][l]
    BY <1>1, <1>2, <1>6
  <2>3. \A c \in Consumers : tags'[c] = IF c = c0 THEN k ELSE tags[c]
    BY <1>1, <1>2, <1>6
  <2> QED
    BY <1>1, <1>3, <1>4, <1>6, <2>1, <2>2, <2>3 DEF Same, w
<1> QED
  BY <1>5, <1>6

(* The stop visits one more consumer, or is done.                            *)
LEMMA StopHeard ==
  ASSUME TypeOK, StopNext
  PROVE  /\ stop.step = "running" /\ wire' = wire /\ watching' = watching
         /\ stop.at > Len(consumers) =>
              /\ stop'.step = "done" /\ consuming' = consuming /\ tags' = tags
         /\ stop.at <= Len(consumers) =>
              /\ stop'.step = "running" /\ stop'.on = stop.on /\ stop'.at = stop.at + 1
              /\ \A c \in Consumers : tags'[c] = IF c = consumers[stop.at] THEN 0 ELSE tags[c]
              /\ \A c \in Consumers, l \in Conns :
                   consuming'[c][l] =
                     IF c = consumers[stop.at] /\ l = stop.on /\ tags[c] = l /\ Up(l)
                       THEN consuming[c][l] - 1 ELSE consuming[c][l]
<1> DEFINE c0 == consumers[stop.at]
           k == stop.on
<1>1. /\ stop.step = "running" /\ wire' = wire /\ watching' = watching
      /\ stop.at > Len(consumers) =>
           /\ stop' = [stop EXCEPT !.step = "done"] /\ consuming' = consuming /\ tags' = tags
      /\ ~(stop.at > Len(consumers)) =>
           /\ stop' = [stop EXCEPT !.at = @ + 1] /\ tags' = [tags EXCEPT ![c0] = 0]
           /\ consuming' = IF tags[c0] = k /\ Up(k)
                             THEN [consuming EXCEPT ![c0][k] = @ - 1] ELSE consuming
  BY DEF StopNext, watch
<1> HIDE DEF c0, k
<1>2. /\ tags \in [Consumers -> Conns \union {0}] /\ consuming \in [Consumers -> [Conns -> Nat]]
      /\ stop \in [step : {"no", "running", "done"}, on : Conns \union {0}, at : Nat]
      /\ stop.at \in Nat /\ Len(consumers) \in Nat
  BY DEF TypeOK
<1>3. CASE stop.at > Len(consumers)
  BY <1>1, <1>2, <1>3
<1>4. CASE stop.at <= Len(consumers)
  <2>1. ~(stop.at > Len(consumers))
    BY <1>2, <1>4
  <2>2. \A c \in Consumers : tags'[c] = IF c = c0 THEN 0 ELSE tags[c]
    BY <1>1, <1>2, <2>1
  <2>3. \A c \in Consumers, l \in Conns :
          consuming'[c][l] = IF c = c0 /\ l = k /\ tags[c] = l /\ Up(l)
                               THEN consuming[c][l] - 1 ELSE consuming[c][l]
    BY <1>1, <1>2, <2>1
  <2>4. stop'.step = "running" /\ stop'.on = stop.on /\ stop'.at = stop.at + 1
    BY <1>1, <1>2, <2>1
  <2> QED
    BY <1>1, <1>2, <2>1, <2>2, <2>3, <2>4 DEF c0, k
<1> QED
  BY <1>2, <1>3, <1>4

(* The steps that neither set up, pause, resume, answer nor stop leave what    *)
(* the broker and the watches have, unless they end a channel.                *)
Leaves ==
  /\ consuming' = consuming /\ wire' = wire /\ watching' = watching /\ tags' = tags
  /\ \A l \in Conns : conn'[l] = conn[l] \/ (conn[l] = "none" /\ conn'[l] = "up")
Cuts(k) ==
  /\ Silence(k) /\ tags' = tags
  /\ conn'[k] \in {"bare", "down"} /\ \A l \in Conns \ {k} : conn'[l] = conn[l]
Works ==
  \/ \E p \in Passes : SetupOk(p)
  \/ \E c \in Pausable, k \in Conns : Pause(c, k) \/ Resume(c, k) \/ Answered(c, k)
  \/ StopNext

(* Every step leaves the broker and the watches, ends a channel, or works.    *)
LEMMA BrokerStep ==
  ASSUME TypeOK, Links, Next
  PROVE  Leaves \/ (\E k \in Conns : Cuts(k)) \/ Works
<1>1. ASSUME NEW k \in Conns, Break(k) PROVE Cuts(k)
  <2>1. PICK h \in {"bare", "down"} : conn' = [conn EXCEPT ![k] = h]
    BY <1>1 DEF Break
  <2> QED
    BY <1>1, <2>1 DEF Break, Cuts, Up, TypeOK, subs
<1>2. CASE Connect
  <2> DEFINE k == made + 1
  <2>1. k \in Conns /\ conn[k] = "none" /\ conn' = [conn EXCEPT ![k] = "up"]
    BY <1>2, MadeNext DEF Connect
  <2> HIDE DEF k
  <2> QED
    BY <1>2, <2>1 DEF Connect, Leaves, TypeOK, watch
<1>3. CASE Close
  <2>1. CASE live = 0
    BY <1>3, <2>1 DEF Close, Leaves, watch, subs
  <2>2. CASE live # 0
    <3>1. live \in Conns /\ conn' = [conn EXCEPT ![live] = "down"] /\ Silence(live) /\ tags' = tags
      BY <1>3, <2>2 DEF Close, TypeOK, subs
    <3>2. Cuts(live)
      BY <3>1 DEF Cuts, Up, TypeOK
    <3> QED
      BY <3>1, <3>2
  <2> QED
    BY <2>1, <2>2
<1>4. ASSUME NEW d \in Callers, Call(d) \/ UseOk(d) \/ UseThrows(d) PROVE Leaves
  BY <1>4 DEF Call, UseOk, UseThrows, Leaves, link, subs, watch
<1>5. CASE ConnectFails
  BY <1>5 DEF ConnectFails, Leaves, watch
<1>6. ASSUME NEW c \in Consumers, AddConsumer(c) \/ BindAll(c) PROVE Leaves
  BY <1>6 DEF AddConsumer, BindAll, Leaves, watch
<1>7. ASSUME NEW p \in Passes, SetupFails(p) PROVE Leaves
  BY <1>7 DEF SetupFails, Leaves, watch
<1>8. CASE StopIntake
  BY <1>8 DEF StopIntake, Leaves, link, subs, watch
<1> QED
  BY <1>1, <1>2, <1>3, <1>4, <1>5, <1>6, <1>7, <1>8 DEF Next, Reactions, Events, Works

(* Working steps leave the connections as they are.                          *)
LEMMA WorksOnLinks == ASSUME Works PROVE conn' = conn /\ live' = live /\ consumers' = consumers
BY DEF Works, SetupOk, Pause, Resume, Answered, StopNext, link, subs

-----------------------------------------------------------------------------
(* Every step keeps what the broker has with the connections *)

(* What no longer has its channel stays unheard.                              *)
LEMMA SilentStep == ASSUME IInv, TypeOK', Next PROVE Silent'
<1> SUFFICES ASSUME NEW c \in Consumers, NEW l \in Conns, ~Up(l)' PROVE Unheard(c, l)'
  BY DEF Silent
<1>1. ~Up(l) => Unheard(c, l)
  BY DEF IInv, Silent
<1>2. ASSUME Same(c, l), ~Up(l) PROVE Unheard(c, l)'
  BY <1>1, <1>2 DEF Same, Unheard
<1>3. CASE Leaves
  BY <1>2, <1>3 DEF Leaves, Same, Up
<1>4. ASSUME NEW k \in Conns, Cuts(k) PROVE Unheard(c, l)'
  <2>1. IF l = k THEN Unheard(c, l)' ELSE Same(c, l)
    BY <1>4, SilenceEffect DEF IInv, Cuts
  <2>2. l # k => ~Up(l)
    BY <1>4 DEF Cuts, Up
  <2> QED
    BY <1>2, <2>1, <2>2
<1>5. CASE Works
  <2>1. ~Up(l)
    BY <1>5, WorksOnLinks DEF Up
  <2>2. ASSUME NEW p \in Passes, SetupOk(p) PROVE Same(c, l)
    <3>1. conn[pass[p].on] = "up" /\ pass[p].on \in Conns
      BY <2>2, SetupEffect DEF IInv
    <3>2. l # pass[p].on
      BY <2>1, <3>1 DEF Up, Conns
    <3> QED
      BY <2>2, <3>2, SetupHeard DEF IInv
  <2>3. ASSUME NEW c0 \in Pausable, NEW k \in Conns, Pause(c0, k) PROVE Same(c, l)
    <3>1. watching[c0][k] = "held"
      BY <2>3, PauseHeard DEF IInv
    <3>2. c = c0 => l # k
      BY <1>1, <2>1, <3>1 DEF Unheard
    <3> QED
      BY <2>3, <3>2, PauseHeard DEF IInv
  <2>4. ASSUME NEW c0 \in Pausable, NEW k \in Conns, Resume(c0, k) PROVE Same(c, l)
    <3>1. watching[c0][k] = "paused"
      BY <2>4, ResumeHeard DEF IInv
    <3>2. c = c0 => l # k
      BY <1>1, <2>1, <3>1 DEF Unheard
    <3> QED
      BY <2>4, <3>2, ResumeHeard DEF IInv
  <2>5. ASSUME NEW c0 \in Pausable, NEW k \in Conns, Answered(c0, k) PROVE Same(c, l)
    <3>1. conn[k] = "up"
      BY <2>5, AnsweredHeard DEF IInv
    <3>2. l # k
      BY <2>1, <3>1 DEF Up, Conns
    <3> QED
      BY <2>5, <3>2, AnsweredHeard DEF IInv
  <2>6. ASSUME StopNext PROVE Same(c, l)
    <3>1. stop.at \in Nat /\ Len(consumers) \in Nat
      BY DEF IInv, TypeOK
    <3>2. stop.at > Len(consumers) \/ stop.at <= Len(consumers)
      BY <3>1
    <3>3. consuming'[c][l] = consuming[c][l]
      BY <2>1, <2>6, <3>2, StopHeard DEF IInv
    <3>4. wire' = wire /\ watching' = watching
      BY <2>6, StopHeard DEF IInv
    <3> QED
      BY <3>3, <3>4 DEF Same
  <2> QED
    BY <1>2, <1>5, <2>1, <2>2, <2>3, <2>4, <2>5, <2>6 DEF Works
<1> QED
  BY <1>3, <1>4, <1>5, BrokerStep DEF IInv

(* Intake is stopped once; what the history knows it keeps.                   *)
LEMMA FlagsGrow ==
  ASSUME TypeOK, Next
  PROVE  /\ (cancelled => cancelled') /\ (discarded => discarded') /\ (slow => slow')
         /\ (StopIntake \/ (cancelled' = cancelled /\ late' = late))
<1>1. ASSUME NEW c \in Pausable, NEW k \in Conns, Resume(c, k)
      PROVE  ~slow /\ cancelled' = cancelled /\ late' = late /\ discarded' = discarded
  BY <1>1 DEF Resume
<1>2. ASSUME NEW d \in Callers, UseThrows(d) \/ UseOk(d) \/ Call(d)
      PROVE  cancelled' = cancelled /\ late' = late /\ slow' = slow /\ (discarded => discarded')
  <2>1. UseThrows(d) => UsesFail({d}, live)
    BY DEF UseThrows
  <2>2. ASSUME UseThrows(d) PROVE discarded => discarded'
    BY <2>1, <2>2, UsesFailEffect
  <2>3. ASSUME UseOk(d) \/ Call(d) PROVE discarded' = discarded
    BY <2>3 DEF UseOk, Call, hist
  <2>4. cancelled' = cancelled /\ late' = late /\ slow' = slow
    BY <1>2 DEF UseThrows, UseOk, Call, hist
  <2> QED
    BY <1>2, <2>2, <2>3, <2>4
<1>3. ASSUME NEW k \in Conns, Break(k)
      PROVE  cancelled' = cancelled /\ late' = late /\ slow' = slow /\ (discarded => discarded')
  BY <1>3 DEF Break, UsesFail
<1>4. ASSUME \/ Connect \/ ConnectFails \/ StopNext \/ Close
             \/ \E c \in Consumers : AddConsumer(c) \/ BindAll(c)
             \/ \E p \in Passes : SetupOk(p) \/ SetupFails(p)
             \/ \E c \in Pausable, k \in Conns : Pause(c, k) \/ Answered(c, k)
      PROVE  cancelled' = cancelled /\ late' = late /\ slow' = slow /\ discarded' = discarded
  BY <1>4 DEF Connect, ConnectFails, StopNext, Close, AddConsumer, BindAll, SetupOk, SetupFails,
     Pause, Answered, hist
<1>5. CASE StopIntake
  BY <1>5 DEF StopIntake
<1> QED
  BY <1>1, <1>2, <1>3, <1>4, <1>5 DEF Next, Events, Reactions

(* The broker keeps a consumer for each tag in hand and each cancel due.      *)
LEMMA CountedStep == ASSUME IInv, TypeOK', Next PROVE Counted'
<1> SUFFICES ASSUME NEW c \in Consumers, NEW l \in Conns PROVE Backed(c, l)'
  BY DEF Counted
<1>1. Backed(c, l) /\ TypeOK /\ Links /\ Silent
  BY DEF IInv, Counted
<1>2. /\ consuming[c][l] \in Nat /\ consuming'[c][l] \in Nat
      /\ c \in Pausable => wire[c][l] \in Seq(Requests) /\ wire'[c][l] \in Seq(Requests)
      /\ l # 0
  <2>1. consuming \in [Consumers -> [Conns -> Nat]] /\ consuming' \in [Consumers -> [Conns -> Nat]]
    BY <1>1 DEF TypeOK
  <2>2. wire \in [Pausable -> [Conns -> Seq(Requests)]] /\ wire' \in [Pausable -> [Conns -> Seq(Requests)]]
    BY <1>1 DEF TypeOK, Requests
  <2>3. ASSUME c \in Pausable PROVE wire[c][l] \in Seq(Requests) /\ wire'[c][l] \in Seq(Requests)
    BY <2>2, <2>3
  <2>4. consuming[c][l] \in Nat /\ consuming'[c][l] \in Nat /\ l # 0
    BY <2>1, BoundsAssumption DEF Conns
  <2> QED
    BY <2>3, <2>4
<1>3. c \in Pausable => Due(c, l) \in Nat /\ Due(c, l)' \in Nat
  BY <1>2, CancelsAreFinite DEF Due
<1>4. cancelled => cancelled'
  BY <1>1, FlagsGrow
<1>5. ASSUME Same(c, l), tags'[c] = l => tags[c] = l, (tags[c] = l /\ conn'[l] = "up") => conn[l] = "up",
             conn'[l] # "none" \/ conn'[l] = conn[l]
      PROVE  Backed(c, l)'
  <2>1. Tag(c, l)' \in {0, 1} /\ Tag(c, l) \in {0, 1} /\ Tag(c, l)' <= Tag(c, l)
    BY <1>2, <1>5 DEF Tag, Up
  <2>2. c \in Pausable => Due(c, l)' = Due(c, l)
    BY <1>5 DEF Due, Same
  <2> QED
    BY <1>1, <1>2, <1>3, <1>4, <1>5, <2>1, <2>2 DEF Same, Backed
<1>6. CASE Leaves
  BY <1>1, <1>5, <1>6 DEF Leaves, Same, Backed
<1>7. ASSUME NEW k \in Conns, Cuts(k) PROVE Backed(c, l)'
  <2>1. IF l = k THEN Unheard(c, l)' ELSE Same(c, l)
    BY <1>1, <1>7, SilenceEffect DEF Cuts
  <2>2. CASE l = k
    <3>1. Tag(c, l)' = 0 /\ Unheard(c, l)' /\ conn'[l] # "none"
      BY <1>7, <2>1, <2>2 DEF Cuts, Tag, Up
    <3>2. c \in Pausable => Due(c, l)' = 0
      BY <3>1, CancelsOfNone DEF Due, Unheard
    <3> QED
      BY <3>1, <3>2 DEF Backed, Unheard
  <2>3. CASE l # k
    BY <1>5, <1>7, <2>1, <2>3 DEF Cuts
  <2> QED
    BY <2>2, <2>3
<1>8. CASE Works
  <2>0. conn' = conn
    BY <1>8, WorksOnLinks
  <2>1. ASSUME NEW p \in Passes, SetupOk(p) PROVE Backed(c, l)'
    <3>1. /\ conn[pass[p].on] = "up" /\ pass[p].on \in Conns
      BY <1>1, <2>1, SetupEffect
    <3>2. tags'[c] = IF c = Its(p) THEN pass[p].on ELSE tags[c]
      BY <1>1, <2>1, SetupHeard
    <3>3. CASE c = Its(p) /\ l = pass[p].on
      <4>1. /\ consuming'[c][l] = consuming[c][l] + 1
            /\ c \in Pausable => watching'[c][l] = "held" /\ wire'[c][l] = wire[c][l]
        BY <1>1, <2>1, <3>3, SetupHeard
      <4>2. c \in Pausable => Due(c, l)' = Due(c, l)
        BY <4>1 DEF Due
      <4>3. Tag(c, l)' \in {0, 1} /\ Tag(c, l) \in {0, 1} /\ conn'[l] = "up"
        BY <2>0, <3>1, <3>3 DEF Tag
      <4> QED
        BY <1>1, <1>2, <1>3, <4>1, <4>2, <4>3 DEF Backed
    <3>4. CASE ~(c = Its(p) /\ l = pass[p].on)
      <4>1. Same(c, l)
        BY <1>1, <2>1, <3>4, SetupHeard
      <4>2. tags'[c] = l => tags[c] = l
        BY <3>2, <3>4
      <4> QED
        BY <1>5, <2>0, <4>1, <4>2
    <3> QED
      BY <3>3, <3>4
  <2>2. ASSUME NEW c0 \in Pausable, NEW k \in Conns, Pause(c0, k) PROVE Backed(c, l)'
    <3>1. tags'[c] = IF c = c0 THEN 0 ELSE tags[c]
      BY <1>1, <2>2, PauseHeard
    <3>2. CASE c = c0 /\ l = k
      <4>1. /\ watching[c][l] = "held" /\ watching'[c][l] = "paused" /\ consuming' = consuming
            /\ wire'[c][l] = Append(wire[c][l], "cancel")
        BY <1>1, <2>2, <3>2, PauseHeard
      <4>4. ~cancelled
        BY <2>2 DEF Pause
      <4>2. Due(c, l)' = Due(c, l) + 1
        BY <1>2, <3>2, <4>1, CancelsOfAppend DEF Due
      <4>3. Tag(c, l)' = 0 /\ tags'[c] # l
        BY <1>2, <3>1, <3>2 DEF Tag
      <4> QED
        BY <1>1, <1>2, <1>3, <3>2, <4>1, <4>2, <4>3, <4>4 DEF Backed
    <3>3. CASE ~(c = c0 /\ l = k)
      <4>1. Same(c, l)
        BY <1>1, <2>2, <3>3, PauseHeard
      <4>2. tags'[c] = l => tags[c] = l
        BY <1>2, <3>1
      <4> QED
        BY <1>5, <2>0, <4>1, <4>2
    <3> QED
      BY <3>2, <3>3
  <2>3. ASSUME NEW c0 \in Pausable, NEW k \in Conns, Resume(c0, k) PROVE Backed(c, l)'
    <3>1. tags' = tags /\ consuming' = consuming /\ watching' = watching
      BY <1>1, <2>3, ResumeHeard
    <3>2. CASE c = c0 /\ l = k
      <4>1. wire'[c][l] = Append(wire[c][l], "consume")
        BY <1>1, <2>3, <3>2, ResumeHeard
      <4>2. Due(c, l)' = Due(c, l)
        BY <1>2, <3>2, <4>1, CancelsOfAppend DEF Due
      <4>3. Tag(c, l)' = Tag(c, l)
        BY <2>0, <3>1 DEF Tag, Up
      <4> QED
        BY <1>1, <1>4, <2>0, <3>1, <3>2, <4>2, <4>3 DEF Backed
    <3>3. CASE ~(c = c0 /\ l = k)
      <4>1. Same(c, l)
        BY <1>1, <2>3, <3>3, ResumeHeard
      <4> QED
        BY <1>5, <2>0, <3>1, <4>1
    <3> QED
      BY <3>2, <3>3
  <2>4. ASSUME NEW c0 \in Pausable, NEW k \in Conns, Answered(c0, k) PROVE Backed(c, l)'
    <3>1. tags'[c] = l => tags[c] = l \/ (c = c0 /\ l = k)
      BY <1>1, <2>4, AnsweredHeard
    <3>2. CASE c = c0 /\ l = k
      <4> DEFINE w == wire[c][l]
      <4>1. conn[l] = "up" /\ w # <<>> /\ wire'[c][l] = Tail(w)
        BY <1>1, <2>4, <3>2, AnsweredHeard
      <4>2. Due(c, l) = Due(c, l)' + (IF Head(w) = "cancel" THEN 1 ELSE 0)
        BY <1>2, <3>2, <4>1, CancelsOfTail DEF Due
      <4>3. Tag(c, l)' \in {0, 1} /\ Tag(c, l) \in {0, 1}
        BY DEF Tag
      <4>4. CASE Head(w) = "cancel"
        <5>1. consuming'[c][l] = consuming[c][l] - 1 /\ watching'[c][l] = watching[c][l] /\ tags' = tags
          BY <1>1, <2>4, <3>2, <4>4, AnsweredHeard
        <5>2. Tag(c, l)' = Tag(c, l)
          BY <2>0, <5>1 DEF Tag, Up
        <5> QED
          BY <1>1, <1>2, <1>3, <1>4, <2>0, <3>2, <4>1, <4>2, <4>3, <4>4, <5>1, <5>2 DEF Backed
      <4>5. CASE Head(w) # "cancel"
        <5>1. consuming'[c][l] = consuming[c][l] + 1
          BY <1>1, <2>4, <3>2, <4>5, AnsweredHeard
        <5> QED
          BY <1>1, <1>2, <1>3, <2>0, <3>2, <4>1, <4>2, <4>3, <4>5, <5>1 DEF Backed
      <4> QED
        BY <4>4, <4>5
    <3>3. CASE ~(c = c0 /\ l = k)
      <4>1. Same(c, l)
        BY <1>1, <2>4, <3>3, AnsweredHeard
      <4> QED
        BY <1>5, <2>0, <3>1, <3>3, <4>1
    <3> QED
      BY <3>2, <3>3
  <2>5. CASE StopNext
    <3>0. stop.at \in Nat /\ Len(consumers) \in Nat
      BY <1>1 DEF TypeOK
    <3>1. wire' = wire /\ watching' = watching /\ stop.at \in Nat /\ Len(consumers) \in Nat
      BY <1>1, <2>5, <3>0, StopHeard
    <3>2. CASE stop.at > Len(consumers)
      <4>1. consuming' = consuming /\ tags' = tags
        BY <1>1, <2>5, <3>2, StopHeard
      <4>2. Same(c, l)
        BY <3>1, <4>1 DEF Same
      <4> QED
        BY <1>5, <2>0, <4>1, <4>2
    <3>3. CASE stop.at <= Len(consumers)
      <4>1. /\ tags'[c] = IF c = consumers[stop.at] THEN 0 ELSE tags[c]
            /\ consuming'[c][l] = IF c = consumers[stop.at] /\ l = stop.on /\ tags[c] = l /\ Up(l)
                                    THEN consuming[c][l] - 1 ELSE consuming[c][l]
        BY <1>1, <2>5, <3>3, StopHeard
      <4>2. CASE c = consumers[stop.at] /\ l = stop.on /\ tags[c] = l /\ Up(l)
        <5>1. Tag(c, l) = 1 /\ Tag(c, l)' = 0 /\ tags'[c] # l
          BY <1>2, <4>1, <4>2 DEF Tag
        <5>2. c \in Pausable => Due(c, l)' = Due(c, l)
          BY <3>1 DEF Due
        <5>3. cancelled'
          <6>1. stop.step # "no" /\ cancelled
            BY <1>1, <2>5, StopHeard DEF IInv, Stopping, Begun
          <6> QED
            BY <1>4, <6>1
        <5> QED
          BY <1>1, <1>2, <1>3, <4>1, <4>2, <5>1, <5>2, <5>3 DEF Backed
      <4>3. CASE ~(c = consumers[stop.at] /\ l = stop.on /\ tags[c] = l /\ Up(l))
        <5>1. Same(c, l)
          BY <3>1, <4>1, <4>3 DEF Same
        <5>2. tags'[c] = l => tags[c] = l
          BY <1>2, <4>1
        <5> QED
          BY <1>5, <2>0, <5>1, <5>2
      <4> QED
        BY <4>2, <4>3
    <3> QED
      BY <3>1, <3>2, <3>3
  <2> QED
    BY <1>8, <2>1, <2>2, <2>3, <2>4, <2>5 DEF Works
<1> QED
  BY <1>1, <1>6, <1>7, <1>8, BrokerStep

-----------------------------------------------------------------------------
(* Every step keeps the passes on their connections *)

(* A step that leaves the passes, the consumers and what they are bound to.   *)
PassesKept ==
  pass' = pass /\ consumers' = consumers /\ binding' = binding /\ boundTo' = boundTo
Passing ==
  \/ Connect \/ ConnectFails
  \/ \E c \in Consumers : AddConsumer(c) \/ BindAll(c)
  \/ \E p \in Passes : SetupOk(p) \/ SetupFails(p)

(* Such a step keeps the connection in use, too, or it ends one, or drops the *)
(* one in use, which the history knows.                                       *)
Ended(k) ==
  /\ conn'[k] \in {"bare", "down"} /\ conn[k] # "none"
  /\ \A l \in Conns \ {k} : conn'[l] = conn[l]
  /\ live' = IF live = k THEN 0 ELSE live
Dropping == live' = 0 /\ discarded'

(* Every step is one of the passes, or keeps them and what it does to the     *)
(* connection in use is one of these.                                         *)
LEMMA LinkStep ==
  ASSUME TypeOK, Next
  PROVE  \/ Passing
         \/ /\ PassesKept
            /\ \/ conn' = conn /\ live' = live
               \/ Drained /\ (\A k \in Conns : conn'[k] = "none" <=> conn[k] = "none") /\ Dropping
               \/ Drained /\ \E k \in Conns : Ended(k)
<1>1. ASSUME Drained, NEW d \in Callers, UseThrows(d)
      PROVE  PassesKept /\ conn' = conn /\ (live' = live \/ Dropping)
  <2>1. UsesFail({d}, live)
    BY <1>1 DEF UseThrows
  <2>2. live' \in {0, live} /\ (live' # live => (Up(live) => discarded'))
    BY <2>1, UsesFailEffect
  <2>3. live' # live => live' = 0 /\ Up(live)
    BY <2>2 DEF TypeOK
  <2>4. live' = live \/ Dropping
    BY <2>2, <2>3 DEF Dropping
  <2> QED
    BY <1>1, <2>4 DEF UseThrows, PassesKept, subs
<1>2. ASSUME Drained, NEW k \in Conns, Break(k)
      PROVE  PassesKept /\ (\A l \in Conns : conn'[l] = "none" <=> conn[l] = "none")
               /\ (Ended(k) \/ Dropping)
  <2> DEFINE ds == {d \in Callers : pc[d] \in {"using", "reusing"} /\ using[d] = k}
  <2>1. UsesFail(ds, Dropped(k)) /\ Dropped(k) \in {0, live}
    BY <1>2 DEF Break, Dropped
  <2> HIDE DEF ds
  <2>2. live' \in {0, Dropped(k)} /\ (live' # Dropped(k) => (Up(Dropped(k)) => discarded'))
    BY <2>1, UsesFailEffect
  <2>3. live' # Dropped(k) => live' = 0 /\ Up(Dropped(k))
    BY <2>1, <2>2 DEF TypeOK
  <2>4. live' = Dropped(k) \/ Dropping
    BY <2>2, <2>3 DEF Dropping
  <2>5. PICK h \in {"bare", "down"} : conn' = [conn EXCEPT ![k] = h] /\ conn[k] # "none"
    BY <1>2 DEF Break
  <2>6. conn'[k] \in {"bare", "down"} /\ conn[k] # "none" /\ \A l \in Conns \ {k} : conn'[l] = conn[l]
    BY <2>5 DEF TypeOK
  <2>7. Ended(k) \/ Dropping
    BY <2>4, <2>6 DEF Ended, Dropped
  <2> QED
    BY <1>2, <2>6, <2>7 DEF Break, PassesKept, subs
<1>3. CASE Close
  <2>1. PassesKept
    BY <1>3 DEF Close, PassesKept, subs
  <2>2. live = 0 => conn' = conn /\ live' = live
    BY <1>3 DEF Close
  <2>3. ASSUME live # 0 PROVE live \in Conns /\ \E k \in Conns : Ended(k)
    <3>1. live \in Conns /\ conn' = [conn EXCEPT ![live] = "down"] /\ live' = 0 /\ conn[live] = "up"
      BY <1>3, <2>3 DEF Close, TypeOK, Up
    <3>2. conn'[live] = "down" /\ \A l \in Conns \ {live} : conn'[l] = conn[l]
      BY <3>1 DEF TypeOK
    <3>3. Ended(live)
      BY <3>1, <3>2 DEF Ended
    <3> QED
      BY <3>1, <3>3
  <2>4. Drained \/ Passing
    BY <1>3 DEF Next, Reactions, Passing
  <2> QED
    BY <2>1, <2>2, <2>3, <2>4
<1>4. ASSUME NEW d \in Callers, Call(d) \/ UseOk(d) PROVE PassesKept /\ conn' = conn /\ live' = live
  BY <1>4 DEF Call, UseOk, PassesKept, link, subs
<1>5. ASSUME NEW c \in Pausable, NEW k \in Conns, Pause(c, k) \/ Resume(c, k) \/ Answered(c, k)
      PROVE  PassesKept /\ conn' = conn /\ live' = live
  BY <1>5 DEF Pause, Resume, Answered, PassesKept, link, subs
<1>6. ASSUME StopIntake \/ StopNext PROVE PassesKept /\ conn' = conn /\ live' = live
  BY <1>6 DEF StopIntake, StopNext, PassesKept, link, subs
<1>7. Reactions \/ (Drained /\ Events)
  BY DEF Next
<1>8. Reactions => Passing
  BY DEF Reactions, Passing
<1>9. ASSUME Drained, Events PROVE
         \/ Passing
         \/ /\ PassesKept
            /\ \/ conn' = conn /\ live' = live
               \/ Drained /\ (\A k \in Conns : conn'[k] = "none" <=> conn[k] = "none") /\ Dropping
               \/ Drained /\ \E k \in Conns : Ended(k)
  BY <1>1, <1>2, <1>3, <1>4, <1>5, <1>6, <1>9 DEF Events, Passing
<1> QED
  BY <1>7, <1>8, <1>9

(* What open() makes of the passes: nobody's is set up, or only its own.      *)
LEMMA ConnectEffect ==
  ASSUME TypeOK, Links, Connect
  PROVE  \E k \in Conns :
    /\ k = made + 1 /\ made' = made + 1 /\ made \in Nat
    /\ live = 0 /\ live' = k /\ conn[k] = "none" /\ conn' = [conn EXCEPT ![k] = "up"]
    /\ consumers' = consumers /\ boundTo' = boundTo
    /\ \A q \in Passes : pass'[q].step = "ready" =>
         q # Open /\ (pass'[q] = pass[q] \/ pass'[q].on = k)
    /\ \A q \in Passes \ {Open} : Setting(q)' => pass'[q] = pass[q]
    /\ ~Setting(Open)' => binding' = binding
    /\ Setting(Open)' => /\ pass'[Open].on = k /\ pass'[Open].at \in Todo(k, 1) /\ ~cancelled
                         /\ pass'[Open].at \in 1 .. Len(consumers)
                         /\ binding' = [binding EXCEPT ![consumers[pass'[Open].at]] = k]
<1> DEFINE k == made + 1
<1>1. /\ k \in Conns /\ conn[k] = "none" /\ live = 0 /\ made \in Nat
      /\ conn' = [conn EXCEPT ![k] = "up"] /\ live' = k /\ made' = made + 1
      /\ \/ OpenEnds(k, pass) /\ binding' = binding
         \/ /\ Todo(k, 1) # {} /\ ~cancelled
            /\ pass' = [pass EXCEPT ![Open] = Pass("setting", k, Min(Todo(k, 1)))]
            /\ binding' = [binding EXCEPT ![consumers[Min(Todo(k, 1))]] = k]
      /\ consumers' = consumers /\ boundTo' = boundTo
  BY MadeNext DEF Connect, TypeOK, subs
<1>2. k = made + 1
  OBVIOUS
<1> HIDE DEF k
<1>3. CASE OpenEnds(k, pass) /\ binding' = binding
  <2>1. /\ pass'[Open].step = "idle"
        /\ \A q \in Passes : Setting(q)' => q # Open /\ pass'[q] = pass[q]
        /\ \A q \in Passes : pass'[q].step = "ready" => q # Open /\
             (pass'[q] = pass[q] \/ (k # 0 /\ pass'[q].on = k))
    BY <1>1, <1>3, OpenEndsEffect
  <2>2. ~Setting(Open)'
    BY <2>1 DEF Setting
  <2> QED
    BY <1>1, <1>2, <1>3, <2>1, <2>2
<1>4. CASE /\ Todo(k, 1) # {} /\ ~cancelled
           /\ pass' = [pass EXCEPT ![Open] = Pass("setting", k, Min(Todo(k, 1)))]
           /\ binding' = [binding EXCEPT ![consumers[Min(Todo(k, 1))]] = k]
  <2> DEFINE j == Min(Todo(k, 1))
  <2>1. j \in Todo(k, 1) /\ j \in 1 .. Len(consumers)
    BY <1>4, FirstTodo
  <2> HIDE DEF j
  <2>2. Open \in Passes /\ pass' = [pass EXCEPT ![Open] = Pass("setting", k, j)]
        /\ binding' = [binding EXCEPT ![consumers[j]] = k]
    BY <1>4 DEF Passes, j
  <2>3. pass'[Open] = Pass("setting", k, j) /\ \A q \in Passes \ {Open} : pass'[q] = pass[q]
    BY <2>2 DEF TypeOK
  <2>4. pass'[Open].step = "setting" /\ pass'[Open].on = k /\ pass'[Open].at = j
    BY <2>3 DEF Pass
  <2>5. \A q \in Passes : pass'[q].step = "ready" => q # Open /\ pass'[q] = pass[q]
    BY <2>3, <2>4
  <2>6. Setting(Open)'
    BY <2>4 DEF Setting
  <2> QED
    BY <1>1, <1>2, <1>4, <2>1, <2>2, <2>3, <2>4, <2>5, <2>6
<1> QED
  BY <1>1, <1>3, <1>4

(* Passes may end, or be given the connection in use; none goes on with its    *)
(* setup but those that have one in hand.                                     *)
Fewer ==
  /\ conn' = conn /\ live' = live /\ boundTo' = boundTo
  /\ Len(consumers') >= Len(consumers) /\ \A i \in 1 .. Len(consumers) : consumers'[i] = consumers[i]
  /\ \A q \in Passes : Setting(q)' => pass'[q] = pass[q]
  /\ \A q \in Passes : pass'[q].step = "ready" =>
       q # Open /\ (pass'[q] = pass[q] \/ (live # 0 /\ pass'[q].on = live))
  /\ binding' = binding \/ \E p \in Passes :
       Setting(p) /\ ~Setting(p)' /\ binding' = [binding EXCEPT ![Its(p)] = 0]

(* A pass that binds on, at consumer i of those in order, to connection k.    *)
Binds(p, k, i, bound) ==
  /\ conn' = conn /\ live' = live /\ consumers' = consumers
  /\ \A q \in Passes \ {p} : Setting(q)' => pass'[q] = pass[q]
  /\ \A q \in Passes : pass'[q].step = "ready" => q # p /\
       (pass'[q] = pass[q] \/ (q # Open /\ live # 0 /\ pass'[q].on = live))
  /\ Setting(p)' => /\ pass'[p].on = k /\ pass'[p].at \in Todo(k, i)
                    /\ pass'[p].at \in 1 .. Len(consumers)
                    /\ binding' = [bound EXCEPT ![consumers[pass'[p].at]] = k]
  /\ ~Setting(p)' => binding' = bound

(* What each step of a pass amounts to.                                       *)
LEMMA PassingEffect ==
  ASSUME TypeOK, Links, Passing
  PROVE  \/ Connect
         \/ Fewer
         \/ \E c \in Consumers : /\ pass[c].step = "ready" /\ ~cancelled /\ boundTo' = boundTo
                                 /\ Binds(c, pass[c].on, 1, binding)
         \/ \E p \in Passes : /\ SetupOk(p)
                              /\ Binds(p, pass[p].on, pass[p].at + 1, [binding EXCEPT ![Its(p)] = 0])
<1>0. /\ Len(consumers) \in Nat /\ \A q \in Passes : pass[q].step = "ready" => q # Open
  BY DEF TypeOK, Links
<1>1. ASSUME NEW r \in {0}, OpenEnds(r, pass)
      PROVE  /\ \A q \in Passes : Setting(q)' => q # Open /\ pass'[q] = pass[q]
             /\ \A q \in Passes : pass'[q].step = "ready" => q # Open /\ pass'[q] = pass[q]
  BY <1>1, OpenEndsEffect
<1>2. CASE ConnectFails
  <2>1. OpenEnds(0, pass)
    BY <1>2 DEF ConnectFails
  <2> QED
    BY <1>0, <1>1, <1>2, <2>1 DEF ConnectFails, Fewer
<1>3. ASSUME NEW c \in Consumers, AddConsumer(c) PROVE Fewer
  <2>1. \E s \in {Pass("done", 0, 0), Pass("waiting", 0, 0), Pass("ready", live, 0)} :
          pass' = [pass EXCEPT ![c] = s] /\ (s.step = "ready" => live # 0 /\ s.on = live)
            /\ s.step # "setting"
    <3>1. CASE closed
      <4>1. pass' = [pass EXCEPT ![c] = Pass("done", 0, 0)]
        BY <1>3, <3>1 DEF AddConsumer
      <4> QED
        BY <4>1 DEF Pass
    <3>2. CASE ~closed /\ live # 0
      <4>1. pass' = [pass EXCEPT ![c] = Pass("ready", live, 0)]
        BY <1>3, <3>2 DEF AddConsumer
      <4> QED
        BY <3>2, <4>1 DEF Pass
    <3>3. CASE ~closed /\ live = 0
      <4>1. pass' = [pass EXCEPT ![c] = Pass("waiting", 0, 0)]
        BY <1>3, <3>3 DEF AddConsumer
      <4> QED
        BY <4>1 DEF Pass
    <3> QED
      BY <3>1, <3>2, <3>3
  <2>2. c \in Passes /\ c # Open
    BY BoundsAssumption DEF Passes
  <2>3. /\ \A q \in Passes : Setting(q)' => pass'[q] = pass[q]
        /\ \A q \in Passes : pass'[q].step = "ready" =>
             q # Open /\ (pass'[q] = pass[q] \/ (live # 0 /\ pass'[q].on = live))
    BY <1>0, <2>1, <2>2 DEF TypeOK, Setting
  <2>4. consumers' = Append(consumers, c) /\ consumers \in Seq(Consumers)
    BY <1>3 DEF AddConsumer, TypeOK
  <2>5. Len(consumers') >= Len(consumers) /\ \A i \in 1 .. Len(consumers) : consumers'[i] = consumers[i]
    BY <1>0, <2>4
  <2> QED
    BY <1>3, <2>3, <2>5 DEF AddConsumer, Fewer
<1>4. ASSUME NEW c \in Consumers, BindAll(c)
      PROVE  Fewer \/ (pass[c].step = "ready" /\ ~cancelled /\ boundTo' = boundTo
                         /\ Binds(c, pass[c].on, 1, binding))
  <2>1. /\ c \in Passes /\ c # Open /\ pass[c].step = "ready" /\ conn' = conn /\ live' = live
        /\ consumers' = consumers /\ boundTo' = boundTo
    BY <1>4, BoundsAssumption DEF BindAll, Passes
  <2>2. CASE cancelled
    <3>1. pass' = [pass EXCEPT ![c] = Pass("done", 0, 0)] /\ binding' = binding
      BY <1>4, <2>2 DEF BindAll
    <3>2. pass'[c].step = "done" /\ \A q \in Passes \ {c} : pass'[q] = pass[q]
      BY <2>1, <3>1 DEF TypeOK, Pass
    <3> QED
      BY <1>0, <2>1, <3>1, <3>2 DEF Fewer, Setting
  <2>3. CASE ~cancelled
    <3>1. Visit(c, pass[c].on, 1, binding, live) /\ pass[c].on \in Conns
            /\ binding \in [Consumers -> Conns \union {0}]
      BY <1>4, <2>1, <2>3 DEF BindAll, TypeOK, Links
    <3>2. /\ \A q \in Passes \ {c} : Setting(q)' => pass'[q] = pass[q]
          /\ \A q \in Passes : pass'[q].step = "ready" => q # c /\
               (pass'[q] = pass[q] \/ (q # Open /\ live # 0 /\ pass'[q].on = live))
          /\ Setting(c)' => /\ pass'[c].on = pass[c].on /\ pass'[c].at \in Todo(pass[c].on, 1)
                            /\ pass'[c].at \in 1 .. Len(consumers)
                            /\ binding' = [binding EXCEPT ![consumers[pass'[c].at]] = pass[c].on]
          /\ ~Setting(c)' => binding' = binding
      BY <2>1, <3>1, VisitEffect
    <3> QED
      BY <2>1, <2>3, <3>2 DEF Binds
  <2> QED
    BY <2>2, <2>3
<1>5. ASSUME NEW p \in Passes, SetupFails(p) PROVE Fewer
  <2>1. /\ Setting(p) /\ binding' = [binding EXCEPT ![Its(p)] = 0] /\ conn' = conn /\ live' = live
        /\ consumers' = consumers /\ boundTo' = boundTo
    BY <1>5 DEF SetupFails, Setting, Its
  <2>2. /\ \A q \in Passes : Setting(q)' => q # p /\ pass'[q] = pass[q]
        /\ \A q \in Passes : pass'[q].step = "ready" => q # Open /\ pass'[q] = pass[q]
    <3>1. CASE p = Open
      <4>1. OpenEnds(0, pass)
        BY <1>5, <3>1 DEF SetupFails
      <4> QED
        BY <1>1, <3>1, <4>1
    <3>2. CASE p # Open
      <4>1. pass' = [pass EXCEPT ![p] = Pass("done", 0, 0)]
        BY <1>5, <3>2 DEF SetupFails
      <4>2. pass'[p].step = "done" /\ \A q \in Passes \ {p} : pass'[q] = pass[q]
        BY <4>1 DEF TypeOK, Pass
      <4> QED
        BY <1>0, <4>2 DEF Setting
    <3> QED
      BY <3>1, <3>2
  <2>3. ~Setting(p)'
    BY <2>2
  <2>4. \E q \in Passes : Setting(q) /\ ~Setting(q)' /\ binding' = [binding EXCEPT ![Its(q)] = 0]
    BY <2>1, <2>3
  <2>5. Len(consumers') >= Len(consumers) /\ \A i \in 1 .. Len(consumers) : consumers'[i] = consumers[i]
    BY <1>0, <2>1
  <2> QED
    BY <2>1, <2>2, <2>4, <2>5 DEF Fewer
<1>6. ASSUME NEW p \in Passes, SetupOk(p)
      PROVE  Binds(p, pass[p].on, pass[p].at + 1, [binding EXCEPT ![Its(p)] = 0])
  <2> DEFINE k == pass[p].on
             i == pass[p].at + 1
             bound == [binding EXCEPT ![Its(p)] = 0]
  <2>1. k \in Conns /\ i \in Nat \ {0} /\ Setting(p) /\ Visit(p, k, i, bound, live)
          /\ bound \in [Consumers -> Conns \union {0}]
    BY <1>6, SetupEffect
  <2>2. conn' = conn /\ live' = live /\ consumers' = consumers
    BY <1>6 DEF SetupOk
  <2> HIDE DEF k, i, bound
  <2>3. /\ \A q \in Passes \ {p} : Setting(q)' => pass'[q] = pass[q]
        /\ \A q \in Passes : pass'[q].step = "ready" => q # p /\
             (pass'[q] = pass[q] \/ (q # Open /\ live # 0 /\ pass'[q].on = live))
        /\ Setting(p)' => /\ pass'[p].on = k /\ pass'[p].at \in Todo(k, i)
                          /\ pass'[p].at \in 1 .. Len(consumers)
                          /\ binding' = [bound EXCEPT ![consumers[pass'[p].at]] = k]
        /\ ~Setting(p)' => binding' = bound
    BY <2>1, VisitEffect
  <2>4. Binds(p, k, i, bound)
    BY <2>2, <2>3 DEF Binds
  <2> QED
    BY <2>4 DEF k, i, bound
<1> QED
  BY <1>2, <1>3, <1>4, <1>5, <1>6 DEF Passing

(* Every step keeps the order of the connections, and the passes on theirs.   *)
LEMMA LinksStep == ASSUME IInv, Next PROVE Links'
<1> USE DEF IInv
<1>0. ASSUME \A k \in Conns : conn'[k] = "none" <=> conn[k] = "none" PROVE made' = made
  <2>1. {k \in Conns : conn'[k] # "none"} = {k \in Conns : conn[k] # "none"}
    BY <1>0
  <2> QED
    BY <2>1 DEF made
<1>1. ASSUME PassesKept, conn' = conn, live' = live PROVE Links'
  BY <1>0, <1>1 DEF PassesKept, Links, Setting
<1>2. ASSUME PassesKept, Drained, live' \in {0, live},
             \A k \in Conns : conn'[k] = "none" <=> conn[k] = "none"
      PROVE  Links'
  <2>1. \A p \in Passes : pass'[p] = pass[p] /\ pass'[p].step # "ready"
    BY <1>2 DEF PassesKept, Drained
  <2>2. \A k \in Conns : conn'[k] # "none" <=> k <= made'
    BY <1>0, <1>2 DEF Links
  <2> QED
    BY <1>2, <2>1, <2>2 DEF PassesKept, Links, Setting
<1>3. CASE Connect
  <2>1. PICK k \in Conns :
    /\ k = made + 1 /\ made' = made + 1 /\ made \in Nat
    /\ live = 0 /\ live' = k /\ conn[k] = "none" /\ conn' = [conn EXCEPT ![k] = "up"]
    /\ consumers' = consumers
    /\ \A q \in Passes : pass'[q].step = "ready" =>
         q # Open /\ (pass'[q] = pass[q] \/ pass'[q].on = k)
    /\ \A q \in Passes \ {Open} : Setting(q)' => pass'[q] = pass[q]
    /\ Setting(Open)' => pass'[Open].on = k /\ pass'[Open].at \in 1 .. Len(consumers)
    BY <1>3, ConnectEffect
  <2>2. \A l \in Conns : conn'[l] # "none" <=> l <= made'
    <3>1. conn'[k] = "up" /\ \A l \in Conns \ {k} : conn'[l] = conn[l]
      BY <2>1 DEF TypeOK
    <3>2. \A l \in Conns : l \in Nat
      BY BoundsAssumption DEF Conns
    <3>3. \A l \in Conns : l # k => (l <= made + 1 <=> l <= made)
      BY <2>1, <3>2
    <3> QED
      BY <2>1, <3>1, <3>3 DEF Links
  <2>3. k # 0
    BY BoundsAssumption DEF Conns
  <2>4. \A q \in Passes : pass'[q].step = "ready" => q # Open /\ live' # 0 /\ pass'[q].on = live'
    BY <2>1, <2>3 DEF Links
  <2>5. \A q \in Passes : Setting(q)' => pass'[q].on \in Conns /\ pass'[q].at \in 1 .. Len(consumers')
    BY <2>1 DEF Links, Setting
  <2> QED
    BY <2>1, <2>2, <2>4, <2>5 DEF Links
<1>4. CASE Fewer
  <2>1. \A k \in Conns : conn'[k] # "none" <=> k <= made'
    BY <1>0, <1>4 DEF Links, Fewer
  <2>2. Len(consumers) \in Nat /\ Len(consumers') >= Len(consumers)
    BY <1>4 DEF Fewer, TypeOK
  <2>3. consumers' \in Seq(Consumers)
    BY TypesStep DEF TypeOK
  <2>4. \A j \in 1 .. Len(consumers) : j \in 1 .. Len(consumers')
    BY <2>2, <2>3
  <2>5. \A q \in Passes : pass'[q].step = "ready" => q # Open /\ live' # 0 /\ pass'[q].on = live'
    BY <1>4 DEF Links, Fewer
  <2>6. \A q \in Passes : Setting(q)' => pass'[q].on \in Conns /\ pass'[q].at \in 1 .. Len(consumers')
    BY <1>4, <2>4 DEF Links, Setting, Fewer
  <2>7. Setting(Open)' => live' \in {0, pass'[Open].on}
    BY <1>4 DEF Links, Setting, Fewer, Passes
  <2> QED
    BY <2>1, <2>5, <2>6, <2>7 DEF Links
<1>5. ASSUME NEW p \in Passes, NEW k \in Conns, NEW i, NEW bound, Binds(p, k, i, bound),
             p = Open => live \in {0, k}
      PROVE  Links'
  <2>1. \A l \in Conns : conn'[l] # "none" <=> l <= made'
    BY <1>0, <1>5 DEF Links, Binds
  <2>2. \A q \in Passes : pass'[q].step = "ready" => q # Open /\ live' # 0 /\ pass'[q].on = live'
    BY <1>5 DEF Links, Binds
  <2>3. \A q \in Passes : Setting(q)' => pass'[q].on \in Conns /\ pass'[q].at \in 1 .. Len(consumers')
    BY <1>5 DEF Links, Setting, Binds
  <2>4. Setting(Open)' => live' \in {0, pass'[Open].on}
    BY <1>5 DEF Links, Setting, Binds, Passes
  <2> QED
    BY <2>1, <2>2, <2>3, <2>4 DEF Links
<1>6. CASE Passing
  <2>1. ASSUME NEW c \in Consumers, pass[c].step = "ready", Binds(c, pass[c].on, 1, binding)
        PROVE  Links'
    <3>1. c \in Passes /\ c # Open /\ pass[c].on \in Conns
      BY <2>1 DEF Passes, Links, TypeOK
    <3> QED
      BY <1>5, <2>1, <3>1
  <2>2. ASSUME NEW p \in Passes, SetupOk(p),
               Binds(p, pass[p].on, pass[p].at + 1, [binding EXCEPT ![Its(p)] = 0])
        PROVE  Links'
    <3>1. Setting(p) /\ pass[p].on \in Conns /\ (p = Open => live \in {0, pass[p].on})
      BY <2>2, SetupEffect DEF Links
    <3> QED
      BY <1>5, <2>2, <3>1
  <2> QED
    BY <1>3, <1>4, <1>6, <2>1, <2>2, PassingEffect
<1>7. ASSUME PassesKept, Drained, Dropping, \A k \in Conns : conn'[k] = "none" <=> conn[k] = "none"
      PROVE  Links'
  BY <1>2, <1>7 DEF Dropping
<1>8. ASSUME PassesKept, Drained, NEW k \in Conns, Ended(k) PROVE Links'
  <2>1. live' \in {0, live} /\ \A l \in Conns : conn'[l] = "none" <=> conn[l] = "none"
    BY <1>8 DEF Ended
  <2> QED
    BY <1>2, <1>8, <2>1
<1> QED
  BY <1>1, <1>6, <1>7, <1>8, LinkStep

(* A pass that binds on keeps the claims apart when what it claims is free.   *)
LEMMA BindsApart ==
  ASSUME TypeOK, Links, NEW p \in Passes, NEW k \in Conns, NEW i, Up(k),
         NEW bound \in [Consumers -> Conns \union {0}], Binds(p, k, i, bound), Apart,
         \A q \in Passes \ {p} : Setting(q) =>
           pass[q].on = k /\ bound[Its(q)] = k /\ boundTo'[Its(q)] # k,
         Setting(p)' => /\ boundTo'[consumers[pass'[p].at]] # k
                        /\ \A q \in Passes \ {p} : Setting(q) => consumers[pass'[p].at] # Its(q)
  PROVE  OneChannel' /\ Gone' /\ Claimed' /\ Apart'
<1> DEFINE new == consumers[pass'[p].at]
<1>1. ASSUME NEW q \in Passes \ {p}, Setting(q)'
      PROVE  /\ Setting(q) /\ pass'[q] = pass[q] /\ pass'[q].on = k
             /\ consumers'[pass'[q].at] = Its(q) /\ Its(q) \in Consumers
  <2>1. pass'[q] = pass[q] /\ consumers' = consumers
    BY <1>1 DEF Binds
  <2>2. Setting(q)
    BY <1>1, <2>1 DEF Setting
  <2> QED
    BY <2>1, <2>2, InHand DEF Its
<1>2. Setting(p)' => /\ pass'[p].on = k /\ new \in Consumers /\ consumers'[pass'[p].at] = new
                     /\ binding' = [bound EXCEPT ![new] = k]
  BY DEF Binds, TypeOK
<1>3. ~Setting(p)' => binding' = bound
  BY DEF Binds
<1> HIDE DEF new
<1>4. \A q \in Passes : Setting(q)' => pass'[q].on = k
  BY <1>1, <1>2
<1>5. Up(k)'
  BY DEF Up, Binds
<1>6. ASSUME NEW q \in Passes, Setting(q)'
      PROVE  binding'[consumers'[pass'[q].at]] = k /\ boundTo'[consumers'[pass'[q].at]] # k
  <2>1. CASE q = p
    BY <1>2, <1>6, <2>1 DEF new
  <2>2. CASE q # p
    <3>1. /\ Setting(q) /\ consumers'[pass'[q].at] = Its(q) /\ Its(q) \in Consumers
          /\ bound[Its(q)] = k /\ boundTo'[Its(q)] # k
      BY <1>1, <1>6, <2>2
    <3>2. Setting(p)' => new # Its(q)
      BY <2>2, <3>1 DEF new
    <3> QED
      BY <1>2, <1>3, <3>1, <3>2
  <2> QED
    BY <2>1, <2>2
<1>7. ASSUME NEW q \in Passes, NEW r \in Passes, Setting(q)', Setting(r)', q # r
      PROVE  consumers'[pass'[q].at] # consumers'[pass'[r].at]
  <2>1. CASE q # p /\ r # p
    BY <1>1, <1>7, <2>1 DEF Apart
  <2>2. CASE q = p
    BY <1>1, <1>2, <1>7, <2>2 DEF new
  <2>3. CASE r = p
    BY <1>1, <1>2, <1>7, <2>3 DEF new
  <2> QED
    BY <2>1, <2>2, <2>3
<1> QED
  BY <1>4, <1>5, <1>6, <1>7 DEF OneChannel, Gone, Claimed, Apart, Its

(* As long as no healthy connection is dropped, the passes keep their claims. *)
LEMMA ClaimsStep ==
  ASSUME IInv, Links', Next, ~discarded'
  PROVE  OneUp' /\ OneChannel' /\ Gone' /\ Claimed' /\ Apart'
<1> USE DEF IInv
<1>0. /\ OneUp /\ OneChannel /\ Gone /\ Claimed /\ Apart
      /\ \A q \in Passes : Setting(q) => pass[q].on \in Conns
      /\ \A k \in Conns : k # 0
  BY FlagsGrow, BoundsAssumption DEF Bindings, Links, Conns
<1>1. ASSUME PassesKept, conn' = conn, live' = live
      PROVE  OneUp' /\ OneChannel' /\ Gone' /\ Claimed' /\ Apart'
  BY <1>0, <1>1 DEF PassesKept, OneUp, OneChannel, Gone, Claimed, Apart, Setting, Its, Up
<1>2. ASSUME PassesKept, Drained, NEW k \in Conns, Ended(k)
      PROVE  OneUp' /\ OneChannel' /\ Gone' /\ Claimed' /\ Apart'
  <2>1. \A l \in Conns : Up(l)' => Up(l) /\ l # k
    BY <1>2 DEF Ended, Up
  <2>2. OneUp'
    BY <1>0, <1>2, <2>1 DEF OneUp, Ended
  <2>3. \A q \in Passes : Setting(q) => pass[q].on = live /\ live \in Conns
    BY <1>0, <1>2 DEF Drained, Setting, OneUp
  <2>4. ASSUME NEW q \in Passes, Setting(q)', ~Up(pass[q].on)' PROVE live' = 0
    <3>1. pass'[q].on = live /\ live \in Conns /\ Up(live)
      BY <1>2, <2>3, <2>4 DEF PassesKept, Setting, TypeOK, Conns
    <3>2. conn'[live] # "up"
      BY <1>0, <2>4, <3>1 DEF Up
    <3>3. live = k
      BY <1>2, <3>1, <3>2 DEF Ended, Up
    <3> QED
      BY <1>2, <3>3 DEF Ended
  <2>5. OneChannel' /\ Claimed' /\ Apart'
    BY <1>0, <1>2 DEF PassesKept, OneChannel, Claimed, Apart, Setting, Its
  <2> QED
    BY <2>2, <2>4, <2>5 DEF Gone
<1>3. ASSUME Drained, Connect PROVE OneUp' /\ OneChannel' /\ Gone' /\ Claimed' /\ Apart'
  <2>1. PICK k \in Conns :
    /\ live = 0 /\ live' = k /\ conn[k] = "none" /\ conn' = [conn EXCEPT ![k] = "up"]
    /\ consumers' = consumers /\ boundTo' = boundTo
    /\ \A q \in Passes \ {Open} : Setting(q)' => pass'[q] = pass[q]
    /\ Setting(Open)' => /\ pass'[Open].on = k /\ pass'[Open].at \in Todo(k, 1)
                         /\ pass'[Open].at \in 1 .. Len(consumers)
                         /\ binding' = [binding EXCEPT ![consumers[pass'[Open].at]] = k]
    BY <1>3, ConnectEffect
  <2>2. conn'[k] = "up" /\ \A l \in Conns \ {k} : conn'[l] = conn[l]
    BY <2>1 DEF TypeOK
  <2>3. OneUp'
    BY <1>0, <2>1, <2>2 DEF OneUp, Up
  <2>4. \A q \in Passes : ~Setting(q)
    BY <1>0, <1>3, <2>1 DEF Drained, Setting, OneUp
  <2>5. \A q \in Passes : Setting(q)' => q = Open
    BY <2>1, <2>4 DEF Setting
  <2>6. Setting(Open)' => /\ pass'[Open].on = k
                          /\ binding'[consumers'[pass'[Open].at]] = k
                          /\ boundTo'[consumers'[pass'[Open].at]] # k
    <3>1. ASSUME Setting(Open)' PROVE consumers[pass'[Open].at] \in Consumers
      BY <2>1, <3>1 DEF TypeOK
    <3> QED
      BY <1>0, <2>1, <2>2, <3>1 DEF Todo, Up, TypeOK
  <2>7. \A q \in Passes : Setting(q)' => Up(pass[q].on)'
    BY <1>0, <2>2, <2>5, <2>6 DEF Up
  <2> QED
    BY <2>3, <2>5, <2>6, <2>7 DEF OneChannel, Gone, Claimed, Apart, Its
<1>4. CASE Fewer
  <2>1. OneUp'
    BY <1>0, <1>4 DEF Fewer, OneUp, Up
  <2>2. \A q \in Passes : Setting(q)' => /\ Setting(q) /\ pass'[q] = pass[q]
                                         /\ Its(q)' = Its(q) /\ Its(q) \in Consumers
    <3> SUFFICES ASSUME NEW q \in Passes, Setting(q)'
                 PROVE /\ Setting(q) /\ pass'[q] = pass[q]
                       /\ Its(q)' = Its(q) /\ Its(q) \in Consumers
      OBVIOUS
    <3>1. Setting(q) /\ pass'[q] = pass[q]
      BY <1>4 DEF Fewer, Setting
    <3>2. pass[q].at \in 1 .. Len(consumers)
      BY <3>1 DEF Links
    <3> QED
      BY <1>4, <3>1, <3>2, InHand DEF Fewer, Its
  <2>3. OneChannel' /\ Apart'
    BY <1>0, <2>2 DEF OneChannel, Apart
  <2>4. Gone'
    BY <1>0, <1>4, <2>2 DEF Gone, Up, Fewer
  <2>5. ASSUME NEW q \in Passes, Setting(q)' PROVE binding'[Its(q)] = binding[Its(q)]
    <3>1. CASE binding' = binding
      BY <3>1
    <3>2. ASSUME NEW p \in Passes, Setting(p), ~Setting(p)', binding' = [binding EXCEPT ![Its(p)] = 0]
          PROVE  binding'[Its(q)] = binding[Its(q)]
      <4>1. p # q
        BY <2>5, <3>2
      <4>2. Its(q) # Its(p)
        BY <1>0, <2>2, <2>5, <3>2, <4>1 DEF Apart
      <4>3. binding' = [binding EXCEPT ![Its(p)] = 0] /\ binding \in [Consumers -> Conns \union {0}]
              /\ Its(q) \in Consumers
        BY <2>2, <2>5, <3>2 DEF TypeOK
      <4> QED
        BY <4>2, <4>3
    <3> QED
      BY <1>4, <3>1, <3>2 DEF Fewer
  <2>6. Claimed'
    <3> SUFFICES ASSUME NEW q \in Passes, Setting(q)'
                 PROVE  binding'[Its(q)'] = pass'[q].on /\ boundTo'[Its(q)'] # pass'[q].on
      BY DEF Claimed
    <3>1. Its(q)' = Its(q) /\ pass'[q] = pass[q] /\ Setting(q) /\ binding'[Its(q)] = binding[Its(q)]
      BY <2>2, <2>5
    <3> QED
      BY <1>0, <1>4, <3>1 DEF Claimed, Fewer
  <2> QED
    BY <2>1, <2>3, <2>4, <2>6
<1>5. ASSUME NEW c \in Consumers, pass[c].step = "ready", boundTo' = boundTo,
             Binds(c, pass[c].on, 1, binding)
      PROVE  OneUp' /\ OneChannel' /\ Gone' /\ Claimed' /\ Apart'
  <2>1. c \in Passes /\ pass[c].on = live /\ live \in Conns /\ Up(live) /\ ~Setting(c)
    BY <1>5 DEF Links, TypeOK, Passes, Setting
  <2>2. Binds(c, live, 1, binding)
    BY <1>5, <2>1
  <2>3. OneUp'
    BY <1>0, <1>5 DEF Binds, OneUp, Up
  <2>4. \A q \in Passes : Setting(q) => pass[q].on = live
    BY <1>0, <2>1 DEF Gone, OneUp
  <2>5. \A q \in Passes \ {c} : Setting(q) =>
          pass[q].on = live /\ binding[Its(q)] = live /\ boundTo'[Its(q)] # live
    BY <1>0, <1>5, <2>4 DEF Claimed
  <2>6. Setting(c)' => boundTo'[consumers[pass'[c].at]] # live /\ binding[consumers[pass'[c].at]] # live
    BY <1>5, <2>2 DEF Binds, Todo
  <2>7. binding \in [Consumers -> Conns \union {0}]
    BY DEF TypeOK
  <2>8. Setting(c)' => /\ boundTo'[consumers[pass'[c].at]] # live
                       /\ \A q \in Passes \ {c} : Setting(q) => consumers[pass'[c].at] # Its(q)
    BY <2>5, <2>6
  <2>9. OneChannel' /\ Gone' /\ Claimed' /\ Apart'
    BY <1>0, <2>1, <2>2, <2>5, <2>7, <2>8, BindsApart
  <2> QED
    BY <2>3, <2>9
<1>6. ASSUME NEW p \in Passes, SetupOk(p),
             Binds(p, pass[p].on, pass[p].at + 1, [binding EXCEPT ![Its(p)] = 0])
      PROVE  OneUp' /\ OneChannel' /\ Gone' /\ Claimed' /\ Apart'
  <2> DEFINE k == pass[p].on
             bound == [binding EXCEPT ![Its(p)] = 0]
  <2>1. /\ Setting(p) /\ k \in Conns /\ Its(p) \in Consumers /\ conn[k] = "up"
        /\ bound \in [Consumers -> Conns \union {0}]
        /\ boundTo' = [boundTo EXCEPT ![Its(p)] = k]
    BY <1>6, SetupEffect
  <2>2. OneUp'
    BY <1>0, <1>6 DEF Binds, OneUp, Up
  <2>3. boundTo \in [Consumers -> Conns \union {0}] /\ binding \in [Consumers -> Conns \union {0}]
    BY DEF TypeOK
  <2>4. \A q \in Passes \ {p} : Setting(q) =>
          pass[q].on = k /\ bound[Its(q)] = k /\ boundTo'[Its(q)] # k
    <3> SUFFICES ASSUME NEW q \in Passes \ {p}, Setting(q)
                 PROVE  pass[q].on = k /\ bound[Its(q)] = k /\ boundTo'[Its(q)] # k
      OBVIOUS
    <3>1. pass[q].on = k /\ Its(q) # Its(p)
      BY <1>0, <2>1 DEF OneChannel, Apart
    <3>2. binding[Its(q)] = k /\ boundTo[Its(q)] # k /\ Its(q) \in Consumers
      BY <1>0, <3>1, InHand DEF Claimed
    <3> QED
      BY <2>1, <2>3, <3>1, <3>2
  <2>5. Setting(p)' => /\ boundTo'[consumers[pass'[p].at]] # k
                       /\ \A q \in Passes \ {p} : Setting(q) => consumers[pass'[p].at] # Its(q)
    <3> SUFFICES ASSUME Setting(p)'
                 PROVE  /\ boundTo'[consumers[pass'[p].at]] # k
                        /\ \A q \in Passes \ {p} : Setting(q) => consumers[pass'[p].at] # Its(q)
      OBVIOUS
    <3> DEFINE new == consumers[pass'[p].at]
    <3>1. boundTo[new] # k /\ binding[new] # k /\ new \in Consumers
      BY <1>6 DEF Binds, Todo, TypeOK
    <3> HIDE DEF new
    <3>2. binding[Its(p)] = k /\ \A q \in Passes \ {p} : Setting(q) => binding[Its(q)] = k
      BY <1>0, <2>1 DEF Claimed, OneChannel
    <3>3. new # Its(p) /\ \A q \in Passes \ {p} : Setting(q) => new # Its(q)
      BY <3>1, <3>2
    <3>4. boundTo'[new] = boundTo[new]
      BY <2>1, <2>3, <3>1, <3>3
    <3> QED
      BY <3>1, <3>3, <3>4 DEF new
  <2>6. Up(k) /\ Binds(p, k, pass[p].at + 1, bound)
    BY <1>0, <1>6, <2>1 DEF Up
  <2> HIDE DEF bound, k
  <2>7. OneChannel' /\ Gone' /\ Claimed' /\ Apart'
    BY <1>0, <2>1, <2>4, <2>5, <2>6, BindsApart
  <2> QED
    BY <2>2, <2>7
<1>7. ASSUME Connect PROVE Drained
  <2>1. live = 0 /\ live' # 0
    BY <1>0, <1>7, ConnectEffect
  <2>2. ~Reactions
    BY <2>1 DEF Reactions, BindAll, SetupFails
  <2> QED
    BY <2>2 DEF Next
<1> QED
  BY <1>1, <1>2, <1>3, <1>4, <1>5, <1>6, <1>7, LinkStep, PassingEffect DEF Dropping

(* A consumer is bound by its setup alone.                                    *)
LEMMA BoundBySetup ==
  ASSUME TypeOK, Links, Next, \A p \in Passes : ~SetupOk(p)
  PROVE  boundTo' = boundTo
<1>1. PassesKept => boundTo' = boundTo
  BY DEF PassesKept
<1>2. Passing => boundTo' = boundTo
  BY PassingEffect, ConnectEffect DEF Fewer
<1> QED
  BY <1>1, <1>2, LinkStep

(* As long as no healthy connection is dropped, what consumes was bound.      *)
LEMMA AttachedStep ==
  ASSUME IInv, TypeOK', Silent', OneUp', Next, ~discarded'
  PROVE  Attached'
<1> USE DEF IInv
<1>0. Attached
  BY FlagsGrow DEF Bindings
<1> SUFFICES ASSUME NEW c \in Consumers, NEW l \in Conns, Up(l)'
             PROVE  Unheard(c, l)' \/ boundTo'[c] = l
  BY DEF Attached, Silent
<1>1. ASSUME NEW p \in Passes, SetupOk(p) PROVE Unheard(c, l)' \/ boundTo'[c] = l
  <2>1. conn' = conn /\ live' = live /\ conn[pass[p].on] = "up" /\ pass[p].on \in Conns
    BY <1>1, SetupEffect DEF SetupOk
  <2>2. l = pass[p].on
    BY <2>1, BoundsAssumption DEF OneUp, Up, Conns
  <2>3. boundTo'[c] = IF c = Its(p) THEN pass[p].on ELSE boundTo[c]
    BY <1>1, SetupHeard
  <2>4. c # Its(p) => Same(c, l)
    BY <1>1, SetupHeard
  <2> QED
    BY <1>0, <2>2, <2>3, <2>4 DEF Attached, Unheard, Same
<1>2. ASSUME boundTo' = boundTo, Same(c, l) PROVE Unheard(c, l)' \/ boundTo'[c] = l
  BY <1>0, <1>2 DEF Attached, Unheard, Same
<1>3. ASSUME boundTo' = boundTo, ~Unheard(c, l) PROVE boundTo'[c] = l
  BY <1>0, <1>3 DEF Attached
<1>4. ASSUME boundTo' = boundTo, Leaves PROVE Unheard(c, l)' \/ boundTo'[c] = l
  BY <1>2, <1>4 DEF Leaves, Same
<1>5. ASSUME boundTo' = boundTo, NEW k \in Conns, Cuts(k) PROVE Unheard(c, l)' \/ boundTo'[c] = l
  <2>1. IF l = k THEN Unheard(c, l)' ELSE Same(c, l)
    BY <1>5, SilenceEffect DEF Cuts
  <2> QED
    BY <1>2, <1>5, <2>1
<1>6. ASSUME boundTo' = boundTo, NEW c0 \in Pausable, NEW k \in Conns,
             Pause(c0, k) \/ Resume(c0, k) \/ Answered(c0, k)
      PROVE  Unheard(c, l)' \/ boundTo'[c] = l
  <2>1. \A d \in Consumers, m \in Conns : d # c0 \/ m # k => Same(d, m)
    BY <1>6, PauseHeard, ResumeHeard, AnsweredHeard
  <2>2. watching[c0][k] # "none" \/ wire[c0][k] # <<>>
    BY <1>6, PauseHeard, ResumeHeard, AnsweredHeard
  <2>3. c = c0 /\ l = k => ~Unheard(c, l)
    BY <2>2 DEF Unheard
  <2> QED
    BY <1>2, <1>3, <1>6, <2>1, <2>3
<1>7. ASSUME boundTo' = boundTo, StopNext PROVE Unheard(c, l)' \/ boundTo'[c] = l
  <2>1. wire' = wire /\ watching' = watching
    BY <1>7, StopHeard
  <2>2. consuming'[c][l] \in {consuming[c][l], consuming[c][l] - 1}
    <3>1. CASE stop.at > Len(consumers)
      BY <1>7, <3>1, StopHeard
    <3>2. CASE stop.at <= Len(consumers)
      BY <1>7, <3>2, StopHeard
    <3>3. stop.at \in Nat /\ Len(consumers) \in Nat
      BY DEF TypeOK
    <3> QED
      BY <3>1, <3>2, <3>3
  <2>3. consuming[c][l] \in Nat /\ consuming'[c][l] \in Nat
    BY DEF TypeOK
  <2>4. consuming[c][l] = 0 => consuming'[c][l] = 0
    BY <2>2, <2>3
  <2>5. Unheard(c, l) => Unheard(c, l)'
    BY <2>1, <2>4 DEF Unheard
  <2> QED
    BY <1>3, <1>7, <2>5
<1> QED
  BY <1>1, <1>4, <1>5, <1>6, <1>7, BoundBySetup, BrokerStep DEF Works

(* Every step keeps the claims, or drops a healthy connection.                *)
LEMMA BindingsStep == ASSUME IInv, TypeOK', Links', Silent', Next PROVE Bindings'
BY ClaimsStep, AttachedStep DEF Bindings

-----------------------------------------------------------------------------
(* Every step keeps what a watch has asked for *)

(* Short wires, put together and taken apart.                                 *)
LEMMA ShortWires ==
  /\ Append(<<>>, "cancel") = <<"cancel">>
  /\ Append(<<>>, "consume") = <<"consume">>
  /\ Append(<<"cancel">>, "consume") = <<"cancel", "consume">>
  /\ Contains(<<"consume">>, "consume") /\ Contains(<<"cancel", "consume">>, "consume")
  /\ Contains(<<"cancel">>, "cancel") /\ Contains(<<"cancel", "consume">>, "cancel")
  /\ ~Contains(<<>>, "consume") /\ ~Contains(<<>>, "cancel")
  /\ ~Contains(<<"cancel">>, "consume") /\ ~Contains(<<"consume">>, "cancel")
  /\ Head(<<"cancel">>) = "cancel" /\ Tail(<<"cancel">>) = <<>>
  /\ Head(<<"consume">>) = "consume" /\ Tail(<<"consume">>) = <<>>
  /\ Head(<<"cancel", "consume">>) = "cancel" /\ Tail(<<"cancel", "consume">>) = <<"consume">>
<1>1. /\ Append(<<>>, "cancel") = <<"cancel">>
      /\ Append(<<>>, "consume") = <<"consume">>
      /\ Append(<<"cancel">>, "consume") = <<"cancel", "consume">>
  <2>1. /\ <<>> \in Seq(Requests) /\ <<"cancel">> \in Seq(Requests) /\ <<"consume">> \in Seq(Requests)
        /\ <<"cancel", "consume">> \in Seq(Requests)
    BY DEF Requests
  <2>2. Append(<<>>, "cancel") = <<"cancel">>
    BY <2>1, SeqEqual, AppendProperties DEF Requests
  <2>3. Append(<<>>, "consume") = <<"consume">>
    BY <2>1, SeqEqual, AppendProperties DEF Requests
  <2>4. Append(<<"cancel">>, "consume") = <<"cancel", "consume">>
    <3> DEFINE s == Append(<<"cancel">>, "consume")
    <3>1. s \in Seq(Requests) /\ Len(s) = 2 /\ s[1] = "cancel" /\ s[2] = "consume"
      BY <2>1, AppendProperties DEF Requests
    <3> HIDE DEF s
    <3>2. \A i \in 1 .. Len(s) : s[i] = <<"cancel", "consume">>[i]
      BY <3>1
    <3>3. s = <<"cancel", "consume">>
      BY <2>1, <3>1, <3>2, SeqEqual
    <3> QED
      BY <3>3 DEF s
  <2> QED
    BY <2>2, <2>3, <2>4
<1>2. /\ Contains(<<"consume">>, "consume") /\ Contains(<<"cancel", "consume">>, "consume")
      /\ Contains(<<"cancel">>, "cancel") /\ Contains(<<"cancel", "consume">>, "cancel")
      /\ ~Contains(<<>>, "consume") /\ ~Contains(<<>>, "cancel")
      /\ ~Contains(<<"cancel">>, "consume") /\ ~Contains(<<"consume">>, "cancel")
  BY DEF Contains
<1>3. /\ Head(<<"cancel">>) = "cancel" /\ Tail(<<"cancel">>) = <<>>
      /\ Head(<<"consume">>) = "consume" /\ Tail(<<"consume">>) = <<>>
      /\ Head(<<"cancel", "consume">>) = "cancel"
  OBVIOUS
<1>4. Tail(<<"cancel", "consume">>) = <<"consume">>
  <2>1. <<"cancel">> \in Seq(Requests)
    BY DEF Requests
  <2>2. Tail(Append(<<"cancel">>, "consume")) = Append(Tail(<<"cancel">>), "consume")
    BY <2>1, HeadTailAppend
  <2> QED
    BY <1>1, <1>3, <2>2
<1> QED
  BY <1>1, <1>2, <1>3, <1>4

(* A stop takes away at most what consumes, and leaves the watches alone.     *)
LEMMA StopTakes ==
  ASSUME TypeOK, TypeOK', StopNext
  PROVE  /\ wire' = wire /\ watching' = watching
         /\ \A c \in Consumers, l \in Conns :
              consuming'[c][l] <= consuming[c][l] /\ (consuming[c][l] = 0 => consuming'[c][l] = 0)
<1>1. stop.at \in Nat /\ Len(consumers) \in Nat
  BY DEF TypeOK
<1>2. \A c \in Consumers, l \in Conns : consuming'[c][l] \in {consuming[c][l], consuming[c][l] - 1}
  <2>1. CASE stop.at > Len(consumers)
    BY <2>1, StopHeard
  <2>2. CASE stop.at <= Len(consumers)
    BY <2>2, StopHeard
  <2> QED
    BY <1>1, <2>1, <2>2
<1>3. \A c \in Consumers, l \in Conns : consuming[c][l] \in Nat /\ consuming'[c][l] \in Nat
  BY DEF TypeOK
<1> QED
  BY <1>2, <1>3, StopHeard

(* Every step keeps the shapes, unless a resume was slow.                     *)
LEMMA ShapesStep ==
  ASSUME IInv, TypeOK', Next
  PROVE  Shapes'
<1> USE DEF IInv
<1> SUFFICES ASSUME ~discarded', ~slow', NEW c \in Consumers, NEW l \in Conns PROVE Shape(c, l)'
  BY DEF Shapes
<1>0. /\ Shape(c, l) /\ ~discarded
      /\ \A d \in Consumers, k \in Conns : Shape(d, k)
  BY FlagsGrow DEF Shapes
<1>1. consuming[c][l] \in Nat /\ consuming'[c][l] \in Nat
  BY DEF TypeOK
<1>2. ASSUME Same(c, l) PROVE Shape(c, l)'
  BY <1>0, <1>2 DEF Shape, Same
<1>3. ASSUME Leaves PROVE Shape(c, l)'
  BY <1>2, <1>3 DEF Leaves, Same
<1>4. ASSUME NEW k \in Conns, Cuts(k) PROVE Shape(c, l)'
  <2>1. IF l = k THEN Unheard(c, l)' ELSE Same(c, l)
    BY <1>4, SilenceEffect DEF Cuts
  <2>2. Unheard(c, l)' => Shape(c, l)'
    BY DEF Unheard, Shape
  <2> QED
    BY <1>2, <2>1, <2>2
<1>5. ASSUME NEW p \in Passes, SetupOk(p) PROVE Shape(c, l)'
  <2>1. CASE c = Its(p) /\ l = pass[p].on
    <3>1. boundTo[c] # l
      BY <1>0, <1>5, <2>1, SetupEffect DEF Bindings, Claimed
    <3>2. Unheard(c, l)
      BY <1>0, <3>1 DEF Bindings, Attached
    <3>3. /\ consuming'[c][l] = consuming[c][l] + 1
          /\ c \in Pausable => watching'[c][l] = "held" /\ wire'[c][l] = wire[c][l]
      BY <1>5, <2>1, SetupHeard
    <3> QED
      BY <3>2, <3>3 DEF Unheard, Shape
  <2>2. CASE ~(c = Its(p) /\ l = pass[p].on)
    BY <1>2, <1>5, <2>2, SetupHeard
  <2> QED
    BY <2>1, <2>2
<1>6. ASSUME NEW c0 \in Pausable, NEW k \in Conns, Pause(c0, k) PROVE Shape(c, l)'
  <2>1. CASE c = c0 /\ l = k
    <3>1. /\ watching[c][l] = "held" /\ watching'[c][l] = "paused"
          /\ wire'[c][l] = Append(wire[c][l], "cancel") /\ consuming'[c][l] = consuming[c][l]
      BY <1>6, <2>1, PauseHeard
    <3>2. wire[c][l] = <<>> /\ consuming[c][l] <= 1
      BY <1>0, <1>6, <2>1, <3>1 DEF Shape
    <3>3. wire'[c][l] = <<"cancel">>
      BY <3>1, <3>2, ShortWires
    <3> QED
      BY <3>1, <3>2, <3>3 DEF Shape
  <2>2. CASE ~(c = c0 /\ l = k)
    BY <1>2, <1>6, <2>2, PauseHeard
  <2> QED
    BY <2>1, <2>2
<1>7. ASSUME NEW c0 \in Pausable, NEW k \in Conns, Resume(c0, k) PROVE Shape(c, l)'
  <2>1. CASE c = c0 /\ l = k
    <3>1. /\ watching[c][l] = "paused" /\ watching'[c][l] = "paused"
          /\ wire'[c][l] = Append(wire[c][l], "consume") /\ consuming'[c][l] = consuming[c][l]
      BY <1>7, <2>1, ResumeHeard
    <3>2. ~Contains(wire[c][l], "consume")
      BY <1>7, <2>1 DEF Resume
    <3>3. consuming[c][l] <= 1 /\ (wire[c][l] = <<"cancel">> \/ (wire[c][l] = <<>> /\ consuming[c][l] = 0))
      BY <1>0, <1>7, <2>1, <3>1, <3>2, ShortWires DEF Shape
    <3>4. wire'[c][l] = <<"cancel", "consume">> \/ (wire'[c][l] = <<"consume">> /\ consuming[c][l] = 0)
      BY <3>1, <3>3, ShortWires
    <3> QED
      BY <3>1, <3>3, <3>4 DEF Shape
  <2>2. CASE ~(c = c0 /\ l = k)
    BY <1>2, <1>7, <2>2, ResumeHeard
  <2> QED
    BY <2>1, <2>2
<1>8. ASSUME NEW c0 \in Pausable, NEW k \in Conns, Answered(c0, k) PROVE Shape(c, l)'
  <2>1. CASE c = c0 /\ l = k
    <3>1. /\ wire[c][l] # <<>> /\ wire'[c][l] = Tail(wire[c][l])
          /\ Head(wire[c][l]) = "cancel" =>
               consuming'[c][l] = consuming[c][l] - 1 /\ watching'[c][l] = watching[c][l]
          /\ Head(wire[c][l]) # "cancel" =>
               consuming'[c][l] = consuming[c][l] + 1 /\ watching'[c][l] = "held"
      BY <1>8, <2>1, AnsweredHeard
    <3>2. /\ consuming[c][l] <= 1 /\ watching[c][l] = "paused"
          /\ \/ wire[c][l] \in {<<"cancel">>, <<"cancel", "consume">>}
             \/ wire[c][l] = <<"consume">> /\ consuming[c][l] = 0
      BY <1>0, <1>8, <2>1, <3>1 DEF Shape
    <3>3. CASE wire[c][l] = <<"consume">> /\ consuming[c][l] = 0
      <4>1. wire'[c][l] = <<>> /\ consuming'[c][l] = 1 /\ watching'[c][l] = "held"
        BY <3>1, <3>3, ShortWires
      <4> QED
        BY <4>1 DEF Shape
    <3>4. CASE wire[c][l] \in {<<"cancel">>, <<"cancel", "consume">>}
      <4>1. /\ wire'[c][l] \in {<<>>, <<"consume">>} /\ consuming'[c][l] = consuming[c][l] - 1
            /\ watching'[c][l] = "paused"
        BY <3>1, <3>2, <3>4, ShortWires
      <4>2. consuming'[c][l] = 0 /\ consuming'[c][l] <= 1
        BY <1>1, <3>2, <4>1
      <4> QED
        BY <4>1, <4>2, Zenon DEF Shape
    <3> QED
      BY <3>2, <3>3, <3>4
  <2>2. CASE ~(c = c0 /\ l = k)
    BY <1>2, <1>8, <2>2, AnsweredHeard
  <2> QED
    BY <2>1, <2>2
<1>9. ASSUME StopNext PROVE Shape(c, l)'
  <2>1. /\ wire' = wire /\ watching' = watching /\ consuming'[c][l] <= consuming[c][l]
        /\ consuming[c][l] = 0 => consuming'[c][l] = 0
    BY <1>9, StopTakes
  <2>2. consuming'[c][l] <= 1
    BY <1>0, <1>1, <2>1 DEF Shape
  <2> QED
    BY <1>0, <2>1, <2>2 DEF Shape
<1> QED
  BY <1>3, <1>4, <1>5, <1>6, <1>7, <1>8, <1>9, BrokerStep DEF Works

-----------------------------------------------------------------------------
(* Every step keeps what a stop has left *)

(* Consumers are only added, and the stop goes on by its own steps.           *)
LEMMA Growth ==
  ASSUME TypeOK, Links, Next
  PROVE  /\ consumers' = consumers \/ \E c \in Consumers : consumers' = Append(consumers, c)
         /\ StopIntake \/ StopNext \/ stop' = stop
<1>1. ASSUME Reactions PROVE consumers' = consumers /\ stop' = stop
  BY <1>1 DEF Reactions, BindAll, SetupFails
<1>2. ASSUME NEW d \in Callers, Call(d) \/ UseOk(d) \/ UseThrows(d)
      PROVE  consumers' = consumers /\ stop' = stop
  BY <1>2 DEF Call, UseOk, UseThrows, subs
<1>3. ASSUME NEW k \in Conns, Break(k) PROVE consumers' = consumers /\ stop' = stop
  BY <1>3 DEF Break, subs
<1>4. ASSUME Connect \/ ConnectFails PROVE consumers' = consumers /\ stop' = stop
  BY <1>4 DEF Connect, ConnectFails
<1>5. ASSUME NEW c \in Consumers, AddConsumer(c)
      PROVE  consumers' = Append(consumers, c) /\ stop' = stop
  BY <1>5 DEF AddConsumer
<1>6. ASSUME NEW p \in Passes, SetupOk(p) PROVE consumers' = consumers /\ stop' = stop
  BY <1>6 DEF SetupOk
<1>7. ASSUME NEW c \in Pausable, NEW k \in Conns, Pause(c, k) \/ Resume(c, k) \/ Answered(c, k)
      PROVE  consumers' = consumers /\ stop' = stop
  BY <1>7 DEF Pause, Resume, Answered, subs
<1>8. ASSUME StopIntake \/ StopNext PROVE consumers' = consumers
  BY <1>8 DEF StopIntake, StopNext, subs
<1>9. ASSUME Close PROVE consumers' = consumers /\ stop' = stop
  BY <1>9 DEF Close, subs
<1> QED
  BY <1>1, <1>2, <1>3, <1>4, <1>5, <1>6, <1>7, <1>8, <1>9 DEF Next, Events

(* A consumer added stands behind the others.                                 *)
LEMMA AddedLast ==
  ASSUME TypeOK, TypeOK', Links, Next
  PROVE  /\ Len(consumers) \in Nat /\ Len(consumers') \in Nat /\ Len(consumers') >= Len(consumers)
         /\ \A i \in 1 .. Len(consumers) : i \in 1 .. Len(consumers') /\ consumers'[i] = consumers[i]
         /\ \A c : Contains(consumers, c) => Contains(consumers', c)
<1>1. consumers \in Seq(Consumers)
  BY DEF TypeOK
<1>2. CASE consumers' = consumers
  BY <1>1, <1>2
<1>3. ASSUME NEW c \in Consumers, consumers' = Append(consumers, c)
      PROVE  /\ Len(consumers') = Len(consumers) + 1
             /\ \A i \in 1 .. Len(consumers) : i \in 1 .. Len(consumers') /\ consumers'[i] = consumers[i]
  BY <1>1, <1>3
<1>4. /\ Len(consumers) \in Nat /\ Len(consumers') \in Nat /\ Len(consumers') >= Len(consumers)
      /\ \A i \in 1 .. Len(consumers) : i \in 1 .. Len(consumers') /\ consumers'[i] = consumers[i]
  BY <1>1, <1>2, <1>3, Growth
<1>5. \A c : Contains(consumers, c) => Contains(consumers', c)
  BY <1>4 DEF Contains
<1> QED
  BY <1>4, <1>5

(* What nothing was heard of before is heard of by its setup alone.           *)
LEMMA HeardBySetup ==
  ASSUME IInv, TypeOK', Next, NEW c \in Consumers, NEW l \in Conns, Unheard(c, l)
  PROVE  Unheard(c, l)' \/ \E p \in Passes : SetupOk(p) /\ c = Its(p) /\ l = pass[p].on
<1> USE DEF IInv
<1>1. ASSUME Same(c, l) PROVE Unheard(c, l)'
  BY <1>1 DEF Unheard, Same
<1>2. ASSUME Leaves PROVE Unheard(c, l)'
  BY <1>1, <1>2 DEF Leaves, Same
<1>3. ASSUME NEW k \in Conns, Cuts(k) PROVE Unheard(c, l)'
  <2>1. IF l = k THEN Unheard(c, l)' ELSE Same(c, l)
    BY <1>3, SilenceEffect DEF Cuts
  <2> QED
    BY <1>1, <2>1
<1>4. ASSUME NEW p \in Passes, SetupOk(p) PROVE Unheard(c, l)' \/ (c = Its(p) /\ l = pass[p].on)
  BY <1>1, <1>4, SetupHeard
<1>5. ASSUME NEW c0 \in Pausable, NEW k \in Conns, Pause(c0, k) \/ Resume(c0, k) \/ Answered(c0, k)
      PROVE  Unheard(c, l)'
  <2>1. watching[c0][k] # "none" \/ wire[c0][k] # <<>>
    BY <1>5, PauseHeard, ResumeHeard, AnsweredHeard
  <2>2. c # c0 \/ l # k
    BY <2>1 DEF Unheard
  <2> QED
    BY <1>1, <1>5, <2>2, PauseHeard, ResumeHeard, AnsweredHeard
<1>6. ASSUME StopNext PROVE Unheard(c, l)'
  BY <1>6, StopTakes DEF Unheard
<1> QED
  BY <1>2, <1>3, <1>4, <1>5, <1>6, BrokerStep DEF Works

(* Only registered consumers are heard of.                                    *)
LEMMA RegisteredStep == ASSUME IInv, TypeOK', Next PROVE Registered'
<1> USE DEF IInv
<1> SUFFICES ASSUME NEW c \in Consumers, NEW l \in Conns
             PROVE  Unheard(c, l)' \/ Contains(consumers', c)
  BY DEF Registered
<1>1. CASE Contains(consumers, c)
  BY <1>1, AddedLast
<1>2. CASE Unheard(c, l)
  <2>1. ASSUME NEW p \in Passes, SetupOk(p), c = Its(p) PROVE Contains(consumers, c)
    <3>1. pass[p].at \in 1 .. Len(consumers)
      BY <2>1, SetupEffect DEF Links
    <3> QED
      BY <2>1, <3>1 DEF Its, Contains
  <2> QED
    BY <1>1, <1>2, <2>1, HeardBySetup
<1> QED
  BY <1>1, <1>2 DEF Stopping, Registered

(* A stop begins once, and what it was late for it knows when it begins.      *)
LEMMA BegunStep == ASSUME IInv, Next PROVE Begun'
<1> USE DEF IInv
<1>1. CASE StopIntake
  <2>1. stop'.step # "no" /\ cancelled'
    BY <1>1 DEF StopIntake, Pass
  <2> QED
    BY <2>1 DEF Begun
<1>2. ASSUME cancelled' = cancelled, late' = late, stop' = stop PROVE Begun'
  BY <1>2 DEF Begun, Stopping
<1>3. ASSUME cancelled' = cancelled, late' = late, StopNext PROVE Begun'
  <2>1. stop.step = "running" /\ stop'.step # "no"
    BY <1>3 DEF StopNext, TypeOK
  <2>2. cancelled /\ cancelled'
    BY <1>3, <2>1, Zenon DEF Begun, Stopping
  <2> QED
    BY <2>1, <2>2 DEF Begun
<1> QED
  BY <1>1, <1>2, <1>3, FlagsGrow, Growth

(* A healthy channel is the only one on which anything is heard of.           *)
LEMMA HeardOnOne ==
  ASSUME IInv, ~discarded, NEW k \in Conns, Up(k), NEW c \in Consumers, NEW l \in Conns, l # k
  PROVE  consuming[c][l] = 0
<1>1. k = live /\ ~Up(l)
  BY DEF IInv, Bindings, OneUp
<1> QED
  BY <1>1 DEF IInv, Silent, Unheard

(* What a step must leave of a calm stop, if the history does not excuse it:  *)
(* it has not been excused before, and the shapes are kept.                   *)
LEMMA CalmBefore ==
  ASSUME IInv, TypeOK', Next, ~discarded', ~slow', ~late'
  PROVE  /\ ~discarded /\ ~slow /\ ~late
         /\ Tagged /\ NoneComing /\ OnlyThere
         /\ \A c \in Consumers, l \in Conns : Shape(c, l) /\ Shape(c, l)'
         /\ \A c \in Consumers, l \in Conns : consuming[c][l] \in Nat /\ consuming'[c][l] \in Nat
<1>1. ~discarded /\ ~slow
  BY FlagsGrow DEF IInv
<1>2. ~late
  <2>1. CASE StopIntake
    <3>1. ~cancelled
      BY <2>1 DEF StopIntake
    <3> QED
      BY <3>1 DEF IInv, Stopping, Begun
  <2>2. CASE late' = late
    BY <2>2
  <2> QED
    BY <2>1, <2>2, FlagsGrow DEF IInv
<1>3. \A c \in Consumers, l \in Conns : Shape(c, l)'
  BY ShapesStep DEF Shapes
<1>4. \A c \in Consumers, l \in Conns : consuming[c][l] \in Nat /\ consuming'[c][l] \in Nat
  BY DEF IInv, TypeOK
<1> QED
  BY <1>1, <1>2, <1>3, <1>4 DEF IInv, Stopping, Calm, Shapes

(* What an answer to a cancel leaves.                                         *)
LEMMA CancelAnswered ==
  ASSUME IInv, TypeOK', Next, ~discarded', ~slow', ~late',
         NEW c \in Pausable, NEW k \in Conns, Answered(c, k), Head(wire[c][k]) = "cancel"
  PROVE  consuming'[c][k] = 0 /\ tags' = tags /\ wire'[c][k] \in {<<>>, <<"consume">>}
           /\ (~Contains(wire[c][k], "consume") => wire'[c][k] = <<>>)
<1>1. c \in Consumers
  BY BoundsAssumption
<1>2. /\ wire[c][k] # <<>> /\ wire'[c][k] = Tail(wire[c][k])
      /\ consuming'[c][k] = consuming[c][k] - 1 /\ tags' = tags
  BY AnsweredHeard DEF IInv
<1>3. Shape(c, k) /\ consuming[c][k] \in Nat /\ consuming'[c][k] \in Nat
  BY <1>1, CalmBefore
<1>4. consuming'[c][k] = 0
  <2>1. consuming[c][k] <= 1
    BY <1>3 DEF Shape
  <2> QED
    BY <1>2, <1>3, <2>1
<1>5. wire[c][k] \in {<<"cancel">>, <<"cancel", "consume">>}
  BY <1>2, <1>3, ShortWires DEF Shape
<1>6. wire'[c][k] \in {<<>>, <<"consume">>} /\ (~Contains(wire[c][k], "consume") => wire'[c][k] = <<>>)
  BY <1>2, <1>5, ShortWires
<1> QED
  BY <1>2, <1>4, <1>6

(* While intake is open or not, what consumes has its tag, or its cancel.     *)
LEMMA TaggedStep ==
  ASSUME IInv, TypeOK', Next, ~discarded', ~slow', ~late'
  PROVE  Tagged'
<1> SUFFICES ASSUME NEW c \in Consumers, NEW l \in Conns PROVE Idle(c, l)' \/ tags'[c] = l
  BY DEF Tagged
<1>0. /\ IInv /\ TypeOK /\ Links /\ ~discarded /\ (Idle(c, l) \/ tags[c] = l)
      /\ Shape(c, l) /\ Shape(c, l)'
      /\ consuming[c][l] \in Nat /\ consuming'[c][l] \in Nat
  BY CalmBefore DEF IInv, Tagged
<1>1. ASSUME Same(c, l), tags'[c] = tags[c] PROVE Idle(c, l)' \/ tags'[c] = l
  BY <1>0, <1>1 DEF Same, Idle
<1>2. ASSUME Same(c, l), consuming[c][l] = 0 PROVE Idle(c, l)'
  BY <1>2 DEF Same, Idle
<1>3. ASSUME Leaves PROVE Idle(c, l)' \/ tags'[c] = l
  BY <1>1, <1>3 DEF Leaves, Same
<1>4. ASSUME NEW k \in Conns, Cuts(k) PROVE Idle(c, l)' \/ tags'[c] = l
  <2>1. IF l = k THEN Unheard(c, l)' ELSE Same(c, l)
    BY <1>0, <1>4, SilenceEffect DEF Cuts
  <2>2. Unheard(c, l)' => Idle(c, l)'
    BY DEF Unheard, Idle
  <2> QED
    BY <1>1, <1>4, <2>1, <2>2 DEF Cuts
<1>5. ASSUME NEW p \in Passes, SetupOk(p) PROVE Idle(c, l)' \/ tags'[c] = l
  <2>1. Up(pass[p].on) /\ pass[p].on \in Conns
    BY <1>0, <1>5, SetupEffect DEF SetupOk
  <2>2. /\ tags'[c] = IF c = Its(p) THEN pass[p].on ELSE tags[c]
        /\ c # Its(p) \/ l # pass[p].on => Same(c, l)
    BY <1>0, <1>5, SetupHeard
  <2>3. c = Its(p) /\ l # pass[p].on => consuming[c][l] = 0
    BY <1>0, <2>1, HeardOnOne
  <2> QED
    BY <1>1, <1>2, <2>2, <2>3
<1>6. ASSUME NEW c0 \in Pausable, NEW k \in Conns, Pause(c0, k) PROVE Idle(c, l)' \/ tags'[c] = l
  <2>1. /\ watching[c0][k] = "held" /\ wire'[c0][k] = Append(wire[c0][k], "cancel")
        /\ c # c0 \/ l # k => Same(c, l)
        /\ tags'[c] = IF c = c0 THEN 0 ELSE tags[c]
    BY <1>0, <1>6, PauseHeard
  <2>2. Up(k)
    BY <1>0, <2>1, BoundsAssumption DEF IInv, Silent, Unheard
  <2>3. c = c0 /\ l # k => consuming[c][l] = 0
    BY <1>0, <2>2, HeardOnOne
  <2>4. c = c0 /\ l = k => wire'[c][l] = <<"cancel">>
    BY <1>0, <2>1, ShortWires DEF Shape
  <2>5. c = c0 /\ l = k => Idle(c, l)'
    BY <2>4, ShortWires DEF Idle
  <2> QED
    BY <1>1, <1>2, <2>1, <2>3, <2>5
<1>7. ASSUME NEW c0 \in Pausable, NEW k \in Conns, Resume(c0, k) PROVE Idle(c, l)' \/ tags'[c] = l
  <2>1. /\ watching[c0][k] = "paused" /\ wire'[c0][k] = Append(wire[c0][k], "consume")
        /\ c # c0 \/ l # k => Same(c, l)
        /\ tags' = tags /\ consuming' = consuming
    BY <1>0, <1>7, ResumeHeard
  <2>2. ASSUME c = c0, l = k, Idle(c, l) PROVE Idle(c, l)'
    <3>1. CASE consuming[c][l] = 0
      BY <2>1, <3>1 DEF Idle
    <3>2. CASE Contains(wire[c][l], "cancel")
      <4>1. ~Contains(wire[c][l], "consume")
        BY <1>7, <2>2 DEF Resume
      <4>2. wire[c][l] = <<"cancel">>
        BY <1>0, <2>1, <2>2, <3>2, <4>1, ShortWires DEF Shape
      <4>3. wire'[c][l] = <<"cancel", "consume">>
        BY <2>1, <2>2, <4>2, ShortWires
      <4> QED
        BY <2>2, <4>3, ShortWires DEF Idle
    <3> QED
      BY <2>2, <3>1, <3>2 DEF Idle
  <2> QED
    BY <1>0, <1>1, <2>1, <2>2
<1>8. ASSUME NEW c0 \in Pausable, NEW k \in Conns, Answered(c0, k) PROVE Idle(c, l)' \/ tags'[c] = l
  <2>0. Up(k)
    BY <1>8 DEF Answered
  <2>1. Up(k) /\ (c # c0 \/ l # k => Same(c, l))
    BY <1>0, <1>8, <2>0, AnsweredHeard
  <2>2. CASE Head(wire[c0][k]) = "cancel"
    <3>1. consuming'[c0][k] = 0 /\ tags' = tags
      BY <1>0, <1>8, <2>2, CancelAnswered
    <3> QED
      BY <1>1, <2>1, <3>1 DEF Idle
  <2>3. CASE Head(wire[c0][k]) # "cancel"
    <3>1. tags'[c] = IF c = c0 THEN k ELSE tags[c]
      BY <1>0, <1>8, <2>3, AnsweredHeard
    <3>2. c = c0 /\ l # k => consuming[c][l] = 0
      BY <1>0, <2>1, HeardOnOne
    <3> QED
      BY <1>1, <1>2, <2>1, <3>1, <3>2
  <2> QED
    BY <2>2, <2>3
<1>9. ASSUME StopNext PROVE Idle(c, l)' \/ tags'[c] = l
  <2>1. /\ wire' = wire /\ consuming'[c][l] <= consuming[c][l]
        /\ (consuming[c][l] = 0 => consuming'[c][l] = 0)
    BY <1>0, <1>9, StopTakes
  <2>2. Idle(c, l) => Idle(c, l)'
    BY <2>1 DEF Idle
  <2>3. CASE ~Idle(c, l) /\ stop.at <= Len(consumers)
    <3>1. tags[c] = l /\ consuming[c][l] # 0
      BY <1>0, <2>3 DEF Idle
    <3>2. Up(l)
      BY <1>0, <3>1 DEF IInv, Silent, Unheard
    <3>3. l = stop.on
      BY <1>9, <3>1, CalmBefore, StopHeard DEF OnlyThere, IInv
    <3>4. /\ tags'[c] = IF c = consumers[stop.at] THEN 0 ELSE tags[c]
          /\ consuming'[c][l] =
               IF c = consumers[stop.at] /\ l = stop.on /\ tags[c] = l /\ Up(l)
                 THEN consuming[c][l] - 1 ELSE consuming[c][l]
      BY <1>0, <1>9, <2>3, StopHeard
    <3>5. consuming[c][l] <= 1
      BY <1>0 DEF Shape
    <3>6. c = consumers[stop.at] => consuming'[c][l] = 0
      BY <1>0, <3>1, <3>2, <3>3, <3>4, <3>5
    <3> QED
      BY <3>1, <3>4, <3>6 DEF Idle
  <2>4. CASE ~Idle(c, l) /\ stop.at > Len(consumers)
    BY <1>0, <1>9, <2>4, StopHeard
  <2>5. stop.at \in Nat /\ Len(consumers) \in Nat
    BY <1>0 DEF TypeOK
  <2>6. stop.at <= Len(consumers) \/ stop.at > Len(consumers)
    BY <2>5
  <2> QED
    BY <2>2, <2>3, <2>4, <2>6
<1> QED
  BY <1>0, <1>3, <1>4, <1>5, <1>6, <1>7, <1>8, <1>9, BrokerStep DEF Works

(* Once intake is stopped, no pass sets up.                                   *)
LEMMA NoPassAfter ==
  ASSUME IInv, Next, cancelled, \A p \in Passes : ~Setting(p)
  PROVE  \A p \in Passes : ~Setting(p)'
<1> USE DEF IInv
<1>1. ASSUME PassesKept PROVE \A p \in Passes : ~Setting(p)'
  BY <1>1 DEF PassesKept, Setting
<1>2. ASSUME Connect PROVE \A p \in Passes : ~Setting(p)'
  <2>1. /\ \A q \in Passes \ {Open} : Setting(q)' => pass'[q] = pass[q]
        /\ ~Setting(Open)'
    BY <1>2, ConnectEffect
  <2> QED
    BY <2>1 DEF Setting
<1>3. ASSUME Fewer PROVE \A p \in Passes : ~Setting(p)'
  BY <1>3 DEF Fewer, Setting
<1>4. ASSUME NEW p \in Passes, SetupOk(p) PROVE FALSE
  BY <1>4 DEF SetupOk, Setting
<1> QED
  BY <1>1, <1>2, <1>3, <1>4, LinkStep, PassingEffect

(* Once intake is stopped and nothing was under way, the broker only takes    *)
(* away, and the steps that are not the stop's own leave the tags.            *)
LEMMA CalmWork ==
  ASSUME IInv, TypeOK', Next, ~discarded', ~slow', ~late', cancelled
  PROVE  /\ \A c \in Consumers, l \in Conns :
              /\ consuming[c][l] = 0 => consuming'[c][l] = 0
              /\ Idle(c, l) => Idle(c, l)'
              /\ c \in Pausable => ~Contains(wire'[c][l], "consume")
         /\ StopNext \/ tags' = tags
<1> USE DEF IInv
<1>0. /\ \A p \in Passes : ~Setting(p)
      /\ \A c \in Pausable, l \in Conns : ~Contains(wire[c][l], "consume")
  BY CalmBefore DEF NoneComing
<1>00. Pausable \subseteq Consumers
  BY BoundsAssumption
<1>1. ASSUME NEW c \in Consumers, NEW l \in Conns, Same(c, l)
      PROVE  /\ consuming[c][l] = 0 => consuming'[c][l] = 0
             /\ Idle(c, l) => Idle(c, l)'
             /\ c \in Pausable => ~Contains(wire'[c][l], "consume")
  BY <1>0, <1>1 DEF Same, Idle
<1>2. CASE Leaves
  <2>1. \A c \in Consumers, l \in Conns : Same(c, l)
    BY <1>2 DEF Leaves, Same
  <2> QED
    BY <1>1, <1>2, <2>1 DEF Leaves
<1>3. ASSUME NEW k \in Conns, Cuts(k)
      PROVE  /\ tags' = tags
             /\ \A c \in Consumers, l \in Conns :
                  /\ consuming[c][l] = 0 => consuming'[c][l] = 0
                  /\ Idle(c, l) => Idle(c, l)'
                  /\ c \in Pausable => ~Contains(wire'[c][l], "consume")
  <2>1. \A c \in Consumers, l \in Conns : IF l = k THEN Unheard(c, l)' ELSE Same(c, l)
    BY <1>3, SilenceEffect DEF Cuts
  <2>2. \A c \in Consumers, l \in Conns : Unheard(c, l)' =>
          consuming'[c][l] = 0 /\ Idle(c, l)' /\ (c \in Pausable => ~Contains(wire'[c][l], "consume"))
    BY ShortWires DEF Unheard, Idle
  <2> QED
    BY <1>1, <1>3, <2>1, <2>2 DEF Cuts
<1>4. ASSUME NEW p \in Passes, SetupOk(p) PROVE FALSE
  BY <1>0, <1>4 DEF SetupOk, Setting
<1>5. ASSUME NEW c \in Pausable, NEW k \in Conns, Pause(c, k) \/ Resume(c, k) PROVE FALSE
  BY <1>5 DEF Pause, Resume
<1>6. ASSUME NEW c0 \in Pausable, NEW k \in Conns, Answered(c0, k)
      PROVE  /\ tags' = tags
             /\ \A c \in Consumers, l \in Conns :
                  /\ consuming[c][l] = 0 => consuming'[c][l] = 0
                  /\ Idle(c, l) => Idle(c, l)'
                  /\ c \in Pausable => ~Contains(wire'[c][l], "consume")
  <2>1. wire[c0][k] # <<>> /\ \A c \in Consumers, l \in Conns : c # c0 \/ l # k => Same(c, l)
    BY <1>6, AnsweredHeard
  <2>2. Shape(c0, k) /\ ~Contains(wire[c0][k], "consume")
    BY <1>0, <1>00, CalmBefore
  <2>3. wire[c0][k] = <<"cancel">>
    BY <1>00, <2>1, <2>2, ShortWires DEF Shape
  <2>4. Head(wire[c0][k]) = "cancel"
    BY <2>3, ShortWires
  <2>5. consuming'[c0][k] = 0 /\ tags' = tags /\ wire'[c0][k] = <<>>
    BY <1>6, <2>2, <2>4, CancelAnswered
  <2>6. ~Contains(wire'[c0][k], "consume")
    BY <2>5, ShortWires
  <2> QED
    BY <1>1, <2>1, <2>5, <2>6 DEF Idle
<1>7. ASSUME StopNext
      PROVE  \A c \in Consumers, l \in Conns :
               /\ consuming[c][l] = 0 => consuming'[c][l] = 0
               /\ Idle(c, l) => Idle(c, l)'
               /\ c \in Pausable => ~Contains(wire'[c][l], "consume")
  <2>1. wire' = wire /\ \A c \in Consumers, l \in Conns : consuming[c][l] = 0 => consuming'[c][l] = 0
    BY <1>7, StopTakes
  <2> QED
    BY <1>0, <2>1 DEF Idle
<1> QED
  BY <1>2, <1>3, <1>4, <1>5, <1>6, <1>7, BrokerStep DEF Works

(* What a stop that is about to begin leaves behind.                          *)
LEMMA StopBegins ==
  ASSUME IInv, StopIntake
  PROVE  /\ late' = Underway /\ consuming' = consuming /\ wire' = wire /\ tags' = tags
         /\ pass' = pass /\ consumers' = consumers
         /\ live = 0 => stop'.step = "done"
         /\ live # 0 => stop'.step = "running" /\ stop'.on = live /\ stop'.at = 1
BY DEF StopIntake, Pass, subs, watch

(* Once intake is stopped calmly, nothing is set up or resumed.               *)
LEMMA NoneComingStep ==
  ASSUME IInv, TypeOK', Next, ~discarded', ~slow', ~late'
  PROVE  NoneComing'
<1>1. CASE StopIntake
  <2>1. ~Underway /\ wire' = wire /\ pass' = pass
    BY <1>1, StopBegins
  <2> QED
    BY <2>1 DEF NoneComing, Underway, Setting
<1>2. CASE cancelled' = cancelled
  <2> SUFFICES ASSUME cancelled PROVE NoneComing'
    BY <1>2 DEF NoneComing
  <2>1. \A p \in Passes : ~Setting(p)
    BY CalmBefore DEF NoneComing
  <2>2. \A p \in Passes : ~Setting(p)'
    BY <2>1, NoPassAfter
  <2>3. \A c \in Pausable, k \in Conns : ~Contains(wire'[c][k], "consume")
    BY CalmWork, BoundsAssumption
  <2> QED
    BY <2>2, <2>3 DEF NoneComing
<1> QED
  BY <1>1, <1>2, FlagsGrow DEF IInv

(* While a stop runs, what consumes does so where it runs, and the tags it    *)
(* has visited are gone.                                                      *)
LEMMA OnlyThereStep ==
  ASSUME IInv, TypeOK', Next, ~discarded', ~slow', ~late'
  PROVE  OnlyThere'
<1> SUFFICES ASSUME stop'.step = "running" PROVE OnlyThere'
  BY DEF OnlyThere
<1>0. /\ IInv /\ TypeOK /\ Links /\ ~discarded /\ stop.at \in Nat /\ Len(consumers) \in Nat
      /\ OneUp /\ Silent /\ Begun /\ OnlyThere
  BY CalmBefore DEF IInv, TypeOK, Bindings, Stopping
<1>1. CASE StopIntake
  <2>1. /\ consuming' = consuming /\ consumers' = consumers /\ live # 0
        /\ stop'.on = live /\ stop'.at = 1
    BY <1>1, StopBegins
  <2>2. \A c \in Consumers, k \in Conns : consuming'[c][k] = 0 \/ k = live
    BY <1>0, <2>1 DEF OneUp, Silent, Unheard
  <2> QED
    BY <1>0, <2>1, <2>2 DEF OnlyThere
<1>2. CASE StopNext
  <2>1. stop.step = "running" /\ stop.at <= Len(consumers)
    <3>1. stop.at > Len(consumers) => stop'.step = "done"
      BY <1>0, <1>2, StopHeard
    <3> QED
      BY <1>0, <1>2, <3>1, StopHeard
  <2>2. /\ stop'.on = stop.on /\ stop'.at = stop.at + 1
        /\ \A c \in Consumers : tags'[c] = IF c = consumers[stop.at] THEN 0 ELSE tags[c]
    BY <1>0, <1>2, <2>1, StopHeard
  <2>3. consumers' = consumers
    BY <1>2 DEF StopNext
  <2>4. \A c \in Consumers, k \in Conns : consuming'[c][k] = 0 \/ k = stop'.on
    BY <1>0, <1>2, <2>1, <2>2, StopTakes DEF OnlyThere
  <2>5. \A i \in 1 .. Len(consumers) : i < stop'.at => tags'[consumers[i]] = 0
    <3> SUFFICES ASSUME NEW i \in 1 .. Len(consumers), i < stop.at + 1
                 PROVE  tags'[consumers[i]] = 0
      BY <2>2
    <3>1. consumers[i] \in Consumers
      BY <1>0 DEF TypeOK
    <3>2. i = stop.at \/ i < stop.at
      BY <1>0
    <3>3. i < stop.at => tags[consumers[i]] = 0
      BY <1>0, <2>1 DEF OnlyThere
    <3> QED
      BY <2>2, <3>1, <3>2, <3>3
  <2>6. stop'.at <= Len(consumers) + 1
    BY <1>0, <2>1, <2>2
  <2> QED
    BY <2>3, <2>4, <2>5, <2>6 DEF OnlyThere
<1>3. CASE ~StopNext /\ stop' = stop
  <2>1. cancelled /\ stop.step = "running"
    BY <1>0, <1>3 DEF Begun
  <2>2. tags' = tags /\ \A c \in Consumers, k \in Conns : consuming[c][k] = 0 => consuming'[c][k] = 0
    BY <1>3, <2>1, CalmWork
  <2>3. /\ \A c \in Consumers, k \in Conns : consuming[c][k] = 0 \/ k = stop.on
        /\ \A i \in 1 .. Len(consumers) : i < stop.at => tags[consumers[i]] = 0
        /\ stop.at <= Len(consumers) + 1
    BY <1>0, <2>1 DEF OnlyThere
  <2>4. /\ Len(consumers') \in Nat /\ Len(consumers') >= Len(consumers)
        /\ \A i \in 1 .. Len(consumers) : consumers'[i] = consumers[i]
    BY <1>0, AddedLast
  <2>5. \A i \in 1 .. Len(consumers') : i < stop.at => i \in 1 .. Len(consumers)
    BY <1>0, <2>3, <2>4
  <2>6. \A i \in 1 .. Len(consumers') : i < stop'.at => tags'[consumers'[i]] = 0
    BY <1>3, <2>2, <2>3, <2>4, <2>5
  <2>7. stop'.at <= Len(consumers') + 1
    BY <1>0, <1>3, <2>3, <2>4
  <2>8. \A c \in Consumers, k \in Conns : consuming'[c][k] = 0 \/ k = stop'.on
    BY <1>3, <2>2, <2>3
  <2> QED
    BY <2>6, <2>7, <2>8 DEF OnlyThere
<1> QED
  BY <1>0, <1>1, <1>2, <1>3, Growth

(* When a stop is done, nothing consumes for good.                            *)
LEMMA IntakeStep ==
  ASSUME IInv, TypeOK', Next
  PROVE  IntakeStops'
<1> SUFFICES ASSUME stop'.step = "done", ~discarded', ~slow', ~late',
                    NEW c \in Consumers, NEW l \in Conns
             PROVE  Idle(c, l)'
  BY DEF IntakeStops, Quiet, Idle
<1>01. stop.at \in Nat /\ Len(consumers) \in Nat
  BY DEF IInv, TypeOK
<1>02. ~discarded /\ Tagged /\ OnlyThere
  BY CalmBefore
<1>0. /\ IInv /\ TypeOK /\ Links /\ stop.at \in Nat /\ Len(consumers) \in Nat /\ ~discarded
      /\ OneUp /\ Silent /\ Begun /\ Tagged /\ OnlyThere /\ Registered
  BY <1>01, <1>02 DEF IInv, Bindings, Stopping
<1>1. CASE StopIntake
  <2>1. consuming' = consuming /\ live = 0
    BY <1>0, <1>1, StopBegins
  <2>2. ~Up(l)
    BY <1>0, <2>1, BoundsAssumption DEF OneUp, Conns
  <2> QED
    BY <1>0, <2>1, <2>2 DEF Silent, Unheard, Idle
<1>2. CASE StopNext
  <2>1. stop.step = "running" /\ wire' = wire /\ stop.at > Len(consumers)
    <3>1. stop.at <= Len(consumers) => stop'.step = "running"
      BY <1>0, <1>2, StopHeard
    <3> QED
      BY <1>0, <1>2, <3>1, StopHeard
  <2>2. consuming' = consuming
    BY <1>0, <1>2, <2>1, StopHeard
  <2>3. Idle(c, l)
    <3> SUFFICES ASSUME ~Idle(c, l) PROVE FALSE
      OBVIOUS
    <3>1. consuming[c][l] # 0 /\ tags[c] = l
      BY <1>0 DEF Tagged, Idle
    <3>2. Contains(consumers, c)
      BY <1>0, <3>1 DEF Registered, Unheard
    <3>3. PICK i \in 1 .. Len(consumers) : consumers[i] = c
      BY <3>2 DEF Contains
    <3>4. tags[c] = 0
      BY <1>0, <2>1, <3>3 DEF OnlyThere
    <3> QED
      BY <3>1, <3>4, BoundsAssumption DEF Conns
  <2> QED
    BY <2>1, <2>2, <2>3 DEF Idle
<1>3. CASE ~StopNext /\ ~StopIntake /\ stop' = stop
  <2>1. cancelled /\ ~late
    BY <1>0, <1>3, CalmBefore DEF Begun
  <2>2. Idle(c, l)
    <3>1. Quiet
      BY <1>3, CalmBefore DEF IInv, Stopping, IntakeStops
    <3> QED
      BY <3>1 DEF Quiet, Idle
  <2> QED
    BY <2>1, <2>2, CalmWork
<1> QED
  BY <1>0, <1>1, <1>2, <1>3, Growth

(* Every step keeps what a stop leaves.                                       *)
LEMMA StoppingStep == ASSUME IInv, TypeOK', Next PROVE Stopping'
<1>1. Calm'
  BY TaggedStep, NoneComingStep, OnlyThereStep DEF Calm
<1> QED
  BY <1>1, BegunStep, RegisteredStep, IntakeStep DEF Stopping

-----------------------------------------------------------------------------
(* The theorems *)

(* A process that starts satisfies the invariant.                             *)
LEMMA InitInv == Init => IInv
<1> SUFFICES ASSUME Init PROVE IInv
  OBVIOUS
<1>1. Open \in Passes /\ Pausable \subseteq Consumers /\ \A k \in Conns : k \in Nat \ {0}
  BY BoundsAssumption DEF Passes, Conns
<1>2. /\ \A p \in Passes : pass[p].step = "idle" /\ ~Setting(p)
      /\ \A k \in Conns : conn[k] = "none" /\ ~Up(k)
      /\ \A c \in Consumers, k \in Conns : consuming[c][k] = 0
      /\ \A c \in Pausable, k \in Conns : wire[c][k] = <<>> /\ watching[c][k] = "none"
      /\ \A c \in Consumers : tags[c] = 0
      /\ live = 0 /\ ~cancelled /\ ~late /\ stop.step = "no"
  BY DEF Init, Pass, Setting, Up
<1>3. TypeOK
  <2>1. Pass("idle", 0, 0) \in [step : {"idle", "waiting", "ready", "setting", "done"},
                                on : Conns \union {0}, at : Nat]
    BY DEF Pass
  <2>2. Pass("no", 0, 0) \in [step : {"no", "running", "done"}, on : Conns \union {0}, at : Nat]
    BY DEF Pass
  <2>3. <<>> \in Seq({"cancel", "consume"}) /\ <<>> \in Seq(Consumers)
    OBVIOUS
  <2>4. wire \in [Pausable -> [Conns -> Seq({"cancel", "consume"})]]
    BY <2>3 DEF Init
  <2>5. consumers \in Seq(Consumers)
    BY <2>3 DEF Init
  <2>6. pass[Open].step = "idle"
    BY <1>1, <1>2
  <2>7. pass \in [Passes -> [step : {"idle", "waiting", "ready", "setting", "done"},
                             on : Conns \union {0}, at : Nat]]
    BY <2>1 DEF Init
  <2> QED
    BY <2>2, <2>4, <2>5, <2>6, <2>7 DEF Init, TypeOK
<1>4. Links
  <2>1. {k \in Conns : conn[k] # "none"} = {}
    BY <1>2
  <2>2. made = 0
    BY <2>1, FS_EmptySet DEF made
  <2> QED
    BY <1>1, <1>2, <2>2 DEF Links
<1>5. \A c \in Consumers, k \in Conns : Unheard(c, k)
  BY <1>2 DEF Unheard
<1>6. Silent /\ Registered
  BY <1>5 DEF Silent, Registered
<1>7. Counted
  <2> SUFFICES ASSUME NEW c \in Consumers, NEW k \in Conns PROVE Backed(c, k)
    BY DEF Counted
  <2>1. tags[c] # k /\ Tag(c, k) = 0 /\ consuming[c][k] = 0
    BY <1>1, <1>2 DEF Tag
  <2>2. c \in Pausable => Due(c, k) = 0 /\ watching[c][k] = "none"
    BY <1>2, CancelsOfNone DEF Due
  <2> QED
    BY <2>1, <2>2 DEF Backed
<1>8. Bindings
  BY <1>2, <1>5 DEF Bindings, OneUp, OneChannel, Gone, Claimed, Apart, Attached
<1>9. Shapes
  BY <1>2 DEF Shapes, Shape
<1>10. Stopping
  <2>1. Calm
    BY <1>2 DEF Calm, Tagged, Idle, NoneComing, OnlyThere
  <2>2. IntakeStops
    BY <1>2 DEF IntakeStops
  <2>3. Begun
    BY <1>2, Zenon DEF Begun
  <2> QED
    BY <1>6, <2>1, <2>2, <2>3 DEF Stopping
<1> QED
  BY <1>3, <1>4, <1>6, <1>7, <1>8, <1>9, <1>10 DEF IInv

(* A step that changes nothing changes no part of the invariant.              *)
LEMMA StutterStep == ASSUME IInv, UNCHANGED vars PROVE IInv'
<1>1. /\ conn' = conn /\ live' = live /\ opening' = opening /\ closed' = closed
      /\ cancelled' = cancelled /\ consumers' = consumers /\ boundTo' = boundTo
      /\ binding' = binding /\ tags' = tags /\ pass' = pass /\ pc' = pc /\ using' = using
      /\ wire' = wire /\ watching' = watching /\ stop' = stop /\ consuming' = consuming
      /\ discarded' = discarded /\ late' = late /\ slow' = slow /\ faults' = faults
  BY DEF vars, link, subs, calls, watch, hist
<1>2. TypeOK' /\ Links'
  BY <1>1 DEF IInv, TypeOK, Links, made, Setting, Up
<1>3. Silent' /\ Counted'
  BY <1>1 DEF IInv, Silent, Counted, Backed, Unheard, Tag, Due, Up
<1>4. Bindings' /\ Shapes'
  BY <1>1 DEF IInv, Bindings, OneUp, OneChannel, Gone, Claimed, Apart, Attached, Its, Setting,
              Unheard, Up, Shapes, Shape
<1>5. Stopping'
  BY <1>1 DEF IInv, Stopping, Begun, Registered, Unheard, Calm, Tagged, Idle, NoneComing,
              OnlyThere, IntakeStops, Quiet, Setting
<1> QED
  BY <1>2, <1>3, <1>4, <1>5 DEF IInv

(* The invariant of the connector.                                            *)
THEOREM Invariant == Spec => []IInv
<1>1. Init => IInv
  BY InitInv
<1>2. IInv /\ [Next]_vars => IInv'
  <2>1. ASSUME IInv, Next PROVE IInv'
    <3>1. TypeOK'
      BY <2>1, TypesStep
    <3>2. Links' /\ Silent'
      BY <2>1, <3>1, LinksStep, SilentStep
    <3>3. Counted' /\ Bindings' /\ Shapes' /\ Stopping'
      BY <2>1, <3>1, <3>2, CountedStep, BindingsStep, ShapesStep, StoppingStep
    <3> QED
      BY <3>1, <3>2, <3>3 DEF IInv
  <2> QED
    BY <2>1, StutterStep
<1> QED
  BY <1>1, <1>2, PTL DEF Spec

(* The types; and `live` is never a connection known to be dead.              *)
THEOREM TypeCorrect == Spec => []TypeOK
<1>1. IInv => TypeOK
  BY DEF IInv
<1> QED
  BY <1>1, Invariant, PTL

(* "A doubly-bound subscriber folds every event twice": however many passes,  *)
(* reconnects, pauses and resumes overlap, a subscription consumes at most    *)
(* once and on one connection, unless a healthy connection was dropped or a   *)
(* resume outlasted the poll that asked for it.                               *)
THEOREM ConsumesOnce == Spec => []OneSubscription
<1>1. IInv => OneSubscription
  <2> SUFFICES ASSUME IInv, ~discarded, ~slow, NEW c \in Consumers, NEW k \in Conns,
                      consuming[c][k] > 0
               PROVE  consuming[c][k] = 1 /\ \A l \in Conns \ {k} : consuming[c][l] = 0
    BY DEF OneSubscription
  <2>1. consuming[c][k] \in Nat /\ consuming[c][k] <= 1
    BY DEF IInv, TypeOK, Shapes, Shape
  <2>2. Up(k)
    BY <2>1 DEF IInv, Silent, Unheard
  <2>3. \A l \in Conns \ {k} : consuming[c][l] = 0
    BY <2>2, HeardOnOne
  <2> QED
    BY <2>1, <2>3
<1> QED
  BY <1>1, Invariant, PTL

(* When cancelConsumers has ended, the broker hands over nothing more, and no *)
(* reconnect re-arms a consumer, but for what was under way when it began.    *)
THEOREM StopsIntake == Spec => []IntakeStops
<1>1. IInv => IntakeStops
  BY DEF IInv, Stopping
<1> QED
  BY <1>1, Invariant, PTL

=============================================================================
