-------------------------- MODULE UnitOfWorkProofs --------------------------
(***************************************************************************)
(* Proofs about UnitOfWork, for any runs, claims, events and faults, over  *)
(* either store: its types, that it keeps the promise of UnitPromise, and  *)
(* that a late event does not overwrite a later version over Mongo.        *)
(***************************************************************************)
EXTENDS UnitOfWork, TLAPS

Items == {Row} \union Claims \union Events
Outcomes == [tag : {"none", "committed", "duplicate", "aborted", "failed"},
             replay : Runs \union {NoOne}]

Types ==
  /\ sql \in BOOLEAN /\ asks \in Scenarios /\ faults \in 0 .. MaxFaults
  /\ db \in Contents /\ landed \subseteq Runs
  /\ pc \in [Runs -> Calls \union {"sent", "replay", "over"}]
  /\ tries \in [Runs -> 0 .. Attempts - 1]
  /\ tx \in [Runs -> {"open", "sent", "landed", "dropped"}]
  /\ work \in [Runs -> SUBSET Items]
  /\ seen \in [Runs -> Contents \union {NoView}]
  /\ answer \in [Runs -> Outcomes]

(* What a run has written at each call of an attempt: its claim, then the    *)
(* row and its event together, or neither if it found the event stale.       *)
ClaimOf(r) == {asks[r].claim} \ {NoOne}
Whole(r, written) == written \in {ClaimOf(r), ClaimOf(r) \union {Row, asks[r].event}}

Found(r) ==
  \/ asks[r].claim # NoOne /\ db.taken[asks[r].claim] # NoOne
  \/ db.recorded[asks[r].event] # NoOne

Stage(r) ==
  /\ pc[r] \in Calls \union {"replay"} => tx[r] = "open"
  /\ pc[r] = "claim" => work[r] = {} /\ asks[r].claim # NoOne
  /\ pc[r] \in {"body", "write"} => work[r] = ClaimOf(r)
  /\ pc[r] = "record" => work[r] = ClaimOf(r) \union {Row}
  /\ pc[r] = "commit" => Whole(r, work[r])
  /\ pc[r] = "sent" => tx[r] # "open"
  /\ pc[r] = "replay" => work[r] = {} /\ Found(r)
  /\ tx[r] = "sent" => Whole(r, work[r])
  /\ tx[r] \in {"landed", "dropped"} => work[r] = {}

(* A run whose work may still be applied has been told nothing that denies   *)
(* it, and a run that goes on has been told nothing.                         *)
Told(r) ==
  /\ pc[r] # "over" => answer[r].tag = "none"
  /\ tx[r] = "sent" => answer[r].tag \in {"none", "failed"}
  /\ r \in landed <=> tx[r] = "landed"

(* What a run has written is committed by nobody, and was found so.          *)
Untaken(r) == \A item \in work[r] :
  /\ item \in Claims => db.taken[item] = NoOne
  /\ item \in Events => db.recorded[item] = NoOne

(* A run writes the row for a version later than the one it read, which over *)
(* Mongo is the one committed still.                                         *)
Forward(r) == pc[r] = "write" \/ Row \in work[r] =>
  /\ seen[r] # NoView /\ seen[r].version < asks[r].version
  /\ Row \in work[r] /\ ~sql => seen[r].version = db.version

(* What a run has read over Mongo is a version the row has reached.          *)
Reached(r) == ~sql /\ seen[r] # NoView => seen[r].version <= db.version

Own(r) == Stage(r) /\ Told(r) /\ Untaken(r) /\ Forward(r) /\ Reached(r)

Exclusive == \A r \in Runs : \A item \in work[r] : Free(r, item)

IInv == Types /\ Exclusive /\ \A r \in Runs : Own(r)

-----------------------------------------------------------------------------
(* What a run asks never changes, and says what it may write. *)
LEMMA AsksOf ==
  ASSUME asks \in Scenarios, NEW r \in Runs
  PROVE  /\ asks[r].claim \in Claims \union {NoOne} /\ asks[r].event \in Events
         /\ asks[r].version \in Nat
         /\ asks[r].event \notin Claims /\ Row \notin Claims /\ Row \notin Events
         /\ asks[r].event # NoOne /\ NoOne \notin Claims /\ Row # asks[r].event
<1>1. asks[r] \in Asks
  BY ScenariosAssumption
<1> QED
  BY <1>1, ScenariosAssumption DEF Asks

(* A step of one run, at the client or in its transaction. *)
Becomes(r, p, t, x, w, s, a) ==
  /\ pc' = [pc EXCEPT ![r] = p] /\ tries' = [tries EXCEPT ![r] = t]
  /\ tx' = [tx EXCEPT ![r] = x] /\ work' = [work EXCEPT ![r] = w]
  /\ seen' = [seen EXCEPT ![r] = s] /\ answer' = [answer EXCEPT ![r] = a]

(* Such a step leaves every other run as it was. *)
LEMMA OneMoves ==
  ASSUME IInv, NEW r \in Runs,
         NEW p \in Calls \union {"sent", "replay", "over"}, NEW t \in 0 .. Attempts - 1,
         NEW x \in {"open", "sent", "landed", "dropped"}, NEW w \in SUBSET Items,
         NEW s \in Contents \union {NoView}, NEW a \in Outcomes,
         Becomes(r, p, t, x, w, s, a),
         UNCHANGED <<sql, asks, db, landed>>, faults' \in 0 .. MaxFaults,
         \A item \in w : item \in work[r] \/ Free(r, item),
         pc'[r] = p /\ tx'[r] = x /\ work'[r] = w /\ seen'[r] = s /\ answer'[r] = a => Own(r)'
  PROVE  IInv'
<1> USE DEF IInv
<1>1. pc'[r] = p /\ tx'[r] = x /\ work'[r] = w /\ seen'[r] = s /\ answer'[r] = a
  BY DEF Becomes, Types
<1>2. \A c \in Runs : c # r => /\ pc'[c] = pc[c] /\ tx'[c] = tx[c] /\ work'[c] = work[c]
                              /\ seen'[c] = seen[c] /\ answer'[c] = answer[c]
  BY DEF Becomes, Types
<1>3. Types'
  <2>1. sql' \in BOOLEAN
    BY Zenon DEF Types
  <2>2. pc' \in [Runs -> Calls \union {"sent", "replay", "over"}]
    BY DEF Types, Becomes
  <2>3. tries' \in [Runs -> 0 .. Attempts - 1]
    BY DEF Types, Becomes
  <2>4. tx' \in [Runs -> {"open", "sent", "landed", "dropped"}] /\ work' \in [Runs -> SUBSET Items]
    BY DEF Types, Becomes
  <2>5. seen' \in [Runs -> Contents \union {NoView}] /\ answer' \in [Runs -> Outcomes]
    BY DEF Types, Becomes
  <2> QED
    BY <2>1, <2>2, <2>3, <2>4, <2>5 DEF Types
<1>4. Exclusive'
  <2> SUFFICES ASSUME NEW c \in Runs, NEW item \in work'[c], NEW b \in Runs \ {c}
               PROVE  item \notin work'[b]
    BY DEF Exclusive, Free
  <2>1. CASE c = r
    BY <1>1, <1>2, <2>1 DEF Exclusive, Free
  <2>2. CASE b = r
    BY <1>1, <1>2, <2>2 DEF Exclusive, Free
  <2>3. CASE c # r /\ b # r
    BY <1>2, <2>3 DEF Exclusive, Free
  <2> QED
    BY <2>1, <2>2, <2>3
<1>5. ASSUME NEW c \in Runs PROVE Own(c)'
  <2>1. CASE c = r
    BY <1>1, <2>1
  <2>2. CASE c # r
    <3>1. Own(c)
      OBVIOUS
    <3>2. Stage(c)' /\ Told(c)'
      BY <1>2, <2>2, <3>1 DEF Own, Stage, Told, Whole, ClaimOf, Found
    <3>3. Untaken(c)' /\ Forward(c)' /\ Reached(c)'
      BY <1>2, <2>2, <3>1 DEF Own, Untaken, Forward, Reached
    <3> QED
      BY <3>2, <3>3 DEF Own
  <2> QED
    BY <2>1, <2>2
<1> QED
  BY <1>3, <1>4, <1>5

(* A transaction is rolled back, and its run reruns, answers or reads a      *)
(* replay.                                                                   *)
LEMMA RollsBackKeeps ==
  ASSUME IInv, NEW r \in Runs, r \notin landed, RollsBack(r),
         NEW p \in {First(r), "replay", "over"}, NEW t \in 0 .. Attempts - 1, NEW a \in Outcomes,
         pc' = [pc EXCEPT ![r] = p], tries' = [tries EXCEPT ![r] = t],
         answer' = [answer EXCEPT ![r] = a],
         p # "over" => a.tag = "none", p = "replay" => Found(r),
         UNCHANGED <<sql, asks>>, faults' \in 0 .. MaxFaults
  PROVE  IInv'
<1>1. First(r) \in {"claim", "body"}
  BY DEF First
<1>2. p \in Calls \union {"sent", "replay", "over"}
  BY <1>1 DEF Calls
<1>3. Becomes(r, p, t, "open", {}, NoView, a) /\ UNCHANGED <<db, landed>>
  BY DEF Becomes, RollsBack
<1>4. /\ p = "claim" => asks[r].claim # NoOne
      /\ p = "body" => asks[r].claim = NoOne
      /\ p \in {"claim", "body", "replay", "over"}
  BY <1>1 DEF First
<1>5. ASSUME pc'[r] = p, tx'[r] = "open", work'[r] = {}, seen'[r] = NoView, answer'[r] = a
      PROVE  Own(r)'
  <2>1. Stage(r)'
    BY <1>3, <1>4, <1>5 DEF Stage, Whole, ClaimOf, Found, Calls
  <2>2. Told(r)'
    BY <1>3, <1>4, <1>5 DEF Told
  <2>3. Untaken(r)' /\ Forward(r)' /\ Reached(r)'
    BY <1>4, <1>5 DEF Untaken, Forward, Reached
  <2> QED
    BY <2>1, <2>2, <2>3 DEF Own
<1>6. /\ {} \in SUBSET Items /\ NoView \in Contents \union {NoView}
      /\ "open" \in {"open", "sent", "landed", "dropped"}
      /\ UNCHANGED <<sql, asks, db, landed>>
      /\ \A item \in {} : item \in work[r] \/ Free(r, item)
  BY <1>3
<1>7. pc'[r] = p /\ tx'[r] = "open" /\ work'[r] = {} /\ seen'[r] = NoView /\ answer'[r] = a => Own(r)'
  BY <1>5
<1> HIDE DEF RollsBack
<1> QED
  BY <1>2, <1>3, <1>6, <1>7, OneMoves

(* Contention reruns the unit, or fails it. *)
LEMMA ContendsKeeps ==
  ASSUME IInv, NEW r \in Runs, r \notin landed, pc[r] # "over", Contends(r),
         UNCHANGED <<sql, asks>>, faults' \in 0 .. MaxFaults
  PROVE  IInv'
<1>1. /\ tries \in [Runs -> 0 .. Attempts - 1] /\ answer \in [Runs -> Outcomes]
      /\ answer[r].tag = "none" /\ RollsBack(r)
  BY DEF IInv, Types, Own, Told, Contends
<1>2. CASE tries[r] + 1 < Attempts
  <2>1. /\ tries' = [tries EXCEPT ![r] = tries[r] + 1] /\ pc' = [pc EXCEPT ![r] = First(r)]
        /\ answer' = [answer EXCEPT ![r] = answer[r]]
    BY <1>1, <1>2 DEF Contends, Reruns, Goto
  <2>2. tries[r] + 1 \in 0 .. Attempts - 1
    BY <1>1, <1>2, BoundsAssumption
  <2>3. First(r) # "replay"
    BY DEF First
  <2> QED
    BY <1>1, <2>1, <2>2, <2>3, RollsBackKeeps
<1>3. CASE ~(tries[r] + 1 < Attempts)
  <2> DEFINE a == [tag |-> "failed", replay |-> NoOne]
  <2>1. /\ tries' = [tries EXCEPT ![r] = 0] /\ pc' = [pc EXCEPT ![r] = "over"]
        /\ answer' = [answer EXCEPT ![r] = a]
    BY <1>3 DEF Contends, Reruns, Goto, Answers
  <2>2. 0 \in 0 .. Attempts - 1 /\ a \in Outcomes
    BY BoundsAssumption DEF Outcomes
  <2> HIDE DEF a
  <2> QED
    BY <1>1, <2>1, <2>2, RollsBackKeeps
<1> QED
  BY <1>2, <1>3

(* A call succeeds, and the attempt goes on to its next. *)
LEMMA GoesOnKeeps ==
  ASSUME IInv, NEW r \in Runs, pc[r] \in Calls, NEW p \in {"body", "write", "record", "commit"},
         NEW w \in SUBSET Items, NEW s \in Contents \union {NoView},
         GoesOn(r, p), work' = [work EXCEPT ![r] = w], seen' = [seen EXCEPT ![r] = s],
         UNCHANGED <<sql, asks, faults>>,
         \A item \in w \ work[r] : /\ Free(r, item)
                                   /\ item \in Claims => db.taken[item] = NoOne
                                   /\ item \in Events => db.recorded[item] = NoOne,
         p \in {"body", "write"} => w = ClaimOf(r),
         p = "record" => w = ClaimOf(r) \union {Row},
         p = "commit" => Whole(r, w),
         p = "write" \/ Row \in w =>
           /\ s # NoView /\ s.version < asks[r].version
           /\ Row \in w /\ ~sql => s.version = db.version,
         ~sql /\ s # NoView => s.version <= db.version
  PROVE  IInv'
<1>1. Types /\ Own(r)
  BY DEF IInv
<1>2. tx[r] = "open" /\ answer[r].tag = "none" /\ r \notin landed
  BY <1>1 DEF Own, Stage, Told, Calls
<1>3. /\ UNCHANGED <<tries, answer, tx, db, landed>> /\ pc' = [pc EXCEPT ![r] = p]
      /\ faults' \in 0 .. MaxFaults /\ p \in Calls
  BY <1>1 DEF GoesOn, Goto, Types, Calls
<1>4. Becomes(r, p, tries[r], tx[r], w, s, answer[r])
  BY <1>1, <1>3 DEF Becomes, Types
<1>5. ASSUME pc'[r] = p, tx'[r] = tx[r], work'[r] = w, seen'[r] = s, answer'[r] = answer[r]
      PROVE  Own(r)'
  <2>1. Stage(r)'
    BY <1>2, <1>3, <1>5 DEF Stage, Whole, ClaimOf, Calls
  <2>2. Told(r)'
    BY <1>2, <1>3, <1>5 DEF Told
  <2>3. Untaken(r)'
    BY <1>1, <1>3, <1>5 DEF Own, Untaken
  <2>4. Forward(r)' /\ Reached(r)'
    BY <1>3, <1>5 DEF Forward, Reached
  <2> QED
    BY <2>1, <2>2, <2>3, <2>4 DEF Own
<1>6. pc'[r] = p /\ tx'[r] = tx[r] /\ work'[r] = w /\ seen'[r] = s /\ answer'[r] = answer[r] => Own(r)'
  BY <1>5
<1>7. \A item \in w : item \in work[r] \/ Free(r, item)
  OBVIOUS
<1>8. /\ p \in Calls \union {"sent", "replay", "over"} /\ tries[r] \in 0 .. Attempts - 1
      /\ tx[r] \in {"open", "sent", "landed", "dropped"} /\ answer[r] \in Outcomes
      /\ UNCHANGED <<sql, asks, db, landed>>
  BY <1>1, <1>3 DEF Types
<1> QED
  BY <1>3, <1>4, <1>6, <1>7, <1>8, OneMoves

(* A duplicate rolls back, to read its replay. *)
LEMMA DuplicateKeeps ==
  ASSUME IInv, NEW r \in Runs, pc[r] \in Calls, IsDuplicate(r), Found(r),
         UNCHANGED <<sql, asks, faults>>
  PROVE  IInv'
<1>1. /\ Types /\ RollsBack(r) /\ pc' = [pc EXCEPT ![r] = "replay"]
      /\ r \notin landed /\ answer[r].tag = "none"
  BY DEF IInv, Own, Stage, Told, Calls, IsDuplicate, Goto
<1>2. /\ tries' = [tries EXCEPT ![r] = tries[r]] /\ answer' = [answer EXCEPT ![r] = answer[r]]
      /\ tries[r] \in 0 .. Attempts - 1 /\ answer[r] \in Outcomes /\ faults' \in 0 .. MaxFaults
  BY <1>1 DEF Types, IsDuplicate
<1> QED
  BY <1>1, <1>2, RollsBackKeeps

(* What a run sees is what is committed, or was when its snapshot was taken; *)
(* what it may write without a conflict or a wait is what is committed.      *)
LEMMA ViewOf ==
  ASSUME Types, NEW r \in Runs, Reached(r)
  PROVE  View(r) \in Contents /\ View(r) # NoView /\ (sql => View(r) = db)
         /\ View(r).version <= db.version
<1>1. db \in Contents /\ db.version \in Nat
  BY DEF Types, Contents
<1> QED
  BY <1>1, ScenariosAssumption DEF Types, View, Reached

(* The calls of an attempt. *)
LEMMA CallKeeps ==
  ASSUME IInv, NEW r \in Runs, TakeClaim(r) \/ BodyReads(r) \/ BodyWrites(r) \/ Record(r),
         UNCHANGED <<sql, asks>>
  PROVE  IInv'
<1>1. Types /\ Own(r) /\ pc[r] \in Calls /\ UNCHANGED faults
  BY DEF IInv, TakeClaim, BodyReads, BodyWrites, Record, Calls
<1>2. r \notin landed /\ pc[r] # "over" /\ faults' \in 0 .. MaxFaults
  BY <1>1 DEF Own, Stage, Told, Calls, Types
<1>3. /\ asks[r].claim \in Claims \union {NoOne} /\ asks[r].event \in Events
      /\ asks[r].event \notin Claims /\ Row \notin Claims /\ Row \notin Events
  BY <1>1, AsksOf DEF Types
<1>4. View(r) \in Contents /\ View(r) # NoView /\ (sql => View(r) = db)
      /\ View(r).version <= db.version
  BY <1>1, ViewOf DEF Own
<1>9. ~sql /\ seen[r] # NoView => seen[r].version <= db.version
  BY <1>1 DEF Own, Reached
<1>5. CASE TakeClaim(r)
  <2> DEFINE c == asks[r].claim
  <2>1. pc[r] = "claim" /\ work[r] = {} /\ c # NoOne /\ c \in Claims /\ c \notin Events
    BY <1>1, <1>3, <1>5, ScenariosAssumption DEF TakeClaim, Own, Stage
  <2>2. CASE Contends(r)
    BY <1>2, <2>2, ContendsKeeps
  <2>3. CASE ~Conflicts(r, c, db.taken[c], View(r).taken[c]) /\ View(r).taken[c] # NoOne /\ IsDuplicate(r)
    <3>1. Found(r)
      BY <1>4, <2>1, <2>3 DEF Found, Conflicts
    <3> QED
      BY <1>1, <2>3, <3>1, DuplicateKeeps
  <2>4. CASE /\ ~Conflicts(r, c, db.taken[c], View(r).taken[c]) /\ View(r).taken[c] = NoOne
             /\ Holds(r, c) /\ Snapshot(r) /\ GoesOn(r, "body")
    <3>1. Free(r, c) /\ db.taken[c] = NoOne
      BY <1>4, <1>5, <2>4 DEF TakeClaim, Conflicts, Waits
    <3>2. PICK s \in Contents \union {NoView} : /\ seen' = [seen EXCEPT ![r] = s]
                                                /\ ~sql /\ s # NoView => s.version <= db.version
      <4>1. CASE UNCHANGED seen
        BY <1>1, <1>9, <4>1 DEF Types
      <4>2. CASE Look(r)
        BY <1>4, <4>2 DEF Look
      <4> QED
        BY <2>4, <4>1, <4>2 DEF Snapshot
    <3>3. work' = [work EXCEPT ![r] = {c}] /\ {c} \in SUBSET Items
      BY <2>1, <2>4 DEF Holds, Items
    <3>4. {c} = ClaimOf(r) /\ Row \notin {c}
      BY <1>3, <2>1 DEF ClaimOf
    <3> HIDE DEF c
    <3>5. "body" \in {"body", "write", "record", "commit"} /\ UNCHANGED <<sql, asks, faults>>
      BY <1>1
    <3>6. \A item \in {c} \ work[r] : /\ Free(r, item)
                                      /\ item \in Claims => db.taken[item] = NoOne
                                      /\ item \in Events => db.recorded[item] = NoOne
      BY <2>1, <3>1
    <3>7. ~sql /\ s # NoView => s.version <= db.version
      BY <3>2
    <3>8. GoesOn(r, "body") /\ pc[r] \in Calls /\ seen' = [seen EXCEPT ![r] = s]
      BY <1>1, <2>4, <3>2
    <3> QED
      BY <3>3, <3>4, <3>5, <3>6, <3>7, <3>8, GoesOnKeeps
  <2> QED
    BY <1>5, <2>2, <2>3, <2>4 DEF TakeClaim
<1>6. CASE BodyReads(r)
  <2>1. /\ pc[r] = "body" /\ work[r] = ClaimOf(r) /\ work' = [work EXCEPT ![r] = work[r]]
        /\ seen' = [seen EXCEPT ![r] = View(r)] /\ Row \notin work[r] /\ work[r] \in SUBSET Items
    BY <1>1, <1>3, <1>6 DEF BodyReads, Own, Stage, ClaimOf, Look, Types
  <2>2. PICK p \in {"write", "commit"} : GoesOn(r, p) /\ (p = "write" => View(r).version < asks[r].version)
    <3>1. View(r).version \in Nat /\ asks[r].version \in Nat
      BY <1>1, <1>4, AsksOf DEF Contents, Types
    <3> QED
      BY <1>6, <3>1 DEF BodyReads, IsStale
  <2>3. p \in {"body", "write", "record", "commit"} /\ p # "body" /\ p # "record"
    OBVIOUS
  <2>4. Whole(r, work[r])
    BY <2>1 DEF Whole
  <2>5. UNCHANGED <<sql, asks, faults>> /\ View(r) \in Contents \union {NoView}
    BY <1>1, <1>4
  <2>6. p = "write" \/ Row \in work[r] =>
          /\ View(r) # NoView /\ View(r).version < asks[r].version
          /\ Row \in work[r] /\ ~sql => View(r).version = db.version
    BY <1>4, <2>1, <2>2
  <2> QED
    BY <1>1, <1>4, <2>1, <2>2, <2>3, <2>4, <2>5, <2>6, GoesOnKeeps
<1>7. CASE BodyWrites(r)
  <2>1. pc[r] = "write" /\ work[r] = ClaimOf(r)
    BY <1>1, <1>7 DEF BodyWrites, Own, Stage
  <2>2. CASE Contends(r)
    BY <1>2, <2>2, ContendsKeeps
  <2>3. CASE /\ ~Conflicts(r, Row, db.version, View(r).version)
             /\ Holds(r, Row) /\ UNCHANGED seen /\ GoesOn(r, "record")
    <3> DEFINE w == work[r] \union {Row}
    <3>1. Free(r, Row) /\ (~sql => db.version = View(r).version)
      BY <1>7, <2>3 DEF BodyWrites, Conflicts, Waits
    <3>2. seen[r] # NoView /\ seen[r].version < asks[r].version /\ (~sql => View(r) = seen[r])
      BY <1>1, <2>1 DEF Own, Forward, View
    <3>3. /\ work' = [work EXCEPT ![r] = w] /\ w \in SUBSET Items /\ w = ClaimOf(r) \union {Row}
          /\ seen' = [seen EXCEPT ![r] = seen[r]] /\ seen[r] \in Contents \union {NoView}
      BY <1>1, <2>1, <2>3 DEF Holds, Items, Types
    <3>4. \A item \in w \ work[r] : item = Row
      OBVIOUS
    <3> HIDE DEF w
    <3>5. "record" \in {"body", "write", "record", "commit"} /\ UNCHANGED <<sql, asks, faults>>
      BY <1>1
    <3>6. \A item \in w \ work[r] : /\ Free(r, item)
                                    /\ item \in Claims => db.taken[item] = NoOne
                                    /\ item \in Events => db.recorded[item] = NoOne
      BY <1>3, <3>1, <3>4
    <3>7. /\ seen[r] # NoView /\ seen[r].version < asks[r].version
          /\ ~sql => seen[r].version = db.version
      BY <3>1, <3>2
    <3> QED
      BY <1>1, <1>9, <2>3, <3>3, <3>5, <3>6, <3>7, GoesOnKeeps
  <2> QED
    BY <1>7, <2>2, <2>3 DEF BodyWrites
<1>8. CASE Record(r)
  <2> DEFINE e == asks[r].event
  <2>1. pc[r] = "record" /\ work[r] = ClaimOf(r) \union {Row}
    BY <1>1, <1>8 DEF Record, Own, Stage
  <2>2. CASE Contends(r)
    BY <1>2, <2>2, ContendsKeeps
  <2>3. CASE ~Conflicts(r, e, db.recorded[e], View(r).recorded[e]) /\ View(r).recorded[e] # NoOne /\ IsDuplicate(r)
    <3>1. Found(r)
      BY <1>4, <2>3 DEF Found, Conflicts
    <3> QED
      BY <1>1, <2>3, <3>1, DuplicateKeeps
  <2>4. CASE /\ ~Conflicts(r, e, db.recorded[e], View(r).recorded[e]) /\ View(r).recorded[e] = NoOne
             /\ Holds(r, e) /\ UNCHANGED seen /\ GoesOn(r, "commit")
    <3> DEFINE w == work[r] \union {e}
    <3>1. Free(r, e) /\ db.recorded[e] = NoOne
      BY <1>4, <1>8, <2>4 DEF Record, Conflicts, Waits
    <3>2. /\ seen[r] # NoView /\ seen[r].version < asks[r].version
          /\ ~sql => seen[r].version = db.version
      BY <1>1, <2>1 DEF Own, Forward
    <3>3. /\ work' = [work EXCEPT ![r] = w] /\ w \in SUBSET Items /\ w = ClaimOf(r) \union {Row, e}
          /\ seen' = [seen EXCEPT ![r] = seen[r]] /\ seen[r] \in Contents \union {NoView}
      BY <1>1, <1>3, <2>1, <2>4 DEF Holds, Items, Types
    <3>4. Whole(r, w)
      BY <3>3 DEF Whole
    <3>5. \A item \in w \ work[r] : /\ Free(r, item)
                                    /\ item \in Claims => db.taken[item] = NoOne
                                    /\ item \in Events => db.recorded[item] = NoOne
      BY <1>3, <3>1
    <3> HIDE DEF w
    <3>6. "commit" \in {"body", "write", "record", "commit"} /\ UNCHANGED <<sql, asks, faults>>
      BY <1>1
    <3> QED
      BY <1>1, <1>9, <2>4, <3>2, <3>3, <3>4, <3>5, <3>6, GoesOnKeeps
  <2> QED
    BY <1>8, <2>2, <2>3, <2>4 DEF Record
<1> QED
  BY <1>5, <1>6, <1>7, <1>8

(* A run ends, whatever the store makes of its transaction. *)
LEMMA EndsKeeps ==
  ASSUME IInv, NEW r \in Runs, NEW a \in Outcomes, UNCHANGED store, UNCHANGED <<sql, asks>>,
         pc' = [pc EXCEPT ![r] = "over"], tries' = [tries EXCEPT ![r] = 0],
         answer' = [answer EXCEPT ![r] = a], tx[r] = "sent" => a.tag \in {"none", "failed"},
         faults' \in 0 .. MaxFaults
  PROVE  IInv'
<1>1. Types /\ Own(r)
  BY DEF IInv
<1>2. Becomes(r, "over", 0, tx[r], work[r], seen[r], a) /\ UNCHANGED <<sql, asks, db, landed>>
  BY <1>1 DEF Becomes, Types, store
<1>3. ASSUME pc'[r] = "over" PROVE Own(r)'
  <2>1. answer'[r] = a
    BY <1>1 DEF Types
  <2>2. Stage(r)' /\ Told(r)'
    BY <1>1, <1>2, <1>3, <2>1 DEF Own, Stage, Told, Whole, ClaimOf, Calls, store
  <2>3. Untaken(r)' /\ Forward(r)' /\ Reached(r)'
    BY <1>1, <1>3 DEF Own, Untaken, Forward, Reached, store
  <2> QED
    BY <2>2, <2>3 DEF Own
<1>4. /\ "over" \in Calls \union {"sent", "replay", "over"} /\ 0 \in 0 .. Attempts - 1
      /\ tx[r] \in {"open", "sent", "landed", "dropped"} /\ work[r] \in SUBSET Items
      /\ seen[r] \in Contents \union {NoView}
  BY <1>1, BoundsAssumption DEF Types
<1> QED
  BY <1>2, <1>3, <1>4, OneMoves

(* The store applies a transaction: what it wrote was nobody else's to write. *)
LEMMA LandKeeps ==
  ASSUME IInv, NEW r \in Runs, Land(r), UNCHANGED <<sql, asks>>
  PROVE  IInv'
<1>1. Types /\ Exclusive /\ Own(r) /\ tx[r] = "sent"
  BY DEF IInv, Land
<1>2. /\ tx' = [tx EXCEPT ![r] = "landed"] /\ work' = [work EXCEPT ![r] = {}]
      /\ seen' = [seen EXCEPT ![r] = NoView] /\ landed' = landed \union {r}
      /\ UNCHANGED <<pc, tries, answer, faults>>
  BY DEF Land, client
<1>3. db \in Contents /\ asks[r].version \in Nat
  BY <1>1, AsksOf DEF Types
<1>4. DOMAIN db.taken = Claims /\ DOMAIN db.recorded = Events
  BY <1>3 DEF Contents
<1>5. /\ db'.taken = [k \in Claims |-> IF k \in work[r] THEN r ELSE db.taken[k]]
      /\ db'.recorded = [k \in Events |-> IF k \in work[r] THEN r ELSE db.recorded[k]]
      /\ db'.version = IF Row \in work[r] THEN asks[r].version ELSE db.version
  BY <1>4 DEF Land
<1>11. /\ (db'.version = asks[r].version /\ Row \in work[r]) \/ db'.version = db.version
       /\ ~sql => db.version <= db'.version
  <2>1. db.version \in Nat
    BY <1>3 DEF Contents
  <2>2. Row \in work[r] /\ ~sql => db.version < asks[r].version
    BY <1>1 DEF Own, Forward
  <2> QED
    BY <1>3, <1>5, <2>1, <2>2
<1>6. db' \in Contents
  <2>1. /\ db'.taken \in [Claims -> Runs \union {NoOne}]
        /\ db'.recorded \in [Events -> Runs \union {NoOne}] /\ db'.version \in Nat
    BY <1>3, <1>5 DEF Contents
  <2>2. db' = [taken |-> db'.taken, recorded |-> db'.recorded, version |-> db'.version]
    BY DEF Land
  <2> QED
    BY <2>1, <2>2 DEF Contents
<1>7. /\ tx'[r] = "landed" /\ work'[r] = {}
      /\ \A c \in Runs : c # r => tx'[c] = tx[c] /\ work'[c] = work[c] /\ seen'[c] = seen[c]
  BY <1>1, <1>2 DEF Types
<1>8. Types'
  <2>1. sql' \in BOOLEAN
    BY <1>1, Zenon DEF Types
  <2> QED
    BY <1>1, <1>2, <1>6, <2>1 DEF Types
<1>9. Exclusive'
  BY <1>1, <1>7 DEF Exclusive, Free
<1>10. ASSUME NEW c \in Runs PROVE Own(c)'
  <2>1. Own(c) /\ r # NoOne
    BY ScenariosAssumption DEF IInv
  <2>2. Found(c) => Found(c)'
    <3>1. asks[c].claim \in Claims \union {NoOne} /\ asks[c].event \in Events
      BY <1>1, AsksOf DEF Types
    <3> QED
      BY <1>5, <2>1, <3>1 DEF Found
  <2>3. CASE c = r
    <3>1. pc[r] \in {"sent", "over"}
      BY <1>1 DEF Own, Stage, Types
    <3>2. Stage(r)' /\ Told(r)'
      BY <1>1, <1>2, <1>7, <3>1 DEF Own, Stage, Told, Calls
    <3>3. Untaken(r)' /\ Forward(r)' /\ Reached(r)'
      BY <1>1, <1>2, <1>7, <3>1 DEF Types, Untaken, Forward, Reached
    <3> QED
      BY <2>3, <3>2, <3>3 DEF Own
  <2>4. CASE c # r
    <3>1. \A item \in work[c] : item \notin work[r]
      BY <1>1, <2>4 DEF Exclusive, Free
    <3>2. Stage(c)' /\ Told(c)'
      BY <1>2, <1>7, <2>1, <2>2, <2>4 DEF Own, Stage, Told, Whole, ClaimOf
    <3>3. Untaken(c)'
      BY <1>5, <1>7, <2>1, <2>4, <3>1 DEF Own, Untaken
    <3>4. Forward(c)'
      BY <1>2, <1>5, <1>7, <2>1, <2>4, <3>1 DEF Own, Forward
    <3>5. Reached(c)'
      <4>1. seen[c] # NoView => seen[c].version \in Nat
        BY <1>1 DEF Types, Contents
      <4>2. db.version \in Nat /\ db'.version \in Nat
        BY <1>3, <1>6 DEF Contents
      <4> QED
        BY <1>7, <1>11, <2>1, <2>4, <4>1, <4>2 DEF Own, Reached
    <3> QED
      BY <3>2, <3>3, <3>4, <3>5 DEF Own
  <2> QED
    BY <2>3, <2>4
<1> QED
  BY <1>8, <1>9, <1>10 DEF IInv

(* The other steps. *)
LEMMA RestKeeps ==
  ASSUME IInv, NEW r \in Runs, UNCHANGED <<sql, asks>>,
         \/ SendCommit(r) \/ Drop(r) \/ HearCommitted(r) \/ HearDropped(r) \/ ReadReplay(r)
         \/ BodyRefuses(r) \/ GiveUp(r) \/ Loses(r) \/ Fault(r) \/ Die(r)
  PROVE  IInv'
<1>1. Types /\ Own(r)
  BY DEF IInv
<1>2. faults' \in 0 .. MaxFaults
  <2>1. faults \in 0 .. MaxFaults /\ MaxFaults \in Nat
    BY <1>1, BoundsAssumption DEF Types
  <2>2. faults' = faults \/ (faults < MaxFaults /\ faults' = faults + 1)
    BY DEF SendCommit, Drop, HearCommitted, HearDropped, ReadReplay, BodyRefuses, GiveUp, Loses,
           Fault, Die
  <2> QED
    BY <2>1, <2>2
<1>3. \A tag \in {"none", "committed", "duplicate", "aborted", "failed"} :
        [tag |-> tag, replay |-> NoOne] \in Outcomes
  BY DEF Outcomes
<1>4. 0 \in 0 .. Attempts - 1
  BY BoundsAssumption
<1>5. CASE SendCommit(r)
  <2>1. pc[r] = "commit" /\ tx[r] = "open" /\ answer[r].tag = "none" /\ r \notin landed /\ Whole(r, work[r])
    BY <1>1, <1>5 DEF SendCommit, Own, Stage, Told, Calls
  <2>2. Becomes(r, "sent", tries[r], "sent", work[r], seen[r], answer[r])
    BY <1>1, <1>5 DEF SendCommit, Goto, Becomes, Types
  <2>3. UNCHANGED <<sql, asks, db, landed, work, seen, answer>>
    BY <1>5 DEF SendCommit
  <2>4. ASSUME pc'[r] = "sent", tx'[r] = "sent" PROVE Own(r)'
    <3>1. Stage(r)' /\ Told(r)'
      BY <2>1, <2>3, <2>4 DEF Stage, Told, Whole, ClaimOf, Calls
    <3>2. Untaken(r)' /\ Forward(r)' /\ Reached(r)'
      BY <1>1, <2>2, <2>3, <2>4 DEF Own, Untaken, Forward, Reached, Becomes, Types
    <3> QED
      BY <3>1, <3>2 DEF Own
  <2>5. /\ tries[r] \in 0 .. Attempts - 1 /\ work[r] \in SUBSET Items
        /\ seen[r] \in Contents \union {NoView} /\ answer[r] \in Outcomes
    BY <1>1 DEF Types
  <2> QED
    BY <1>2, <2>2, <2>3, <2>4, <2>5, OneMoves
<1>6. CASE Drop(r)
  <2>1. /\ pc[r] \in {"sent", "over"} /\ r \notin landed
        /\ pc[r] # "over" => answer[r].tag = "none"
    BY <1>1, <1>6 DEF Drop, Own, Stage, Told, Types
  <2>2. Becomes(r, pc[r], tries[r], "dropped", {}, NoView, answer[r])
    BY <1>1, <1>6 DEF Drop, client, Becomes, Types
  <2>3. UNCHANGED <<sql, asks, db, landed, pc, answer>>
    BY <1>6 DEF Drop, client
  <2>4. ASSUME tx'[r] = "dropped", work'[r] = {} PROVE Own(r)'
    <3>1. Stage(r)' /\ Told(r)'
      BY <2>1, <2>3, <2>4 DEF Stage, Told, Calls
    <3>2. Untaken(r)' /\ Forward(r)' /\ Reached(r)'
      BY <1>1, <2>1, <2>2, <2>3, <2>4 DEF Types, Untaken, Forward, Reached, Becomes
    <3> QED
      BY <3>1, <3>2 DEF Own
  <2>5. /\ pc[r] \in Calls \union {"sent", "replay", "over"} /\ tries[r] \in 0 .. Attempts - 1
        /\ {} \in SUBSET Items /\ NoView \in Contents \union {NoView} /\ answer[r] \in Outcomes
    BY <1>1 DEF Types
  <2> QED
    BY <1>2, <2>2, <2>3, <2>4, <2>5, OneMoves
<1>7. CASE HearCommitted(r)
  <2> DEFINE a == [tag |-> "committed", replay |-> NoOne]
  <2>1. a \in Outcomes
    BY <1>3
  <2>2. /\ tx[r] # "sent" /\ UNCHANGED store /\ pc' = [pc EXCEPT ![r] = "over"]
        /\ tries' = [tries EXCEPT ![r] = 0] /\ answer' = [answer EXCEPT ![r] = a]
    BY <1>7 DEF HearCommitted, Answers, Goto
  <2> HIDE DEF a
  <2> QED
    BY <1>2, <2>1, <2>2, EndsKeeps
<1>8. CASE HearDropped(r)
  <2>1. pc[r] # "over" /\ r \notin landed /\ Contends(r)
    BY <1>1, <1>8 DEF HearDropped, Own, Told
  <2> QED
    BY <1>2, <2>1, ContendsKeeps
<1>9. CASE ReadReplay(r)
  <2> DEFINE told == IF asks[r].claim \in Commands THEN db.taken[asks[r].claim] ELSE NoOne
             a == [tag |-> "duplicate", replay |-> told]
  <2>1. told \in Runs \union {NoOne}
    BY <1>1 DEF Types, Contents, Claims
  <2>2. tx[r] # "sent"
    BY <1>1, <1>9 DEF ReadReplay, Own, Stage
  <2> HIDE DEF told
  <2>3. a \in Outcomes
    BY <2>1 DEF Outcomes
  <2>4. /\ UNCHANGED store /\ pc' = [pc EXCEPT ![r] = "over"]
        /\ tries' = [tries EXCEPT ![r] = 0] /\ answer' = [answer EXCEPT ![r] = a]
    BY <1>9 DEF ReadReplay, Answers, Goto, told
  <2> HIDE DEF a
  <2> QED
    BY <1>2, <2>2, <2>3, <2>4, EndsKeeps
<1>10. ASSUME NEW tag \in {"aborted", "failed"}, RollsBack(r), Answers(r, tag, NoOne), pc[r] \in Calls
       PROVE  IInv'
  <2> DEFINE a == [tag |-> tag, replay |-> NoOne]
  <2>1. r \notin landed /\ a \in Outcomes
    BY <1>1, <1>3, <1>10 DEF Own, Stage, Told, Calls
  <2>2. /\ pc' = [pc EXCEPT ![r] = "over"] /\ tries' = [tries EXCEPT ![r] = 0]
        /\ answer' = [answer EXCEPT ![r] = a]
    BY <1>10 DEF Answers, Goto
  <2> HIDE DEF a
  <2> QED
    BY <1>2, <1>4, <1>10, <2>1, <2>2, RollsBackKeeps
<1>11. CASE BodyRefuses(r)
  BY <1>10, <1>11 DEF BodyRefuses, Calls
<1>12. CASE Loses(r)
  <2>1. pc[r] # "over" /\ r \notin landed /\ Contends(r)
    BY <1>1, <1>12 DEF Loses, Own, Stage, Told, Calls
  <2> QED
    BY <1>2, <2>1, ContendsKeeps
<1>13. ASSUME UNCHANGED store, Answers(r, "failed", NoOne) PROVE IInv'
  <2> DEFINE a == [tag |-> "failed", replay |-> NoOne]
  <2>1. a \in Outcomes /\ a.tag = "failed"
    BY <1>3
  <2>2. /\ pc' = [pc EXCEPT ![r] = "over"]
        /\ tries' = [tries EXCEPT ![r] = 0] /\ answer' = [answer EXCEPT ![r] = a]
    BY <1>13 DEF Answers, Goto
  <2> HIDE DEF a
  <2> QED
    BY <1>2, <1>13, <2>1, <2>2, EndsKeeps
<1>14. CASE GiveUp(r) \/ Fault(r)
  BY <1>10, <1>13, <1>14 DEF GiveUp, Fault
<1>15. CASE Die(r)
  <2>1. /\ UNCHANGED store /\ pc' = [pc EXCEPT ![r] = "over"]
        /\ tries' = [tries EXCEPT ![r] = 0] /\ answer' = [answer EXCEPT ![r] = answer[r]]
        /\ answer[r] \in Outcomes
    BY <1>1, <1>15 DEF Die, Goto, Types
  <2>2. tx[r] = "sent" => answer[r].tag \in {"none", "failed"}
    BY <1>1 DEF Own, Told
  <2> QED
    BY <1>2, <2>1, <2>2, EndsKeeps
<1> QED
  BY <1>5, <1>6, <1>7, <1>8, <1>9, <1>11, <1>12, <1>14, <1>15

(* The invariant holds at the start, and every step keeps it. *)
LEMMA Inductive == (Init => IInv) /\ (IInv /\ [Next]_vars => IInv')
<1>1. Init => IInv
  <2> SUFFICES ASSUME Init PROVE IInv
    OBVIOUS
  <2>1. Types
    <3>1. sql \in BOOLEAN
      BY Zenon DEF Init
    <3>2. db \in Contents
      BY DEF Init, Contents
    <3>3. pc \in [Runs -> Calls \union {"sent", "replay", "over"}]
      BY DEF Init, First, Calls
    <3>4. answer \in [Runs -> Outcomes]
      BY DEF Init, Outcomes
    <3>5. 0 \in 0 .. Attempts - 1 /\ 0 \in 0 .. MaxFaults
      BY BoundsAssumption
    <3> QED
      BY <3>1, <3>2, <3>3, <3>4, <3>5 DEF Init, Types
  <2>2. Exclusive
    BY DEF Init, Exclusive
  <2>3. ASSUME NEW r \in Runs PROVE Own(r)
    <3>1. /\ pc[r] = First(r) /\ tx[r] = "open" /\ work[r] = {} /\ answer[r].tag = "none"
          /\ landed = {}
      BY DEF Init
    <3> QED
      BY <3>1 DEF Init, Own, Stage, Told, Untaken, Forward, Reached, First, ClaimOf, Calls
  <2> QED
    BY <2>1, <2>2, <2>3 DEF IInv
<1>2. ASSUME IInv, UNCHANGED vars PROVE IInv'
  <2> USE DEF IInv, vars, client, store
  <2>1. Types'
    <3>1. sql' \in BOOLEAN
      BY <1>2, Zenon DEF Types
    <3> QED
      BY <1>2, <3>1 DEF Types
  <2>2. Exclusive'
    BY <1>2 DEF Exclusive, Free
  <2>3. ASSUME NEW r \in Runs PROVE Own(r)'
    BY <1>2 DEF Own, Stage, Told, Untaken, Forward, Reached, Whole, ClaimOf, Found
  <2> QED
    BY <2>1, <2>2, <2>3
<1>3. ASSUME IInv, Next PROVE IInv'
  <2>1. ASSUME NEW r \in Runs, Step(r) PROVE IInv'
    BY <1>3, <2>1, CallKeeps, RestKeeps DEF Step
  <2>2. ASSUME NEW r \in Runs, Settle(r) PROVE IInv'
    BY <1>3, <2>2, LandKeeps, RestKeeps DEF Settle
  <2>3. ASSUME NEW r \in Runs, Trouble(r) PROVE IInv'
    BY <1>3, <2>3, RestKeeps DEF Trouble
  <2> QED
    BY <1>2, <1>3, <2>1, <2>2, <2>3 DEF Next, Done
<1> QED
  BY <1>1, <1>2, <1>3

(* It holds in every reachable state. *)
LEMMA Invariant == Spec => []IInv
  BY Inductive, PTL DEF Spec

-----------------------------------------------------------------------------
(* The theorems *)

(* Every variable keeps to its type; an item is written by one open          *)
(* transaction, and a run waits for the outcome of one it has sent.          *)
THEOREM TypeCorrect == Spec => []TypeOK
<1>1. IInv => TypeOK
  <2> SUFFICES ASSUME IInv PROVE TypeOK
    OBVIOUS
  <2>1. ASSUME NEW r \in Runs
        PROVE  /\ work[r] \subseteq {Row} \union Claims \union Events
               /\ \A item \in work[r] : Free(r, item) /\ tx[r] \in {"open", "sent"}
               /\ pc[r] = "sent" => tx[r] \in {"sent", "landed", "dropped"}
    BY DEF IInv, Types, Exclusive, Own, Stage, Items
  <2> QED
    BY <2>1 DEF IInv, Types, TypeOK
<1> QED
  BY <1>1, Invariant, PTL

(* The other runs found what they had found.                                 *)
OthersStay(r) == \A c \in Runs \ {r} : pc'[c] = pc[c] /\ tx'[c] = tx[c] /\ work'[c] = work[c]

LEMMA EachMovesAlone ==
  ASSUME Types, NEW r \in Runs,
         \/ TakeClaim(r) \/ BodyReads(r) \/ BodyWrites(r) \/ Record(r) \/ SendCommit(r)
         \/ HearCommitted(r) \/ HearDropped(r) \/ ReadReplay(r) \/ Land(r) \/ Drop(r)
         \/ BodyRefuses(r) \/ GiveUp(r) \/ Loses(r) \/ Fault(r) \/ Die(r)
  PROVE  OthersStay(r)
<1>1. Contends(r) \/ IsDuplicate(r) \/ RollsBack(r) =>
        \A c \in Runs \ {r} : tx'[c] = tx[c] /\ work'[c] = work[c]
  BY DEF Types, Contends, IsDuplicate, RollsBack
<1>2. \A tag, replay : Answers(r, tag, replay) => \A c \in Runs \ {r} : pc'[c] = pc[c]
  BY DEF Types, Answers, Goto
<1>3. Contends(r) \/ IsDuplicate(r) => \A c \in Runs \ {r} : pc'[c] = pc[c]
  BY <1>2 DEF Types, Contends, IsDuplicate, Reruns, Goto
<1>4. \A next : GoesOn(r, next) => \A c \in Runs \ {r} : pc'[c] = pc[c] /\ tx'[c] = tx[c]
  BY DEF Types, GoesOn, Goto
<1>5. \A item : Holds(r, item) => \A c \in Runs \ {r} : work'[c] = work[c]
  BY DEF Types, Holds
<1>6. CASE TakeClaim(r) \/ BodyReads(r) \/ BodyWrites(r) \/ Record(r)
  BY <1>1, <1>3, <1>4, <1>5, <1>6 DEF OthersStay, TakeClaim, BodyReads, BodyWrites, Record
<1>7. CASE SendCommit(r) \/ Land(r) \/ Drop(r)
  BY <1>7 DEF OthersStay, SendCommit, Land, Drop, Goto, client, Types
<1>8. CASE HearCommitted(r) \/ ReadReplay(r) \/ GiveUp(r) \/ Die(r)
  BY <1>2, <1>8 DEF OthersStay, HearCommitted, ReadReplay, GiveUp, Die, Goto, store, Types
<1>9. CASE HearDropped(r) \/ Loses(r) \/ BodyRefuses(r) \/ Fault(r)
  BY <1>1, <1>2, <1>3, <1>9 DEF OthersStay, HearDropped, Loses, BodyRefuses, Fault, store
<1> QED
  BY <1>6, <1>7, <1>8, <1>9

(* What a step of r makes of the runs that found their event stale. *)
LEMMA StaleMoves ==
  ASSUME NEW r \in Runs, OthersStay(r)
  PROVE  /\ r \in StaleRuns' => StaleRuns' = StaleRuns \union {r}
         /\ r \notin StaleRuns' => StaleRuns' = StaleRuns \ {r}
<1>1. \A c \in Runs \ {r} : c \in StaleRuns' <=> c \in StaleRuns
  BY DEF OthersStay, StaleRuns
<1>2. StaleRuns \subseteq Runs /\ StaleRuns' \subseteq Runs
  BY DEF StaleRuns
<1> QED
  BY <1>1, <1>2

(* A step that lands and tells nothing finds at most a stale event. *)
LEMMA Quietly ==
  ASSUME NEW r \in Runs, OthersStay(r), UNCHANGED <<asks, landed, db, answer>>,
         r \in StaleRuns' => asks[r].version <= db.version
  PROVE  Promise!Next
<1>1. CASE r \notin StaleRuns'
  <2>1. Promise!Forgets(r)
    BY <1>1, StaleMoves DEF Promise!Forgets, Promise!durable
  <2> QED
    BY <2>1 DEF Promise!Next
<1>2. CASE r \in StaleRuns' /\ asks[r].version <= db.version
  <2>1. Promise!FindsStale(r)
    BY <1>2, StaleMoves DEF Promise!FindsStale, Promise!durable
  <2> QED
    BY <2>1 DEF Promise!Next
<1> QED
  BY <1>1, <1>2

(* Nor does one that finds nothing. *)
LEMMA Silently ==
  ASSUME NEW r \in Runs, OthersStay(r), UNCHANGED <<asks, landed, db, answer>>,
         r \in StaleRuns' => r \in StaleRuns
  PROVE  Promise!Next \/ UNCHANGED Promise!vars
<1>1. CASE r \in StaleRuns'
  <2>1. StaleRuns' = StaleRuns
    BY <1>1, StaleMoves
  <2> QED
    BY <2>1 DEF Promise!vars, Promise!durable
<1>2. CASE r \notin StaleRuns'
  BY <1>2, Quietly
<1> QED
  BY <1>1, <1>2

(* A run is told how it ended, and its attempt is over. *)
LEMMA IsTold ==
  ASSUME IInv, NEW r \in Runs, pc[r] # "over", OthersStay(r), NEW tag, NEW replay,
         Answers(r, tag, replay), UNCHANGED <<asks, landed, db>>,
         RollsBack(r) \/ UNCHANGED store
  PROVE  Promise!Ends(r, tag, replay)
<1>1. answer[r].tag = "none"
  BY DEF IInv, Own, Told
<1>2. pc'[r] = "over"
  BY DEF IInv, Types, Answers, Goto
<1>3. r \in StaleRuns' => tx'[r] = "sent" /\ Row \notin work'[r]
  BY <1>2 DEF StaleRuns
<1>4. RollsBack(r) => tx'[r] = "open"
  BY DEF IInv, Types, RollsBack
<1>5. r \in StaleRuns' => r \in StaleRuns
  BY <1>3, <1>4 DEF StaleRuns, store
<1>6. StaleRuns' \in {StaleRuns, StaleRuns \ {r}}
  BY <1>5, StaleMoves
<1> QED
  BY <1>1, <1>6 DEF Promise!Ends, Promise!durable, Answers

(* A step that ends r as failed, as the promise has it. *)
LEMMA Fails ==
  ASSUME IInv, NEW r \in Runs, pc[r] # "over", OthersStay(r), Answers(r, "failed", NoOne),
         UNCHANGED <<asks, landed, db>>, RollsBack(r) \/ UNCHANGED store
  PROVE  Promise!Next
<1>1. Promise!Failed(r)
  BY IsTold DEF Promise!Failed
<1> QED
  BY <1>1 DEF Promise!Next

(* Contention changes nothing a caller can tell, or fails the unit. *)
LEMMA ContendsIsPromised ==
  ASSUME IInv, NEW r \in Runs, pc[r] # "over", OthersStay(r), Contends(r), UNCHANGED asks
  PROVE  Promise!Next \/ UNCHANGED Promise!vars
<1>1. UNCHANGED <<asks, landed, db>> /\ RollsBack(r)
  BY DEF Contends, RollsBack
<1>2. CASE UNCHANGED answer /\ pc' = [pc EXCEPT ![r] = First(r)]
  <2>1. pc'[r] # "commit" /\ tx'[r] = "open"
    BY <1>1, <1>2 DEF IInv, Types, RollsBack, First
  <2>2. r \notin StaleRuns'
    BY <2>1 DEF StaleRuns
  <2> QED
    BY <1>1, <1>2, <2>2, Silently
<1>3. CASE Answers(r, "failed", NoOne)
  BY <1>1, <1>3, Fails
<1> QED
  BY <1>2, <1>3 DEF Contends, Reruns, Goto

(* The work of a run, its claim, its aggregate's row and its event, is       *)
(* durable together or not at all, once for its claim and once for its event;*)
(* only an event found stale leaves its claim alone; and how the run is said *)
(* to have ended is how it did: a unit of work over either store implements  *)
(* UnitPromise.                                                              *)
THEOREM ImplementsThePromise == Spec => KeepsThePromise
<1>1. Init => Promise!Init
  <2>1. Init => StaleRuns = {}
    BY DEF Init, StaleRuns, First
  <2> QED
    BY <2>1 DEF Init, Promise!Init
<1>2. ASSUME IInv, [Next]_vars PROVE [Promise!Next]_(Promise!vars)
  <2> SUFFICES Promise!Next \/ UNCHANGED Promise!vars
    OBVIOUS
  <2>1. ASSUME NEW r \in Runs PROVE Types /\ Own(r)
    BY <1>2 DEF IInv
  <2>2. ASSUME NEW r \in Runs, UNCHANGED asks,
               TakeClaim(r) \/ BodyReads(r) \/ BodyWrites(r) \/ Record(r)
        PROVE  Promise!Next \/ UNCHANGED Promise!vars
    <3>1. pc[r] # "over" /\ OthersStay(r) /\ Types /\ Own(r)
      BY <2>1, <2>2, EachMovesAlone DEF TakeClaim, BodyReads, BodyWrites, Record
    <3>2. Contends(r) => Promise!Next \/ UNCHANGED Promise!vars
      BY <1>2, <2>2, <3>1, ContendsIsPromised
    <3>3. CASE IsDuplicate(r)
      <4>1. pc'[r] = "replay" /\ tx'[r] = "open" /\ UNCHANGED <<landed, db, answer>>
        BY <3>1, <3>3 DEF IsDuplicate, RollsBack, Goto, Types
      <4>2. r \notin StaleRuns'
        BY <4>1 DEF StaleRuns
      <4> QED
        BY <2>2, <3>1, <4>1, <4>2, Silently
    <3>4. ASSUME NEW p \in Calls, GoesOn(r, p), pc[r] \in Calls,
                 p = "commit" => Row \in work'[r] \/ asks[r].version <= db.version
          PROVE  Promise!Next
      <4>1. pc'[r] = p /\ tx'[r] = "open" /\ UNCHANGED <<landed, db, answer>>
        BY <3>1, <3>4 DEF GoesOn, Goto, Types, Own, Stage
      <4>2. r \in StaleRuns' => asks[r].version <= db.version
        BY <3>4, <4>1 DEF StaleRuns
      <4> QED
        BY <2>2, <3>1, <4>1, <4>2, Quietly
    <3>5. CASE TakeClaim(r)
      BY <3>2, <3>3, <3>4, <3>5 DEF TakeClaim, Calls
    <3>6. CASE BodyWrites(r)
      BY <3>2, <3>4, <3>6 DEF BodyWrites, Calls
    <3>7. CASE Record(r)
      <4>1. Row \in work[r] /\ \A item : Holds(r, item) => Row \in work'[r]
        BY <3>1, <3>7 DEF Record, Own, Stage, Holds, Types
      <4> QED
        BY <3>2, <3>3, <3>4, <3>7, <4>1 DEF Record, Calls
    <3>8. CASE BodyReads(r)
      <4>1. View(r).version <= db.version /\ View(r).version \in Nat
            /\ db.version \in Nat /\ asks[r].version \in Nat
        BY <3>1, ViewOf, AsksOf DEF Own, Types, Contents
      <4>2. GoesOn(r, "write") \/ (GoesOn(r, "commit") /\ asks[r].version <= View(r).version)
        BY <3>8 DEF BodyReads, IsStale
      <4>3. pc[r] \in Calls /\ {"write", "commit"} \subseteq Calls
        BY <3>8 DEF BodyReads, Calls
      <4> QED
        BY <3>4, <4>1, <4>2, <4>3
    <3> QED
      BY <2>2, <3>5, <3>6, <3>7, <3>8
  <2>3. ASSUME NEW r \in Runs, UNCHANGED asks, SendCommit(r) \/ Drop(r) \/ Die(r)
        PROVE  Promise!Next \/ UNCHANGED Promise!vars
    <3>1. OthersStay(r) /\ Types
      BY <2>1, <2>3, EachMovesAlone
    <3>2. UNCHANGED <<asks, landed, db, answer>>
      BY <2>3 DEF SendCommit, Drop, Die, client, store
    <3>3. r \in StaleRuns' => r \in StaleRuns
      <4>1. CASE SendCommit(r)
        BY <3>1, <4>1 DEF SendCommit, StaleRuns
      <4>2. CASE Drop(r)
        <5>1. tx'[r] = "dropped" /\ pc' = pc
          BY <3>1, <4>2 DEF Drop, client, Types
        <5>2. pc[r] # "commit"
          BY <2>1, <4>2 DEF Drop, Own, Stage, Calls
        <5> QED
          BY <5>1, <5>2 DEF StaleRuns
      <4>3. CASE Die(r)
        <5>1. pc'[r] = "over" /\ UNCHANGED <<tx, work>>
          BY <3>1, <4>3 DEF Die, Goto, store, Types
        <5> QED
          BY <5>1 DEF StaleRuns
      <4> QED
        BY <2>3, <4>1, <4>2, <4>3
    <3> QED
      BY <3>1, <3>2, <3>3, Silently
  <2>4. ASSUME NEW r \in Runs, UNCHANGED asks, HearDropped(r) \/ Loses(r)
        PROVE  Promise!Next \/ UNCHANGED Promise!vars
    <3>1. OthersStay(r)
      BY <2>1, <2>4, EachMovesAlone
    <3> QED
      BY <1>2, <2>4, <3>1, ContendsIsPromised DEF HearDropped, Loses, Calls
  <2>5. ASSUME NEW r \in Runs, UNCHANGED asks, GiveUp(r) \/ Fault(r)
        PROVE  Promise!Next
    <3>1. OthersStay(r)
      BY <2>1, <2>5, EachMovesAlone
    <3>2. pc[r] # "over" /\ Answers(r, "failed", NoOne) /\ (RollsBack(r) \/ UNCHANGED store)
      BY <2>5 DEF GiveUp, Fault, Calls
    <3>3. UNCHANGED <<landed, db>>
      BY <3>2 DEF RollsBack, store
    <3> QED
      BY <1>2, <2>5, <3>1, <3>2, <3>3, Fails
  <2>6. ASSUME NEW r \in Runs, UNCHANGED asks, HearCommitted(r) PROVE Promise!Next
    <3>1. r \in landed /\ pc[r] # "over" /\ OthersStay(r)
      BY <2>1, <2>6, EachMovesAlone DEF HearCommitted, Own, Told
    <3>2. Promise!Ends(r, "committed", NoOne)
      BY <1>2, <2>6, <3>1, IsTold DEF HearCommitted, store
    <3>3. Promise!Committed(r)
      BY <3>1, <3>2 DEF Promise!Committed
    <3> QED
      BY <3>3 DEF Promise!Next
  <2>7. ASSUME NEW r \in Runs, UNCHANGED asks, BodyRefuses(r) PROVE Promise!Next
    <3>1. r \notin landed /\ pc[r] # "over" /\ OthersStay(r)
      BY <2>1, <2>7, EachMovesAlone DEF BodyRefuses, Own, Stage, Told, Calls
    <3>2. Promise!Ends(r, "aborted", NoOne)
      BY <1>2, <2>7, <3>1, IsTold DEF BodyRefuses, RollsBack
    <3>3. Promise!Aborted(r)
      BY <3>1, <3>2 DEF Promise!Aborted
    <3> QED
      BY <3>3 DEF Promise!Next
  <2>8. ASSUME NEW r \in Runs, UNCHANGED asks, ReadReplay(r) PROVE Promise!Next
    <3>1. r \notin landed /\ pc[r] # "over" /\ Found(r) /\ OthersStay(r)
      BY <2>1, <2>8, EachMovesAlone DEF ReadReplay, Own, Stage, Told
    <3>2. Promise!Ends(r, "duplicate",
                       IF asks[r].claim \in Commands THEN db.taken[asks[r].claim] ELSE NoOne)
      BY <1>2, <2>8, <3>1, IsTold DEF ReadReplay, store
    <3>3. Promise!Duplicate(r)
      BY <3>1, <3>2 DEF Found, Promise!Duplicate, Promise!AlreadyDone, Promise!Remembered
    <3> QED
      BY <3>3 DEF Promise!Next
  <2>9. ASSUME NEW r \in Runs, UNCHANGED asks, Land(r) PROVE Promise!Next
    <3> DEFINE c == asks[r].claim
               e == asks[r].event
    <3>1. /\ r \notin landed /\ answer[r].tag \in {"none", "failed"}
          /\ Whole(r, work[r]) /\ Untaken(r) /\ db \in Contents
      BY <1>2, <2>9 DEF Land, IInv, Own, Stage, Told, Types
    <3>2. /\ c \in Claims \union {NoOne} /\ e \in Events /\ e \notin Claims /\ NoOne \notin Claims
          /\ Row \notin Claims /\ Row \notin Events /\ c \notin Events
      <4>1. asks \in Scenarios
        BY <1>2 DEF IInv, Types
      <4> QED
        BY <4>1, AsksOf, ScenariosAssumption
    <3>3. DOMAIN db.taken = Claims /\ DOMAIN db.recorded = Events
      BY <3>1 DEF Contents
    <3>4. /\ db'.taken = [k \in Claims |-> IF k \in work[r] THEN r ELSE db.taken[k]]
          /\ db'.recorded = [k \in Events |-> IF k \in work[r] THEN r ELSE db.recorded[k]]
          /\ db'.version = IF Row \in work[r] THEN asks[r].version ELSE db.version
          /\ landed' = landed \union {r} /\ UNCHANGED answer
      BY <2>9, <3>3 DEF Land, client
    <3>5. /\ db.taken = [k \in Claims |-> db.taken[k]]
          /\ db.recorded = [k \in Events |-> db.recorded[k]]
      BY <3>1 DEF Contents
    <3>6. \A k \in Claims : k \in work[r] <=> k = c
      BY <3>1, <3>2 DEF Whole, ClaimOf
    <3> HIDE DEF c, e
    <3>7. IF c = NoOne THEN UNCHANGED db.taken
                      ELSE db.taken[c] = NoOne /\ db'.taken = [db.taken EXCEPT ![c] = r]
      <4>1. CASE c = NoOne
        BY <3>2, <3>4, <3>5, <3>6, <4>1
      <4>2. CASE c # NoOne
        <5>1. c \in Claims /\ c \in work[r]
          BY <3>2, <3>6, <4>2
        <5>2. db.taken[c] = NoOne
          BY <3>1, <5>1 DEF Untaken
        <5>3. db'.taken = [db.taken EXCEPT ![c] = r]
          BY <3>3, <3>4, <3>5, <3>6, <5>1
        <5> QED
          BY <4>2, <5>2, <5>3
      <4> QED
        BY <4>1, <4>2
    <3>8. IF r \in StaleRuns THEN UNCHANGED <<db.recorded, db.version>>
          ELSE /\ db.recorded[e] = NoOne /\ db'.recorded = [db.recorded EXCEPT ![e] = r]
               /\ db'.version = asks[r].version
      <4>1. r \in StaleRuns <=> Row \notin work[r]
        BY <2>9 DEF Land, StaleRuns
      <4>2. CASE work[r] = ClaimOf(r)
        <5>1. \A k \in Events : k \notin work[r]
          BY <3>2, <4>2, ScenariosAssumption DEF ClaimOf, c
        <5>2. Row \notin work[r]
          BY <3>2, <4>2, ScenariosAssumption DEF ClaimOf, c
        <5> QED
          BY <3>4, <3>5, <4>1, <5>1, <5>2
      <4>3. CASE work[r] = ClaimOf(r) \union {Row, e}
        <5>1. \A k \in Events : k \in work[r] <=> k = e
          BY <3>2, <4>3, ScenariosAssumption DEF ClaimOf, c
        <5>2. db.recorded[e] = NoOne
          BY <3>1, <3>2, <5>1 DEF Untaken
        <5>3. db'.recorded = [db.recorded EXCEPT ![e] = r]
          BY <3>2, <3>3, <3>4, <3>5, <5>1
        <5> QED
          BY <3>4, <4>1, <4>3, <5>2, <5>3
      <4> QED
        BY <3>1, <4>2, <4>3 DEF Whole, e
    <3>9. StaleRuns' = StaleRuns \ {r}
      <4>1. OthersStay(r)
        BY <2>1, <2>9, EachMovesAlone
      <4>2. tx'[r] = "landed" /\ pc'[r] # "commit"
        BY <2>1, <2>9 DEF Land, client, Own, Stage, Calls, Types
      <4>3. r \notin StaleRuns'
        BY <4>2 DEF StaleRuns
      <4> QED
        BY <4>1, <4>3, StaleMoves
    <3>10. Promise!Land(r)
      BY <2>9, <3>1, <3>4, <3>7, <3>8, <3>9 DEF Promise!Land, c, e
    <3> QED
      BY <3>10 DEF Promise!Next
  <2>10. CASE UNCHANGED vars
    <3>1. StaleRuns' = StaleRuns
      BY <2>10 DEF vars, client, store, StaleRuns
    <3> QED
      BY <2>10, <3>1 DEF vars, client, store, Promise!vars, Promise!durable
  <2> QED
    BY <1>2, <2>2, <2>3, <2>4, <2>5, <2>6, <2>7, <2>8, <2>9, <2>10
       DEF Next, Step, Settle, Trouble, Done
<1> QED
  BY <1>1, <1>2, Invariant, PTL DEF Spec, KeepsThePromise, Promise!Spec

(* A late event never overwrites a later version over Mongo, however its     *)
(* delivery overlaps others; over SQL it does only when the run had read the *)
(* version before the later one was committed.                               *)
THEOREM AppliesForward == Spec => AppliedForward
<1> DEFINE NoneBack == \A r \in Runs :
      tx[r] = "sent" /\ tx'[r] = "landed" /\ db'.version < db.version
        => sql /\ seen[r].version < db.version
<1>1. ASSUME IInv, [Next]_vars PROVE NoneBack \/ UNCHANGED vars
  <2> SUFFICES ASSUME NEW r \in Runs, tx[r] = "sent", tx'[r] = "landed", db'.version < db.version
               PROVE  sql /\ seen[r].version < db.version
    OBVIOUS
  <2>1. PICK c \in Runs : Land(c)
    <3>1. UNCHANGED db \/ \E c \in Runs : Land(c)
      BY <1>1 DEF Next, Step, Settle, Trouble, Done, vars, TakeClaim, BodyReads, BodyWrites, Record,
         SendCommit, HearCommitted, HearDropped, ReadReplay, Drop, BodyRefuses, GiveUp, Loses,
         Fault, Die, Contends, IsDuplicate, RollsBack, GoesOn, store
    <3>2. db.version \in Nat
      BY <1>1 DEF IInv, Types, Contents
    <3> QED
      BY <3>1, <3>2
  <2>2. c = r
    BY <1>1, <2>1 DEF Land, IInv, Types
  <2>3. Row \in work[r] /\ db'.version = asks[r].version
    <3>1. db'.version = IF Row \in work[r] THEN asks[r].version ELSE db.version
      BY <2>1, <2>2 DEF Land
    <3>2. db.version \in Nat
      BY <1>1 DEF IInv, Types, Contents
    <3> QED
      BY <3>1, <3>2
  <2>4. /\ seen[r] # NoView /\ seen[r].version < asks[r].version
        /\ ~sql => seen[r].version = db.version
    BY <1>1, <2>3 DEF IInv, Own, Forward
  <2>5. /\ seen[r].version \in Nat /\ db.version \in Nat /\ asks[r].version \in Nat
        /\ sql \in BOOLEAN
    BY <1>1, <2>4, AsksOf DEF IInv, Types, Contents
  <2>6. seen[r].version < db.version
    BY <2>3, <2>4, <2>5
  <2>7. seen[r].version # db.version
    BY <2>5, <2>6
  <2> QED
    BY <2>4, <2>6, <2>7
<1> QED
  BY <1>1, Invariant, PTL DEF Spec, AppliedForward
=============================================================================
