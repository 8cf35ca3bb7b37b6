------------------------- MODULE EventDeliveryProofs -------------------------
(***************************************************************************)
(* Proofs about EventDelivery, for any messages, any number of replicas    *)
(* and any ceiling: no message is dropped, and none is quarantined that    *)
(* did not earn it.                                                        *)
(***************************************************************************)
EXTENDS EventDelivery, SequenceTheorems, TLAPS

(* What a queue holds after a copy is put at its end. *)
LEMMA RangeOfAppend ==
  ASSUME NEW S, NEW s \in Seq(S), NEW e \in S
  PROVE  Append(s, e) \in Seq(S) /\ Range(Append(s, e)) = Range(s) \union {e}
<1>1. /\ Append(s, e) \in Seq(S) /\ Len(Append(s, e)) = Len(s) + 1
      /\ \A i \in 1 .. Len(s) : Append(s, e)[i] = s[i]
      /\ Append(s, e)[Len(s) + 1] = e
  OBVIOUS
<1>2. DOMAIN s = 1 .. Len(s) /\ DOMAIN Append(s, e) = 1 .. Len(s) + 1 /\ Len(s) \in Nat
  BY <1>1
<1> QED
  BY <1>1, <1>2 DEF Range

(* Put back at its front. *)
LEMMA RangeOfFront ==
  ASSUME NEW S, NEW s \in Seq(S), NEW e \in S
  PROVE  <<e>> \o s \in Seq(S) /\ Range(<<e>> \o s) = Range(s) \union {e}
<1> DEFINE t == <<e>> \o s
<1>1. /\ t \in Seq(S) /\ Len(t) = Len(s) + 1 /\ Len(s) \in Nat
      /\ t[1] = e
      /\ \A i \in 1 .. Len(s) : t[i + 1] = s[i]
  OBVIOUS
<1>2. DOMAIN s = 1 .. Len(s) /\ DOMAIN t = 1 .. Len(s) + 1
  BY <1>1
<1> HIDE DEF t
<1>3. \A j \in 1 .. Len(s) + 1 : j = 1 \/ (j - 1 \in 1 .. Len(s) /\ t[j] = s[j - 1])
  BY <1>1
<1>4. Range(t) = Range(s) \union {e}
  BY <1>1, <1>2, <1>3 DEF Range
<1> QED
  BY <1>1, <1>4 DEF t

(* Taken from its front. *)
LEMMA RangeOfTail ==
  ASSUME NEW S, NEW s \in Seq(S), s # <<>>
  PROVE  Tail(s) \in Seq(S) /\ Head(s) \in S /\ Range(s) = Range(Tail(s)) \union {Head(s)}
<1> DEFINE t == Tail(s)
           n == Len(s)
<1>1. /\ t \in Seq(S) /\ n \in Nat \ {0} /\ Len(t) = n - 1
      /\ Head(s) = s[1] /\ Head(s) \in S
      /\ \A i \in 1 .. n - 1 : t[i] = s[i + 1]
  BY EmptySeq, HeadTailProperties
<1>2. DOMAIN s = 1 .. n /\ DOMAIN t = 1 .. n - 1
  BY <1>1
<1> HIDE DEF t, n
<1>3. \A j \in 1 .. n : j = 1 \/ (j - 1 \in 1 .. n - 1 /\ s[j] = t[j - 1])
  BY <1>1
<1>4. \A i \in 1 .. n - 1 : i + 1 \in 1 .. n
  BY <1>1
<1>5. ASSUME NEW x \in Range(s) PROVE x \in Range(t) \union {Head(s)}
  <2>1. PICK j \in 1 .. n : x = s[j]
    BY <1>2 DEF Range
  <2>2. CASE j = 1
    BY <1>1, <2>1, <2>2
  <2>3. CASE j - 1 \in 1 .. n - 1 /\ s[j] = t[j - 1]
    BY <1>2, <2>1, <2>3 DEF Range
  <2> QED
    BY <1>3, <2>2, <2>3
<1>6. Range(t) \subseteq Range(s) /\ Head(s) \in Range(s)
  BY <1>1, <1>2, <1>4 DEF Range
<1> QED
  BY <1>1, <1>5, <1>6 DEF t

-----------------------------------------------------------------------------
(* The inductive invariant *)

Reasons == {"poison", "attempts", "rejected", "returned"}

Types ==
  /\ queue \in Seq(Copies)
  /\ quarantine \subseteq [copy : Copies, reason : Reasons]
  /\ held \in [Replicas -> Copies \union {NoCopy}]
  /\ step \in [Replicas -> {"idle", "handling", "backoff", "settled"}]
  /\ wire = [r \in Replicas |-> wire[r]]
  /\ orphans \in [Replicas -> SUBSET Copies]
  /\ sent \in [Messages -> Nat] /\ failed \in [Messages -> Nat]
  /\ deaths \in [Messages -> Nat]

(* A copy that may still be handled: it carries no attempt that was not made, *)
(* fewer than the ceiling, and no return that no channel's end caused.        *)
Fit(c) ==
  /\ c.attempts < maxAttempts /\ c.attempts <= failed[c.of]
  /\ c.returns <= deaths[c.of]

(* A copy with the ground for its quarantine. *)
Earned(c, reason) ==
  /\ reason = "poison" => c.of \in poisoned
  /\ reason = "attempts" => c.attempts = maxAttempts /\ failed[c.of] >= maxAttempts
  /\ reason = "rejected" => c.of \in poisoned \/ failed[c.of] >= maxAttempts
  /\ reason = "returned" => c.returns > maxAttempts /\ c.returns <= deaths[c.of]

(* A replica at work has a copy, whose next attempt is recorded while it     *)
(* backs off; a settlement puts the copy somewhere before it is acked, or    *)
(* gives the copy itself back, or to the quarantine, when that is refused.   *)
Working(r) ==
  /\ step[r] = "idle" <=> held[r] = NoCopy
  /\ step[r] # "idle" => held[r] \in Copies /\ Fit(held[r])
  /\ step[r] = "backoff" => Fit(Counted(held[r]))
  /\ step[r] # "settled" => wire[r] = <<>>
  /\ step[r] = "settled" =>
       \/ wire[r] = <<Ack(held[r])>> \/ wire[r] = <<Requeue(held[r])>>
       \/ wire[r] = <<Reject(held[r])>> /\ Earned(held[r], "rejected")
       \/ \E c \in Copies : /\ c.of = held[r].of /\ Fit(c)
                            /\ wire[r] = <<ToQueue(c), Ack(held[r])>>
       \/ \E c \in Copies, reason \in Reasons :
            /\ c.of = held[r].of /\ Earned(c, reason)
            /\ wire[r] = <<ToQuarantine(c, reason), Ack(held[r])>>

Replica == \A r \in Replicas : Working(r)
QueueIsFit == \A c \in Range(queue) : Fit(c)

(* A copy is kept by the queue, or by a replica that has not yet put it      *)
(* elsewhere: with only its ack on the wire, it already has.                 *)
KeptBy(r, m) == held[r] # NoCopy /\ held[r].of = m /\ wire[r] # <<Ack(held[r])>>

Kept(m) ==
  \/ m \in handled
  \/ \E q \in quarantine : q.copy.of = m
  \/ \E c \in Range(queue) : c.of = m
  \/ \E r \in Replicas : KeptBy(r, m)

AllKept == \A m \in Messages : sent[m] > 0 => Kept(m)

IInv == Types /\ Replica /\ QueueIsFit /\ QuarantineEarned /\ AllKept

(* The copy that stands for none is no copy of a message. *)
LEMMA NoCopyIsNoCopy == NoCopy \notin Copies
  BY BoundsAssumption DEF NoCopy, Copies

(* A copy counted or put back uncounted is a copy of the same message. *)
LEMMA CountedIsACopy ==
  ASSUME NEW c \in Copies
  PROVE  /\ Counted(c) \in Copies /\ Counted(c).of = c.of
         /\ Counted(c).attempts = c.attempts + 1 /\ Counted(c).returns = 0
         /\ Uncounted(c) \in Copies /\ Uncounted(c).of = c.of
         /\ Uncounted(c).attempts = c.attempts /\ Uncounted(c).returns = 0
<1>1. c.of \in Messages /\ c.attempts \in Nat /\ c.returns \in Nat
  BY DEF Copies
<1>2. Counted(c) \in Copies
  <2> DEFINE d == [c EXCEPT !.attempts = @ + 1]
  <2>1. d \in Copies
    BY <1>1 DEF Copies
  <2>2. Counted(c) = [d EXCEPT !.returns = 0]
    BY DEF Counted
  <2> HIDE DEF d
  <2>3. [d EXCEPT !.returns = 0] \in Copies
    BY <2>1 DEF Copies
  <2> QED
    BY <2>2, <2>3
<1>3. Uncounted(c) \in Copies
  BY <1>1 DEF Uncounted, Copies
<1>4. Counted(c).of = c.of /\ Counted(c).attempts = c.attempts + 1 /\ Counted(c).returns = 0
  BY <1>1 DEF Counted, Copies
<1>5. Uncounted(c).of = c.of /\ Uncounted(c).attempts = c.attempts /\ Uncounted(c).returns = 0
  BY <1>1 DEF Uncounted, Copies
<1> QED
  BY <1>2, <1>3, <1>4, <1>5

(* Verdicts are never taken back: what fits still fits, what was earned is.  *)
Grows ==
  /\ handled \subseteq handled' /\ poisoned \subseteq poisoned'
  /\ failed' \in [Messages -> Nat] /\ \A m \in Messages : failed[m] <= failed'[m]
  /\ deaths' \in [Messages -> Nat] /\ \A m \in Messages : deaths[m] <= deaths'[m]

(* What was fit or earned before such a step is so after it. *)
LEMMA GroundsLast ==
  ASSUME Types, Grows, NEW c \in Copies
  PROVE  /\ Fit(c) => Fit(c)'
         /\ \A reason \in Reasons : Earned(c, reason) => Earned(c, reason)'
<1>1. c.of \in Messages /\ c.attempts \in Nat /\ c.returns \in Nat
  BY DEF Copies
<1> QED
  BY <1>1, BoundsAssumption DEF Types, Grows, Fit, Earned

(* A replica whose own delivery does not move keeps what it had. *)
LEMMA OthersKeep ==
  ASSUME Types, Grows, NEW r \in Replicas, Working(r),
         UNCHANGED <<held[r], step[r], wire[r]>>
  PROVE  Working(r)'
<1>1. \A c \in Copies : Fit(c) => Fit(c)'
  BY GroundsLast
<1>2. \A c \in Copies, reason \in Reasons : Earned(c, reason) => Earned(c, reason)'
  BY GroundsLast
<1>3. held[r] \in Copies => Counted(held[r]) \in Copies
  BY CountedIsACopy
<1>4. /\ step'[r] = "idle" <=> held'[r] = NoCopy
      /\ step'[r] # "idle" => held'[r] \in Copies /\ Fit(held[r])'
      /\ step'[r] = "backoff" => Fit(Counted(held[r]))'
      /\ step'[r] # "settled" => wire'[r] = <<>>
  BY <1>1, <1>3 DEF Working
<1>5. step'[r] = "settled" =>
       \/ wire'[r] = <<Ack(held'[r])>> \/ wire'[r] = <<Requeue(held'[r])>>
       \/ wire'[r] = <<Reject(held'[r])>> /\ Earned(held[r], "rejected")'
       \/ \E c \in Copies : /\ c.of = held'[r].of /\ Fit(c)'
                            /\ wire'[r] = <<ToQueue(c), Ack(held'[r])>>
       \/ \E c \in Copies, reason \in Reasons :
            /\ c.of = held'[r].of /\ Earned(c, reason)'
            /\ wire'[r] = <<ToQuarantine(c, reason), Ack(held'[r])>>
  <2>1. held[r] \in Copies /\ Earned(held[r], "rejected") => Earned(held[r], "rejected")'
    BY <1>2 DEF Reasons, Earned
  <2> QED
    BY <1>1, <1>2, <2>1 DEF Working
<1> QED
  BY <1>4, <1>5 DEF Working, Fit, Earned, Counted

(* The queue and the quarantine keep what they had. *)
LEMMA BrokerKeeps ==
  ASSUME Types, Grows, UNCHANGED <<queue, quarantine>>
  PROVE  (QueueIsFit => QueueIsFit') /\ (QuarantineEarned => QuarantineEarned')
<1>1. \A c \in Range(queue) : c \in Copies
  BY DEF Types, Range
<1>2. QueueIsFit => QueueIsFit'
  BY <1>1, GroundsLast DEF QueueIsFit, Fit
<1>3. \A q \in quarantine : q.copy \in Copies /\ q.reason \in Reasons
  BY DEF Types
<1>4. QuarantineEarned => QuarantineEarned'
  BY <1>3, GroundsLast DEF QuarantineEarned, Earned
<1> QED
  BY <1>2, <1>4

-----------------------------------------------------------------------------
(* The steps *)

(* A step of the handler of r, or of its settlement: the broker sees nothing of *)
(* it yet, and only a handled message is acked without being put elsewhere.     *)
LEMMA WorkKeeps ==
  ASSUME IInv, Grows, NEW r \in Replicas, UNCHANGED <<broker, orphans, sent>>,
         NEW s \in {"backoff", "settled"}, step' = [step EXCEPT ![r] = s],
         NEW frames, wire' = [wire EXCEPT ![r] = frames],
         Working(r)', frames = <<Ack(held[r])>> => held[r].of \in handled'
  PROVE  IInv'
<1> USE DEF IInv, broker
<1>1. Types'
  BY DEF Types, Grows
<1>2. Replica'
  <2> SUFFICES ASSUME NEW p \in Replicas PROVE Working(p)'
    BY DEF Replica
  <2>1. CASE p # r
    <3>1. UNCHANGED <<held[p], step[p], wire[p]>>
      BY <2>1 DEF Types
    <3> QED
      BY <3>1, OthersKeep DEF Replica
  <2> QED
    BY <2>1
<1>3. QueueIsFit' /\ QuarantineEarned'
  BY BrokerKeeps
<1>4. ASSUME NEW m \in Messages, Kept(m) PROVE Kept(m)'
  <2>1. ASSUME NEW p \in Replicas, KeptBy(p, m) PROVE KeptBy(p, m)' \/ m \in handled'
    <3>1. CASE p # r
      BY <2>1, <3>1 DEF KeptBy, Types
    <3>2. CASE p = r
      BY <2>1, <3>2 DEF KeptBy, Types
    <3> QED
      BY <3>1, <3>2
  <2> QED
    BY <1>4, <2>1 DEF Kept, Grows
<1>5. AllKept'
  BY <1>4 DEF AllKept
<1> QED
  BY <1>1, <1>2, <1>3, <1>5

(* The handler ends, or its backoff does. *)
LEMMA DeliveryKeeps ==
  ASSUME IInv, NEW r \in Replicas, Ends(r) \/ BackoffOver(r)
  PROVE  IInv'
<1> DEFINE c == held[r]
<1>1. /\ Types /\ Working(r) /\ step[r] # "idle"
      /\ c \in Copies /\ Fit(c) /\ c.of \in Messages /\ c.attempts \in Nat
  BY DEF IInv, Replica, Ends, Succeed, Poison, FailTransient, RefusedByBreaker, BackoffOver,
         Working, Copies
<1>2. c # NoCopy /\ UNCHANGED <<broker, orphans, sent>> /\ held'[r] = c
  BY <1>1, NoCopyIsNoCopy DEF Ends, Succeed, Poison, FailTransient, RefusedByBreaker, BackoffOver,
         broker
<1>3. /\ Counted(c) \in Copies /\ Counted(c).of = c.of /\ Counted(c).attempts = c.attempts + 1
      /\ Uncounted(c) \in Copies /\ Uncounted(c).of = c.of /\ Uncounted(c).attempts = c.attempts
      /\ Counted(c).returns = 0 /\ Uncounted(c).returns = 0
  BY <1>1, CountedIsACopy
<1> HIDE DEF c
<1>4. Grows
  <2>1. failed \in [Messages -> Nat] /\ deaths \in [Messages -> Nat] /\ deaths' = deaths
    BY <1>1, <1>2 DEF Types, broker
  <2>2. CASE failed' = [failed EXCEPT ![c.of] = @ + 1] /\ UNCHANGED <<handled, poisoned>>
    BY <1>1, <2>1, <2>2 DEF Grows
  <2>3. CASE UNCHANGED failed /\ handled \subseteq handled' /\ poisoned \subseteq poisoned'
    BY <2>1, <2>3 DEF Grows
  <2> QED
    BY <2>2, <2>3 DEF Ends, Succeed, Poison, FailTransient, RefusedByBreaker, BackoffOver, c
<1>5. Fit(c)'
  <2>1. c' = c
    BY <1>2 DEF c
  <2> QED
    BY <1>1, <1>4, <2>1, GroundsLast DEF Fit
<1>6. CASE Succeed(r)
  <2>1. /\ wire' = [wire EXCEPT ![r] = <<Ack(c)>>] /\ step' = [step EXCEPT ![r] = "settled"]
        /\ c.of \in handled'
    BY <1>6 DEF Succeed, Settle, c
  <2>2. wire'[r] = <<Ack(c)>> /\ step'[r] = "settled"
    BY <1>1, <2>1 DEF Types
  <2>3. Working(r)'
    BY <1>1, <1>2, <1>5, <2>2 DEF Working, Fit, c
  <2> QED
    BY <1>2, <1>4, <2>1, <2>3, WorkKeeps DEF c
<1>7. ASSUME NEW f, f.to # "ack", Replace(r, f),
             \/ f.to # "quarantine" /\ \E d \in Copies : d.of = c.of /\ Fit(d)' /\ f = ToQueue(d)
             \/ /\ Earned(c, "rejected")'
                /\ \E d \in Copies, reason \in Reasons :
                      d.of = c.of /\ Earned(d, reason)' /\ f = ToQuarantine(d, reason)
      PROVE  IInv'
  <2>1. held'[r] \in Copies /\ Fit(held[r])' /\ held'[r] # NoCopy
    BY <1>1, <1>2, <1>5 DEF c
  <2>2. PICK frames : /\ frames = Replaced(c, f) \/ frames = Nacked(c, f)
                      /\ wire' = [wire EXCEPT ![r] = frames]
                      /\ step' = [step EXCEPT ![r] = "settled"]
    BY <1>7 DEF Replace, Settle, c
  <2>3. wire'[r] = frames /\ step'[r] = "settled"
    BY <1>1, <2>2 DEF Types
  <2>4. CASE frames = Replaced(c, f)
    <3>1. wire'[r] = <<f, Ack(c)>>
      BY <2>3, <2>4 DEF Replaced
    <3>2. \/ \E d \in Copies : /\ d.of = held'[r].of /\ Fit(d)'
                               /\ wire'[r] = <<ToQueue(d), Ack(held'[r])>>
          \/ \E d \in Copies, reason \in Reasons :
               /\ d.of = held'[r].of /\ Earned(d, reason)'
               /\ wire'[r] = <<ToQuarantine(d, reason), Ack(held'[r])>>
      BY <1>2, <1>7, <3>1
    <3>3. Working(r)'
      BY <2>1, <2>3, <3>2 DEF Working, Fit, Earned
    <3>4. frames # <<Ack(c)>>
      BY <2>4 DEF Replaced
    <3> QED
      BY <1>2, <1>4, <2>2, <3>3, <3>4, WorkKeeps DEF c
  <2>5. CASE frames = Nacked(c, f)
    <3>1. \/ wire'[r] = <<Requeue(held'[r])>>
          \/ wire'[r] = <<Reject(held'[r])>> /\ Earned(held[r], "rejected")'
      <4>1. CASE f.to # "quarantine"
        BY <1>2, <2>3, <2>5, <4>1 DEF Nacked
      <4>2. CASE f.to = "quarantine"
        <5>1. Earned(held[r], "rejected")'
          BY <1>2, <1>7, <4>2 DEF Earned, c
        <5> QED
          BY <1>2, <2>3, <2>5, <4>2, <5>1 DEF Nacked
      <4> QED
        BY <4>1, <4>2
    <3>2. Working(r)'
      BY <2>1, <2>3, <3>1 DEF Working, Fit, Earned
    <3>3. frames # <<Ack(c)>>
      BY <2>5 DEF Nacked, Ack, Requeue, Reject
    <3> QED
      BY <1>2, <1>4, <2>2, <3>2, <3>3, WorkKeeps DEF c
  <2> QED
    BY <2>2, <2>4, <2>5
<1>8. CASE Poison(r)
  <2>1. Earned(c, "poison")' /\ Earned(c, "rejected")'
    BY <1>2, <1>8 DEF Poison, Earned, c
  <2> DEFINE f == ToQuarantine(c, "poison")
  <2>2. Replace(r, f)
    BY <1>8 DEF Poison, c
  <2>3. f.to # "ack" /\ "poison" \in Reasons
    BY DEF ToQuarantine, Reasons
  <2> HIDE DEF f
  <2>4. \E d \in Copies, reason \in Reasons :
          d.of = c.of /\ Earned(d, reason)' /\ f = ToQuarantine(d, reason)
    BY <1>1, <1>2, <2>1, <2>3 DEF f, Earned, c
  <2> QED
    BY <1>7, <2>1, <2>2, <2>3, <2>4
<1>9. CASE RefusedByBreaker(r)
  <2>1. Fit(Uncounted(c))'
    <3>1. c' = c /\ deaths'[c.of] \in Nat
      BY <1>1, <1>2, <1>4 DEF c, Grows
    <3>2. c.attempts < maxAttempts /\ c.attempts <= failed'[c.of]
      BY <1>5, <3>1 DEF Fit
    <3>3. /\ Uncounted(c).attempts < maxAttempts
          /\ Uncounted(c).attempts <= failed'[Uncounted(c).of]
          /\ Uncounted(c).returns <= deaths'[Uncounted(c).of]
      BY <1>3, <3>1, <3>2
    <3> QED
      BY <3>1, <3>3 DEF Fit, Uncounted
  <2> DEFINE f == ToQueue(Uncounted(c))
  <2>2. Replace(r, f)
    BY <1>9 DEF RefusedByBreaker, Paused, c
  <2>3. f.to # "ack" /\ f.to # "quarantine"
    BY DEF ToQueue
  <2>4. \E d \in Copies : d.of = c.of /\ Fit(d)' /\ f = ToQueue(d)
    BY <1>2, <1>3, <2>1 DEF Fit, c, Uncounted
  <2> HIDE DEF f
  <2> QED
    BY <1>7, <2>2, <2>3, <2>4
<1>10. CASE BackoffOver(r)
  <2>1. Fit(Counted(c))
    BY <1>1, <1>10 DEF BackoffOver, Working, c
  <2>2. Fit(Counted(c))'
    BY <1>1, <1>2, <1>3, <1>4, <2>1, GroundsLast DEF Fit, c
  <2> DEFINE f == ToQueue(Counted(c))
  <2>3. Replace(r, f)
    BY <1>10 DEF BackoffOver, Again, c
  <2>4. f.to # "ack" /\ f.to # "quarantine"
    BY DEF ToQueue
  <2>5. \E d \in Copies : d.of = c.of /\ Fit(d)' /\ f = ToQueue(d)
    BY <1>2, <1>3, <2>2 DEF Fit, c, Counted
  <2> HIDE DEF f
  <2> QED
    BY <1>7, <2>3, <2>4, <2>5
<1>11. CASE FailTransient(r)
  <2>1. failed'[c.of] >= c.attempts + 1 /\ failed'[c.of] \in Nat
    BY <1>1, <1>11 DEF FailTransient, Types, Fit, c
  <2>2. CASE c.attempts + 1 >= maxAttempts
    <3>1. c.attempts + 1 = maxAttempts
      BY <1>1, <2>2, BoundsAssumption DEF Fit
    <3>2. Earned(Counted(c), "attempts")' /\ Earned(c, "rejected")'
      BY <1>2, <1>3, <2>1, <3>1 DEF Earned, c
    <3> DEFINE f == ToQuarantine(Counted(c), "attempts")
    <3>3. Replace(r, f)
      BY <1>11, <2>2 DEF FailTransient, c
    <3>4. f.to # "ack" /\ "attempts" \in Reasons
      BY DEF ToQuarantine, Reasons
    <3> HIDE DEF f
    <3>5. \E d \in Copies, reason \in Reasons :
            d.of = c.of /\ Earned(d, reason)' /\ f = ToQuarantine(d, reason)
      BY <1>2, <1>3, <3>2, <3>4 DEF f, Earned, c, Counted
    <3> QED
      BY <1>7, <3>2, <3>3, <3>4, <3>5
  <2>3. CASE ~(c.attempts + 1 >= maxAttempts)
    <3>1. step' = [step EXCEPT ![r] = "backoff"] /\ UNCHANGED wire /\ wire[r] = <<>>
      BY <1>1, <1>11, <2>3 DEF FailTransient, Working, c
    <3>2. wire' = [wire EXCEPT ![r] = <<>>] /\ step'[r] = "backoff"
      BY <1>1, <3>1 DEF Types
    <3>3. Fit(Counted(c))'
      <4>1. c' = c /\ deaths'[c.of] \in Nat
        BY <1>1, <1>2, <1>4 DEF c, Grows
      <4>2. /\ Counted(c).attempts < maxAttempts
            /\ Counted(c).attempts <= failed'[Counted(c).of]
            /\ Counted(c).returns <= deaths'[Counted(c).of]
        BY <1>1, <1>3, <2>1, <2>3, <4>1, BoundsAssumption
      <4> QED
        BY <4>1, <4>2 DEF Fit, Counted
    <3>4. Working(r)'
      BY <1>1, <1>2, <1>5, <3>1, <3>2, <3>3 DEF Working, c
    <3> QED
      BY <1>2, <1>4, <3>1, <3>2, <3>4, WorkKeeps DEF c
  <2> QED
    BY <2>2, <2>3
<1> QED
  BY <1>6, <1>8, <1>9, <1>10, <1>11 DEF Ends

(* A message reaches the queue. *)
LEMMA RouteKeeps ==
  ASSUME IInv, NEW n \in Messages, Route(n)
  PROVE  IInv'
<1>1. /\ queue \in Seq(Copies) /\ sent \in [Messages -> Nat] /\ failed \in [Messages -> Nat]
      /\ deaths \in [Messages -> Nat]
  BY DEF IInv, Types
<1>2. /\ Fresh(n) \in Copies /\ Fresh(n).of = n /\ Fresh(n).attempts = 0 /\ Fresh(n).returns = 0
  BY DEF Fresh, Copies
<1>3. /\ queue' = Append(queue, Fresh(n)) /\ sent' = [sent EXCEPT ![n] = @ + 1]
      /\ UNCHANGED <<quarantine, held, step, wire, orphans, handled, failed, poisoned, deaths>>
  BY DEF Route
<1>4. queue' \in Seq(Copies) /\ Range(queue') = Range(queue) \union {Fresh(n)}
  BY <1>1, <1>2, <1>3, RangeOfAppend
<1>5. Types'
  BY <1>1, <1>3, <1>4 DEF IInv, Types
<1>6. Grows
  BY <1>1, <1>3 DEF Grows
<1>7. Replica'
  BY <1>3, <1>6, OthersKeep DEF IInv, Replica
<1>8. Fit(Fresh(n))'
  BY <1>1, <1>2, <1>3, BoundsAssumption DEF Fit, Fresh
<1>9. QueueIsFit'
  <2>1. \A c \in Range(queue) : Fit(c)'
    BY <1>3 DEF IInv, QueueIsFit, Fit
  <2> QED
    BY <1>4, <1>8, <2>1 DEF QueueIsFit, Fit, Fresh
<1>10. QuarantineEarned'
  BY <1>3 DEF IInv, QuarantineEarned
<1>11. AllKept'
  <2>1. \A m \in Messages : Kept(m) => Kept(m)'
    BY <1>3, <1>4 DEF Kept, KeptBy
  <2>2. Kept(n)'
    BY <1>2, <1>4 DEF Kept
  <2>3. \A m \in Messages : m # n => sent'[m] = sent[m]
    BY <1>1, <1>3
  <2> QED
    BY <2>1, <2>2, <2>3 DEF IInv, AllKept
<1> QED
  BY <1>5, <1>7, <1>9, <1>10, <1>11 DEF IInv

(* The queue's first copy becomes the replica's. *)
LEMMA DeliverKeeps ==
  ASSUME IInv, NEW r \in Replicas, Deliver(r)
  PROVE  IInv'
<1> DEFINE c == Head(queue)
<1>1. /\ Types /\ queue \in Seq(Copies) /\ queue # <<>> /\ held[r] = NoCopy
      /\ Working(r) /\ step[r] = "idle" /\ wire[r] = <<>>
  BY DEF IInv, Types, Deliver, Replica, Working
<1>2. /\ queue' = Tail(queue)
      /\ held' = [held EXCEPT ![r] = c] /\ step' = [step EXCEPT ![r] = "handling"]
      /\ UNCHANGED <<quarantine, wire, orphans, sent, handled, failed, poisoned, deaths>>
  BY DEF Deliver
<1>3. /\ queue' \in Seq(Copies) /\ c \in Copies /\ Range(queue) = Range(queue') \union {c}
  BY <1>1, <1>2, RangeOfTail
<1>4. c # NoCopy
  BY <1>3, NoCopyIsNoCopy
<1> HIDE DEF c
<1>5. held'[r] = c /\ step'[r] = "handling" /\ wire'[r] = <<>>
  BY <1>1, <1>2 DEF Types
<1>6. Types'
  BY <1>2, <1>3 DEF IInv, Types
<1>7. Grows
  BY <1>2 DEF IInv, Types, Grows
<1>8. Fit(c) /\ (\A d \in Range(queue') : Fit(d))
  BY <1>3 DEF IInv, QueueIsFit
<1>9. Working(r)'
  BY <1>2, <1>3, <1>4, <1>5, <1>8 DEF Working, Fit
<1>10. ASSUME NEW p \in Replicas, p # r
       PROVE  UNCHANGED <<held[p], step[p], wire[p]>>
  BY <1>2, <1>10 DEF IInv, Types
<1>11. Replica'
  <2> SUFFICES ASSUME NEW p \in Replicas PROVE Working(p)'
    BY <1>2 DEF IInv, Replica
  <2> QED
    BY <1>1, <1>7, <1>9, <1>10, OthersKeep DEF IInv, Replica
<1>12. QueueIsFit'
  BY <1>2, <1>8 DEF QueueIsFit, Fit
<1>13. QuarantineEarned'
  BY <1>2 DEF IInv, QuarantineEarned
<1>14. AllKept'
  <2>1. ASSUME NEW m, m = c.of PROVE KeptBy(r, m)'
    BY <1>4, <1>5, <2>1 DEF KeptBy
  <2>2. ASSUME NEW m \in Messages, Kept(m) PROVE Kept(m)'
    <3>1. CASE \E d \in Range(queue) : d.of = m
      BY <1>3, <2>1, <3>1 DEF Kept
    <3>2. CASE \E p \in Replicas : KeptBy(p, m)
      BY <1>1, <1>10, <3>2 DEF Kept, KeptBy
    <3>3. CASE m \in handled \/ \E q \in quarantine : q.copy.of = m
      BY <1>2, <3>3 DEF Kept
    <3> QED
      BY <2>2, <3>1, <3>2, <3>3 DEF Kept
  <2> QED
    BY <1>2, <2>2 DEF IInv, AllKept
<1> QED
  BY <1>6, <1>11, <1>12, <1>13, <1>14 DEF IInv

(* The broker takes a frame: the copy that replaces a delivery's is in the queue *)
(* or in quarantine before the delivery's own is gone.                           *)
LEMMA TakeKeeps ==
  ASSUME IInv, NEW r \in Replicas, Take(r)
  PROVE  IInv'
<1> DEFINE f == Head(wire[r])
           c == held[r]
<1>1. /\ Types /\ Working(r) /\ step[r] = "settled" /\ wire[r] # <<>>
      /\ c \in Copies /\ c # NoCopy /\ Fit(c)
  BY NoCopyIsNoCopy DEF IInv, Take, Replica, Working
<1>2. /\ wire' = [wire EXCEPT ![r] = Tail(@)]
      /\ f.to = "queue" => queue' = Append(queue, f.copy)
      /\ f.to = "requeue" => queue' = <<f.copy>> \o queue
      /\ f.to \notin {"queue", "requeue"} => queue' = queue
      /\ quarantine' = IF f.to \in {"quarantine", "reject"}
                         THEN quarantine \union {Dead(f.copy, f.reason)} ELSE quarantine
      /\ f.to \in {"ack", "requeue", "reject"} =>
           held' = [held EXCEPT ![r] = NoCopy] /\ step' = [step EXCEPT ![r] = "idle"]
      /\ f.to \notin {"ack", "requeue", "reject"} => UNCHANGED <<held, step>>
      /\ UNCHANGED <<orphans, sent, handled, failed, poisoned, deaths>>
  BY DEF Take
<1>3. Grows
  BY <1>1, <1>2 DEF Types, Grows
<1>4. wire'[r] = Tail(wire[r])
  BY <1>1, <1>2 DEF Types
<1>5. ASSUME NEW p \in Replicas, p # r
      PROVE  UNCHANGED <<held[p], step[p], wire[p]>>
  BY <1>1, <1>2, <1>5 DEF Types
<1>6. ASSUME Types', Working(r)' PROVE Replica'
  <2> SUFFICES ASSUME NEW p \in Replicas PROVE Working(p)'
    BY <1>2 DEF IInv, Replica
  <2> QED
    BY <1>1, <1>3, <1>5, <1>6, OthersKeep DEF IInv, Replica
<1> HIDE DEF f, c
<1>7. CASE wire[r] = <<Ack(c)>>
  <2>1. f = Ack(c) /\ f.to = "ack" /\ wire'[r] = <<>>
    BY <1>4, <1>7 DEF Ack, f
  <2>2. /\ held' = [held EXCEPT ![r] = NoCopy] /\ step' = [step EXCEPT ![r] = "idle"]
        /\ UNCHANGED <<queue, quarantine>>
    BY <1>2, <2>1
  <2>3. held'[r] = NoCopy /\ step'[r] = "idle"
    BY <1>1, <2>2 DEF Types
  <2>4. Types'
    BY <1>1, <1>2, <2>2 DEF Types
  <2>5. Working(r)'
    BY <2>1, <2>3 DEF Working
  <2>6. QueueIsFit' /\ QuarantineEarned'
    BY <1>1, <1>3, <2>2, BrokerKeeps DEF IInv
  <2>7. \A m \in Messages : Kept(m) => Kept(m)'
    BY <1>2, <1>5, <1>7, <2>2 DEF Kept, KeptBy, c
  <2>8. AllKept'
    BY <1>2, <2>7 DEF IInv, AllKept
  <2> QED
    BY <1>6, <2>4, <2>5, <2>6, <2>8 DEF IInv
<1>8. ASSUME NEW d \in Copies, d.of = c.of, Fit(d), wire[r] = <<ToQueue(d), Ack(c)>>
      PROVE  IInv'
  <2>1. f = ToQueue(d) /\ wire'[r] = <<Ack(c)>>
    BY <1>4, <1>8 DEF f
  <2>2. f.to = "queue" /\ f.copy = d
    BY <2>1 DEF ToQueue
  <2>3. queue' = Append(queue, d) /\ UNCHANGED <<quarantine, held, step>>
    BY <1>2, <2>2
  <2>4. queue' \in Seq(Copies) /\ Range(queue') = Range(queue) \union {d}
    BY <1>1, <1>8, <2>3, RangeOfAppend DEF Types
  <2>5. Types'
    BY <1>1, <1>2, <2>3, <2>4 DEF Types
  <2>6. held'[r] = c /\ step'[r] = "settled" /\ Fit(held[r])'
    BY <1>1, <1>2, <2>3 DEF c, Fit
  <2>7. Working(r)'
    BY <1>1, <2>1, <2>6 DEF Working
  <2>8. QueueIsFit'
    BY <1>2, <1>8, <2>4 DEF IInv, QueueIsFit, Fit
  <2>9. QuarantineEarned'
    BY <1>2, <2>3 DEF IInv, QuarantineEarned
  <2>10. ASSUME NEW m \in Messages, Kept(m) PROVE Kept(m)'
    <3>1. CASE KeptBy(r, m)
      BY <1>8, <2>4, <3>1 DEF Kept, KeptBy, c
    <3>2. CASE \E p \in Replicas : p # r /\ KeptBy(p, m)
      BY <1>5, <3>2 DEF Kept, KeptBy
    <3>3. CASE m \in handled \/ (\E q \in quarantine : q.copy.of = m)
                 \/ \E e \in Range(queue) : e.of = m
      BY <1>2, <2>3, <2>4, <3>3 DEF Kept
    <3> QED
      BY <2>10, <3>1, <3>2, <3>3 DEF Kept
  <2>11. AllKept'
    BY <1>2, <2>10 DEF IInv, AllKept
  <2> QED
    BY <1>6, <2>5, <2>7, <2>8, <2>9, <2>11 DEF IInv
<1>9. ASSUME NEW d \in Copies, NEW reason \in Reasons, d.of = c.of, Earned(d, reason),
             wire[r] = <<ToQuarantine(d, reason), Ack(c)>>
      PROVE  IInv'
  <2>1. f = ToQuarantine(d, reason) /\ wire'[r] = <<Ack(c)>>
    BY <1>4, <1>9 DEF f
  <2>2. f.to = "quarantine" /\ f.copy = d /\ f.reason = reason
    BY <2>1 DEF ToQuarantine
  <2>3. quarantine' = quarantine \union {Dead(d, reason)} /\ UNCHANGED <<queue, held, step>>
    BY <1>2, <2>2
  <2>4. /\ Dead(d, reason) \in [copy : Copies, reason : Reasons]
        /\ Dead(d, reason).copy = d /\ Dead(d, reason).reason = reason
    BY DEF Dead
  <2>5. Types'
    BY <1>1, <1>2, <2>3, <2>4 DEF Types
  <2>6. held'[r] = c /\ step'[r] = "settled" /\ Fit(held[r])'
    BY <1>1, <1>2, <2>3 DEF c, Fit
  <2>7. Working(r)'
    BY <1>1, <2>1, <2>6 DEF Working
  <2>8. QueueIsFit'
    BY <1>2, <2>3 DEF IInv, QueueIsFit, Fit
  <2>9. QuarantineEarned'
    BY <1>2, <1>9, <2>3, <2>4 DEF IInv, QuarantineEarned, Earned
  <2>10. ASSUME NEW m \in Messages, Kept(m) PROVE Kept(m)'
    <3>1. CASE KeptBy(r, m)
      BY <1>9, <2>3, <2>4, <3>1 DEF Kept, KeptBy, c
    <3>2. CASE \E p \in Replicas : p # r /\ KeptBy(p, m)
      BY <1>5, <3>2 DEF Kept, KeptBy
    <3>3. CASE m \in handled \/ (\E q \in quarantine : q.copy.of = m)
                 \/ \E e \in Range(queue) : e.of = m
      BY <1>2, <2>3, <3>3 DEF Kept
    <3> QED
      BY <2>10, <3>1, <3>2, <3>3 DEF Kept
  <2>11. AllKept'
    BY <1>2, <2>10 DEF IInv, AllKept
  <2> QED
    BY <1>6, <2>5, <2>7, <2>8, <2>9, <2>11 DEF IInv
<1>10. CASE wire[r] = <<Requeue(c)>>
  <2>1. f.to = "requeue" /\ f.copy = c /\ wire'[r] = <<>>
    BY <1>4, <1>10 DEF Requeue, f
  <2>2. /\ held' = [held EXCEPT ![r] = NoCopy] /\ step' = [step EXCEPT ![r] = "idle"]
        /\ queue' = <<c>> \o queue /\ UNCHANGED quarantine
    BY <1>2, <2>1
  <2>3. held'[r] = NoCopy /\ step'[r] = "idle"
    BY <1>1, <2>2 DEF Types
  <2>4. queue' \in Seq(Copies) /\ Range(queue') = Range(queue) \union {c}
    BY <1>1, <2>2, RangeOfFront DEF Types
  <2>5. Types'
    BY <1>1, <1>2, <2>2, <2>4 DEF Types
  <2>6. Working(r)'
    BY <2>1, <2>3 DEF Working
  <2>7. QueueIsFit'
    BY <1>1, <1>2, <2>4 DEF IInv, QueueIsFit, Fit
  <2>8. QuarantineEarned'
    BY <1>2, <2>2 DEF IInv, QuarantineEarned
  <2>9. ASSUME NEW m \in Messages, Kept(m) PROVE Kept(m)'
    <3>1. CASE KeptBy(r, m)
      BY <2>4, <3>1 DEF Kept, KeptBy, c
    <3>2. CASE \E p \in Replicas : p # r /\ KeptBy(p, m)
      BY <1>5, <3>2 DEF Kept, KeptBy
    <3>3. CASE m \in handled \/ (\E q \in quarantine : q.copy.of = m)
                 \/ \E e \in Range(queue) : e.of = m
      BY <1>2, <2>2, <2>4, <3>3 DEF Kept
    <3> QED
      BY <2>9, <3>1, <3>2, <3>3 DEF Kept
  <2>10. AllKept'
    BY <1>2, <2>9 DEF IInv, AllKept
  <2> QED
    BY <1>6, <2>5, <2>6, <2>7, <2>8, <2>10 DEF IInv
<1>11. CASE wire[r] = <<Reject(c)>> /\ Earned(c, "rejected")
  <2>1. f.to = "reject" /\ f.copy = c /\ f.reason = "rejected" /\ wire'[r] = <<>>
    BY <1>4, <1>11 DEF Reject, f
  <2>2. /\ held' = [held EXCEPT ![r] = NoCopy] /\ step' = [step EXCEPT ![r] = "idle"]
        /\ quarantine' = quarantine \union {Dead(c, "rejected")} /\ UNCHANGED queue
    BY <1>2, <2>1
  <2>3. held'[r] = NoCopy /\ step'[r] = "idle"
    BY <1>1, <2>2 DEF Types
  <2>4. /\ Dead(c, "rejected") \in [copy : Copies, reason : Reasons]
        /\ Dead(c, "rejected").copy = c /\ Dead(c, "rejected").reason = "rejected"
    BY <1>1 DEF Dead, Reasons
  <2>5. Types'
    BY <1>1, <1>2, <2>2, <2>4 DEF Types
  <2>6. Working(r)'
    BY <2>1, <2>3 DEF Working
  <2>7. QueueIsFit'
    BY <1>2, <2>2 DEF IInv, QueueIsFit, Fit
  <2>8. QuarantineEarned'
    BY <1>2, <1>11, <2>2, <2>4 DEF IInv, QuarantineEarned, Earned
  <2>9. ASSUME NEW m \in Messages, Kept(m) PROVE Kept(m)'
    <3>1. CASE KeptBy(r, m)
      BY <2>2, <2>4, <3>1 DEF Kept, KeptBy, c
    <3>2. CASE \E p \in Replicas : p # r /\ KeptBy(p, m)
      BY <1>5, <3>2 DEF Kept, KeptBy
    <3>3. CASE m \in handled \/ (\E q \in quarantine : q.copy.of = m)
                 \/ \E e \in Range(queue) : e.of = m
      BY <1>2, <2>2, <3>3 DEF Kept
    <3> QED
      BY <2>9, <3>1, <3>2, <3>3 DEF Kept
  <2>10. AllKept'
    BY <1>2, <2>9 DEF IInv, AllKept
  <2> QED
    BY <1>6, <2>5, <2>6, <2>7, <2>8, <2>10 DEF IInv
<1> QED
  BY <1>1, <1>7, <1>8, <1>9, <1>10, <1>11 DEF Working, c

(* What a dead channel's copy becomes. *)
LEMMA ReturnedIsACopy ==
  ASSUME NEW c \in Copies
  PROVE  LET d == [c EXCEPT !.returns = @ + 1] IN
         d \in Copies /\ d.of = c.of /\ d.attempts = c.attempts /\ d.returns = c.returns + 1
<1>1. c.of \in Messages /\ c.attempts \in Nat /\ c.returns \in Nat
  BY DEF Copies
<1>2. [c EXCEPT !.returns = @ + 1] \in Copies
  BY <1>1 DEF Copies
<1>3. /\ [c EXCEPT !.returns = @ + 1].of = c.of
      /\ [c EXCEPT !.returns = @ + 1].attempts = c.attempts
      /\ [c EXCEPT !.returns = @ + 1].returns = c.returns + 1
  BY <1>1 DEF Copies
<1> QED
  BY <1>2, <1>3

(* A channel ends: its copy is in the queue again or in quarantine, whatever of *)
(* its settlement was still on the wire.                                        *)
LEMMA ReturnKeeps ==
  ASSUME IInv, Grows, NEW r \in Replicas, Return(r), sent' = sent,
         orphans' \in [Replicas -> SUBSET Copies]
  PROVE  IInv'
<1> DEFINE c == [held[r] EXCEPT !.returns = @ + 1]
<1>1. Types /\ Working(r)
  BY DEF IInv, Replica
<1>2. /\ held' = [held EXCEPT ![r] = NoCopy] /\ step' = [step EXCEPT ![r] = "idle"]
      /\ wire' = [wire EXCEPT ![r] = <<>>]
  BY DEF Return
<1>3. held'[r] = NoCopy /\ step'[r] = "idle" /\ wire'[r] = <<>>
  BY <1>1, <1>2 DEF Types
<1>4. ASSUME NEW p \in Replicas, p # r
      PROVE  UNCHANGED <<held[p], step[p], wire[p]>>
  BY <1>1, <1>2, <1>4 DEF Types
<1>5. Working(r)'
  BY <1>3 DEF Working
<1>6. Replica'
  <2> SUFFICES ASSUME NEW p \in Replicas PROVE Working(p)'
    BY DEF Replica
  <2> QED
    BY <1>1, <1>4, <1>5, OthersKeep DEF IInv, Replica
<1>7. \/ held[r] = NoCopy /\ UNCHANGED <<queue, quarantine>>
      \/ held[r] # NoCopy /\ c.returns > maxAttempts
         /\ quarantine' = quarantine \union {Dead(c, "returned")} /\ UNCHANGED queue
      \/ held[r] # NoCopy /\ queue' = <<c>> \o queue /\ UNCHANGED quarantine
  BY DEF Return
<1>8. held[r] # NoCopy => /\ held[r] \in Copies /\ Fit(held[r])
                          /\ c \in Copies /\ c.of = held[r].of /\ c.attempts = held[r].attempts
                          /\ c.returns <= deaths'[c.of]
  <2> SUFFICES ASSUME held[r] # NoCopy
               PROVE  /\ held[r] \in Copies /\ Fit(held[r])
                      /\ c \in Copies /\ c.of = held[r].of /\ c.attempts = held[r].attempts
                      /\ c.returns <= deaths'[c.of]
    OBVIOUS
  <2>1. held[r] \in Copies /\ Fit(held[r])
    BY <1>1 DEF Working
  <2>2. c \in Copies /\ c.of = held[r].of /\ c.attempts = held[r].attempts
        /\ c.returns = held[r].returns + 1
    BY <2>1, ReturnedIsACopy
  <2>3. deaths' = [deaths EXCEPT ![c.of] = @ + 1]
    BY DEF Return
  <2>4. c.of \in Messages /\ held[r].returns \in Nat /\ deaths \in [Messages -> Nat]
    BY <1>1, <2>1, <2>2 DEF Copies, Types
  <2>5. held[r].returns <= deaths[c.of] /\ deaths'[c.of] = deaths[c.of] + 1
    BY <2>1, <2>2, <2>3, <2>4 DEF Fit
  <2> QED
    BY <2>1, <2>2, <2>4, <2>5
<1> HIDE DEF c
<1>9. handled \subseteq handled'
  BY DEF Grows
<1>10. CASE held[r] = NoCopy /\ UNCHANGED <<queue, quarantine>>
  <2>1. Types'
    BY <1>1, <1>2, <1>10 DEF Types, Grows
  <2>2. QueueIsFit' /\ QuarantineEarned'
    BY <1>1, <1>10, BrokerKeeps DEF IInv
  <2>3. \A m \in Messages : Kept(m) => Kept(m)'
    BY <1>4, <1>9, <1>10 DEF Kept, KeptBy
  <2>4. AllKept'
    BY <2>3 DEF IInv, AllKept
  <2> QED
    BY <1>6, <2>1, <2>2, <2>4 DEF IInv
<1>11. CASE /\ held[r] # NoCopy /\ c.returns > maxAttempts
            /\ quarantine' = quarantine \union {Dead(c, "returned")} /\ UNCHANGED queue
  <2>1. /\ Dead(c, "returned") \in [copy : Copies, reason : Reasons]
        /\ Dead(c, "returned").copy = c /\ Dead(c, "returned").reason = "returned"
    BY <1>8, <1>11 DEF Dead, Reasons
  <2>2. Types'
    BY <1>1, <1>2, <1>11, <2>1 DEF Types, Grows
  <2>3. QueueIsFit'
    <3>1. \A d \in Range(queue) : d \in Copies /\ Fit(d)
      BY <1>1 DEF IInv, QueueIsFit, Types, Range
    <3>2. \A d \in Range(queue) : Fit(d)'
      BY <1>1, <3>1, GroundsLast DEF Fit
    <3> QED
      BY <1>11, <3>2 DEF QueueIsFit, Fit
  <2>4. QuarantineEarned'
    <3>1. \A q \in quarantine : /\ q.copy \in Copies /\ q.reason \in Reasons
                                /\ Earned(q.copy, q.reason)
      BY <1>1 DEF IInv, Types, QuarantineEarned, Earned
    <3>2. \A d \in Copies, reason \in Reasons : Earned(d, reason) => Earned(d, reason)'
      BY <1>1, GroundsLast
    <3>3. \A q \in quarantine : Earned(q.copy, q.reason)'
      BY <3>1, <3>2 DEF Earned
    <3>4. quarantine' = quarantine \union {Dead(c, "returned")}
      BY <1>11
    <3>5. c.returns > maxAttempts /\ c.returns <= deaths'[c.of]
      BY <1>8, <1>11
    <3>6. deaths' \in [Messages -> Nat] /\ c.of \in Messages /\ c.returns \in Nat
      BY <1>8, <1>11 DEF Grows, Copies
    <3>7. ASSUME NEW q \in quarantine' PROVE Earned(q.copy, q.reason)'
      <4>1. CASE q \in quarantine
        BY <3>3, <4>1
      <4>2. CASE q = Dead(c, "returned")
        BY <2>1, <3>5, <4>2 DEF Earned
      <4> QED
        BY <3>4, <4>1, <4>2
    <3>8. \A q \in quarantine' : q.copy.returns \in Nat /\ deaths'[q.copy.of] \in Nat
      <4>1. \A q \in quarantine' : q.copy \in Copies
        BY <2>2 DEF Types
      <4> QED
        BY <3>6, <4>1 DEF Copies
    <3> QED
      BY <3>7, <3>8 DEF QuarantineEarned, Earned
  <2>5. \A m \in Messages : Kept(m) => Kept(m)'
    <3>1. ASSUME NEW m \in Messages, KeptBy(r, m) PROVE Kept(m)'
      BY <1>8, <1>11, <2>1, <3>1 DEF Kept, KeptBy
    <3>2. ASSUME NEW m \in Messages, NEW p \in Replicas, p # r, KeptBy(p, m) PROVE Kept(m)'
      BY <1>4, <3>2 DEF Kept, KeptBy
    <3>3. \A m \in Messages :
            \/ m \in handled
            \/ \E q \in quarantine : q.copy.of = m
            \/ \E e \in Range(queue) : e.of = m
            => Kept(m)'
      BY <1>9, <1>11 DEF Kept
    <3> QED
      BY <3>1, <3>2, <3>3 DEF Kept
  <2>6. AllKept'
    BY <2>5 DEF IInv, AllKept
  <2> QED
    BY <1>6, <2>2, <2>3, <2>4, <2>6 DEF IInv
<1>12. CASE held[r] # NoCopy /\ queue' = <<c>> \o queue /\ UNCHANGED quarantine
  <2>1. queue' \in Seq(Copies) /\ Range(queue') = Range(queue) \union {c}
    BY <1>1, <1>8, <1>12, RangeOfFront DEF Types
  <2>2. Types'
    BY <1>1, <1>2, <1>12, <2>1 DEF Types, Grows
  <2>3. QueueIsFit'
    <3>1. \A d \in Range(queue) : d \in Copies /\ Fit(d)
      BY <1>1 DEF IInv, QueueIsFit, Types, Range
    <3>2. \A d \in Range(queue) : Fit(d)'
      BY <1>1, <3>1, GroundsLast DEF Fit
    <3>3. Fit(held[r]) => held[r].attempts < maxAttempts /\ held[r].attempts <= failed[held[r].of]
      BY DEF Fit
    <3>4. c.of \in Messages /\ c.attempts \in Nat
      BY <1>8, <1>12 DEF Copies
    <3>5. failed[c.of] \in Nat /\ failed'[c.of] \in Nat /\ failed[c.of] <= failed'[c.of]
      BY <1>1, <3>4 DEF Types, Grows
    <3>6. /\ c.attempts < maxAttempts /\ c.attempts <= failed'[c.of]
          /\ c.returns <= deaths'[c.of]
      BY <1>8, <1>12, <3>3, <3>4, <3>5
    <3>7. ASSUME NEW d \in Range(queue')
          PROVE  /\ d.attempts < maxAttempts /\ d.attempts <= failed'[d.of]
                 /\ d.returns <= deaths'[d.of]
      BY <2>1, <3>2, <3>6 DEF Fit
    <3> QED
      BY <3>7 DEF QueueIsFit, Fit
  <2>4. QuarantineEarned'
    <3>1. \A q \in quarantine : /\ q.copy \in Copies /\ q.reason \in Reasons
                                /\ Earned(q.copy, q.reason)
      BY <1>1 DEF IInv, Types, QuarantineEarned, Earned
    <3>2. \A d \in Copies, reason \in Reasons : Earned(d, reason) => Earned(d, reason)'
      BY <1>1, GroundsLast
    <3> QED
      BY <1>12, <3>1, <3>2 DEF QuarantineEarned, Earned
  <2>5. \A m \in Messages : Kept(m) => Kept(m)'
    <3>1. ASSUME NEW m \in Messages, KeptBy(r, m) PROVE Kept(m)'
      BY <1>8, <1>12, <2>1, <3>1 DEF Kept, KeptBy
    <3>2. ASSUME NEW m \in Messages, NEW p \in Replicas, p # r, KeptBy(p, m) PROVE Kept(m)'
      BY <1>4, <3>2 DEF Kept, KeptBy
    <3>3. \A m \in Messages :
            \/ m \in handled
            \/ \E q \in quarantine : q.copy.of = m
            \/ \E e \in Range(queue) : e.of = m
            => Kept(m)'
      BY <1>9, <1>12, <2>1 DEF Kept
    <3> QED
      BY <3>1, <3>2, <3>3 DEF Kept
  <2>6. AllKept'
    BY <2>5 DEF IInv, AllKept
  <2> QED
    BY <1>6, <2>2, <2>3, <2>4, <2>6 DEF IInv
<1> QED
  BY <1>7, <1>10, <1>11, <1>12

(* A channel dies, a process crashes, or an orphan's end takes its process along. *)
LEMMA FaultKeeps ==
  ASSUME IInv, NEW r \in Replicas, ChannelDies(r) \/ Crash(r) \/ OrphanEnds(r)
  PROVE  IInv'
<1>1. /\ Types /\ Working(r) /\ deaths \in [Messages -> Nat] /\ failed \in [Messages -> Nat]
      /\ orphans \in [Replicas -> SUBSET Copies]
  BY DEF IInv, Types, Replica
<1>4. Return(r) => deaths' \in [Messages -> Nat] /\ \A m \in Messages : deaths[m] <= deaths'[m]
  <2> DEFINE c == [held[r] EXCEPT !.returns = @ + 1]
  <2>1. CASE held[r] = NoCopy
    BY <1>1, <2>1 DEF Return
  <2>2. CASE held[r] # NoCopy
    <3>1. held[r] \in Copies
      BY <1>1, <2>2 DEF Working
    <3>2. c.of \in Messages
      BY <3>1 DEF Copies
    <3>3. Return(r) => deaths' = [deaths EXCEPT ![c.of] = @ + 1]
      BY <2>2 DEF Return
    <3> HIDE DEF c
    <3> QED
      BY <1>1, <3>2, <3>3
  <2> QED
    BY <2>1, <2>2
<1>2. CASE ChannelDies(r) \/ Crash(r)
  <2>1. /\ Return(r)
        /\ UNCHANGED <<sent, handled, failed, poisoned>>
    BY <1>2 DEF ChannelDies, Crash, ProcessEnds
  <2>2. Grows
    BY <1>1, <1>4, <2>1 DEF Grows
  <2>3. orphans' \in [Replicas -> SUBSET Copies]
    <3>1. step[r] \in {"handling", "backoff"} => held[r] \in Copies
      BY <1>1 DEF Working
    <3>2. CASE Crash(r)
      BY <1>1, <3>2 DEF Crash, ProcessEnds
    <3>3. CASE ChannelDies(r)
      BY <1>1, <3>1, <3>3 DEF ChannelDies
    <3> QED
      BY <1>2, <3>2, <3>3
  <2> QED
    BY <2>1, <2>2, <2>3, ReturnKeeps
<1>3. CASE OrphanEnds(r)
  <2>1. PICK c \in orphans[r] :
          /\ \/ handled' = handled \union {c.of} /\ UNCHANGED <<failed, poisoned>>
             \/ poisoned' = poisoned \union {c.of} /\ UNCHANGED <<handled, failed>>
             \/ failed' = [failed EXCEPT ![c.of] = @ + 1] /\ UNCHANGED <<handled, poisoned>>
          /\ ProcessEnds(r)
          /\ UNCHANGED sent
    BY <1>3 DEF OrphanEnds
  <2>2. c.of \in Messages
    BY <1>1 DEF Copies
  <2>3. deaths' \in [Messages -> Nat] /\ \A m \in Messages : deaths[m] <= deaths'[m]
    BY <1>4, <2>1 DEF ProcessEnds
  <2>4. Grows
    <3>1. CASE failed' = [failed EXCEPT ![c.of] = @ + 1] /\ UNCHANGED <<handled, poisoned>>
      BY <1>1, <2>1, <2>2, <2>3, <3>1 DEF Grows
    <3>2. CASE UNCHANGED failed /\ handled \subseteq handled' /\ poisoned \subseteq poisoned'
      BY <1>1, <2>1, <2>3, <3>2 DEF Grows
    <3> QED
      BY <2>1, <3>1, <3>2
  <2>5. orphans' \in [Replicas -> SUBSET Copies]
    BY <1>1, <2>1 DEF ProcessEnds
  <2> QED
    BY <2>1, <2>3, <2>4, <2>5, ReturnKeeps DEF ProcessEnds
<1> QED
  BY <1>2, <1>3

(* The invariant holds at the start, and every step keeps it. *)
LEMMA Inductive == (Init => IInv) /\ (IInv /\ [Next]_vars => IInv')
<1>1. Init => IInv
  <2> SUFFICES ASSUME Init PROVE IInv
    OBVIOUS
  <2>1. Types
    BY DEF Init, Types
  <2>2. Range(queue) = {}
    BY DEF Init, Range
  <2>3. Replica
    BY DEF Init, Replica, Working
  <2>4. AllKept
    BY DEF Init, AllKept
  <2> QED
    BY <2>1, <2>2, <2>3, <2>4 DEF Init, IInv, QueueIsFit, QuarantineEarned
<1>2. ASSUME IInv, UNCHANGED vars PROVE IInv'
  <2>1. Grows
    BY <1>2 DEF IInv, Types, Grows, vars
  <2>2. Types'
    BY <1>2 DEF IInv, Types, vars
  <2>3. Replica'
    BY <1>2, <2>1, OthersKeep DEF IInv, Replica, vars
  <2>4. QueueIsFit' /\ QuarantineEarned'
    BY <1>2, <2>1, BrokerKeeps DEF IInv, vars
  <2>5. AllKept'
    BY <1>2 DEF IInv, AllKept, Kept, KeptBy, vars
  <2> QED
    BY <2>2, <2>3, <2>4, <2>5 DEF IInv
<1>3. IInv /\ Next => IInv'
  BY RouteKeeps, DeliverKeeps, TakeKeeps, DeliveryKeeps, FaultKeeps DEF Next
<1> QED
  BY <1>1, <1>2, <1>3

(* It holds in every state the subscription reaches. *)
LEMMA Invariant == Spec => []IInv
  BY Inductive, PTL DEF Spec

-----------------------------------------------------------------------------
(* The theorems *)

(* A message that reached the queue is handled, quarantined, or still with the  *)
(* broker, whichever channel dies between the frames of a settlement: a copy is *)
(* published before its original is acked (settleFailure of amqp-event-bus.ts). *)
THEOREM NoMessageDropped == Spec => []NothingDropped
<1>1. IInv => NothingDropped
  <2> SUFFICES ASSUME IInv, NEW m \in Messages, sent[m] > 0
               PROVE  m \in handled \union Quarantined \union Owed
    BY DEF NothingDropped
  <2>1. Kept(m)
    BY DEF IInv, AllKept
  <2>2. (\E c \in Range(queue) : c.of = m) => m \in Owed
    BY DEF Range, Owed
  <2>3. (\E r \in Replicas : KeptBy(r, m)) => m \in Owed
    BY DEF KeptBy, Owed
  <2>4. (\E q \in quarantine : q.copy.of = m) => m \in Quarantined
    BY DEF Quarantined
  <2> QED
    BY <2>1, <2>2, <2>3, <2>4 DEF Kept
<1> QED
  BY <1>1, Invariant, PTL

(* A quarantined message was found poison, failed as often as the ceiling says, *)
(* or was returned by channels that died: a refusal of an open breaker is never *)
(* counted as an attempt.                                                       *)
THEOREM QuarantineIsEarned == Spec => []QuarantineEarned
<1>1. IInv => QuarantineEarned
  BY DEF IInv
<1> QED
  BY <1>1, Invariant, PTL
=============================================================================
