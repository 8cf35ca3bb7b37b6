--------------------------- MODULE IdempotencyKey ---------------------------
(***************************************************************************)
(* One dedup key (caller, route and Idempotency-Key) of a write route      *)
(* guarded by requireIdempotencyKey (effect/service-shell/src/             *)
(* idempotency.ts), over the Mongo store (mongo-client/src/idempotency/    *)
(* store.ts) or the SQL one (sql-client/src/transactions/idempotency.ts).  *)
(* The requests that carry the key overlap, and each step is one call of   *)
(* the store, so a claim of several calls can be cut by the others'.       *)
(***************************************************************************)
EXTENDS Naturals, FiniteSets

CONSTANTS Requests,    \* the requests that carry the key, retries included
          Prints,      \* the fingerprints (target and body) they may have
          NoRecord, NoOne,   \* null values
          MaxLapses,   \* bound: records that outlive their retention
          MaxFaults    \* bound: requests that die or whose store call fails

ASSUME BoundsAssumption ==
  /\ NoOne \notin Requests
  /\ NoRecord \notin [print : Prints, state : {"inFlight", "completed"},
                     response : Requests \union {NoOne}, live : BOOLEAN]
  /\ {MaxLapses, MaxFaults} \subseteq Nat

VARIABLES sql,       \* the store is the SQL one
          record,    \* the stored record: print, state, response and expiry
          pc,        \* where each request is
          print,     \* each request's fingerprint
          from,      \* whose response each request was given
          holder,    \* history: whose claim the record is
          acted,     \* history: requests whose handler answered
          streamed,  \* history: ... with a body that cannot be stored
          overrun,   \* history: a claim lapsed while its request was under way
          lost,      \* history: requests that died, or whose store call failed
          lapses

reqs == <<sql, pc, print, from>>
hist == <<acted, streamed, overrun, lost, lapses>>
vars == <<reqs, record, holder, hist>>

Active == {"running", "complete", "release"}
Claiming == {"claim", "replace", "read", "again"}

(* Mutant: a takeover leaves the old response in the record. *)
FreshKeepingResponse(r) ==
  [print |-> print[r], state |-> "inFlight", live |-> TRUE,
   response |-> IF record = NoRecord THEN NoOne ELSE record.response]

Fresh(r) == [print |-> print[r], state |-> "inFlight", response |-> NoOne, live |-> TRUE]

Init ==
  /\ sql \in BOOLEAN
  /\ record = NoRecord /\ holder = NoOne
  /\ pc = [r \in Requests |-> "idle"]
  /\ print \in [Requests -> Prints]
  /\ from = [r \in Requests |-> NoOne]
  /\ acted = {} /\ streamed = {} /\ overrun = FALSE /\ lost = {} /\ lapses = 0

Goto(r, next) == pc' = [pc EXCEPT ![r] = next] /\ UNCHANGED <<sql, print, from>>

-----------------------------------------------------------------------------
(* store.claim *)

(* The record becomes r's, and r runs the handler. *)
Claimed(r) ==
  /\ record' = Fresh(r)
  /\ holder' = r
  /\ Goto(r, "running")

(* The claim goes on to another call of the store. *)
Retries(r, next) == Goto(r, next) /\ UNCHANGED <<record, holder>>

Arrive(r) == pc[r] = "idle" /\ Retries(r, "claim") /\ UNCHANGED hist

(* insertOne; over SQL one INSERT ... ON CONFLICT that also takes over an    *)
(* expired record.                                                           *)
ClaimInsert(r) ==
  /\ pc[r] = "claim"
  /\ IF record = NoRecord \/ (sql /\ ~record.live)
       THEN Claimed(r)
       ELSE Retries(r, IF sql THEN "read" ELSE "replace")
  /\ UNCHANGED hist

(* Mutant: the takeover does not ask whether the record has expired. *)
ClaimReplaceAny(r) ==
  /\ pc[r] = "replace"
  /\ IF record # NoRecord THEN Claimed(r) ELSE Retries(r, "read")
  /\ UNCHANGED hist

(* Mongo: updateOne on { dedupKey, expiresAt <= now }. *)
ClaimReplace(r) ==
  /\ pc[r] = "replace"
  /\ IF record # NoRecord /\ ~record.live THEN Claimed(r) ELSE Retries(r, "read")
  /\ UNCHANGED hist

(* Mutant: the fingerprint is not compared. *)
VerdictUnprinted(r) == IF record.state = "inFlight" THEN "inFlight" ELSE "replayed"

(* What the guard answers to a duplicate. *)
Verdict(r) ==
  CASE record.print # print[r] -> "reused"     \* 422 idempotencyKeyReused
    [] record.print = print[r] /\ record.state = "inFlight" -> "inFlight"  \* 409
    [] OTHER -> "replayed"

ClaimRead(r) ==
  /\ pc[r] = "read"
  /\ IF record = NoRecord THEN Retries(r, "again")
     ELSE /\ pc' = [pc EXCEPT ![r] = Verdict(r)]
          /\ from' = [from EXCEPT ![r] = IF Verdict(r) = "replayed" THEN record.response ELSE NoOne]
          /\ UNCHANGED <<sql, print, record, holder>>
  /\ UNCHANGED hist

(* The key was free again: one more insert, whose failure is a StoreFailure. *)
ClaimAgain(r) ==
  /\ pc[r] = "again"
  /\ IF record = NoRecord THEN Claimed(r) ELSE Retries(r, "failed")
  /\ UNCHANGED hist

-----------------------------------------------------------------------------
(* The handler runs, and its exit settles the claim. *)

Answer(r) ==
  /\ pc[r] = "running"
  /\ Retries(r, "complete")
  /\ acted' = acted \union {r}
  /\ UNCHANGED <<streamed, overrun, lost, lapses>>

(* An answer whose body is a stream cannot be stored: the key is released.   *)
AnswerUnstorable(r) ==
  /\ pc[r] = "running"
  /\ Retries(r, "release")
  /\ acted' = acted \union {r}
  /\ streamed' = streamed \union {r}
  /\ UNCHANGED <<overrun, lost, lapses>>

(* A 5xx, a failure or a defect. *)
Refuse(r) == pc[r] = "running" /\ Retries(r, "release") /\ UNCHANGED hist

(* Mutant: an answer is given back like an outage. *)
CompleteReleasing(r) ==
  /\ pc[r] = "complete"
  /\ record' = NoRecord /\ holder' = NoOne
  /\ Goto(r, "answered")
  /\ UNCHANGED hist

(* complete: an update by dedupKey alone, which no record is also fine for. *)
Complete(r) ==
  /\ pc[r] = "complete"
  /\ record' = IF record = NoRecord THEN NoRecord
               ELSE [record EXCEPT !.state = "completed", !.response = r]
  /\ Goto(r, "answered")
  /\ UNCHANGED <<holder, hist>>

(* Mutant: an outage keeps the key. *)
ReleaseNothing(r) == pc[r] = "release" /\ Retries(r, "refused") /\ UNCHANGED hist

(* release: a delete by dedupKey alone. *)
Release(r) ==
  /\ pc[r] = "release"
  /\ record' = NoRecord /\ holder' = NoOne
  /\ Goto(r, "refused")
  /\ UNCHANGED hist

(* The store fails, the process dies, or the fiber is interrupted, which     *)
(* skips what follows Effect.exit: the record stays as it is.                *)
Lose(r) ==
  /\ pc[r] \in Active \union Claiming
  /\ Cardinality(lost) < MaxFaults
  /\ Retries(r, "failed")
  /\ lost' = lost \union {r}
  /\ UNCHANGED <<acted, streamed, overrun, lapses>>

(* now() passes expiresAt. *)
Lapse ==
  /\ record # NoRecord /\ record.live
  /\ lapses < MaxLapses
  /\ lapses' = lapses + 1
  /\ record' = [record EXCEPT !.live = FALSE]
  /\ overrun' = (overrun \/ pc[holder] \in Active)
  /\ UNCHANGED <<reqs, holder, acted, streamed, lost>>

(* Mongo's TTL index reaps an expired record. *)
Reap ==
  /\ ~sql /\ record # NoRecord /\ ~record.live
  /\ record' = NoRecord /\ holder' = NoOne
  /\ UNCHANGED <<reqs, hist>>

Next ==
  \/ \E r \in Requests :
       \/ Arrive(r) \/ ClaimInsert(r) \/ ClaimReplace(r) \/ ClaimRead(r) \/ ClaimAgain(r)
       \/ Answer(r) \/ AnswerUnstorable(r) \/ Refuse(r) \/ Complete(r) \/ Release(r) \/ Lose(r)
  \/ Lapse \/ Reap

Spec == Init /\ [][Next]_vars

-----------------------------------------------------------------------------
(* A record has a response exactly when it is completed. *)
TypeOK ==
  /\ sql \in BOOLEAN /\ print \in [Requests -> Prints] /\ overrun \in BOOLEAN
  /\ record \in {NoRecord} \union
       [print : Prints, state : {"inFlight", "completed"}, response : Requests \union {NoOne},
        live : BOOLEAN]
  /\ record # NoRecord => (record.state = "completed" <=> record.response # NoOne)
  /\ holder \in Requests \union {NoOne}
  /\ holder = NoOne <=> record = NoRecord
  /\ pc \in [Requests -> Active \union Claiming \union
       {"idle", "reused", "inFlight", "replayed", "answered", "refused", "failed"}]
  /\ from \in [Requests -> Requests \union {NoOne}]
  /\ streamed \subseteq acted /\ acted \subseteq Requests
  /\ lost \subseteq Requests /\ lapses \in 0 .. MaxLapses

(* idempotency-store.ts: "exactly one concurrent caller gets claimed": no    *)
(* two handlers run under one key, however the calls of the claims cut each  *)
(* other, as long as no request outlasts its record's retention.             *)
OneAtATime ==
  \A q, r \in Requests : q # r /\ pc[q] \in Active /\ pc[r] \in Active => overrun

(* The key acts once in a retention: retries, outages, releases between two  *)
(* calls of a claim and requests that die do not make it act again.          *)
OneActPerRetention ==
  ~overrun => Cardinality(acted \ streamed) <= 1 + lapses

(* What a duplicate is replayed is an answer given to that very request,     *)
(* by a handler that ran to its end and whose body could be stored.          *)
ReplaysItsAnswer ==
  ~overrun => \A r \in Requests : pc[r] = "replayed" =>
                /\ from[r] \in acted \ streamed
                /\ print[from[r]] = print[r]

(* An outage gives the key back: a key in flight is one whose request is     *)
(* still under way, or was cut off before it could say how it ended.         *)
KeyGivenBack ==
  record # NoRecord /\ record.state = "inFlight"
    => pc[holder] \in Active \/ holder \in lost
=============================================================================
