---------------------------- MODULE UnitPromise ----------------------------
(***************************************************************************)
(* What a unit of work promises its callers, whatever the store does       *)
(* (transactions/src/contracts/unit-of-work.ts): the work of a run, its    *)
(* claim, the row of its aggregate and its event, is durable together or   *)
(* not at all, once for its claim and once for its event, and how the run  *)
(* is said to have ended is how it did.                                    *)
(***************************************************************************)
EXTENDS Naturals

CONSTANTS Runs, Commands, NoOne

VARIABLES asks,       \* what each run asks: its claim, its event, its version
          stale,      \* the runs that have found their event stale
          landed,     \* the runs whose work is durable
          taken,      \* the run that took each claim
          recorded,   \* the run that recorded each event
          row,        \* the version the aggregate's row is at
          answer      \* how each run was said to have ended

durable == <<landed, taken, recorded, row>>
vars == <<asks, stale, durable, answer>>

Init ==
  /\ landed = {} /\ stale = {} /\ row = 0
  /\ taken \in [DOMAIN taken -> {NoOne}]
  /\ recorded \in [DOMAIN recorded -> {NoOne}]
  /\ answer = [r \in Runs |-> [tag |-> "none", replay |-> NoOne]]

(* An attempt of r finds the aggregate at its version already, or past it.   *)
FindsStale(r) ==
  /\ asks[r].version <= row
  /\ stale' = stale \union {r}
  /\ UNCHANGED <<asks, durable, answer>>

(* That attempt is over; another one reads the aggregate again.              *)
Forgets(r) == stale' = stale \ {r} /\ UNCHANGED <<asks, durable, answer>>

(* All that r asks becomes durable together; the claim alone only if r found *)
(* its event stale. It may do so after its commit was reported as failed.    *)
Land(r) ==
  LET c == asks[r].claim  e == asks[r].event IN
  /\ r \notin landed /\ answer[r].tag \in {"none", "failed"}
  /\ landed' = landed \union {r} /\ stale' = stale \ {r}
  /\ IF c = NoOne THEN UNCHANGED taken
                  ELSE taken[c] = NoOne /\ taken' = [taken EXCEPT ![c] = r]
  /\ IF r \in stale THEN UNCHANGED <<recorded, row>>
     ELSE /\ recorded[e] = NoOne /\ recorded' = [recorded EXCEPT ![e] = r]
          /\ row' = asks[r].version
  /\ UNCHANGED <<asks, answer>>

Ends(r, tag, replay) ==
  /\ answer[r].tag = "none"
  /\ answer' = [answer EXCEPT ![r] = [tag |-> tag, replay |-> replay]]
  /\ stale' \in {stale, stale \ {r}}
  /\ UNCHANGED <<asks, durable>>

Remembered(r) == IF asks[r].claim \in Commands THEN taken[asks[r].claim] ELSE NoOne

AlreadyDone(r) ==
  \/ asks[r].claim # NoOne /\ taken[asks[r].claim] # NoOne
  \/ recorded[asks[r].event] # NoOne

Committed(r) == r \in landed /\ Ends(r, "committed", NoOne)
Duplicate(r) == r \notin landed /\ AlreadyDone(r) /\ Ends(r, "duplicate", Remembered(r))
Aborted(r)   == r \notin landed /\ Ends(r, "aborted", NoOne)
Failed(r)    == Ends(r, "failed", NoOne)

Next == \E r \in Runs : \/ FindsStale(r) \/ Forgets(r) \/ Land(r)
                        \/ Committed(r) \/ Duplicate(r) \/ Aborted(r) \/ Failed(r)

Spec == Init /\ [][Next]_vars
=============================================================================
