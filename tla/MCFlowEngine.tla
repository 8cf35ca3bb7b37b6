----------------------------- MODULE MCFlowEngine -----------------------------
(***************************************************************************)
(* The slips the flow engine is checked on: what precedes the pivot does   *)
(* not matter to it.                                                       *)
(***************************************************************************)
EXTENDS FlowEngine

MCOutcomes == {"yes", "late"}

Plain(kind, stage, segment) ==
  [kind |-> kind, stage |-> stage, segment |-> segment, guard |-> 0, on |-> {},
   accepts |-> {}, onTimeout |-> "never"]

(* A courier's report, then a person's answer, which may time out. *)
TwoWaits == <<Plain("pivot", 1, NoSegment),
              [Plain("wait", 1, NoSegment) EXCEPT !.accepts = {"yes"}],
              [Plain("wait", 1, NoSegment) EXCEPT !.onTimeout = "late"]>>

(* Two vendors, one of which waits. *)
Vendors == <<Plain("pivot", 1, NoSegment),
             Plain("wait", 2, "v1"), Plain("retriable", 2, "v2")>>

MCSymmetry ==
  Permutations(Starters) \union Permutations(Signallers) \union Permutations(Flows)

MCVendors == {Vendors}
MCSlips == {TwoWaits, Vendors}

=============================================================================
