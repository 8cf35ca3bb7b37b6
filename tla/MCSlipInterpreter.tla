-------------------------- MODULE MCSlipInterpreter --------------------------
(***************************************************************************)
(* The slips the interpreter is checked on.                                *)
(***************************************************************************)
EXTENDS SlipInterpreter

MCOutcomes == {"yes", "late"}

Plain(kind, stage, segment) ==
  [kind |-> kind, stage |-> stage, segment |-> segment, guard |-> 0, on |-> {},
   accepts |-> {}, onTimeout |-> "never"]

(* A basket of two vendors, joined before the payment. *)
FanOut == <<Plain("compensatable", 1, "v1"), Plain("compensatable", 1, "v2"),
            Plain("compensatable", 2, NoSegment), Plain("pivot", 2, NoSegment),
            Plain("retriable", 3, NoSegment)>>

(* A wait whose timeout answers, and the branch taken on what it was answered. *)
Branch == <<Plain("compensatable", 1, NoSegment), Plain("pivot", 1, NoSegment),
            [Plain("wait", 1, NoSegment) EXCEPT !.accepts = {"yes"}, !.onTimeout = "late"],
            [Plain("retriable", 1, NoSegment) EXCEPT !.guard = 3, !.on = {"yes"}],
            [Plain("retriable", 1, NoSegment) EXCEPT !.guard = 3, !.on = {"late"}]>>

(* The pivot in one segment, another segment at work beside it. *)
Beside == <<Plain("compensatable", 1, "v1"), Plain("compensatable", 1, "v2"),
            Plain("pivot", 1, "v2"), Plain("wait", 1, "v2"), Plain("retriable", 2, NoSegment)>>

(* Past the pivot, a wait that strands beside a vendor's two steps. *)
Strands == <<Plain("pivot", 1, NoSegment),
             [Plain("wait", 2, "v1") EXCEPT !.onTimeout = "strand"],
             Plain("retriable", 2, "v2"), Plain("retriable", 2, "v2")>>

(* A flow that ends on a wait, whose timeout suspends it. *)
Suspends == <<Plain("pivot", 1, NoSegment), [Plain("wait", 1, NoSegment) EXCEPT !.onTimeout = "fail"]>>

(* A strand beside a step before the pivot. *)
Raced == <<Plain("compensatable", 1, "v1"), Plain("pivot", 1, "v2"),
           [Plain("wait", 1, "v2") EXCEPT !.onTimeout = "strand"]>>

(* A guard on a wait of another vendor. *)
Across == <<Plain("pivot", 1, NoSegment), [Plain("wait", 2, "v1") EXCEPT !.accepts = {"yes"}],
            [Plain("retriable", 2, "v2") EXCEPT !.guard = 2, !.on = {"yes"}]>>

(* One call past the pivot. *)
Committed == <<Plain("pivot", 1, NoSegment), Plain("retriable", 1, NoSegment)>>

MCCommitted == {Committed}
MCSlips == {FanOut, Branch, Beside, Strands, Suspends, Raced, Across}

=============================================================================
