---------------------------- MODULE MCSqlOutbox ----------------------------
(* Two versions of one aggregate, over SqlOutbox. *)
EXTENDS SqlOutbox

CONSTANTS a1, a2, A

MCAggOf     == [e \in Events |-> A]
MCVersionOf == [e \in Events |-> IF e = a1 THEN 1 ELSE 2]
MCAtOf      == MCVersionOf
=============================================================================
