--------------------------- MODULE MCOutboxRelay ---------------------------
(* Two versions of aggregate A, which fill a batch, and a later event of B. *)
(* Those of A carry the same millisecond: only the version orders them.     *)
EXTENDS OutboxRelay

CONSTANTS a1, a2, b1, A, B

MCAggOf     == [e \in Events |-> IF e = b1 THEN B ELSE A]
MCVersionOf == [e \in Events |-> IF e = a2 THEN 2 ELSE 1]
MCAtOf      == [e \in Events |-> IF e = b1 THEN 2 ELSE 1]
=============================================================================
