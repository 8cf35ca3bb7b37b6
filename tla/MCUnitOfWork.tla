---------------------------- MODULE MCUnitOfWork ----------------------------
(* Instance: a command delivered twice and another one on its aggregate; and  *)
(* events folded by one consumer, one emitted twice under different claims.   *)
EXTENDS UnitOfWork, TLC

CONSTANTS r1, r2, r3, c1, c2, f1, e1, e2

Ask(c, e, v) == [claim |-> c, event |-> e, version |-> v]

MCScenarios ==
  { r1 :> Ask(c1, e1, 1) @@ r2 :> Ask(c1, e1, 1) @@ r3 :> Ask(c2, e2, 2),
    r1 :> Ask(c1, e1, 1) @@ r2 :> Ask(f1, e1, 1) @@ r3 :> Ask(NoOne, e2, 2),
    r1 :> Ask(f1, e1, 2) @@ r2 :> Ask(NoOne, e2, 1) @@ r3 :> Ask(NoOne, e2, 1) }
=============================================================================
