-------------------------- MODULE MCIdempotencyKey --------------------------
(* Four requests under one key, of two fingerprints. *)
EXTENDS IdempotencyKey, TLC

CONSTANTS r1, r2, r3, r4, f, g

Interchangeable == Permutations(Requests) \union Permutations(Prints)
=============================================================================
