--------------------------- MODULE MCIdempotency ---------------------------
(* A small instance of Idempotency: three requests, one or two keys.         *)
EXTENDS Idempotency, TLC

CONSTANTS k1, k2, r1, r2, r3

Slots == Permutations(Request)
=============================================================================
