-------------------------- MODULE MCMutationIntent --------------------------
(* A small instance of MutationIntent: two entities in two collections, two  *)
(* calls in flight.                                                          *)
EXTENDS MutationIntent, TLC

CONSTANTS a, b, ca, cb, i1, r1, r2

TwoCollections == a :> ca @@ b :> cb

\* One entity at a time, and a transaction over both.
MCOperation == {a :> "create", a :> "update" @@ b :> "delete"}

Calls == Permutations({r1, r2})
=============================================================================
