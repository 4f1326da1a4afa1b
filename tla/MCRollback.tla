----------------------------- MODULE MCRollback -----------------------------
(* Small instances of Rollback for TLC.                                      *)
EXTENDS Rollback, TLC

CONSTANTS e1, e2, c1, d1, d2

MCCollectionOf == [k \in Id |-> c1]

Operation ==
    {[kind |-> "create", key |-> k, data |-> d1] : k \in Id} \cup
    {[kind |-> "update", key |-> k, data |-> d2] : k \in Id} \cup
    {[kind |-> "delete", key |-> k, data |-> Nil] : k \in Id}

UpToTwo == {<<o>> : o \in Operation} \cup {<<o, p>> : o, p \in Operation}

Symmetry == Permutations(Id)
=============================================================================
