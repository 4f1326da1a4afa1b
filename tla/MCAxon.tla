------------------------------- MODULE MCAxon -------------------------------
(* Small instances of Axon for TLC.  Documents are two values; a patch names *)
(* the value it merges in, or leaves the document as it is.                  *)
EXTENDS Axon, TLC

CONSTANTS e1, e2, l1, ents, lnks, d1, d2, keep, s1, s2

MCCollectionOf == [k \in Key |-> IF k \in Link THEN lnks ELSE ents]
MCSource == [l \in Link |-> e1]
MCTarget == [l \in Link |-> e2]
MCMerge(d, p) == IF p = keep THEN d ELSE p

SymmetrySet == Permutations(Session) \cup Permutations(Data)
=============================================================================
