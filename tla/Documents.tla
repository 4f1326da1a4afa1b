----------------------------- MODULE Documents ------------------------------
(* JSON documents, reduced to what filters, policies and indexes tell apart: *)
(* functions from field names to natural numbers, Null, or Missing for a     *)
(* field that is not there.                                                  *)
EXTENDS Integers

CONSTANTS
    Null,     \* JSON null, or a value of another type than the index
    Missing   \* no value

\* None before Null before the numbers in their order.
Rank(v) == IF v = Missing THEN -2 ELSE IF v = Null THEN -1 ELSE v

compare_values(a, b) ==
    IF Rank(a) < Rank(b) THEN "Less" ELSE IF Rank(a) = Rank(b) THEN "Equal" ELSE "Greater"
=============================================================================
