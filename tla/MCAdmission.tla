---------------------------- MODULE MCAdmission ----------------------------
(* Small instances of Admission: two tenants, one user, one credential and   *)
(* two requests of one caller, which are interchangeable.                    *)
EXTENDS Admission, TLC

MCAsked == {{"Read", "Write"}}
MCSymmetry == Permutations(Request)
MCActorOf == [r \in Request |-> CHOOSE a \in Actor : TRUE]
============================================================================
