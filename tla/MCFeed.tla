------------------------------- MODULE MCFeed -------------------------------
(* Small instances of Feed for TLC: entity ids are numbers, in order.        *)
EXTENDS Feed
=============================================================================
