----------------------------- MODULE MCCatalog -----------------------------
(* Small instances of Catalog: the default namespace, a second namespace of *)
(* the default database, and a second database.                             *)
EXTENDS Catalog

MCNamespace == {DefaultNs, [db |-> Default, schema |-> "x"], [db |-> "other", schema |-> Default]}
=============================================================================
