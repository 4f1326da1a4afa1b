------------------------------ MODULE Indexes -------------------------------
(* One collection of the memory adapter: its schema versions, its rows, and  *)
(* the secondary indexes that every write keeps up with them.                *)
(*                                                                           *)
(* A row is indexed under the declarations of the schema version it is       *)
(* stamped with, or of the latest version when it has no stamp: the requests *)
(* that carry one entity stamp it, the operations of a transaction do not.   *)
EXTENDS Documents, Sequences, FiniteSets

CONSTANTS
    Id,          \* entity ids
    Field,       \* field names
    Value,       \* indexable values
    Document,    \* documents clients send: functions from Field
    Schema,      \* schemas clients put: see Declarations
    MaxVersion   \* bound: schema versions of a collection

Declarations ==  \* a compound index is known by its position in the list
    [idx : SUBSET Field, uniq : SUBSET Field, comp : Seq(Seq(Field)), compUniq : BOOLEAN]

ASSUME SchemaAssumption ==
    Schema \subseteq {s \in Declarations : s.uniq \subseteq s.idx}
ASSUME DocumentAssumption ==
    /\ Document \subseteq [Field -> Value \cup {Null, Missing}]
    /\ Value \subseteq Nat /\ {Null, Missing} \cap Value = {} /\ Null # Missing

Absent == [absent |-> TRUE]
NoSchema == [idx |-> {}, uniq |-> {}, comp |-> <<>>, compUniq |-> FALSE]

VARIABLES
    registered, \* the collection is in the catalogue
    versions,   \* schema_versions: version n is versions[n]
    rows,       \* data: id |-> [data, stamp, under], or Absent
    single,     \* indexes: entries [field, value, id]
    compound    \* compound_indexes: entries [pos, key, id]

\* `stamp' is the entity's schema_version, 0 for none.  `under' is the version
\* whose declarations the last write used: history, read by properties only.

vars == <<registered, versions, rows, single, compound>>

Init ==
    /\ registered = FALSE
    /\ versions = <<>>
    /\ rows = [i \in Id |-> Absent]
    /\ single = {} /\ compound = {}

----------------------------------------------------------------------------
(* Index maintenance                                                         *)

Latest == Len(versions)

\* The version whose declarations apply to a row stamped v, 0 for none.
Applies(v) == IF v \in DOMAIN versions THEN v ELSE Latest

Declared(v) == IF v \in DOMAIN versions THEN versions[v] ELSE NoSchema

index_defs_for_key(v) == Declared(Applies(v))

\* The entries a document has under some declarations: a null, missing or
\* ill-typed field has none.
SingleEntries(i, d, defs) ==
    {e \in [field : defs.idx, value : Value, id : {i}] : e.value = d[e.field]}

\* A compound index needs all of its fields.
extract_compound_key(d, fields) ==
    IF \A n \in DOMAIN fields : d[fields[n]] \in Value
    THEN {[n \in DOMAIN fields |-> d[fields[n]]]} ELSE {}

CompoundEntries(i, d, defs) ==
    UNION {{[pos |-> n, key |-> k, id |-> i] : k \in extract_compound_key(d, defs.comp[n])} :
               n \in DOMAIN defs.comp}

SingleConflict(i, d, defs) ==
    \E e \in single : e.id # i /\ e.field \in defs.uniq /\ e.value = d[e.field]

CompoundConflict(i, d, defs) ==
    /\ defs.compUniq
    /\ \E e \in compound, n \in CompoundEntries(i, d, defs) : e.id # i /\ e.pos = n.pos /\ e.key = n.key

\* Mutant: compound keys are not checked.
UniqueViolationSingleOnly(i, d, defs) == SingleConflict(i, d, defs)

\* A unique value another entity holds refuses the write before any change.
UniqueViolation(i, d, defs) == SingleConflict(i, d, defs) \/ CompoundConflict(i, d, defs)

\* Mutant: an update leaves the entries of the old document.
maintain_without_removal(i, d, defs) == single' = single \cup SingleEntries(i, d, defs)

\* Mutant: old entries are removed after the new ones are added.
maintain_removing_last(i, d, defs) ==
    compound' = (compound \cup CompoundEntries(i, d, defs)) \
        (IF rows[i] = Absent THEN {} ELSE CompoundEntries(i, rows[i].data, defs))

\* The old keys are computed from the old document by the new declarations.
maintain_single_indexes(i, d, defs) ==
    single' = (IF rows[i] = Absent THEN single ELSE single \ SingleEntries(i, rows[i].data, defs))
                  \cup SingleEntries(i, d, defs)

maintain_compound_indexes(i, d, defs) ==
    compound' = (IF rows[i] = Absent THEN compound ELSE compound \ CompoundEntries(i, rows[i].data, defs))
                    \cup CompoundEntries(i, d, defs)

\* put, compare_and_swap and create_if_absent, once their own check passed.
Write(i, d, stamp) ==
    LET defs == index_defs_for_key(stamp) IN
    /\ ~UniqueViolation(i, d, defs)
    /\ maintain_single_indexes(i, d, defs)
    /\ maintain_compound_indexes(i, d, defs)
    /\ rows' = [rows EXCEPT ![i] = [data |-> d, stamp |-> stamp, under |-> Applies(stamp)]]
    /\ UNCHANGED <<registered, versions>>

\* delete: the entries are computed from the row's own stamp.
Remove(i) ==
    LET defs == index_defs_for_key(rows[i].stamp) IN
    /\ rows[i] # Absent
    /\ single' = single \ SingleEntries(i, rows[i].data, defs)
    /\ compound' = compound \ CompoundEntries(i, rows[i].data, defs)
    /\ rows' = [rows EXCEPT ![i] = Absent]
    /\ UNCHANGED <<registered, versions>>

----------------------------------------------------------------------------
(* Requests.  One that carries one entity is a storage transaction of its    *)
(* own, undone as a whole when the write is refused.                         *)

create_entity(i, d) == Write(i, d, Latest)

update_entity(i, d) == rows[i] # Absent /\ Write(i, d, Latest)

delete_entity(i) == Remove(i)

\* A schema may be put, and rows written, before the collection is created.
put_schema(s) ==
    /\ Len(versions) < MaxVersion
    /\ versions' = Append(versions, s)
    /\ UNCHANGED <<registered, rows, single, compound>>

create_collection(s) ==
    /\ ~registered
    /\ Len(versions) < MaxVersion
    /\ registered' = TRUE
    /\ versions' = Append(versions, s)
    /\ UNCHANGED <<rows, single, compound>>

\* drop_collection: its rows one by one, its schemas, then whatever entries
\* are left under its key.
drop_collection ==
    /\ registered
    /\ registered' = FALSE
    /\ versions' = <<>>
    /\ rows' = [i \in Id |-> Absent]
    /\ single' = {} /\ compound' = {}

\* The operations of a transaction's commit.  The handler is locked for the
\* whole of it, and what an abort restores was reachable before, so a commit of
\* several operations is several of these steps.
commit_create(i, d) == rows[i] = Absent /\ Write(i, d, 0)
commit_update(i, d) == rows[i] # Absent /\ Write(i, d, 0)
commit_delete(i) == Remove(i)

Next ==
    \/ \E i \in Id, d \in Document : create_entity(i, d) \/ update_entity(i, d)
    \/ \E i \in Id : delete_entity(i)
    \/ \E s \in Schema : put_schema(s) \/ create_collection(s)
    \/ drop_collection
    \/ \E i \in Id, d \in Document : commit_create(i, d) \/ commit_update(i, d)
    \/ \E i \in Id : commit_delete(i)

Spec == Init /\ [][Next]_vars

----------------------------------------------------------------------------
Row == [data : Document, stamp : Nat, under : Nat]
Entry == [field : Field, value : Value, id : Id]

(* The variables keep their types, and a row names a version that exists.    *)
TypeOK ==
    /\ registered \in BOOLEAN
    /\ versions \in Seq(Schema)
    /\ rows \in [Id -> Row \cup {Absent}]
    /\ \A i \in Id : rows[i] # Absent => rows[i].stamp \in 0..Latest /\ rows[i].under \in 0..Latest
    /\ single \subseteq Entry

(* The index answers for every row: under the declarations its last write    *)
(* used, a row has all of its entries, whatever schemas were put and         *)
(* whatever other rows were written, deleted or rolled back since.           *)
IndexHoldsRows ==
    \A i \in Id : rows[i] # Absent =>
        /\ SingleEntries(i, rows[i].data, Declared(rows[i].under)) \subseteq single
        /\ CompoundEntries(i, rows[i].data, Declared(rows[i].under)) \subseteq compound

\* Documents d and e, written under declarations di and dj, share no value
\* that both declare unique.
UniqueBetween(d, di, e, dj) ==
    /\ \A f \in di.uniq \cap dj.uniq : d[f] \in Value => d[f] # e[f]
    /\ di.compUniq /\ dj.compUniq => \A n \in DOMAIN di.comp \cap DOMAIN dj.comp :
          di.comp[n] = dj.comp[n] =>
              extract_compound_key(d, di.comp[n]) \cap extract_compound_key(e, dj.comp[n]) = {}

(* Two rows whose last writes found the field declared unique never share a  *)
(* value of it, and likewise a compound key: uniqueness is checked against   *)
(* the entries before the write, inside the same storage transaction.        *)
UniqueHolds ==
    \A i, j \in Id : i # j /\ rows[i] # Absent /\ rows[j] # Absent =>
        UniqueBetween(rows[i].data, Declared(rows[i].under), rows[j].data, Declared(rows[j].under))

\* Declared in every version of the schema so far.
Steady(f) == \A n \in DOMAIN versions : f \in versions[n].idx

(* A field every version declares has no entry but those of the rows there   *)
(* are: an update moves its entries and a delete, a rollback or a drop takes *)
(* them away.  (A field that a version in between does not declare may keep  *)
(* entries of rows long gone: the removal only looks at declared fields.)    *)
NoStaleEntries ==
    \A e \in single : Steady(e.field) =>
        rows[e.id] # Absent /\ rows[e.id].data[e.field] = e.value
=============================================================================
