---------------------------- MODULE QueryProofs -----------------------------
(* Theorems about the secondary indexes, the queries that go through them    *)
(* and the policies that narrow and decide them, for any ids, fields,        *)
(* documents, schemas, filters, policies and subjects.                       *)
EXTENDS TransactionPolicy, WellFoundedInduction, TLAPS

\* A leaf that names no prover goes to SMT, then to Zenon, then to SMT for longer.
USE SMT, Zenon, SMTT(60)

----------------------------------------------------------------------------
(* The indexes                                                               *)

\* The inductive invariant.  An index without a schema is empty: without that
\* conjunct an entry that no version declares could survive an update.
IInv ==
    /\ TypeOK
    /\ IndexHoldsRows
    /\ UniqueHolds
    /\ NoStaleEntries
    /\ versions = <<>> => single = {}

\* What the entries of a document name.
LEMMA EntriesNameTheirRow ==
    ASSUME NEW i, NEW d, NEW defs
    PROVE  /\ \A e \in SingleEntries(i, d, defs) :
                 e.id = i /\ e.field \in defs.idx /\ e.value \in Value /\ e.value = d[e.field]
           /\ \A e \in CompoundEntries(i, d, defs) : e.id = i
BY DEF SingleEntries, CompoundEntries

(* Every compound key of a document has its entry.                            *)
LEMMA KeyHasEntry ==
    ASSUME NEW i, NEW d, NEW defs, NEW n \in DOMAIN defs.comp, NEW k \in extract_compound_key(d, defs.comp[n])
    PROVE  [pos |-> n, key |-> k, id |-> i] \in CompoundEntries(i, d, defs)
BY DEF CompoundEntries

(* A stored row is not the mark of an absent one.                             *)
LEMMA RowIsNotAbsent ==
    ASSUME NEW r \in Row
    PROVE  r # Absent
<1>1. DOMAIN r = {"data", "stamp", "under"}  BY DEF Row
<1>2. DOMAIN Absent = {"absent"}  BY DEF Absent
<1> QED  BY <1>1, <1>2

(* What a schema declares, or the lack of one.                                *)
LEMMA SchemaFields ==
    ASSUME NEW s \in Schema \cup {NoSchema}
    PROVE  s.idx \subseteq Field /\ s.uniq \subseteq s.idx /\ s.comp \in Seq(Seq(Field))
<1>1. CASE s = NoSchema  BY <1>1 DEF NoSchema
<1>2. CASE s \in Schema  BY <1>2, SchemaAssumption DEF Declarations
<1> QED  BY <1>1, <1>2

(* Every version number has a schema, or none.                                *)
LEMMA DeclaredIsSchema ==
    ASSUME TypeOK, NEW v
    PROVE  Declared(v) \in Schema \cup {NoSchema}
BY DEF TypeOK, Declared

(* The version that applies is one there is.                                  *)
LEMMA AppliesInRange ==
    ASSUME TypeOK, NEW v \in 0..Latest
    PROVE  Applies(v) \in 0..Latest
BY DEF TypeOK, Applies, Latest

\* A schema put later changes nothing of what an earlier version declares.
LEMMA PutKeepsDeclared ==
    ASSUME TypeOK, NEW s \in Schema, versions' = Append(versions, s)
    PROVE  /\ versions' \in Seq(Schema)
           /\ Len(versions') = Len(versions) + 1
           /\ \A v \in 0..Latest : Declared(v)' = Declared(v)
           /\ \A n \in DOMAIN versions : n \in DOMAIN versions' /\ versions'[n] = versions[n]
<1>1. versions \in Seq(Schema)  BY DEF TypeOK
<1>2. versions' \in Seq(Schema) /\ Len(versions') = Len(versions) + 1
      /\ \A n \in 1..Len(versions) : versions'[n] = versions[n]
  BY <1>1
<1>3. DOMAIN versions = 1..Len(versions) /\ DOMAIN versions' = 1..(Len(versions) + 1) /\ Len(versions) \in Nat
  BY <1>1, <1>2
<1>4. ASSUME NEW v \in 0..Latest PROVE Declared(v)' = Declared(v)
  <2>1. CASE v = 0  BY <2>1, <1>3 DEF Declared
  <2>2. CASE v \in 1..Len(versions)  BY <2>2, <1>2, <1>3 DEF Declared
  <2> QED  BY <2>1, <2>2, <1>3 DEF Latest
<1> QED  BY <1>2, <1>3, <1>4

(* Not sharing unique values goes both ways.                                  *)
LEMMA UniqueIsSymmetric ==
    ASSUME NEW d, NEW di, NEW e, NEW dj, UniqueBetween(d, di, e, dj)
    PROVE  UniqueBetween(e, dj, d, di)
BY DEF UniqueBetween

\* A field every version declares is declared for any write there can be.
LEMMA LatestDeclares ==
    ASSUME TypeOK, versions # <<>>, NEW f, Steady(f), NEW v
    PROVE  f \in Declared(Applies(v)).idx
<1>1. versions \in Seq(Schema) /\ Latest \in DOMAIN versions  BY DEF TypeOK, Latest
<1>2. Applies(v) \in DOMAIN versions  BY <1>1 DEF Applies
<1> QED  BY <1>2 DEF Declared, Steady

----------------------------------------------------------------------------
(* The invariant holds before the first request.                              *)
LEMMA InitInv == Init => IInv
<1> SUFFICES ASSUME Init PROVE IInv  OBVIOUS
<1>1. TypeOK
  <2>1. versions \in Seq(Schema) /\ Latest = 0  BY DEF Init, Latest
  <2>2. \A i \in Id : rows[i] = Absent  BY DEF Init
  <2> QED  BY Zenon, <2>1, <2>2 DEF Init, TypeOK, Absent
<1>2. IndexHoldsRows /\ UniqueHolds /\ NoStaleEntries  BY DEF Init, IndexHoldsRows, UniqueHolds, NoStaleEntries
<1> QED  BY <1>1, <1>2 DEF Init, IInv

\* A write by put, compare_and_swap or create_if_absent.
LEMMA WriteInv ==
    ASSUME IInv, NEW i \in Id, NEW d \in Document, NEW stamp \in 0..Latest, Write(i, d, stamp)
    PROVE  IInv'
<1> DEFINE defs == index_defs_for_key(stamp)
<1> DEFINE row == [data |-> d, stamp |-> stamp, under |-> Applies(stamp)]
<1>t. TypeOK  BY DEF IInv
<1>w. /\ ~UniqueViolation(i, d, defs)
      /\ maintain_single_indexes(i, d, defs)
      /\ maintain_compound_indexes(i, d, defs)
      /\ rows' = [rows EXCEPT ![i] = row]
      /\ UNCHANGED <<registered, versions>>
  BY DEF Write
<1> HIDE DEF defs
<1>a. Applies(stamp) \in 0..Latest  BY <1>t, AppliesInRange
<1>d. defs = Declared(Applies(stamp)) /\ defs \in Schema \cup {NoSchema}
  BY <1>t, DeclaredIsSchema DEF defs, index_defs_for_key
<1>f. defs.idx \subseteq Field /\ defs.uniq \subseteq defs.idx  BY <1>d, SchemaFields
<1>v. versions' = versions /\ Latest' = Latest /\ \A v : Declared(v)' = Declared(v)
  BY <1>w DEF Latest, Declared
<1>r. row \in Row /\ row # Absent /\ row.data = d /\ row.stamp = stamp /\ row.under = Applies(stamp)
  <2>1. Latest \in Nat  BY <1>t DEF TypeOK, Latest
  <2>2. row \in Row  BY <2>1, <1>a DEF Row
  <2> QED  BY <2>2, RowIsNotAbsent
<1>o. \A j \in Id : rows'[j] = IF j = i THEN row ELSE rows[j]
  BY <1>w, <1>t DEF TypeOK
<1> HIDE DEF row
<1>1. TypeOK'
  <2>1. rows' \in [Id -> Row \cup {Absent}]  BY <1>w, <1>r, <1>t DEF TypeOK
  <2>2. \A j \in Id : rows'[j] # Absent => rows'[j].stamp \in 0..Latest' /\ rows'[j].under \in 0..Latest'
    BY <1>o, <1>r, <1>a, <1>v, <1>t DEF TypeOK
  <2>3. single' \subseteq Entry
    <3>1. SingleEntries(i, d, defs) \subseteq Entry  BY <1>f DEF SingleEntries, Entry
    <3> QED  BY <3>1, <1>w, <1>t DEF maintain_single_indexes, TypeOK
  <2> QED  BY <2>1, <2>2, <2>3, <1>w, <1>v, <1>t DEF TypeOK
<1>2. IndexHoldsRows'
  <2> SUFFICES ASSUME NEW j \in Id, rows'[j] # Absent
               PROVE  /\ SingleEntries(j, rows'[j].data, Declared(rows'[j].under)) \subseteq single'
                      /\ CompoundEntries(j, rows'[j].data, Declared(rows'[j].under)) \subseteq compound'
    BY <1>v DEF IndexHoldsRows, Declared
  <2>1. CASE j = i
    BY <2>1, <1>o, <1>r, <1>d, <1>w DEF maintain_single_indexes, maintain_compound_indexes
  <2>2. CASE j # i
    <3>1. rows'[j] = rows[j] /\ rows[j] # Absent  BY <2>2, <1>o
    <3>2. /\ SingleEntries(j, rows[j].data, Declared(rows[j].under)) \subseteq single
          /\ CompoundEntries(j, rows[j].data, Declared(rows[j].under)) \subseteq compound
      BY <3>1 DEF IInv, IndexHoldsRows
    <3>3. \A e : e \in SingleEntries(j, rows[j].data, Declared(rows[j].under)) => e.id = j
      BY EntriesNameTheirRow
    <3>4. \A e : e \in CompoundEntries(j, rows[j].data, Declared(rows[j].under)) => e.id = j
      BY EntriesNameTheirRow
    <3>5. \A e : e \in SingleEntries(i, rows[i].data, defs) \cup CompoundEntries(i, rows[i].data, defs) => e.id = i
      BY EntriesNameTheirRow
    <3> QED  BY <2>2, <3>1, <3>2, <3>3, <3>4, <3>5, <1>w DEF maintain_single_indexes, maintain_compound_indexes
  <2> QED  BY <2>1, <2>2
<1>3. UniqueHolds'
  <2>1. ASSUME NEW j \in Id, j # i, rows[j] # Absent
        PROVE  UniqueBetween(d, defs, rows[j].data, Declared(rows[j].under))
    <3> DEFINE dj == Declared(rows[j].under)
    <3>1. dj.uniq \subseteq dj.idx  BY <1>t, DeclaredIsSchema, SchemaFields
    <3>2. ASSUME NEW f \in defs.uniq \cap dj.uniq, d[f] \in Value, d[f] = rows[j].data[f]
          PROVE  FALSE
      <4>1. [field |-> f, value |-> d[f], id |-> j] \in SingleEntries(j, rows[j].data, dj)
        BY <3>1, <3>2 DEF SingleEntries
      <4>2. [field |-> f, value |-> d[f], id |-> j] \in single
        BY <4>1, <2>1 DEF IInv, IndexHoldsRows
      <4> QED  BY <4>2, <2>1, <3>2, <1>w DEF UniqueViolation, SingleConflict
    <3>3. ASSUME defs.compUniq, NEW n \in DOMAIN defs.comp \cap DOMAIN dj.comp, defs.comp[n] = dj.comp[n],
                 NEW k \in extract_compound_key(d, defs.comp[n]) \cap extract_compound_key(rows[j].data, dj.comp[n])
          PROVE  FALSE
      <4>1. [pos |-> n, key |-> k, id |-> j] \in CompoundEntries(j, rows[j].data, dj)
        BY <3>3, KeyHasEntry
      <4>2. [pos |-> n, key |-> k, id |-> j] \in compound
        BY <4>1, <2>1 DEF IInv, IndexHoldsRows
      <4>3. [pos |-> n, key |-> k, id |-> i] \in CompoundEntries(i, d, defs)
        BY <3>3, KeyHasEntry
      <4> QED  BY Zenon, <4>2, <4>3, <2>1, <3>3, <1>w DEF UniqueViolation, CompoundConflict
    <3> HIDE DEF dj
    <3> QED  BY <3>2, <3>3 DEF UniqueBetween, dj
  <2> SUFFICES ASSUME NEW j \in Id, NEW k \in Id, j # k, rows'[j] # Absent, rows'[k] # Absent
               PROVE  UniqueBetween(rows'[j].data, Declared(rows'[j].under),
                                    rows'[k].data, Declared(rows'[k].under))
    BY <1>v DEF UniqueHolds, Declared
  <2>2. CASE j = i  BY <2>1, <2>2, <1>o, <1>r, <1>d
  <2>3. CASE k = i  BY <2>1, <2>3, <1>o, <1>r, <1>d, UniqueIsSymmetric
  <2>4. CASE j # i /\ k # i  BY <2>4, <1>o DEF IInv, UniqueHolds
  <2> QED  BY <2>2, <2>3, <2>4
<1>4. NoStaleEntries'
  <2> SUFFICES ASSUME NEW e \in single', Steady(e.field)
               PROVE  rows'[e.id] # Absent /\ rows'[e.id].data[e.field] = e.value
    BY <1>v DEF NoStaleEntries, Steady
  <2>1. CASE e \in SingleEntries(i, d, defs)
    BY <2>1, EntriesNameTheirRow, <1>o, <1>r
  <2>2. CASE e \notin SingleEntries(i, d, defs)
    <3>1. e \in single  BY <2>2, <1>w DEF maintain_single_indexes
    <3>2. /\ rows[e.id] # Absent /\ rows[e.id].data[e.field] = e.value
          /\ e \in Entry
      BY <3>1, <1>t DEF IInv, NoStaleEntries, TypeOK
    <3>3. CASE e.id = i
      <4>1. versions # <<>>  BY <3>1 DEF IInv
      <4>2. e.field \in defs.idx  BY <4>1, <1>d, <1>t, LatestDeclares
      <4>3. e \in SingleEntries(i, rows[i].data, defs)
        BY <3>2, <3>3, <4>2 DEF SingleEntries, Entry
      <4> QED  BY <4>3, <3>2, <3>3, <2>2, <1>w DEF maintain_single_indexes
    <3>4. CASE e.id # i  BY <3>2, <3>4, <1>o DEF Entry
    <3> QED  BY <3>3, <3>4
  <2> QED  BY <2>1, <2>2
<1>5. (versions = <<>> => single = {})'
  <2> SUFFICES ASSUME versions = <<>> PROVE single' = {}  BY <1>v
  <2>1. defs = NoSchema  BY <1>d DEF Declared
  <2>2. SingleEntries(i, d, defs) = {}  BY <2>1 DEF SingleEntries, NoSchema
  <2> QED  BY <2>2, <1>w DEF maintain_single_indexes, IInv
<1> QED  BY <1>1, <1>2, <1>3, <1>4, <1>5 DEF IInv

\* A delete: what goes is the entries of the row, what stays is of other rows.
LEMMA RemoveInv ==
    ASSUME IInv, NEW i \in Id, Remove(i)
    PROVE  IInv'
<1> DEFINE defs == index_defs_for_key(rows[i].stamp)
<1>t. TypeOK  BY DEF IInv
<1>w. /\ rows[i] # Absent
      /\ single' = single \ SingleEntries(i, rows[i].data, defs)
      /\ compound' = compound \ CompoundEntries(i, rows[i].data, defs)
      /\ rows' = [rows EXCEPT ![i] = Absent]
      /\ UNCHANGED <<registered, versions>>
  BY DEF Remove
<1>d. defs = Declared(Applies(rows[i].stamp))  BY DEF index_defs_for_key
<1> HIDE DEF defs
<1>v. versions' = versions /\ Latest' = Latest  BY <1>w DEF Latest
<1>o. \A j \in Id : rows'[j] = IF j = i THEN Absent ELSE rows[j]
  BY <1>w, <1>t DEF TypeOK
<1>1. TypeOK'
  <2>1. \A j \in Id : rows'[j] # Absent => rows'[j].stamp \in 0..Latest' /\ rows'[j].under \in 0..Latest'
    BY <1>o, <1>v, <1>t DEF TypeOK
  <2> QED  BY <2>1, <1>w, <1>t DEF TypeOK
<1>2. IndexHoldsRows'
  <2> SUFFICES ASSUME NEW j \in Id, rows'[j] # Absent
               PROVE  /\ SingleEntries(j, rows'[j].data, Declared(rows'[j].under)) \subseteq single'
                      /\ CompoundEntries(j, rows'[j].data, Declared(rows'[j].under)) \subseteq compound'
    BY <1>v DEF IndexHoldsRows, Declared
  <2>1. j # i /\ rows'[j] = rows[j]  BY <1>o
  <2>2. /\ SingleEntries(j, rows[j].data, Declared(rows[j].under)) \subseteq single
        /\ CompoundEntries(j, rows[j].data, Declared(rows[j].under)) \subseteq compound
    BY <2>1 DEF IInv, IndexHoldsRows
  <2>3. \A e : e \in SingleEntries(j, rows[j].data, Declared(rows[j].under))
                  \cup CompoundEntries(j, rows[j].data, Declared(rows[j].under)) => e.id = j
    BY EntriesNameTheirRow
  <2>4. \A e : e \in SingleEntries(i, rows[i].data, defs) \cup CompoundEntries(i, rows[i].data, defs) => e.id = i
    BY EntriesNameTheirRow
  <2> QED  BY <2>1, <2>2, <2>3, <2>4, <1>w
<1>3. UniqueHolds'
  <2> SUFFICES ASSUME NEW j \in Id, NEW k \in Id, j # k, rows'[j] # Absent, rows'[k] # Absent
               PROVE  UniqueBetween(rows'[j].data, Declared(rows'[j].under),
                                    rows'[k].data, Declared(rows'[k].under))
    BY <1>v DEF UniqueHolds, Declared
  <2> QED  BY <1>o DEF IInv, UniqueHolds
<1>4. NoStaleEntries'
  <2> SUFFICES ASSUME NEW e \in single', Steady(e.field)
               PROVE  rows'[e.id] # Absent /\ rows'[e.id].data[e.field] = e.value
    BY <1>v DEF NoStaleEntries, Steady
  <2>1. e \in single /\ e \in Entry  BY <1>w, <1>t DEF TypeOK
  <2>2. rows[e.id] # Absent /\ rows[e.id].data[e.field] = e.value  BY <2>1 DEF IInv, NoStaleEntries
  <2>3. e.id # i
    <3> SUFFICES ASSUME e.id = i PROVE FALSE  OBVIOUS
    <3>1. versions # <<>>  BY <2>1 DEF IInv
    <3>2. e.field \in defs.idx  BY <3>1, <1>d, <1>t, LatestDeclares
    <3>3. e \in SingleEntries(i, rows[i].data, defs)  BY <2>1, <2>2, <3>2 DEF SingleEntries, Entry
    <3> QED  BY <3>3, <1>w
  <2> QED  BY <2>1, <2>2, <2>3, <1>o DEF Entry
<1>5. (versions = <<>> => single = {})'  BY <1>v, <1>w DEF IInv
<1> QED  BY <1>1, <1>2, <1>3, <1>4, <1>5 DEF IInv

\* A schema put, by itself or with a new collection.
LEMMA PutInv ==
    ASSUME IInv, NEW s \in Schema, versions' = Append(versions, s),
           registered' \in BOOLEAN, UNCHANGED <<rows, single, compound>>
    PROVE  IInv'
<1>t. TypeOK  BY DEF IInv
<1>p. /\ versions' \in Seq(Schema) /\ Len(versions') = Len(versions) + 1
      /\ \A v \in 0..Latest : Declared(v)' = Declared(v)
      /\ \A n \in DOMAIN versions : n \in DOMAIN versions' /\ versions'[n] = versions[n]
  BY <1>t, PutKeepsDeclared
<1>l. Latest \in Nat /\ Latest' = Latest + 1  BY <1>p, <1>t DEF Latest, TypeOK
<1>u. \A i \in Id : rows[i] # Absent => rows[i].under \in 0..Latest /\ rows[i].stamp \in 0..Latest
  BY <1>t DEF TypeOK
<1>d. \A i \in Id : rows[i] # Absent => Declared(rows[i].under)' = Declared(rows[i].under)
  <2> SUFFICES ASSUME NEW i \in Id, rows[i] # Absent
               PROVE  Declared(rows[i].under)' = Declared(rows[i].under)
    OBVIOUS
  <2> DEFINE v == rows[i].under
  <2>1. rows[i].under' = v /\ v \in 0..Latest  BY <1>u
  <2>2. (IF v \in DOMAIN versions THEN versions[v] ELSE NoSchema)
         = (IF v \in DOMAIN versions' THEN versions'[v] ELSE NoSchema)
    BY <2>1, <1>p DEF Declared
  <2> QED  BY <2>1, <2>2 DEF Declared
<1>1. TypeOK'  BY <1>p, <1>l, <1>u, <1>t DEF TypeOK
<1>2. IndexHoldsRows'  BY <1>d DEF IInv, IndexHoldsRows
<1>3. UniqueHolds'  BY <1>d DEF IInv, UniqueHolds
<1>4. NoStaleEntries'
  <2> SUFFICES ASSUME NEW e \in single, \A n \in DOMAIN versions' : e.field \in versions'[n].idx
               PROVE  rows[e.id] # Absent /\ rows[e.id].data[e.field] = e.value
    BY DEF NoStaleEntries, Steady
  <2>1. Steady(e.field)  BY <1>p DEF Steady
  <2> QED  BY <2>1 DEF IInv, NoStaleEntries
<1>5. (versions = <<>> => single = {})'
  <2>1. versions' # <<>>  BY <1>p, <1>l DEF Latest
  <2> QED  BY <2>1
<1> QED  BY <1>1, <1>2, <1>3, <1>4, <1>5 DEF IInv

(* A dropped collection leaves no row and no entry.                           *)
LEMMA DropInv ==
    ASSUME IInv, drop_collection
    PROVE  IInv'
<1>1. TypeOK'
  <2>1. \A i \in Id : rows'[i] = Absent  BY DEF drop_collection
  <2>2. rows' \in [Id -> Row \cup {Absent}]  BY DEF drop_collection
  <2>3. versions' \in Seq(Schema)  BY DEF drop_collection
  <2>4. registered' \in BOOLEAN  BY Zenon DEF drop_collection
  <2>5. single' \subseteq Entry  BY DEF drop_collection
  <2> QED  BY <2>1, <2>2, <2>3, <2>4, <2>5 DEF TypeOK
<1> QED  BY <1>1 DEF drop_collection, IInv, IndexHoldsRows, UniqueHolds, NoStaleEntries

(* Every request keeps the invariant.                                         *)
LEMMA NextInv == IInv /\ [Next]_vars => IInv'
<1> SUFFICES ASSUME IInv, [Next]_vars PROVE IInv'  OBVIOUS
<1>t. Latest \in Nat /\ Latest \in 0..Latest /\ 0 \in 0..Latest  BY DEF IInv, TypeOK, Latest
<1>1. ASSUME NEW i \in Id, NEW d \in Document, create_entity(i, d) \/ update_entity(i, d) PROVE IInv'
  BY <1>1, <1>t, WriteInv DEF create_entity, update_entity
<1>2. ASSUME NEW i \in Id, delete_entity(i) PROVE IInv'  BY <1>2, RemoveInv DEF delete_entity
<1>3. ASSUME NEW s \in Schema, put_schema(s) PROVE IInv'
  <2>1. registered' \in BOOLEAN  BY <1>3 DEF put_schema, IInv, TypeOK
  <2> QED  BY <2>1, <1>3, PutInv DEF put_schema
<1>4. ASSUME NEW s \in Schema, create_collection(s) PROVE IInv'
  BY <1>4, PutInv DEF create_collection
<1>5. CASE drop_collection  BY <1>5, DropInv
<1>6. ASSUME NEW i \in Id, NEW d \in Document, commit_create(i, d) \/ commit_update(i, d) PROVE IInv'
  BY <1>6, <1>t, WriteInv DEF commit_create, commit_update
<1>7. ASSUME NEW i \in Id, commit_delete(i) PROVE IInv'  BY Zenon, <1>7, RemoveInv DEF commit_delete
<1>8. CASE UNCHANGED vars
  BY <1>8 DEF vars, IInv, TypeOK, IndexHoldsRows, UniqueHolds, NoStaleEntries, Steady, Declared, Latest
<1> QED  BY <1>1, <1>2, <1>3, <1>4, <1>5, <1>6, <1>7, <1>8 DEF Next

(* The invariant holds throughout.                                            *)
LEMMA Invariance == Spec => []IInv
BY InitInv, NextInv, PTL DEF Spec

----------------------------------------------------------------------------
(* Whatever is written, deleted, put or dropped, by requests and by           *)
(* transactions, a row has the entries of its last write in the indexes.      *)
THEOREM RowsAreIndexed == Spec => []IndexHoldsRows
BY Invariance, PTL DEF IInv

(* The check of maintain_single_indexes and maintain_compound_indexes against *)
(* the entries, which never looks at the rows, keeps unique values unique.    *)
THEOREM Uniqueness == Spec => []UniqueHolds
BY Invariance, PTL DEF IInv

(* An index whose field stays declared has entries of the rows there are.     *)
THEOREM NoGhosts == Spec => []NoStaleEntries
BY Invariance, PTL DEF IInv

----------------------------------------------------------------------------
(* Recursion                                                                 *)

(* A set of numbers that is not empty has a least element.                   *)
LEMMA Least ==
    ASSUME NEW S \in SUBSET Nat, S # {}
    PROVE  \E x \in S : \A y \in S : x <= y
<1>1. PICK less : less = {p \in Nat \X Nat : p[1] < p[2]} /\ IsWellFoundedOn(less, Nat)
    BY Zenon, NatLessThanWellFounded DEF OpToRel
<1>2. PICK x \in S : \A y \in S : ~ (<<y, x>> \in less)
    BY Zenon, <1>1, WFMin
<1>3. ASSUME NEW y \in S PROVE x <= y
  <2>1. x \in Nat /\ y \in Nat /\ ~ (<<y, x>> \in less)
    BY Zenon, <1>2
  <2> QED
    BY <1>1, <2>1
<1> QED
    BY <1>3

(* Induction: a set of numbers with 0 in it and the successor of each of its *)
(* members has them all.                                                     *)
LEMMA Everything ==
    ASSUME NEW S, 0 \in S, \A n \in Nat : n \in S => n + 1 \in S
    PROVE  \A n \in Nat : n \in S
<1> SUFFICES ASSUME NEW n \in Nat, n \notin S PROVE FALSE
    OBVIOUS
<1> DEFINE out == {x \in Nat : x \notin S}
<1>1. out \in SUBSET Nat /\ out # {}
    BY Zenon
<1>2. PICK x \in out : \A y \in out : x <= y
    BY Zenon, <1>1, Least
<1>3. x \in Nat /\ x # 0
    BY <1>2
<1>4. x - 1 \in Nat /\ ~(x <= x - 1) /\ (x - 1) + 1 = x
    BY <1>3
<1>5. x - 1 \in S
    BY Zenon, <1>2, <1>4
<1> QED
    BY Zenon, <1>2, <1>4, <1>5

\* A function that answers for every p of S below n as F says.
Upto(F, rank, S, T, n) == {g \in [S -> T] : \A p \in S : rank[p] < n => g[p] = F[p][g]}

\* F looks at an argument only below p.
LooksBelow(F, rank, S, T) ==
    \A p \in S : \A g, h \in [S -> T] : (\A q \in S : rank[q] < rank[p] => g[q] = h[q]) => F[p][g] = F[p][h]

Agree(F, rank, S, T) ==
    \A m, n \in Nat : \A g \in Upto(F, rank, S, T, m), h \in Upto(F, rank, S, T, n) :
        \A p \in S : rank[p] < m /\ rank[p] < n => g[p] = h[p]

(* Two functions that answer as F says below n are the same below n.         *)
LEMMA SameUpto ==
    ASSUME NEW S, NEW T, NEW rank \in [S -> Nat], NEW F \in [S -> [[S -> T] -> T]],
           LooksBelow(F, rank, S, T)
    PROVE  Agree(F, rank, S, T)
<1> SUFFICES ASSUME NEW m \in Nat, NEW n \in Nat,
                    NEW g \in Upto(F, rank, S, T, m), NEW h \in Upto(F, rank, S, T, n),
                    NEW p \in S, rank[p] < m, rank[p] < n, g[p] # h[p]
             PROVE  FALSE
    BY ZenonT(60) DEF Agree
<1> DEFINE differ == {k \in Nat : \E q \in S : k = rank[q] /\ g[q] # h[q]}
<1>1. differ \in SUBSET Nat /\ differ # {} /\ rank[p] \in differ
    BY Zenon
<1>2. PICK k \in differ : \A l \in differ : k <= l
    BY Zenon, <1>1, Least
<1>3. PICK q \in S : k = rank[q] /\ g[q] # h[q]
    BY Zenon
<1>4. rank[q] < m /\ rank[q] < n
  <2>1. rank[p] \in Nat /\ k \in Nat /\ k <= rank[p]
    BY Zenon, <1>1, <1>2
  <2> QED
    BY <1>3, <2>1
<1>5. ASSUME NEW r \in S, rank[r] < rank[q] PROVE g[r] = h[r]
  <2>1. rank[r] \in Nat /\ k \in Nat /\ ~(k <= rank[r])
    BY <1>3, <1>5
  <2> QED
    BY Zenon, <1>2, <2>1
<1>6. g \in [S -> T] /\ h \in [S -> T] /\ g[q] = F[q][g] /\ h[q] = F[q][h]
    BY Zenon, <1>3, <1>4 DEF Upto
<1>7. F[q][g] = F[q][h]
    BY Zenon, <1>5, <1>6 DEF LooksBelow
<1> QED
    BY Zenon, <1>3, <1>6, <1>7

(* There is one for every n.                                                 *)
LEMMA SomeUpto ==
    ASSUME NEW S, NEW T, T # {}, NEW rank \in [S -> Nat], NEW F \in [S -> [[S -> T] -> T]],
           LooksBelow(F, rank, S, T)
    PROVE  \A n \in Nat : Upto(F, rank, S, T, n) # {}
<1> DEFINE have == {n \in Nat : Upto(F, rank, S, T, n) # {}}
<1>1. 0 \in have
  <2>1. PICK t : t \in T
    OBVIOUS
  <2> DEFINE g == [p \in S |-> t]
  <2>2. g \in [S -> T]
    BY <2>1
  <2>3. \A p \in S : ~(rank[p] < 0)
    OBVIOUS
  <2>4. g \in Upto(F, rank, S, T, 0)
    BY Zenon, <2>2, <2>3 DEF Upto
  <2> QED
    BY Zenon, <2>4
<1>2. ASSUME NEW n \in Nat, n \in have PROVE n + 1 \in have
  <2>1. PICK g : g \in Upto(F, rank, S, T, n)
    BY Zenon, <1>2
  <2>2. g \in [S -> T] /\ \A p \in S : rank[p] < n => g[p] = F[p][g]
    BY Zenon, <2>1 DEF Upto
  <2> DEFINE h == [p \in S |-> IF rank[p] < n THEN g[p] ELSE F[p][g]]
  <2>3. h \in [S -> T] /\ \A p \in S : h[p] = IF rank[p] < n THEN g[p] ELSE F[p][g]
    BY <2>2
  <2> HIDE DEF h
  <2>4. ASSUME NEW p \in S, rank[p] < n + 1 PROVE h[p] = F[p][h]
    <3>1. ASSUME NEW q \in S, rank[q] < rank[p] PROVE g[q] = h[q]
      <4>1. rank[q] < n
        BY <2>4, <3>1
      <4> QED
        BY Zenon, <2>3, <4>1
    <3>2. F[p][g] = F[p][h]
      BY Zenon, <2>2, <2>3, <3>1 DEF LooksBelow
    <3>3. h[p] = F[p][g]
      BY Zenon, <2>2, <2>3
    <3> QED
      BY Zenon, <3>2, <3>3
  <2>5. h \in Upto(F, rank, S, T, n + 1) /\ n + 1 \in Nat
    <3>1. n + 1 \in Nat
      OBVIOUS
    <3> QED
      BY Zenon, <2>3, <2>4, <3>1 DEF Upto
  <2> QED
    BY Zenon, <2>5
<1>3. \A n \in Nat : n \in have
    BY Zenon, <1>1, <1>2, Everything
<1> QED
    BY Zenon, <1>3

\* Some function answers everywhere as F says.
Solvable(F, S, T) == \E f \in [S -> T] : \A p \in S : f[p] = F[p][f]

(* A function defined by recursion on rank exists.                           *)
LEMMA Recursion ==
    ASSUME NEW S, NEW T, T # {}, NEW rank \in [S -> Nat], NEW F \in [S -> [[S -> T] -> T]],
           LooksBelow(F, rank, S, T)
    PROVE  Solvable(F, S, T)
<1> DEFINE good(n) == CHOOSE g : g \in Upto(F, rank, S, T, n)
<1> DEFINE f == [p \in S |-> good(rank[p] + 1)[p]]
<1>1. ASSUME NEW n \in Nat PROVE good(n) \in Upto(F, rank, S, T, n)
  <2>1. Upto(F, rank, S, T, n) # {}
    BY Zenon, SomeUpto
  <2>2. \E g : g \in Upto(F, rank, S, T, n)
    BY Zenon, <2>1
  <2> QED
    BY Zenon, <2>2
<1> HIDE DEF good
<1>2. \A n \in Nat : good(n) \in [S -> T]
    BY Zenon, <1>1 DEF Upto
<1>3. \A p \in S : rank[p] + 1 \in Nat /\ rank[p] \in Nat /\ rank[p] < rank[p] + 1
    OBVIOUS
<1>4. f \in [S -> T] /\ \A p \in S : f[p] = good(rank[p] + 1)[p]
    BY <1>2, <1>3
<1> HIDE DEF f
<1>same. Agree(F, rank, S, T)
    BY Zenon, SameUpto
<1>5. ASSUME NEW p \in S PROVE f[p] = F[p][f]
  <2> DEFINE g == good(rank[p] + 1)
  <2>1. g \in Upto(F, rank, S, T, rank[p] + 1) /\ g \in [S -> T]
    BY Zenon, <1>1, <1>2, <1>3
  <2>2. g[p] = F[p][g] /\ f[p] = g[p]
    BY Zenon, <1>3, <1>4, <2>1 DEF Upto
  <2>3. ASSUME NEW q \in S, rank[q] < rank[p] PROVE g[q] = f[q]
    <3>1. rank[q] < rank[p] + 1 /\ rank[q] < rank[q] + 1 /\ rank[q] + 1 \in Nat /\ rank[p] + 1 \in Nat
      BY <2>3
    <3>2. good(rank[q] + 1) \in Upto(F, rank, S, T, rank[q] + 1)
      BY Zenon, <1>1, <3>1
    <3> HIDE DEF g
    <3>3. g[q] = good(rank[q] + 1)[q]
      BY Zenon, <2>1, <3>1, <3>2, <1>same DEF Agree
    <3> QED
      BY Zenon, <1>4, <3>3
  <2> HIDE DEF g
  <2>4. F[p][g] = F[p][f]
    BY Zenon, <1>4, <2>1, <2>3 DEF LooksBelow
  <2> QED
    BY Zenon, <2>2, <2>4
<1> QED
    BY Zenon, <1>4, <1>5 DEF Solvable

----------------------------------------------------------------------------
(* Predicates                                                                *)

(* A part of a predicate is a predicate, and less deep.                      *)
LEMMA PartsAreSmaller ==
    ASSUME NEW p \in Predicate
    PROVE  /\ p.k \in {"all", "any"} => \A n \in DOMAIN p.of :
                 p.of[n] \in Predicate /\ PredicateDepth[p.of[n]] < PredicateDepth[p]
           /\ p.k = "not" => p.of \in Predicate /\ PredicateDepth[p.of] < PredicateDepth[p]
<1>1. \A q \in Subpredicates(p) : q \in Predicate /\ PredicateDepth[q] < PredicateDepth[p]
    BY Zenon, PredicateAssumption
<1>2. ASSUME p.k \in {"all", "any"}, NEW n \in DOMAIN p.of PROVE p.of[n] \in Subpredicates(p)
    BY Zenon, <1>2 DEF Subpredicates
<1>3. ASSUME p.k = "not" PROVE p.of \in Subpredicates(p)
    BY <1>3 DEF Subpredicates
<1> QED
    BY Zenon, <1>1, <1>2, <1>3

(* The depths of the predicates are a rank for recursion.                    *)
LEMMA DepthIsRank == \E rank : rank \in [Predicate -> Nat] /\ \A p \in Predicate : rank[p] = PredicateDepth[p]
<1> DEFINE rank == [p \in Predicate |-> PredicateDepth[p]]
<1>1. rank \in [Predicate -> Nat] /\ \A p \in Predicate : rank[p] = PredicateDepth[p]
    BY PredicateAssumption
<1> QED
    BY Zenon, <1>1

\* g and h agree on the predicates less deep than p.
SameBelow(g, h, p) == \A q \in Predicate : PredicateDepth[q] < PredicateDepth[p] => g[q] = h[q]

(* What agrees on them agrees on the parts.                                  *)
LEMMA SameOnParts ==
    ASSUME NEW p \in Predicate, NEW g, NEW h, SameBelow(g, h, p)
    PROVE  /\ p.k \in {"all", "any"} => \A n \in DOMAIN p.of : g[p.of[n]] = h[p.of[n]]
           /\ p.k = "not" => g[p.of] = h[p.of]
BY Zenon, PartsAreSmaller DEF SameBelow

(* A comparison is true or false.                                            *)
LEMMA ComparisonIsBoolean ==
    ASSUME NEW c, NEW ctx, c.op \in Comparisons
    PROVE  policy_comparison_matches(c, ctx) \in BOOLEAN
<1>1. CASE c.op = "eq"  BY <1>1 DEF policy_comparison_matches
<1>2. CASE c.op = "ne"  BY <1>2 DEF policy_comparison_matches
<1>3. CASE c.op = "in"  BY <1>3 DEF policy_comparison_matches
<1>4. CASE c.op = "is_null"  BY <1>4 DEF policy_comparison_matches
<1>5. CASE c.op = "not_null"  BY <1>5 DEF policy_comparison_matches
<1>6. CASE c.op = "gt"  BY <1>6 DEF policy_comparison_matches
<1>7. CASE c.op = "gte"  BY <1>7 DEF policy_comparison_matches
<1>8. CASE c.op = "lt"  BY <1>8 DEF policy_comparison_matches
<1>9. CASE c.op = "lte"  BY <1>9 DEF policy_comparison_matches
<1>10. CASE c.op = "eq_subject"  BY <1>10 DEF policy_comparison_matches
<1>11. CASE c.op = "contains_subject"  BY <1>11 DEF policy_comparison_matches
<1> QED
    BY Zenon, <1>1, <1>2, <1>3, <1>4, <1>5, <1>6, <1>7, <1>8, <1>9, <1>10, <1>11 DEF Comparisons

(* So is a predicate, whatever its parts are said to be.                     *)
LEMMA MatchesIsBoolean ==
    ASSUME NEW p \in Predicate, NEW m, NEW ctx
    PROVE  MatchesBy(m, p, ctx) \in BOOLEAN
<1>1. /\ p.k \in {"always", "all", "any", "not", "compare", "operation", "related", "shares_relation"}
      /\ p.k = "compare" => p.op \in Comparisons
    BY Zenon, PredicateAssumption
<1>2. CASE p.k = "always"  BY <1>2 DEF MatchesBy
<1>3. CASE p.k = "all"  BY <1>3 DEF MatchesBy
<1>4. CASE p.k = "any"  BY <1>4 DEF MatchesBy
<1>5. CASE p.k = "not"  BY <1>5 DEF MatchesBy
<1>6. CASE p.k = "compare"  BY <1>1, <1>6, ComparisonIsBoolean DEF MatchesBy
<1>7. CASE p.k = "operation"  BY <1>7 DEF MatchesBy
<1>8. CASE p.k = "related"  BY <1>8 DEF MatchesBy, policy_related_matches
<1>9. CASE p.k = "shares_relation"  BY <1>9 DEF MatchesBy
<1> QED
    BY Zenon, <1>1, <1>2, <1>3, <1>4, <1>5, <1>6, <1>7, <1>8, <1>9

(* Nothing but its parts is asked for.                                       *)
LEMMA MatchesLooksBelow ==
    ASSUME NEW p \in Predicate, NEW g, NEW h, NEW ctx, SameBelow(g, h, p)
    PROVE  MatchesBy(g, p, ctx) = MatchesBy(h, p, ctx)
<1>1. p.k \in {"all", "any"} => \A n \in DOMAIN p.of : g[p.of[n]] = h[p.of[n]]
    BY SameOnParts
<1>2. p.k = "not" => g[p.of] = h[p.of]
    BY SameOnParts
<1>3. CASE p.k = "all"  BY <1>1, <1>3 DEF MatchesBy
<1>4. CASE p.k = "any"  BY <1>1, <1>4 DEF MatchesBy
<1>5. CASE p.k = "not"  BY <1>2, <1>5 DEF MatchesBy
<1>6. CASE p.k \notin {"all", "any", "not"}  BY <1>6 DEF MatchesBy
<1> QED
    BY Zenon, <1>3, <1>4, <1>5, <1>6

(* policy_predicate_matches is what its definition says, level by level.     *)
LEMMA MatchesEquation ==
    ASSUME NEW ctx
    PROVE  \A p \in Predicate :
               policy_predicate_matches(p, ctx) =
                   MatchesBy([q \in Predicate |-> policy_predicate_matches(q, ctx)], p, ctx)
<1> DEFINE T == BOOLEAN
<1> DEFINE F == [p \in Predicate |-> [g \in [Predicate -> T] |-> MatchesBy(g, p, ctx)]]
<1>1. PICK rank : rank \in [Predicate -> Nat] /\ \A p \in Predicate : rank[p] = PredicateDepth[p]
    BY Zenon, DepthIsRank
<1>2. \A p \in Predicate : \A g \in [Predicate -> T] : F[p][g] = MatchesBy(g, p, ctx) /\ F[p][g] \in T
    BY Zenon, MatchesIsBoolean
<1>3. F \in [Predicate -> [[Predicate -> T] -> T]]
    BY Zenon, MatchesIsBoolean
<1> HIDE DEF F
<1>4. LooksBelow(F, rank, Predicate, T)
  <2>1. ASSUME NEW p \in Predicate, NEW g \in [Predicate -> T], NEW h \in [Predicate -> T],
               \A q \in Predicate : rank[q] < rank[p] => g[q] = h[q]
        PROVE  F[p][g] = F[p][h]
    <3>1. SameBelow(g, h, p)
      BY Zenon, <1>1, <2>1 DEF SameBelow
    <3>2. MatchesBy(g, p, ctx) = MatchesBy(h, p, ctx)
      BY <3>1, MatchesLooksBelow
    <3> QED
      BY Zenon, <1>2, <3>2
  <2> QED
    BY Zenon, <2>1 DEF LooksBelow
<1>5. PICK f \in [Predicate -> T] : \A p \in Predicate : f[p] = F[p][f]
  <2>1. T # {}
    BY Zenon
  <2> HIDE DEF T
  <2>2. Solvable(F, Predicate, T)
    BY Zenon, <1>1, <1>3, <1>4, <2>1, Recursion
  <2> QED
    BY Zenon, <2>2 DEF Solvable
<1>6. f = [q \in Predicate |-> MatchesBy(f, q, ctx)]
    BY Zenon, <1>2, <1>5
<1> DEFINE M == CHOOSE m : m = [q \in Predicate |-> MatchesBy(m, q, ctx)]
<1>7. M = [q \in Predicate |-> MatchesBy(M, q, ctx)]
    BY Zenon, <1>6
<1>8. \A p : policy_predicate_matches(p, ctx) = M[p]
    BY Zenon DEF policy_predicate_matches
<1> HIDE DEF M
<1>9. M = [q \in Predicate |-> policy_predicate_matches(q, ctx)]
    BY Zenon, <1>7, <1>8
<1>10. \A p \in Predicate : M[p] = MatchesBy(M, p, ctx)
    BY Zenon, <1>7
<1> QED
    BY Zenon, <1>8, <1>9, <1>10

(* Each kind of predicate in terms of its parts.                             *)
LEMMA MatchesUnfolds ==
    ASSUME NEW ctx, NEW p \in Predicate
    PROVE  /\ policy_predicate_matches(p, ctx) \in BOOLEAN
           /\ p.k = "always" => policy_predicate_matches(p, ctx)
           /\ p.k = "all" => (policy_predicate_matches(p, ctx) <=>
                                  \A n \in DOMAIN p.of : policy_predicate_matches(p.of[n], ctx))
           /\ p.k = "any" => (policy_predicate_matches(p, ctx) <=>
                                  \E n \in DOMAIN p.of : policy_predicate_matches(p.of[n], ctx))
           /\ p.k = "not" => (policy_predicate_matches(p, ctx) <=> ~policy_predicate_matches(p.of, ctx))
           /\ p.k = "compare" => policy_predicate_matches(p, ctx) = policy_comparison_matches(p, ctx)
           /\ p.k = "operation" => policy_predicate_matches(p, ctx) = (p.of = ctx.operation)
           /\ p.k = "related" => policy_predicate_matches(p, ctx) = policy_related_matches(ctx)
<1>1. PICK M : M = [q \in Predicate |-> policy_predicate_matches(q, ctx)]
    BY Zenon
<1>2. \A q \in Predicate : M[q] = policy_predicate_matches(q, ctx) /\ M[q] = MatchesBy(M, q, ctx)
    BY Zenon, <1>1, MatchesEquation
<1>3. policy_predicate_matches(p, ctx) = MatchesBy(M, p, ctx)
    BY Zenon, <1>2
<1>4. /\ p.k \in {"all", "any"} => \A n \in DOMAIN p.of : M[p.of[n]] = policy_predicate_matches(p.of[n], ctx)
      /\ p.k = "not" => M[p.of] = policy_predicate_matches(p.of, ctx)
    BY Zenon, <1>2, PartsAreSmaller
<1>5. ASSUME p.k = "all"
      PROVE  policy_predicate_matches(p, ctx) = \A n \in DOMAIN p.of : policy_predicate_matches(p.of[n], ctx)
    BY <1>3, <1>4, <1>5 DEF MatchesBy
<1>6. ASSUME p.k = "any"
      PROVE  policy_predicate_matches(p, ctx) = \E n \in DOMAIN p.of : policy_predicate_matches(p.of[n], ctx)
    BY <1>3, <1>4, <1>6 DEF MatchesBy
<1>7. ASSUME p.k = "not"
      PROVE  policy_predicate_matches(p, ctx) = ~policy_predicate_matches(p.of, ctx)
    BY <1>3, <1>4, <1>7 DEF MatchesBy
<1>8. p.k = "always" => policy_predicate_matches(p, ctx) = TRUE
    BY <1>3 DEF MatchesBy
<1>9. p.k = "compare" => policy_predicate_matches(p, ctx) = policy_comparison_matches(p, ctx)
    BY <1>3 DEF MatchesBy
<1>10. p.k = "operation" => policy_predicate_matches(p, ctx) = (p.of = ctx.operation)
    BY <1>3 DEF MatchesBy
<1>11. p.k = "related" => policy_predicate_matches(p, ctx) = policy_related_matches(ctx)
    BY <1>3 DEF MatchesBy
<1>12. policy_predicate_matches(p, ctx) \in BOOLEAN
    BY Zenon, <1>3, MatchesIsBoolean
<1> QED
    BY Zenon, <1>5, <1>6, <1>7, <1>8, <1>9, <1>10, <1>11, <1>12

(* Induction on predicates: a set that has every predicate whose parts it    *)
(* has, has them all.                                                        *)
LEMMA PredicateInduction ==
    ASSUME NEW G, \A p \in Predicate : Subpredicates(p) \subseteq G => p \in G
    PROVE  \A p \in Predicate : p \in G
<1> SUFFICES ASSUME NEW p \in Predicate, p \notin G PROVE FALSE
    BY Zenon
<1> DEFINE bad == {k \in Nat : \E q \in Predicate : k = PredicateDepth[q] /\ q \notin G}
<1>1. \A q \in Predicate : PredicateDepth[q] \in Nat
    BY Zenon, PredicateAssumption
<1>2. bad \in SUBSET Nat /\ bad # {}
    BY Zenon, <1>1
<1>3. PICK k \in bad : \A l \in bad : k <= l
    BY Zenon, <1>2, Least
<1>4. PICK q \in Predicate : k = PredicateDepth[q] /\ q \notin G
    BY Zenon
<1>5. ASSUME NEW r \in Subpredicates(q) PROVE r \in G
  <2>1. r \in Predicate /\ PredicateDepth[r] < PredicateDepth[q]
    BY Zenon, <1>5, PredicateAssumption
  <2>2. ~(k <= PredicateDepth[r])
    BY <1>1, <1>4, <2>1
  <2>3. PredicateDepth[r] \notin bad
    BY Zenon, <1>3, <2>2
  <2> QED
    BY Zenon, <1>1, <2>1, <2>3
<1> QED
    BY Zenon, <1>4, <1>5

----------------------------------------------------------------------------
(* Predicates without a document                                             *)

Decided == {{}, {TRUE}, {FALSE}}

(* One level without a document is undecided, true or false.                 *)
LEMMA StaticIsDecided ==
    ASSUME NEW p \in Predicate, NEW m, NEW ctx, p.k = "not" => m[p.of] \in Decided
    PROVE  StaticBy(m, p, ctx) \in Decided
<1>1. /\ p.k \in {"always", "all", "any", "not", "compare", "operation", "related", "shares_relation"}
      /\ p.k = "compare" => p.op \in Comparisons
    BY Zenon, PredicateAssumption
<1>2. CASE p.k = "always"  BY <1>2 DEF StaticBy, Decided
<1>3. CASE p.k = "all"  BY <1>3 DEF StaticBy, Decided
<1>4. CASE p.k = "any"  BY <1>4 DEF StaticBy, Decided
<1>5. CASE p.k = "not"
  <2>1. StaticBy(m, p, ctx) = {~b : b \in m[p.of]}
    BY <1>5 DEF StaticBy
  <2> QED
    BY Zenon, <1>5, <2>1 DEF Decided
<1>6. CASE p.k = "compare" /\ p.target = "subject"
  <2>1. StaticBy(m, p, ctx) = {policy_comparison_matches(p, ctx)}
    BY <1>6 DEF StaticBy
  <2>2. policy_comparison_matches(p, ctx) \in BOOLEAN
    BY Zenon, <1>1, <1>6, ComparisonIsBoolean
  <2> QED
    BY Zenon, <2>1, <2>2 DEF Decided
<1>7. CASE p.k = "operation"
  <2>1. StaticBy(m, p, ctx) = {p.of = ctx.operation}
    BY <1>7 DEF StaticBy
  <2>2. (p.of = ctx.operation) \in BOOLEAN
    BY Zenon
  <2> QED
    BY Zenon, <2>1, <2>2 DEF Decided
<1>8. CASE p.k \in {"related", "shares_relation"} \/ (p.k = "compare" /\ p.target # "subject")
    BY Zenon, <1>8 DEF StaticBy, Decided
<1> QED
    BY Zenon, <1>1, <1>2, <1>3, <1>4, <1>5, <1>6, <1>7, <1>8

(* Nothing but the parts is asked for.                                       *)
LEMMA StaticLooksBelow ==
    ASSUME NEW p \in Predicate, NEW g, NEW h, NEW ctx, SameBelow(g, h, p)
    PROVE  StaticBy(g, p, ctx) = StaticBy(h, p, ctx)
<1>1. p.k \in {"all", "any"} => \A n \in DOMAIN p.of : g[p.of[n]] = h[p.of[n]]
    BY SameOnParts
<1>2. p.k = "not" => g[p.of] = h[p.of]
    BY SameOnParts
<1>3. p.k \in {"all", "any"} => {g[p.of[n]] : n \in DOMAIN p.of} = {h[p.of[n]] : n \in DOMAIN p.of}
    BY <1>1
<1>4. CASE p.k = "all"  BY <1>3, <1>4 DEF StaticBy
<1>5. CASE p.k = "any"  BY <1>3, <1>5 DEF StaticBy
<1>6. CASE p.k = "not"  BY <1>2, <1>6 DEF StaticBy
<1>7. CASE p.k \notin {"all", "any", "not"}  BY <1>7 DEF StaticBy
<1> QED
    BY Zenon, <1>4, <1>5, <1>6, <1>7

(* policy_static_predicate_matches is what its definition says, level by     *)
(* level.                                                                    *)
LEMMA StaticEquation ==
    ASSUME NEW ctx
    PROVE  \A p \in Predicate :
               policy_static_predicate_matches(p, ctx) =
                   StaticBy([q \in Predicate |-> policy_static_predicate_matches(q, ctx)], p, ctx)
<1> DEFINE F == [p \in Predicate |-> [g \in [Predicate -> Decided] |-> StaticBy(g, p, ctx)]]
<1>1. PICK rank : rank \in [Predicate -> Nat] /\ \A p \in Predicate : rank[p] = PredicateDepth[p]
    BY Zenon, DepthIsRank
<1>2. ASSUME NEW p \in Predicate, NEW g \in [Predicate -> Decided] PROVE StaticBy(g, p, ctx) \in Decided
  <2>1. p.k = "not" => g[p.of] \in Decided
    BY Zenon, PartsAreSmaller
  <2> QED
    BY Zenon, <2>1, StaticIsDecided
<1>3. \A p \in Predicate : \A g \in [Predicate -> Decided] : F[p][g] = StaticBy(g, p, ctx)
    BY Zenon
<1>4. F \in [Predicate -> [[Predicate -> Decided] -> Decided]]
    BY Zenon, <1>2
<1> HIDE DEF F
<1>5. LooksBelow(F, rank, Predicate, Decided)
  <2>1. ASSUME NEW p \in Predicate, NEW g \in [Predicate -> Decided], NEW h \in [Predicate -> Decided],
               \A q \in Predicate : rank[q] < rank[p] => g[q] = h[q]
        PROVE  F[p][g] = F[p][h]
    <3>1. SameBelow(g, h, p)
      BY Zenon, <1>1, <2>1 DEF SameBelow
    <3>2. StaticBy(g, p, ctx) = StaticBy(h, p, ctx)
      BY <3>1, StaticLooksBelow
    <3> QED
      BY Zenon, <1>3, <3>2
  <2> QED
    BY Zenon, <2>1 DEF LooksBelow
<1>6. PICK f \in [Predicate -> Decided] : \A p \in Predicate : f[p] = F[p][f]
  <2>1. Decided # {}
    BY Zenon DEF Decided
  <2>2. Solvable(F, Predicate, Decided)
    BY Zenon, <1>1, <1>4, <1>5, <2>1, Recursion
  <2> QED
    BY Zenon, <2>2 DEF Solvable
<1>7. f = [q \in Predicate |-> StaticBy(f, q, ctx)]
    BY Zenon, <1>3, <1>6
<1> DEFINE M == CHOOSE m : m = [q \in Predicate |-> StaticBy(m, q, ctx)]
<1>8. M = [q \in Predicate |-> StaticBy(M, q, ctx)]
    BY Zenon, <1>7
<1>9. \A p : policy_static_predicate_matches(p, ctx) = M[p]
    BY Zenon DEF policy_static_predicate_matches
<1> HIDE DEF M
<1>10. M = [q \in Predicate |-> policy_static_predicate_matches(q, ctx)]
    BY Zenon, <1>8, <1>9
<1>11. \A p \in Predicate : M[p] = StaticBy(M, p, ctx)
    BY Zenon, <1>8
<1> QED
    BY Zenon, <1>9, <1>10, <1>11

\* The contexts of two rows, or of a row and of none, for one request.
SameRequest(a, b) == a.subject = b.subject /\ a.operation = b.operation

(* A comparison with the subject does not look at the row.                   *)
LEMMA SubjectComparison ==
    ASSUME NEW c, NEW a, NEW b, SameRequest(a, b), c.target = "subject"
    PROVE  policy_comparison_matches(c, a) = policy_comparison_matches(c, b)
BY DEF policy_comparison_matches, policy_subject_value, SameRequest

\* What p is worth without a row is what it is worth with one, once decided.
Sound(p, a, b) ==
    /\ policy_static_predicate_matches(p, a) \in Decided
    /\ policy_static_predicate_matches(p, a) = {TRUE} => policy_predicate_matches(p, b)
    /\ policy_static_predicate_matches(p, a) = {FALSE} => ~policy_predicate_matches(p, b)

(* policy_static_predicate_matches decides only what holds for every row: by *)
(* induction on the predicate.                                               *)
LEMMA StaticIsSound ==
    ASSUME NEW a, NEW b, SameRequest(a, b)
    PROVE  \A p \in Predicate : Sound(p, a, b)
<1> DEFINE G == {p \in Predicate : Sound(p, a, b)}
<1>1. ASSUME NEW p \in Predicate, Subpredicates(p) \subseteq G PROVE Sound(p, a, b)
  <2>1. PICK S : S = [q \in Predicate |-> policy_static_predicate_matches(q, a)]
    BY Zenon
  <2>2. \A q \in Predicate : S[q] = policy_static_predicate_matches(q, a) /\ S[q] = StaticBy(S, q, a)
    BY Zenon, <2>1, StaticEquation
  <2>3. p.k \in {"all", "any"} => \A n \in DOMAIN p.of : Sound(p.of[n], a, b) /\ p.of[n] \in Predicate
    <3>1. p.k \in {"all", "any"} => \A n \in DOMAIN p.of : p.of[n] \in Subpredicates(p)
      BY Zenon DEF Subpredicates
    <3> QED
      BY Zenon, <1>1, <3>1
  <2>4. p.k = "not" => Sound(p.of, a, b) /\ p.of \in Predicate
    <3>1. p.k = "not" => p.of \in Subpredicates(p)
      BY DEF Subpredicates
    <3> QED
      BY Zenon, <1>1, <3>1
  <2>5. p.k \in {"always", "all", "any", "not", "compare", "operation", "related", "shares_relation"}
    BY Zenon, PredicateAssumption
  <2>6. policy_static_predicate_matches(p, a) \in Decided
    <3>1. p.k = "not" => S[p.of] \in Decided
      BY Zenon, <2>2, <2>4 DEF Sound
    <3>2. StaticBy(S, p, a) \in Decided
      BY Zenon, <3>1, StaticIsDecided
    <3> QED
      BY Zenon, <2>2, <3>2
  <2> DEFINE sub == {S[p.of[n]] : n \in DOMAIN p.of}
  <2>7. CASE p.k = "all"
    <3>1. S[p] = IF {FALSE} \in sub THEN {FALSE} ELSE IF {} \in sub THEN {} ELSE {TRUE}
      BY Zenon, <2>2, <2>7 DEF StaticBy
    <3>2. \A n \in DOMAIN p.of : S[p.of[n]] = policy_static_predicate_matches(p.of[n], a)
                                 /\ S[p.of[n]] \in Decided
      BY Zenon, <2>2, <2>3, <2>7 DEF Sound
    <3>3. ASSUME S[p] = {TRUE} PROVE policy_predicate_matches(p, b)
      <4>1. {FALSE} \notin sub /\ {} \notin sub
        BY Zenon, <3>1, <3>3
      <4>2. \A n \in DOMAIN p.of : S[p.of[n]] = {TRUE}
        BY Zenon, <3>2, <4>1 DEF Decided
      <4>3. \A n \in DOMAIN p.of : policy_predicate_matches(p.of[n], b)
        BY Zenon, <2>3, <2>7, <3>2, <4>2 DEF Sound
      <4> QED
        BY Zenon, <2>7, <4>3, MatchesUnfolds
    <3>4. ASSUME S[p] = {FALSE} PROVE ~policy_predicate_matches(p, b)
      <4>1. PICK n \in DOMAIN p.of : S[p.of[n]] = {FALSE}
        BY Zenon, <3>1, <3>4
      <4>2. ~policy_predicate_matches(p.of[n], b)
        BY Zenon, <2>3, <2>7, <3>2, <4>1 DEF Sound
      <4> QED
        BY Zenon, <2>7, <4>2, MatchesUnfolds
    <3> QED
      BY Zenon, <2>2, <2>6, <3>3, <3>4 DEF Sound
  <2>8. CASE p.k = "any"
    <3>1. S[p] = IF {TRUE} \in sub THEN {TRUE} ELSE IF {} \in sub THEN {} ELSE {FALSE}
      BY Zenon, <2>2, <2>8 DEF StaticBy
    <3>2. \A n \in DOMAIN p.of : S[p.of[n]] = policy_static_predicate_matches(p.of[n], a)
                                 /\ S[p.of[n]] \in Decided
      BY Zenon, <2>2, <2>3, <2>8 DEF Sound
    <3>3. ASSUME S[p] = {FALSE} PROVE ~policy_predicate_matches(p, b)
      <4>1. {TRUE} \notin sub /\ {} \notin sub
        BY Zenon, <3>1, <3>3
      <4>2. \A n \in DOMAIN p.of : S[p.of[n]] = {FALSE}
        BY Zenon, <3>2, <4>1 DEF Decided
      <4>3. \A n \in DOMAIN p.of : ~policy_predicate_matches(p.of[n], b)
        BY Zenon, <2>3, <2>8, <3>2, <4>2 DEF Sound
      <4> QED
        BY Zenon, <2>8, <4>3, MatchesUnfolds
    <3>4. ASSUME S[p] = {TRUE} PROVE policy_predicate_matches(p, b)
      <4>1. PICK n \in DOMAIN p.of : S[p.of[n]] = {TRUE}
        BY Zenon, <3>1, <3>4
      <4>2. policy_predicate_matches(p.of[n], b)
        BY Zenon, <2>3, <2>8, <3>2, <4>1 DEF Sound
      <4> QED
        BY Zenon, <2>8, <4>2, MatchesUnfolds
    <3> QED
      BY Zenon, <2>2, <2>6, <3>3, <3>4 DEF Sound
  <2>9. CASE p.k = "not"
    <3>1. S[p] = {~v : v \in S[p.of]} /\ S[p.of] = policy_static_predicate_matches(p.of, a)
      BY Zenon, <2>2, <2>4, <2>9 DEF StaticBy
    <3>2. S[p.of] \in Decided
      BY Zenon, <2>4, <2>9, <3>1 DEF Sound
    <3>3. (S[p] = {TRUE} => S[p.of] = {FALSE}) /\ (S[p] = {FALSE} => S[p.of] = {TRUE})
      BY Zenon, <3>1, <3>2 DEF Decided
    <3>4. policy_predicate_matches(p, b) <=> ~policy_predicate_matches(p.of, b)
      BY Zenon, <2>9, MatchesUnfolds
    <3>5. (S[p] = {TRUE} => policy_predicate_matches(p, b)) /\ (S[p] = {FALSE} => ~policy_predicate_matches(p, b))
      BY Zenon, <2>4, <2>9, <3>1, <3>3, <3>4 DEF Sound
    <3> QED
      BY Zenon, <2>2, <2>6, <3>5 DEF Sound
  <2>10. CASE p.k = "always"
    <3>1. S[p] = {TRUE} /\ policy_predicate_matches(p, b)
      BY Zenon, <2>2, <2>10, MatchesUnfolds DEF StaticBy
    <3>2. TRUE # FALSE
      BY Zenon
    <3> QED
      BY Zenon, <2>2, <2>6, <3>1, <3>2 DEF Sound
  <2>11. CASE p.k = "operation"
    <3>1. S[p] = {p.of = a.operation}
      BY Zenon, <2>2, <2>11 DEF StaticBy
    <3>2. policy_predicate_matches(p, b) = (p.of = b.operation)
      BY Zenon, <2>11, MatchesUnfolds
    <3>3. (p.of = a.operation) = (p.of = b.operation)
      BY Zenon DEF SameRequest
    <3>4. (S[p] = {TRUE} => policy_predicate_matches(p, b)) /\ (S[p] = {FALSE} => ~policy_predicate_matches(p, b))
      BY Zenon, <3>1, <3>2, <3>3
    <3> QED
      BY Zenon, <2>2, <2>6, <3>4 DEF Sound
  <2>12. CASE p.k = "compare" /\ p.target = "subject"
    <3>1. S[p] = {policy_comparison_matches(p, a)}
      BY Zenon, <2>2, <2>12 DEF StaticBy
    <3>2. policy_predicate_matches(p, b) = policy_comparison_matches(p, b)
      BY Zenon, <2>12, MatchesUnfolds
    <3>3. policy_comparison_matches(p, a) = policy_comparison_matches(p, b)
      BY <2>12, SubjectComparison
    <3>4. (S[p] = {TRUE} => policy_predicate_matches(p, b)) /\ (S[p] = {FALSE} => ~policy_predicate_matches(p, b))
      BY Zenon, <3>1, <3>2, <3>3
    <3> QED
      BY Zenon, <2>2, <2>6, <3>4 DEF Sound
  <2>13. CASE p.k \in {"related", "shares_relation"} \/ (p.k = "compare" /\ p.target # "subject")
    <3>1. S[p] = {}
      BY Zenon, <2>2, <2>13 DEF StaticBy
    <3> QED
      BY Zenon, <2>2, <2>6, <3>1 DEF Sound
  <2> QED
    BY Zenon, <2>5, <2>7, <2>8, <2>9, <2>10, <2>11, <2>12, <2>13
<1>2. \A p \in Predicate : p \in G
    BY Zenon, <1>1, PredicateInduction
<1> QED
    BY Zenon, <1>2

(* The two halves of a rule combined are as good as each.                    *)
LEMMA RuleIsSound ==
    ASSUME NEW r \in PolicyRule, NEW a, NEW b, SameRequest(a, b)
    PROVE  /\ policy_rule_static_matches(r, a) \in Decided
           /\ policy_rule_static_matches(r, a) = {TRUE} => policy_rule_matches(r, b)
           /\ policy_rule_static_matches(r, a) = {FALSE} => ~policy_rule_matches(r, b)
<1>1. r.when \in Predicate /\ r.where \in Predicate
    BY DEF PolicyRule
<1>2. Sound(r.when, a, b) /\ Sound(r.where, a, b)
    BY Zenon, <1>1, StaticIsSound
<1>3. PICK x, y : x = policy_static_predicate_matches(r.when, a) /\ y = policy_static_predicate_matches(r.where, a)
    BY Zenon
<1>4. x \in Decided /\ y \in Decided
    BY Zenon, <1>2, <1>3 DEF Sound
<1>5. policy_rule_static_matches(r, a) =
          IF FALSE \in x \cup y THEN {FALSE} ELSE IF {} \in {x, y} THEN {} ELSE {TRUE}
    BY Zenon, <1>3 DEF policy_rule_static_matches, combine_static_and
<1>6. policy_rule_static_matches(r, a) \in Decided
    BY Zenon, <1>5 DEF Decided
<1>7. ASSUME policy_rule_static_matches(r, a) = {TRUE} PROVE policy_rule_matches(r, b)
  <2>1. FALSE \notin x \cup y /\ {} \notin {x, y}
    BY Zenon, <1>5, <1>7
  <2>2. x = {TRUE} /\ y = {TRUE}
    BY Zenon, <1>4, <2>1 DEF Decided
  <2> QED
    BY Zenon, <1>2, <1>3, <2>2 DEF Sound, policy_rule_matches
<1>8. ASSUME policy_rule_static_matches(r, a) = {FALSE} PROVE ~policy_rule_matches(r, b)
  <2>1. FALSE \in x \cup y
    BY Zenon, <1>5, <1>8
  <2>2. x = {FALSE} \/ y = {FALSE}
    BY Zenon, <1>4, <2>1 DEF Decided
  <2> QED
    BY Zenon, <1>2, <1>3, <2>2 DEF Sound, policy_rule_matches
<1> QED
    BY Zenon, <1>6, <1>7, <1>8

(* The rules of the policies of an operation are rules.                      *)
LEMMA PoliciesHaveRules ==
    ASSUME NEW plan \in Plan, NEW operation, NEW p \in applicable_operation_policies(plan, operation)
    PROVE  p.allow \subseteq PolicyRule /\ p.deny \subseteq PolicyRule
<1>1. p \in PolicyRules
    BY Zenon, PlanAssumption DEF applicable_operation_policies
<1> QED
    BY <1>1 DEF PolicyRules

(* An operation allowed on a row is not denied without one.                  *)
LEMMA AllowedStatically ==
    ASSUME NEW plan \in Plan, NEW ctx, policy_operation_allows(plan, ctx)
    PROVE  effective_operation_allows_static(plan, ctx)
<1> DEFINE policies == applicable_operation_policies(plan, ctx.operation)
<1> DEFINE allow == UNION {p.allow : p \in policies}
<1> DEFINE deny == UNION {p.deny : p \in policies}
<1>1. /\ \A r \in deny : ~policy_rule_matches(r, ctx)
      /\ allow # {} => \E r \in allow : policy_rule_matches(r, ctx)
    BY Zenon DEF policy_operation_allows, policy_operation_denial_label, Denied
<1>2. allow \subseteq PolicyRule /\ deny \subseteq PolicyRule
    BY Zenon, PoliciesHaveRules
<1>3. SameRequest(ctx, ctx)
    BY Zenon DEF SameRequest
<1>4. ASSUME NEW r \in deny PROVE policy_rule_static_matches(r, ctx) # {TRUE}
    BY Zenon, <1>1, <1>2, <1>3, RuleIsSound
<1>5. ASSUME allow # {} PROVE \E r \in allow : policy_rule_static_matches(r, ctx) # {FALSE}
  <2>1. PICK r \in allow : policy_rule_matches(r, ctx)
    BY Zenon, <1>1, <1>5
  <2>2. policy_rule_static_matches(r, ctx) # {FALSE}
    BY Zenon, <1>2, <1>3, <2>1, RuleIsSound
  <2> QED
    BY Zenon, <2>2
<1> QED
    BY Zenon, <1>4, <1>5 DEF effective_operation_allows_static

(* A field redacted in a row is redacted without one, or one of its allow    *)
(* rules looks at the row.                                                   *)
LEMMA RedactedStatically ==
    ASSUME NEW rules \in PolicyRules, NEW ctx, field_denied(rules, ctx)
    PROVE  field_denied_static(rules, ctx) \/ \E r \in rules.allow : policy_rule_static_matches(r, ctx) = {}
<1>1. rules.allow \subseteq PolicyRule /\ rules.deny \subseteq PolicyRule
    BY DEF PolicyRules
<1>2. SameRequest(ctx, ctx)
    BY Zenon DEF SameRequest
<1>3. CASE \E r \in rules.deny : policy_rule_matches(r, ctx)
  <2>1. PICK r \in rules.deny : policy_rule_matches(r, ctx)
    BY Zenon, <1>3
  <2>2. policy_rule_static_matches(r, ctx) # {FALSE}
    BY Zenon, <1>1, <1>2, <2>1, RuleIsSound
  <2> QED
    BY Zenon, <2>2 DEF field_denied_static, Denied
<1>4. CASE rules.allow # {} /\ \A r \in rules.allow : ~policy_rule_matches(r, ctx)
  <2>1. ASSUME NEW r \in rules.allow, policy_rule_static_matches(r, ctx) # {}
        PROVE  policy_rule_static_matches(r, ctx) = {FALSE}
    <3>1. policy_rule_static_matches(r, ctx) \in Decided /\ policy_rule_static_matches(r, ctx) # {TRUE}
      BY Zenon, <1>1, <1>2, <1>4, RuleIsSound
    <3> QED
      BY Zenon, <2>1, <3>1 DEF Decided
  <2> QED
    BY Zenon, <1>4, <2>1 DEF field_denied_static, Denied
<1> QED
    BY Zenon, <1>3, <1>4 DEF field_denied, Denied

(* The context of a row under an operation.                                  *)
LEMMA CtxFields ==
    ASSUME NEW subject, NEW operation, NEW data, NEW id, NEW related
    PROVE  /\ Ctx(subject, operation, data, id, related).subject = subject
           /\ Ctx(subject, operation, data, id, related).operation = operation
           /\ Ctx(subject, operation, data, id, related).data = data
           /\ Ctx(subject, operation, data, id, related).id = id
           /\ Ctx(subject, operation, data, id, related).related = related
           /\ [Ctx(subject, operation, data, id, related) EXCEPT !.operation = operation]
                 = Ctx(subject, operation, data, id, related)
BY DEF Ctx

(* effective_policy speaks for every row, whatever the rows are.             *)
LEMMA EffectiveIsSound == EffectivePolicyIsSound
<1> SUFFICES ASSUME NEW plan \in Plan, NEW subject \in Subject, NEW related \in SUBSET Id, NEW i \in Live
             PROVE  LET ctx(op) == Ctx(subject, op, rows[i].data, i, related)
                        looks(f) == \E r \in plan.read[f].allow : policy_rule_static_matches(r, ctx("read")) = {}
                    IN  /\ \A op \in Writes \cup {"read"} :
                              policy_operation_allows(plan, ctx(op)) => effective_operation_allows_static(plan, ctx(op))
                        /\ \A f \in field_read_redactions(plan, ctx("read")) :
                              f \in effective_redacted_static(plan, ctx("read")) \/ looks(f)
    BY Zenon DEF EffectivePolicyIsSound
<1> DEFINE ctx(op) == Ctx(subject, op, rows[i].data, i, related)
<1>1. \A op : policy_operation_allows(plan, ctx(op)) => effective_operation_allows_static(plan, ctx(op))
    BY Zenon, AllowedStatically
<1>2. [ctx("read") EXCEPT !.operation = "read"] = ctx("read")
    BY CtxFields
<1>3. ASSUME NEW f \in field_read_redactions(plan, ctx("read"))
      PROVE  \/ f \in effective_redacted_static(plan, ctx("read"))
             \/ \E r \in plan.read[f].allow : policy_rule_static_matches(r, ctx("read")) = {}
  <2>1. f \in DOMAIN plan.read /\ field_denied(plan.read[f], [ctx("read") EXCEPT !.operation = "read"])
    BY Zenon, <1>3 DEF field_read_redactions
  <2> HIDE DEF ctx
  <2>2. plan.read[f] \in PolicyRules
    BY Zenon, <2>1, PlanAssumption
  <2>3. \/ field_denied_static(plan.read[f], ctx("read"))
        \/ \E r \in plan.read[f].allow : policy_rule_static_matches(r, ctx("read")) = {}
    BY Zenon, <1>2, <2>1, <2>2, RedactedStatically
  <2> QED
    BY Zenon, <1>2, <2>1, <2>3 DEF effective_redacted_static
<1> QED
    BY Zenon, <1>1, <1>3

----------------------------------------------------------------------------
(* Previews and commits                                                      *)

\* What enforce_write_policy lets through.
Passes(approved) == {"allow"} \cup (IF approved THEN {"needs_approval"} ELSE {})

(* The explanation of the operation policies is their enforcement.           *)
LEMMA OperationExplained ==
    ASSUME NEW plan, NEW ctx
    PROVE  explain_operation_policy_response(plan, ctx) = IF policy_operation_allows(plan, ctx) THEN "allow" ELSE "deny"
<1> DEFINE policies == applicable_operation_policies(plan, ctx.operation)
<1> DEFINE allow == UNION {p.allow : p \in policies}
<1> DEFINE deny == UNION {p.deny : p \in policies}
<1>1. policy_operation_allows(plan, ctx) <=>
          ~((\E r \in deny : policy_rule_matches(r, ctx)) \/ (allow # {} /\ \A r \in allow : ~policy_rule_matches(r, ctx)))
    BY Zenon DEF policy_operation_allows, policy_operation_denial_label, Denied
<1>2. ({r \in deny : policy_rule_matches(r, ctx)} # {}) = (\E r \in deny : policy_rule_matches(r, ctx))
    BY Zenon
<1>3. ({r \in allow : policy_rule_matches(r, ctx)} = {}) = (\A r \in allow : ~policy_rule_matches(r, ctx))
    BY Zenon
<1>4. (\E p \in policies : p.allow # {}) = (allow # {})
    BY Zenon
<1>5. explain_operation_policy_response(plan, ctx) =
          CASE {r \in deny : policy_rule_matches(r, ctx)} # {} -> "deny"
            [] (\E p \in policies : p.allow # {}) /\ {r \in allow : policy_rule_matches(r, ctx)} = {} -> "deny"
            [] OTHER -> "allow"
    BY Zenon DEF explain_operation_policy_response
<1> HIDE DEF policies, allow, deny
<1>6. CASE policy_operation_allows(plan, ctx)
  <2>1. ~({r \in deny : policy_rule_matches(r, ctx)} # {})
    BY Zenon, <1>1, <1>2, <1>6
  <2>2. ~((\E p \in policies : p.allow # {}) /\ {r \in allow : policy_rule_matches(r, ctx)} = {})
    BY Zenon, <1>1, <1>3, <1>4, <1>6
  <2> QED
    BY Zenon, <1>5, <1>6, <2>1, <2>2
<1>7. CASE ~policy_operation_allows(plan, ctx)
  <2>1. \/ {r \in deny : policy_rule_matches(r, ctx)} # {}
        \/ (\E p \in policies : p.allow # {}) /\ {r \in allow : policy_rule_matches(r, ctx)} = {}
    BY Zenon, <1>1, <1>2, <1>3, <1>4, <1>7
  <2> QED
    BY Zenon, <1>5, <1>7, <2>1
<1> QED
    BY Zenon, <1>6, <1>7

(* So is that of the envelopes.                                              *)
LEMMA EnvelopesExplained ==
    ASSUME NEW plan, NEW ctx, NEW check
    PROVE  /\ explain_policy_envelopes(plan, ctx, check) = enforce_policy_envelopes(plan, ctx, check)
           /\ explain_policy_envelopes(plan, ctx, check) \in {"deny", "needs_approval", "allow"}
<1> DEFINE at == On(ctx, check.operation, check.candidate)
<1> DEFINE hit == {x \in applicable_policy_envelopes(plan, check.operation) : policy_predicate_matches(x.when, at)}
<1> DEFINE met(d) == \E e \in applicable_policy_envelopes(plan, check.operation) :
                         e.decision = d /\ policy_predicate_matches(e.when, at)
<1>1. \A d : met(d) <=> d \in {e.decision : e \in hit}
    BY Zenon
<1>2. explain_policy_envelopes(plan, ctx, check) =
          IF met("deny") THEN "deny" ELSE IF met("needs_approval") THEN "needs_approval" ELSE "allow"
    BY Zenon DEF explain_policy_envelopes
<1>3. enforce_policy_envelopes(plan, ctx, check) =
          IF "deny" \in {e.decision : e \in hit} THEN "deny"
          ELSE IF "needs_approval" \in {e.decision : e \in hit} THEN "needs_approval" ELSE "allow"
    BY Zenon DEF enforce_policy_envelopes
<1> HIDE DEF met, hit
<1> QED
    BY <1>1, <1>2, <1>3

(* A write is explained as allowed exactly when it is enforced without an    *)
(* approval, and as in need of one exactly when it takes one.                *)
LEMMA WriteExplained ==
    ASSUME NEW plan, NEW ctx, NEW check, NEW approved \in BOOLEAN
    PROVE  /\ explain_write_policy_response(plan, ctx, check) \in {"deny", "needs_approval", "allow"}
           /\ (enforce_write_policy(plan, ctx, check, approved) = "ok")
                  = (explain_write_policy_response(plan, ctx, check) \in Passes(approved))
<1> DEFINE said == explain_write_policy_response(plan, ctx, check)
<1> DEFINE done == enforce_write_policy(plan, ctx, check, approved)
<1> DEFINE env == explain_policy_envelopes(plan, ctx, check)
<1>1. (explain_field_write_policy(plan, ctx, check) # {}) = ~enforce_field_write_policy(plan, ctx, check)
    BY Zenon DEF explain_field_write_policy, enforce_field_write_policy
<1>2. env = enforce_policy_envelopes(plan, ctx, check) /\ env \in {"deny", "needs_approval", "allow"}
    BY Zenon, EnvelopesExplained
<1>3. \A c : (explain_operation_policy_response(plan, c) = "deny") = ~policy_operation_allows(plan, c)
  <2> SUFFICES ASSUME NEW c
               PROVE  (explain_operation_policy_response(plan, c) = "deny") = ~policy_operation_allows(plan, c)
    OBVIOUS
  <2>1. explain_operation_policy_response(plan, c) = IF policy_operation_allows(plan, c) THEN "allow" ELSE "deny"
    BY Zenon, OperationExplained
  <2>2. "allow" # "deny"
    BY Zenon
  <2> QED
    BY Zenon, <2>1, <2>2
<1> DEFINE rowDenied == \/ check.current # NoDocument /\ ~policy_operation_allows(plan, On(ctx, "read", check.current))
                        \/ ~policy_operation_allows(plan, On(ctx, check.operation, check.candidate))
<1>4. CASE rowDenied
  <2>1. said = "deny"
    BY Zenon, <1>3, <1>4 DEF explain_write_policy_response
  <2>2. done = "row_write_denied"
    BY Zenon, <1>4 DEF enforce_write_policy
  <2> QED
    BY <2>1, <2>2 DEF Passes
<1>5. CASE ~rowDenied /\ ~enforce_field_write_policy(plan, ctx, check)
  <2>1. said = "deny"
    BY Zenon, <1>1, <1>3, <1>5 DEF explain_write_policy_response
  <2>2. done = "field_write_denied"
    BY Zenon, <1>5 DEF enforce_write_policy
  <2> QED
    BY <2>1, <2>2 DEF Passes
<1>6. CASE ~rowDenied /\ enforce_field_write_policy(plan, ctx, check)
  <2>1. said = env
    BY Zenon, <1>1, <1>3, <1>6 DEF explain_write_policy_response
  <2>2. done = CASE env = "deny" -> "row_write_denied"
                 [] env = "needs_approval" /\ ~approved -> "needs_approval"
                 [] OTHER -> "ok"
    BY Zenon, <1>2, <1>6 DEF enforce_write_policy
  <2> HIDE DEF env, done, said
  <2>3. (done = "ok") = (env \in Passes(approved))
    BY <1>2, <2>2 DEF Passes
  <2> QED
    BY Zenon, <1>2, <2>1, <2>3 DEF said, done
<1> QED
    BY Zenon, <1>4, <1>5, <1>6

\* The check made for a step that finds its document in storage.
CheckOf(s) ==
    CASE s.kind = "create" -> Check("create", NoDocument, s.data, PresentFields(s.data))
      [] s.kind = "update" -> Check("update", Stored(s.id), s.data, PresentFields(s.data))
      [] s.kind = "patch"  -> Check("update", Stored(s.id), json_merge_patch(Stored(s.id), s.patch), DOMAIN s.patch)
      [] s.kind = "delete" -> Check("delete", Stored(s.id), Stored(s.id), PresentFields(Stored(s.id)))

\* A step that can be explained and committed from what is stored.
Found(s) ==
    /\ s.kind \in {"create", "update", "patch", "delete"} /\ s.id \in Id
    /\ s.kind # "create" => Stored(s.id) # NoDocument
    /\ s.kind = "patch" => s.patch # NoDocument

\* No step before left a shadow of i.
Untouched(shadows, i) == DOMAIN shadows = Id /\ shadows[i] = NoDocument

(* Such a step is explained from storage, and leaves the shadows of other    *)
(* entities alone.                                                           *)
LEMMA StepExplained ==
    ASSUME NEW plan, NEW ctx, NEW s, NEW shadows, Found(s), Untouched(shadows, s.id)
    PROVE  /\ explain_transaction_step(plan, ctx, s, shadows).decision
                 = explain_write_policy_response(plan, ctx, CheckOf(s))
           /\ DOMAIN explain_transaction_step(plan, ctx, s, shadows).shadows = Id
           /\ \A i \in Id : i # s.id => explain_transaction_step(plan, ctx, s, shadows).shadows[i] = shadows[i]
<1>1. PICK current : current = Stored(s.id)
    BY Zenon
<1>2. (IF shadows[s.id] # NoDocument THEN shadows[s.id] ELSE Stored(s.id)) = current
    BY Zenon, <1>1 DEF Untouched
<1>3. \A d : /\ DOMAIN [shadows EXCEPT ![s.id] = d] = Id
             /\ \A i \in Id : i # s.id => [shadows EXCEPT ![s.id] = d][i] = shadows[i]
    BY DEF Untouched
<1> DEFINE step(decision, after) == [decision |-> decision, shadows |-> after]
<1>4. \A x, y : step(x, y).decision = x /\ step(x, y).shadows = y
    OBVIOUS
<1> HIDE DEF step
<1> DEFINE r == explain_transaction_step(plan, ctx, s, shadows)
<1>5. \E d : r = step(explain_write_policy_response(plan, ctx, CheckOf(s)), [shadows EXCEPT ![s.id] = d])
  <2>1. CASE s.kind = "create"
    <3>1. r = step(explain_create_policy(plan, ctx, s), [shadows EXCEPT ![s.id] = s.data])
      BY <2>1 DEF explain_transaction_step, step
    <3>2. explain_create_policy(plan, ctx, s) = explain_write_policy_response(plan, ctx, CheckOf(s))
      BY <2>1 DEF explain_create_policy, CheckOf
    <3> HIDE DEF r
    <3> QED
      BY Zenon, <3>1, <3>2
  <2>2. CASE s.kind = "update"
    <3>1. current # NoDocument
      BY <1>1, <2>2 DEF Found
    <3>2. r = step(explain_update_policy_with_shadow(plan, ctx, s, current), [shadows EXCEPT ![s.id] = s.data])
      BY <1>2, <2>2, <3>1 DEF explain_transaction_step, step
    <3>3. explain_update_policy_with_shadow(plan, ctx, s, current) = explain_write_policy_response(plan, ctx, CheckOf(s))
      BY <1>1, <2>2 DEF explain_update_policy_with_shadow, CheckOf
    <3> HIDE DEF r
    <3> QED
      BY Zenon, <3>2, <3>3
  <2>3. CASE s.kind = "patch"
    <3>1. current # NoDocument
      BY <1>1, <2>3 DEF Found
    <3>2. r = step(explain_patch_policy_with_shadow(plan, ctx, s, current),
                   [shadows EXCEPT ![s.id] = json_merge_patch(current, s.patch)])
      BY <1>2, <2>3, <3>1 DEF explain_transaction_step, step
    <3>3. explain_patch_policy_with_shadow(plan, ctx, s, current) = explain_write_policy_response(plan, ctx, CheckOf(s))
      BY <1>1, <2>3 DEF explain_patch_policy_with_shadow, CheckOf
    <3> HIDE DEF r
    <3> QED
      BY Zenon, <3>2, <3>3
  <2>4. CASE s.kind = "delete"
    <3>1. current # NoDocument
      BY <1>1, <2>4 DEF Found
    <3>2. r = step(explain_delete_policy_with_shadow(plan, ctx, s, current), [shadows EXCEPT ![s.id] = NoDocument])
      BY <1>2, <2>4, <3>1 DEF explain_transaction_step, step
    <3>3. explain_delete_policy_with_shadow(plan, ctx, s, current) = explain_write_policy_response(plan, ctx, CheckOf(s))
      BY <1>1, <2>4 DEF explain_delete_policy_with_shadow, CheckOf
    <3> HIDE DEF r
    <3> QED
      BY Zenon, <3>2, <3>3
  <2> QED
    BY Zenon, <2>1, <2>2, <2>3, <2>4 DEF Found
<1> HIDE DEF r
<1>6. PICK d : r = step(explain_write_policy_response(plan, ctx, CheckOf(s)), [shadows EXCEPT ![s.id] = d])
    BY Zenon, <1>5
<1>7. r.decision = explain_write_policy_response(plan, ctx, CheckOf(s)) /\ r.shadows = [shadows EXCEPT ![s.id] = d]
    BY <1>4, <1>6
<1>8. DOMAIN r.shadows = Id /\ \A i \in Id : i # s.id => r.shadows[i] = shadows[i]
    BY <1>3, <1>7
<1> QED
    BY Zenon, <1>7, <1>8 DEF r

(* It is staged, by every surface that keeps its patch, for the same check.  *)
LEMMA StagedAlike ==
    ASSUME NEW s, Found(s), NEW surface, s.kind = "patch" => surface # "gateway",
           NEW op, op = Stage(s, surface)
    PROVE  Check(op.mutation, IF op.mutation = "create" THEN NoDocument ELSE Stored(op.id),
                 op.data, transaction_write_scope(op)) = CheckOf(s)
<1>1. op.id = s.id
    BY DEF Stage
<1>2. CASE s.kind = "create"
  <2>1. op.mutation = "create" /\ op.data = s.data /\ op.scope = NoDocument
    BY <1>2 DEF Stage
  <2> QED
    BY <1>2, <2>1 DEF CheckOf, transaction_write_scope
<1>3. CASE s.kind = "update"
  <2>1. op.mutation = "update" /\ op.data = s.data /\ op.scope = NoDocument
    BY <1>3 DEF Stage
  <2> QED
    BY <1>1, <1>3, <2>1 DEF CheckOf, transaction_write_scope
<1>4. CASE s.kind = "patch"
  <2>1. op.mutation = "update" /\ op.data = json_merge_patch(Stored(s.id), s.patch) /\ op.scope = s.patch
    BY <1>4 DEF Stage
  <2>2. s.patch # NoDocument
    BY <1>4 DEF Found
  <2> QED
    BY <1>1, <1>4, <2>1, <2>2 DEF CheckOf, transaction_write_scope
<1>5. CASE s.kind = "delete"
  <2>1. op.mutation = "delete" /\ op.data = Stored(s.id) /\ op.scope = NoDocument
    BY <1>5 DEF Stage
  <2> QED
    BY <1>1, <1>5, <2>1 DEF CheckOf, transaction_write_scope
<1> QED
    BY Zenon, <1>2, <1>3, <1>4, <1>5 DEF Found

\* The first k steps explained.
Explanation(g, plan, ctx, ops, k) ==
    g = [n \in 0..k |-> IF n = 0 THEN Unexplained ELSE explained(g[n - 1], plan, ctx, ops[n])]

(* A transaction can be explained step by step to its end.                   *)
LEMMA ExplanationExists ==
    ASSUME NEW plan, NEW ctx, NEW ops
    PROVE  \A k \in Nat : \E g : Explanation(g, plan, ctx, ops, k)
<1> DEFINE have == {k \in Nat : \E g : Explanation(g, plan, ctx, ops, k)}
<1>1. 0 \in have
  <2> DEFINE g == [n \in 0..0 |-> Unexplained]
  <2>1. \A n \in 0..0 : n = 0
    OBVIOUS
  <2>2. g = [n \in 0..0 |-> IF n = 0 THEN Unexplained ELSE explained(g[n - 1], plan, ctx, ops[n])]
    BY Zenon, <2>1
  <2> HIDE DEF g
  <2> QED
    BY Zenon, <2>2 DEF Explanation
<1>2. ASSUME NEW k \in Nat, k \in have PROVE k + 1 \in have
  <2>1. PICK g : Explanation(g, plan, ctx, ops, k)
    BY Zenon, <1>2
  <2> DEFINE h == [n \in 0..(k + 1) |-> IF n = k + 1 THEN explained(g[k], plan, ctx, ops[k + 1]) ELSE g[n]]
  <2>2. h[k + 1] = explained(g[k], plan, ctx, ops[k + 1]) /\ \A n \in 0..k : h[n] = g[n]
    OBVIOUS
  <2>3. \A n \in 0..k : g[n] = IF n = 0 THEN Unexplained ELSE explained(g[n - 1], plan, ctx, ops[n])
    BY Zenon, <2>1 DEF Explanation
  <2>4. \A n \in 0..(k + 1) : n \in 0..k \/ (n = k + 1 /\ n # 0 /\ n - 1 = k)
    OBVIOUS
  <2>5. \A n \in 0..k : n # 0 => n - 1 \in 0..k
    OBVIOUS
  <2>6. k \in 0..k /\ k + 1 \in Nat
    OBVIOUS
  <2>7. ASSUME NEW n \in 0..(k + 1)
        PROVE  h[n] = IF n = 0 THEN Unexplained ELSE explained(h[n - 1], plan, ctx, ops[n])
    <3> HIDE DEF h
    <3>1. CASE n \in 0..k
      <4>1. CASE n = 0
        BY Zenon, <2>2, <2>3, <3>1, <4>1
      <4>2. CASE n # 0
        <5>1. h[n - 1] = g[n - 1]
          BY Zenon, <2>2, <2>5, <3>1, <4>2
        <5> QED
          BY Zenon, <2>2, <2>3, <3>1, <4>2, <5>1
      <4> QED
        BY Zenon, <4>1, <4>2
    <3>2. CASE n = k + 1 /\ n # 0 /\ n - 1 = k
      <4>1. h[n - 1] = g[k]
        BY Zenon, <2>2, <2>6, <3>2
      <4> QED
        BY Zenon, <2>2, <3>2, <4>1
    <3> QED
      BY Zenon, <2>4, <3>1, <3>2
  <2>8. h = [n \in 0..(k + 1) |-> IF n = 0 THEN Unexplained ELSE explained(h[n - 1], plan, ctx, ops[n])]
    BY Zenon, <2>7
  <2> HIDE DEF h
  <2>9. Explanation(h, plan, ctx, ops, k + 1)
    BY Zenon, <2>8 DEF Explanation
  <2> QED
    BY Zenon, <2>6, <2>9
<1>3. \A k \in Nat : k \in have
    BY Zenon, <1>1, <1>2, Everything
<1> QED
    BY Zenon, <1>3

(* A transaction is answered with the strictest of its decisions.            *)
LEMMA StrictestDecides ==
    ASSUME NEW seen \in SUBSET {"deny", "needs_approval", "allow"}, NEW approved \in BOOLEAN
    PROVE  (strictest(seen) \in Passes(approved)) = (\A d \in seen : d \in Passes(approved))
<1>1. "error" \notin seen
    OBVIOUS
<1>p. /\ "allow" \in Passes(approved) /\ "deny" \notin Passes(approved)
      /\ ("needs_approval" \in Passes(approved)) = approved
    BY DEF Passes
<1>2. CASE "deny" \in seen
  <2>1. strictest(seen) = "deny"
    BY <1>1, <1>2 DEF strictest
  <2>2. (strictest(seen) \in Passes(approved)) = FALSE
    BY <1>p, <2>1
  <2>3. (\A d \in seen : d \in Passes(approved)) = FALSE
    BY <1>p, <1>2
  <2> QED
    BY Zenon, <2>2, <2>3
<1>3. CASE "deny" \notin seen /\ "needs_approval" \in seen
  <2>1. strictest(seen) = "needs_approval"
    BY <1>1, <1>3 DEF strictest
  <2> QED
    BY Zenon, <1>p, <1>3, <2>1
<1>4. CASE "deny" \notin seen /\ "needs_approval" \notin seen
  <2>1. strictest(seen) = "allow"
    BY Zenon, <1>1, <1>4 DEF strictest
  <2> QED
    BY Zenon, <1>p, <1>4, <2>1
<1> QED
    BY Zenon, <1>2, <1>3, <1>4

Said(plan, ctx, s) == explain_write_policy_response(plan, ctx, CheckOf(s))

\* k steps explained: what was said of each, and no shadow of what is to come.
Halfway(acc, plan, ctx, ops, k) ==
    /\ acc.seen = {Said(plan, ctx, ops[n]) : n \in 1..k}
    /\ \A n \in (k + 1)..Len(ops) : Untouched(acc.shadows, ops[n].id)
    /\ DOMAIN acc.shadows = Id

\* A transaction whose steps are about different entities, each there.
Independent(ops) ==
    /\ Len(ops) \in Nat /\ DOMAIN ops = 1..Len(ops)
    /\ \A n \in DOMAIN ops : Found(ops[n])
    /\ \A m, n \in DOMAIN ops : ops[m].id = ops[n].id => m = n

(* One more step is explained from storage.                                  *)
LEMMA OneMoreExplained ==
    ASSUME NEW plan, NEW ctx, NEW ops, Independent(ops), NEW k \in Nat, k + 1 <= Len(ops),
           NEW acc, Halfway(acc, plan, ctx, ops, k)
    PROVE  Halfway(explained(acc, plan, ctx, ops[k + 1]), plan, ctx, ops, k + 1)
<1>1. /\ k + 1 \in DOMAIN ops /\ k + 1 \in (k + 1)..Len(ops) /\ 1..(k + 1) = (1..k) \cup {k + 1}
      /\ \A n \in (k + 2)..Len(ops) : n \in DOMAIN ops /\ n \in (k + 1)..Len(ops) /\ n # k + 1
      /\ (k + 1) + 1 = k + 2
    BY DEF Independent
<1>2. PICK s : s = ops[k + 1]
    BY Zenon
<1>3. Found(s) /\ Untouched(acc.shadows, s.id) /\ s.id \in Id
    BY Zenon, <1>1, <1>2 DEF Independent, Halfway, Found
<1>4. PICK r : r = explain_transaction_step(plan, ctx, s, acc.shadows)
    BY Zenon
<1>5. /\ r.decision = Said(plan, ctx, s)
      /\ DOMAIN r.shadows = Id
      /\ \A i \in Id : i # s.id => r.shadows[i] = acc.shadows[i]
    BY <1>3, <1>4, StepExplained DEF Said
<1>6. PICK next : next = explained(acc, plan, ctx, s)
    BY Zenon
<1>7. next.seen = acc.seen \cup {Said(plan, ctx, s)} /\ next.shadows = r.shadows
    BY <1>4, <1>5, <1>6 DEF explained
<1>8. next.seen = {Said(plan, ctx, ops[n]) : n \in 1..(k + 1)}
    BY Zenon, <1>1, <1>2, <1>7 DEF Halfway
<1>9. ASSUME NEW n \in (k + 2)..Len(ops) PROVE Untouched(next.shadows, ops[n].id)
  <2>1. n \in DOMAIN ops /\ n # k + 1 /\ Untouched(acc.shadows, ops[n].id) /\ ops[n].id \in Id
    BY Zenon, <1>1, <1>9 DEF Halfway, Independent, Found
  <2>2. ops[n].id # s.id
    BY Zenon, <1>1, <1>2, <2>1 DEF Independent
  <2> QED
    BY Zenon, <1>5, <1>7, <2>1, <2>2 DEF Untouched
<1> QED
    BY Zenon, <1>1, <1>2, <1>5, <1>6, <1>7, <1>8, <1>9 DEF Halfway

(* explain_transaction_inner answers with what is said of each step by       *)
(* itself.                                                                   *)
LEMMA TransactionExplained ==
    ASSUME NEW plan, NEW ctx, NEW ops, Independent(ops)
    PROVE  explain_transaction_inner(plan, ctx, ops) = strictest({Said(plan, ctx, ops[n]) : n \in DOMAIN ops})
<1>l. Len(ops) \in Nat
    BY Zenon DEF Independent
<1> DEFINE after == CHOOSE g : g = [n \in 0..Len(ops) |-> IF n = 0 THEN Unexplained
                                                          ELSE explained(g[n - 1], plan, ctx, ops[n])]
<1>1. explain_transaction_inner(plan, ctx, ops) = strictest(after[Len(ops)].seen)
    BY Zenon DEF explain_transaction_inner
<1>2. \E g : g = [n \in 0..Len(ops) |-> IF n = 0 THEN Unexplained ELSE explained(g[n - 1], plan, ctx, ops[n])]
  <2>1. \A k \in Nat : \E g : Explanation(g, plan, ctx, ops, k)
    BY ExplanationExists
  <2>2. PICK g : Explanation(g, plan, ctx, ops, Len(ops))
    BY Zenon, <1>l, <2>1
  <2> QED
    BY Zenon, <2>2 DEF Explanation
<1>3. after = [n \in 0..Len(ops) |-> IF n = 0 THEN Unexplained ELSE explained(after[n - 1], plan, ctx, ops[n])]
    BY Zenon, <1>2
<1> HIDE DEF after
<1>4. \A n \in 0..Len(ops) : after[n] = IF n = 0 THEN Unexplained ELSE explained(after[n - 1], plan, ctx, ops[n])
    BY Zenon, <1>3
<1> DEFINE have == {k \in Nat : k <= Len(ops) => Halfway(after[k], plan, ctx, ops, k)}
<1>5. 0 \in have
  <2>1. after[0] = Unexplained /\ 1..0 = {} /\ 0 + 1 = 1
    BY <1>l, <1>4
  <2>2. Unexplained.seen = {} /\ DOMAIN Unexplained.shadows = Id /\ \A i \in Id : Unexplained.shadows[i] = NoDocument
    BY DEF Unexplained
  <2>3. ASSUME NEW n \in 1..Len(ops) PROVE Untouched(Unexplained.shadows, ops[n].id)
    BY Zenon, <2>2, <2>3 DEF Untouched, Independent, Found
  <2>4. Unexplained.seen = {Said(plan, ctx, ops[n]) : n \in 1..0}
    BY Zenon, <2>1, <2>2
  <2>5. Halfway(after[0], plan, ctx, ops, 0)
    BY Zenon, <2>1, <2>2, <2>3, <2>4 DEF Halfway
  <2> QED
    BY <2>5
<1>6. ASSUME NEW k \in Nat, k \in have PROVE k + 1 \in have
  <2>1. ASSUME k + 1 <= Len(ops) PROVE Halfway(after[k + 1], plan, ctx, ops, k + 1)
    <3>1. k <= Len(ops) /\ k + 1 \in 0..Len(ops) /\ k + 1 # 0 /\ (k + 1) - 1 = k
      BY <1>l, <2>1
    <3>2. Halfway(after[k], plan, ctx, ops, k)
      BY Zenon, <1>6, <3>1
    <3>3. after[k + 1] = explained(after[k], plan, ctx, ops[k + 1])
      BY Zenon, <1>4, <3>1
    <3>4. Halfway(explained(after[k], plan, ctx, ops[k + 1]), plan, ctx, ops, k + 1)
      BY Zenon, <2>1, <3>2, OneMoreExplained
    <3> QED
      BY Zenon, <3>3, <3>4
  <2>2. k + 1 \in Nat
    OBVIOUS
  <2> QED
    BY Zenon, <2>1, <2>2
<1>7. \A k \in Nat : k \in have
    BY Zenon, <1>5, <1>6, Everything
<1>8. Len(ops) <= Len(ops)
    BY <1>l
<1>9. Halfway(after[Len(ops)], plan, ctx, ops, Len(ops))
    BY Zenon, <1>l, <1>7, <1>8
<1> QED
    BY Zenon, <1>1, <1>9 DEF Halfway, Independent

(* The preview of a transaction foretells its commit, whatever is stored.    *)
LEMMA PreviewIsCommit ==
    ASSUME TypeOK
    PROVE  PreviewForetellsCommit
<1> SUFFICES ASSUME NEW plan \in Plan, NEW subject \in Subject, NEW ops \in Steps, Plain(ops)
             PROVE  LET ctx == Ctx(subject, "update", NoDocument, Missing, {})
                        surfaces == IF \E n \in DOMAIN ops : ops[n].kind = "patch" THEN {"graphql"}
                                    ELSE {"graphql", "gateway"}
                        commits(surface, approved) == enforce_transaction_policy(plan, ctx,
                            [n \in DOMAIN ops |-> Stage(ops[n], surface)], approved)
                        foretold(said) == \A surface \in surfaces, approved \in BOOLEAN :
                            commits(surface, approved)
                                = (said \in {"allow"} \cup IF approved THEN {"needs_approval"} ELSE {})
                    IN  foretold(explain_transaction_inner(plan, ctx, ops))
    BY Zenon DEF PreviewForetellsCommit
<1> DEFINE ctx == Ctx(subject, "update", NoDocument, Missing, {})
<1> DEFINE surfaces == IF \E n \in DOMAIN ops : ops[n].kind = "patch" THEN {"graphql"} ELSE {"graphql", "gateway"}
<1> DEFINE seen == {Said(plan, ctx, ops[n]) : n \in DOMAIN ops}
<1>1. Independent(ops)
  <2>1. ASSUME NEW n \in DOMAIN ops PROVE Found(ops[n])
    <3>1. /\ ops[n].kind \in {"create", "update", "patch", "delete"} /\ ops[n].id \in Id
          /\ ops[n].kind = "patch" => ops[n].patch # NoDocument
      BY Zenon, <2>1, StepsAssumption
    <3>2. ASSUME ops[n].kind # "create" PROVE Stored(ops[n].id) # NoDocument
      <4>1. rows[ops[n].id] # Absent
        BY Zenon, <2>1, <3>2 DEF Plain
      <4>2. rows[ops[n].id] \in Row
        BY Zenon, <3>1, <4>1 DEF TypeOK
      <4>3. rows[ops[n].id].data \in Document
        BY <4>2 DEF Row
      <4> QED
        BY Zenon, <4>1, <4>3, StepsAssumption DEF Stored
    <3> QED
      BY Zenon, <3>1, <3>2 DEF Found
  <2>2. Len(ops) \in Nat /\ DOMAIN ops = 1..Len(ops)
    BY Zenon, StepsAssumption
  <2> QED
    BY Zenon, <2>1, <2>2 DEF Independent, Plain
<1> HIDE DEF ctx
<1>2. explain_transaction_inner(plan, ctx, ops) = strictest(seen)
    BY <1>1, TransactionExplained
<1>3. seen \in SUBSET {"deny", "needs_approval", "allow"}
  <2>1. \A n \in DOMAIN ops : Said(plan, ctx, ops[n]) \in {"deny", "needs_approval", "allow"}
    BY Zenon, WriteExplained DEF Said
  <2> QED
    BY Zenon, <2>1
<1>4. ASSUME NEW surface \in surfaces, NEW approved \in BOOLEAN
      PROVE  enforce_transaction_policy(plan, ctx, [n \in DOMAIN ops |-> Stage(ops[n], surface)], approved)
                 = (explain_transaction_inner(plan, ctx, ops) \in Passes(approved))
  <2>1. PICK staged : staged = [n \in DOMAIN ops |-> Stage(ops[n], surface)]
    BY Zenon
  <2>2. DOMAIN staged = DOMAIN ops /\ \A n \in DOMAIN ops : staged[n] = Stage(ops[n], surface)
    BY Zenon, <2>1
  <2> DEFINE check(op) == Check(op.mutation, IF op.mutation = "create" THEN NoDocument ELSE Stored(op.id),
                                op.data, transaction_write_scope(op))
  <2>3. ASSUME NEW n \in DOMAIN ops
        PROVE  (enforce_write_policy(plan, ctx, check(staged[n]), approved) = "ok")
                   = (Said(plan, ctx, ops[n]) \in Passes(approved))
    <3>1. ops[n].kind = "patch" => surface # "gateway"
      BY <1>4, <2>3
    <3>2. Found(ops[n])
      BY Zenon, <1>1, <2>3 DEF Independent
    <3>3. check(staged[n]) = CheckOf(ops[n])
      BY Zenon, <2>2, <2>3, <3>1, <3>2, StagedAlike
    <3> HIDE DEF check
    <3>4. (enforce_write_policy(plan, ctx, CheckOf(ops[n]), approved) = "ok")
              = (explain_write_policy_response(plan, ctx, CheckOf(ops[n])) \in Passes(approved))
      BY WriteExplained
    <3> QED
      BY Zenon, <3>3, <3>4 DEF Said
  <2>4. enforce_transaction_policy(plan, ctx, staged, approved) =
            \A n \in DOMAIN staged : enforce_write_policy(plan, ctx, check(staged[n]), approved) = "ok"
    BY Zenon DEF enforce_transaction_policy
  <2> HIDE DEF check
  <2>5. enforce_transaction_policy(plan, ctx, staged, approved) = (\A d \in seen : d \in Passes(approved))
    BY Zenon, <2>2, <2>3, <2>4
  <2> HIDE DEF seen
  <2>6. (strictest(seen) \in Passes(approved)) = (\A d \in seen : d \in Passes(approved))
    BY Zenon, <1>3, StrictestDecides
  <2> QED
    BY Zenon, <1>2, <2>1, <2>5, <2>6
<1> QED
    BY Zenon, <1>4 DEF Passes, ctx

----------------------------------------------------------------------------
(* Filters                                                                   *)

(* A filter on a field is true or false.                                     *)
LEMMA FieldFilterIsBoolean ==
    ASSUME NEW c, NEW d, c.op \in {"eq", "ne", "in", "gt", "gte", "lt", "lte"}
    PROVE  apply_field_filter(c, d) \in BOOLEAN
<1>1. CASE c.op = "eq"  BY <1>1 DEF apply_field_filter
<1>2. CASE c.op = "ne"  BY <1>2 DEF apply_field_filter
<1>3. CASE c.op = "in"  BY <1>3 DEF apply_field_filter
<1>4. CASE c.op = "gt"  BY <1>4 DEF apply_field_filter
<1>5. CASE c.op = "gte"  BY <1>5 DEF apply_field_filter
<1>6. CASE c.op = "lt"  BY <1>6 DEF apply_field_filter
<1>7. CASE c.op = "lte"  BY <1>7 DEF apply_field_filter
<1> QED
    BY Zenon, <1>1, <1>2, <1>3, <1>4, <1>5, <1>6, <1>7

(* So is a filter, whatever its parts are said to be.                        *)
LEMMA AppliesIsBoolean ==
    ASSUME NEW c \in Filter, NEW m, NEW d
    PROVE  AppliesBy(m, c, d) \in BOOLEAN
<1>1. /\ c.k \in {"none", "field", "and", "or"}
      /\ c.k = "field" => c.op \in {"eq", "ne", "in", "gt", "gte", "lt", "lte"}
    BY Zenon, FilterAssumption
<1>2. CASE c.k = "none"  BY <1>2 DEF AppliesBy
<1>3. CASE c.k = "field"
  <2>1. apply_field_filter(c, d) \in BOOLEAN
    BY <1>1, <1>3, FieldFilterIsBoolean
  <2> QED
    BY <1>3, <2>1 DEF AppliesBy
<1>4. CASE c.k = "and"  BY <1>4 DEF AppliesBy
<1>5. CASE c.k = "or"  BY <1>5 DEF AppliesBy
<1> QED
    BY Zenon, <1>1, <1>2, <1>3, <1>4, <1>5

(* Nothing but its parts is asked for.                                       *)
LEMMA AppliesLooksBelow ==
    ASSUME NEW c \in Filter, NEW g, NEW h, NEW d,
           \A q \in Filter : FilterDepth[q] < FilterDepth[c] => g[q] = h[q]
    PROVE  AppliesBy(g, c, d) = AppliesBy(h, c, d)
<1>1. c.k \in {"and", "or"} => \A n \in DOMAIN c.of : g[c.of[n]] = h[c.of[n]]
    BY Zenon, FilterAssumption
<1>2. CASE c.k = "and"  BY <1>1, <1>2 DEF AppliesBy
<1>3. CASE c.k = "or"  BY <1>1, <1>3 DEF AppliesBy
<1>4. CASE c.k \notin {"and", "or"}  BY <1>4 DEF AppliesBy
<1> QED
    BY Zenon, <1>2, <1>3, <1>4

(* apply_filter is what its definition says, level by level.                 *)
LEMMA FilterEquation ==
    ASSUME NEW d
    PROVE  \A c \in Filter :
               apply_filter(c, d) = AppliesBy([q \in Filter |-> apply_filter(q, d)], c, d)
<1> DEFINE T == BOOLEAN
<1> DEFINE F == [c \in Filter |-> [g \in [Filter -> T] |-> AppliesBy(g, c, d)]]
<1> DEFINE rank == [c \in Filter |-> FilterDepth[c]]
<1>1. rank \in [Filter -> Nat] /\ \A c \in Filter : rank[c] = FilterDepth[c]
    BY FilterAssumption
<1> HIDE DEF rank
<1>2. \A c \in Filter : \A g \in [Filter -> T] : F[c][g] = AppliesBy(g, c, d)
    BY Zenon
<1>3. F \in [Filter -> [[Filter -> T] -> T]]
    BY Zenon, AppliesIsBoolean
<1> HIDE DEF F
<1>4. LooksBelow(F, rank, Filter, T)
  <2>1. ASSUME NEW c \in Filter, NEW g \in [Filter -> T], NEW h \in [Filter -> T],
               \A q \in Filter : rank[q] < rank[c] => g[q] = h[q]
        PROVE  F[c][g] = F[c][h]
    <3>1. \A q \in Filter : FilterDepth[q] < FilterDepth[c] => g[q] = h[q]
      BY Zenon, <1>1, <2>1
    <3>2. AppliesBy(g, c, d) = AppliesBy(h, c, d)
      BY <3>1, AppliesLooksBelow
    <3> QED
      BY Zenon, <1>2, <3>2
  <2> QED
    BY Zenon, <2>1 DEF LooksBelow
<1>5. PICK f \in [Filter -> T] : \A c \in Filter : f[c] = F[c][f]
  <2>1. T # {}
    BY Zenon
  <2> HIDE DEF T
  <2>2. Solvable(F, Filter, T)
    BY Zenon, <1>1, <1>3, <1>4, <2>1, Recursion
  <2> QED
    BY Zenon, <2>2 DEF Solvable
<1>6. f = [q \in Filter |-> AppliesBy(f, q, d)]
    BY Zenon, <1>2, <1>5
<1> DEFINE M == CHOOSE m : m = [q \in Filter |-> AppliesBy(m, q, d)]
<1>7. M = [q \in Filter |-> AppliesBy(M, q, d)]
    BY Zenon, <1>6
<1>8. \A c : apply_filter(c, d) = M[c]
    BY Zenon DEF apply_filter
<1> HIDE DEF M
<1>9. M = [q \in Filter |-> apply_filter(q, d)]
    BY Zenon, <1>7, <1>8
<1>10. \A c \in Filter : M[c] = AppliesBy(M, c, d)
    BY Zenon, <1>7
<1> QED
    BY Zenon, <1>8, <1>9, <1>10

(* A filter on a field, and a conjunction, in terms of their parts.          *)
LEMMA FilterUnfolds ==
    ASSUME NEW d, NEW c \in Filter
    PROVE  /\ c.k = "field" => apply_filter(c, d) = apply_field_filter(c, d)
           /\ c.k = "and" => (apply_filter(c, d) = \A n \in DOMAIN c.of : apply_filter(c.of[n], d))
<1>1. PICK M : M = [q \in Filter |-> apply_filter(q, d)]
    BY Zenon
<1>2. \A q \in Filter : M[q] = apply_filter(q, d) /\ M[q] = AppliesBy(M, q, d)
    BY Zenon, <1>1, FilterEquation
<1>3. apply_filter(c, d) = AppliesBy(M, c, d)
    BY Zenon, <1>2
<1>4. c.k = "and" => \A n \in DOMAIN c.of : M[c.of[n]] = apply_filter(c.of[n], d)
    BY Zenon, <1>2, FilterAssumption
<1>5. c.k = "field" => apply_filter(c, d) = apply_field_filter(c, d)
    BY <1>3 DEF AppliesBy
<1>6. ASSUME c.k = "and" PROVE apply_filter(c, d) = \A n \in DOMAIN c.of : apply_filter(c.of[n], d)
    BY <1>3, <1>4, <1>6 DEF AppliesBy
<1> QED
    BY Zenon, <1>5, <1>6

----------------------------------------------------------------------------
(* Index lookups                                                             *)

(* A value ranks as itself, after a null and a missing one.                  *)
LEMMA RankOfValue ==
    /\ \A v \in Value : v \in Nat /\ Rank(v) = v
    /\ Rank(Missing) = -2 /\ Rank(Null) = -1
<1>1. ASSUME NEW v \in Value PROVE v \in Nat /\ v # Missing /\ v # Null
    BY Zenon, <1>1, DocumentAssumption
<1>2. Null # Missing
    BY Zenon, DocumentAssumption
<1> QED
    BY <1>1, <1>2 DEF Rank

(* What is there has a document of the fields.                               *)
LEMMA RowHasDocument ==
    ASSUME TypeOK, NEW i \in Live
    PROVE  /\ i \in Id /\ rows[i] # Absent
           /\ \A f \in Field : rows[i].data[f] \in Value \/ rows[i].data[f] \in {Null, Missing}
<1>1. i \in Id /\ rows[i] # Absent
    BY Zenon DEF Live
<1>2. rows[i] \in Row
    BY Zenon, <1>1 DEF TypeOK
<1>3. rows[i].data \in Document
    BY <1>2 DEF Row
<1>4. rows[i].data \in [Field -> Value \cup {Null, Missing}]
    BY Zenon, <1>3, DocumentAssumption
<1> QED
    BY Zenon, <1>1, <1>4

(* Indexed fields are fields.                                                *)
LEMMA IndexedIsField ==
    ASSUME TypeOK
    PROVE  Indexed \subseteq Field
<1>1. Declared(Latest) \in Schema \cup {NoSchema}
    BY DeclaredIsSchema
<1> QED
    BY Zenon, <1>1, SchemaFields DEF Indexed

(* A row that was written under an index of f has its entry.                 *)
LEMMA RowIsIndexed ==
    ASSUME TypeOK, IndexHoldsRows, NEW i \in Live, NEW f, Current(f), rows[i].data[f] \in Value
    PROVE  \E e \in single : e.id = i /\ e.field = f /\ e.value = rows[i].data[f]
<1>1. PICK e : e = [field |-> f, value |-> rows[i].data[f], id |-> i]
    BY Zenon
<1>2. e.id = i /\ e.field = f /\ e.value = rows[i].data[f]
    BY <1>1
<1>3. PICK defs : defs = Declared(rows[i].under)
    BY Zenon
<1>4. f \in defs.idx
    BY Zenon, <1>3 DEF Current
<1>5. e \in [field : defs.idx, value : Value, id : {i}]
    BY <1>1, <1>4
<1>6. e \in SingleEntries(i, rows[i].data, defs)
    BY Zenon, <1>2, <1>5 DEF SingleEntries
<1>7. SingleEntries(i, rows[i].data, defs) \subseteq single
    BY Zenon, <1>3 DEF IndexHoldsRows, Live
<1> QED
    BY Zenon, <1>2, <1>6, <1>7

(* index_lookup finds every row that has the value.                          *)
LEMMA LookupFinds ==
    ASSUME TypeOK, IndexHoldsRows, NEW i \in Live, NEW f, Current(f), rows[i].data[f] \in Value
    PROVE  i \in index_lookup(f, rows[i].data[f])
<1>1. PICK e \in single : e.id = i /\ e.field = f /\ e.value = rows[i].data[f]
    BY Zenon, RowIsIndexed
<1> QED
    BY Zenon, <1>1 DEF index_lookup

\* The outcomes of a comparison that an operator wants.
Wanted(op) ==
    CASE op = "gt" -> {"Greater"} [] op = "gte" -> {"Greater", "Equal"}
      [] op = "lt" -> {"Less"} [] op = "lte" -> {"Less", "Equal"}

(* index_range finds every row whose value compares as asked for.  A field   *)
(* without a value is less than any, hence Total.                            *)
LEMMA RangeFinds ==
    ASSUME TypeOK, IndexHoldsRows, NEW i \in Live, NEW f \in Field, Current(f),
           NEW v \in Value, NEW op \in {"gt", "gte", "lt", "lte"},
           op \in {"lt", "lte"} => Total(f),
           compare_values(rows[i].data[f], v) \in Wanted(op)
    PROVE  i \in index_range(f, op, v)
<1>1. PICK x : x = rows[i].data[f]
    BY Zenon
<1>2. x \in Value \/ x \in {Null, Missing}
    BY Zenon, <1>1, RowHasDocument
<1>3. compare_values(x, v) \in Wanted(op)
    BY Zenon, <1>1
<1>4. v \in Nat /\ Rank(v) = v
    BY Zenon, RankOfValue
<1>5. x \in Value
  <2>1. CASE op \in {"lt", "lte"}
    BY Zenon, <1>1, <2>1 DEF Total
  <2>2. CASE op \in {"gt", "gte"} /\ x \in {Null, Missing}
    <3>1. Rank(x) < v
      BY <1>4, <2>2, RankOfValue
    <3>2. compare_values(x, v) = "Less"
      BY <1>4, <3>1 DEF compare_values
    <3> QED
      BY <1>3, <2>2, <3>2 DEF Wanted
  <2> QED
    BY Zenon, <1>2, <2>1, <2>2
<1>6. x \in Nat /\ Rank(x) = x
    BY Zenon, <1>5, RankOfValue
<1>7. (CASE op = "gt" -> x > v [] op = "gte" -> x >= v [] op = "lt" -> x < v [] op = "lte" -> x <= v)
  <2>1. CASE op = "gt"  BY <1>3, <1>4, <1>6, <2>1 DEF compare_values, Wanted
  <2>2. CASE op = "gte"  BY <1>3, <1>4, <1>6, <2>2 DEF compare_values, Wanted
  <2>3. CASE op = "lt"  BY <1>3, <1>4, <1>6, <2>3 DEF compare_values, Wanted
  <2>4. CASE op = "lte"  BY <1>3, <1>4, <1>6, <2>4 DEF compare_values, Wanted
  <2> QED
    BY Zenon, <2>1, <2>2, <2>3, <2>4
<1>8. PICK e \in single : e.id = i /\ e.field = f /\ e.value = x
  <2>1. rows[i].data[f] \in Value
    BY Zenon, <1>1, <1>5
  <2>2. \E e \in single : e.id = i /\ e.field = f /\ e.value = rows[i].data[f]
    BY ZenonT(60), <2>1, RowIsIndexed
  <2> QED
    BY Zenon, <1>1, <2>2
<1> QED
    BY Zenon, <1>7, <1>8 DEF index_range


(* Candidates are not mistaken for a scan.                                   *)
LEMMA NarrowIsNotScan ==
    ASSUME NEW ids
    PROVE  Narrow(ids) # Scan /\ Narrow(ids).ids = ids
<1>1. Narrow(ids).k = "ids" /\ Scan.k = "scan" /\ Narrow(ids).ids = ids
    BY DEF Narrow, Scan
<1>2. "ids" # "scan"
    OBVIOUS
<1> QED
    BY Zenon, <1>1, <1>2

(* The rows looked up for a comparison of a filter are all that match it.    *)
LEMMA FieldFilterFinds ==
    ASSUME TypeOK, IndexHoldsRows, NEW i \in Live, NEW c, c.name \in Indexed, Faithful(c), c.value \in Value,
           apply_field_filter(c, rows[i].data)
    PROVE  /\ c.op = "eq" => i \in index_lookup(c.name, c.value)
           /\ c.op \in {"gt", "gte", "lt", "lte"} => i \in index_range(c.name, c.op, c.value)
<1>1. c.name \in Field
    BY Zenon, IndexedIsField
<1>2. Current(c.name) /\ (c.op \in {"lt", "lte"} => Total(c.name))
    BY Zenon DEF Faithful
<1>3. PICK f : f = c.name
    BY Zenon
<1>4. PICK v : v = c.value
    BY Zenon
<1>5. PICK op : op = c.op
    BY Zenon
<1>6. ASSUME op = "eq" PROVE i \in index_lookup(f, v)
  <2>1. rows[i].data[f] = v
    BY <1>3, <1>4, <1>5, <1>6 DEF apply_field_filter
  <2>2. rows[i].data[f] \in Value /\ Current(f)
    BY Zenon, <1>2, <1>3, <1>4, <2>1
  <2>3. i \in index_lookup(f, rows[i].data[f])
    BY Zenon, <2>2, LookupFinds
  <2> QED
    BY Zenon, <2>1, <2>3
<1>7. ASSUME op \in {"gt", "gte", "lt", "lte"} PROVE i \in index_range(f, op, v)
  <2>1. compare_values(rows[i].data[f], v) \in Wanted(op)
    <3>1. CASE op = "gt"  BY <1>3, <1>4, <1>5, <3>1 DEF apply_field_filter, Wanted
    <3>2. CASE op = "gte"  BY Zenon, <1>3, <1>4, <1>5, <3>2 DEF apply_field_filter, Wanted
    <3>3. CASE op = "lt"  BY Zenon, <1>3, <1>4, <1>5, <3>3 DEF apply_field_filter, Wanted
    <3>4. CASE op = "lte"  BY <1>3, <1>4, <1>5, <3>4 DEF apply_field_filter, Wanted
    <3> QED
      BY Zenon, <1>7, <3>1, <3>2, <3>3, <3>4
  <2>2. f \in Field /\ Current(f) /\ v \in Value /\ (op \in {"lt", "lte"} => Total(f))
    BY Zenon, <1>1, <1>2, <1>3, <1>4, <1>5
  <2> QED
    BY <1>7, <2>1, <2>2, RangeFinds
<1> QED
    BY Zenon, <1>3, <1>4, <1>5, <1>6, <1>7

(* The index path of a filter loses no row that matches.                     *)
LEMMA FilterNarrows ==
    ASSUME TypeOK, IndexHoldsRows, NEW c \in Filter, FaithfulFilter(c), NEW i \in Live,
           apply_filter(c, rows[i].data)
    PROVE  i \in Fetched(try_index_lookup(c))
<1> DEFINE usable(q) == q.k = "field" /\ q.name \in Indexed
<1> DEFINE eq(q) == usable(q) /\ q.op = "eq" /\ q.value \in Value
<1> DEFINE range(q) == usable(q) /\ q.op \in {"gt", "gte", "lt", "lte"} /\ q.value \in Value
<1> DEFINE eqs == IF c.k = "and" THEN {n \in DOMAIN c.of : eq(c.of[n])} ELSE {}
<1>1. ASSUME NEW ids, i \in ids, try_index_lookup(c) = Narrow(ids) PROVE i \in Fetched(try_index_lookup(c))
    BY Zenon, <1>1, NarrowIsNotScan DEF Fetched
<1>2. ASSUME NEW q \in Filter, q.k = "field", Faithful(q), apply_filter(q, rows[i].data)
      PROVE  /\ eq(q) => i \in index_lookup(q.name, q.value)
             /\ range(q) => i \in index_range(q.name, q.op, q.value)
  <2>1. apply_field_filter(q, rows[i].data)
    BY Zenon, <1>2, FilterUnfolds
  <2> QED
    BY Zenon, <1>2, <2>1, FieldFilterFinds
<1>3. CASE eq(c)
  <2>1. try_index_lookup(c) = Narrow(index_lookup(c.name, c.value))
    BY <1>3 DEF try_index_lookup
  <2> QED
    BY Zenon, <1>1, <1>2, <1>3, <2>1 DEF FaithfulFilter
<1>4. CASE range(c)
  <2>1. try_index_lookup(c) = Narrow(index_range(c.name, c.op, c.value))
    BY <1>4 DEF try_index_lookup
  <2> QED
    BY Zenon, <1>1, <1>2, <1>4, <2>1 DEF FaithfulFilter
<1>5. CASE eqs # {}
  <2> DEFINE n == CHOOSE x \in eqs : \A m \in eqs : x <= m
  <2>1. c.k = "and" /\ eqs \in SUBSET Nat
    BY Zenon, <1>5, FilterAssumption
  <2>2. n \in eqs
    <3>1. \E x \in eqs : \A m \in eqs : x <= m
      BY Zenon, <1>5, <2>1, Least
    <3> QED
      BY Zenon, <3>1
  <2>3. try_index_lookup(c) = Narrow(index_lookup(c.of[n].name, c.of[n].value))
    <3>1. ~eq(c) /\ ~range(c)
      BY <2>1
    <3> QED
      BY Zenon, <1>5, <3>1 DEF try_index_lookup
  <2> HIDE DEF n
  <2>4. n \in DOMAIN c.of /\ eq(c.of[n]) /\ c.of[n] \in Filter
    BY Zenon, <2>1, <2>2, FilterAssumption
  <2>5. apply_filter(c.of[n], rows[i].data)
    BY Zenon, <2>1, <2>4, FilterUnfolds
  <2>6. Faithful(c.of[n])
    BY Zenon, <2>1, <2>4 DEF FaithfulFilter
  <2>7. i \in index_lookup(c.of[n].name, c.of[n].value)
    BY Zenon, <1>2, <2>4, <2>5, <2>6
  <2> QED
    BY Zenon, <1>1, <2>3, <2>7
<1>6. CASE ~eq(c) /\ ~range(c) /\ eqs = {}
  <2>1. try_index_lookup(c) = Scan
    BY Zenon, <1>6 DEF try_index_lookup
  <2> QED
    BY Zenon, <2>1 DEF Fetched
<1> QED
    BY Zenon, <1>3, <1>4, <1>5, <1>6

----------------------------------------------------------------------------
(* Candidates of the read policy                                             *)

(* FaithfulPredicate is what its definition says, level by level.            *)
LEMMA FaithfulEquation ==
    ASSUME NEW subject
    PROVE  \A p \in Predicate :
               FaithfulPredicate(p, subject) =
                   FaithfulBy([q \in Predicate |-> FaithfulPredicate(q, subject)], p, subject)
<1> DEFINE T == BOOLEAN
<1> DEFINE F == [p \in Predicate |-> [g \in [Predicate -> T] |-> FaithfulBy(g, p, subject)]]
<1>1. PICK rank : rank \in [Predicate -> Nat] /\ \A p \in Predicate : rank[p] = PredicateDepth[p]
    BY Zenon, DepthIsRank
<1>2. ASSUME NEW p \in Predicate, NEW g PROVE FaithfulBy(g, p, subject) \in BOOLEAN
  <2>1. CASE p.k \in {"all", "any"}
    BY Zenon, <2>1 DEF FaithfulBy
  <2>2. CASE p.k = "compare" /\ p.target = "field"
    BY <2>2 DEF FaithfulBy
  <2>3. CASE ~(p.k \in {"all", "any"}) /\ ~(p.k = "compare" /\ p.target = "field")
    BY Zenon, <2>3 DEF FaithfulBy
  <2> QED
    BY Zenon, <2>1, <2>2, <2>3
<1>3. \A p \in Predicate : \A g \in [Predicate -> T] : F[p][g] = FaithfulBy(g, p, subject)
    BY Zenon
<1>4. F \in [Predicate -> [[Predicate -> T] -> T]]
    BY Zenon, <1>2
<1> HIDE DEF F
<1>5. LooksBelow(F, rank, Predicate, T)
  <2>1. ASSUME NEW p \in Predicate, NEW g \in [Predicate -> T], NEW h \in [Predicate -> T],
               \A q \in Predicate : rank[q] < rank[p] => g[q] = h[q]
        PROVE  F[p][g] = F[p][h]
    <3>1. SameBelow(g, h, p)
      BY Zenon, <1>1, <2>1 DEF SameBelow
    <3>2. p.k \in {"all", "any"} => \A n \in DOMAIN p.of : g[p.of[n]] = h[p.of[n]]
      BY <3>1, SameOnParts
    <3>3. FaithfulBy(g, p, subject) = FaithfulBy(h, p, subject)
      <4>1. CASE p.k \in {"all", "any"}
        BY Zenon, <3>2, <4>1 DEF FaithfulBy
      <4>2. CASE ~(p.k \in {"all", "any"})
        BY <4>2 DEF FaithfulBy
      <4> QED
        BY Zenon, <4>1, <4>2
    <3> QED
      BY Zenon, <1>3, <3>3
  <2> QED
    BY Zenon, <2>1 DEF LooksBelow
<1>6. PICK f \in [Predicate -> T] : \A p \in Predicate : f[p] = F[p][f]
  <2>1. T # {}
    BY Zenon
  <2> HIDE DEF T
  <2>2. Solvable(F, Predicate, T)
    BY Zenon, <1>1, <1>4, <1>5, <2>1, Recursion
  <2> QED
    BY Zenon, <2>2 DEF Solvable
<1>7. f = [q \in Predicate |-> FaithfulBy(f, q, subject)]
    BY Zenon, <1>3, <1>6
<1> DEFINE M == CHOOSE m : m = [q \in Predicate |-> FaithfulBy(m, q, subject)]
<1>8. M = [q \in Predicate |-> FaithfulBy(M, q, subject)]
    BY Zenon, <1>7
<1>9. \A p : FaithfulPredicate(p, subject) = M[p]
    BY Zenon DEF FaithfulPredicate
<1> HIDE DEF M
<1>10. M = [q \in Predicate |-> FaithfulPredicate(q, subject)]
    BY Zenon, <1>8, <1>9
<1>11. \A p \in Predicate : M[p] = FaithfulBy(M, p, subject)
    BY Zenon, <1>8
<1> QED
    BY Zenon, <1>9, <1>10, <1>11

(* The parts of a predicate the indexes answer for are answered for too.     *)
LEMMA FaithfulUnfolds ==
    ASSUME NEW subject, NEW p \in Predicate, FaithfulPredicate(p, subject)
    PROVE  /\ p.k \in {"all", "any"} => \A n \in DOMAIN p.of : FaithfulPredicate(p.of[n], subject)
           /\ p.k = "compare" /\ p.target = "field" =>
                  (p.name \in Indexed => Faithful(p) /\ Null \notin Comparands(p, subject))
<1>1. PICK M : M = [q \in Predicate |-> FaithfulPredicate(q, subject)]
    BY Zenon
<1>2. \A q \in Predicate : M[q] = FaithfulPredicate(q, subject) /\ M[q] = FaithfulBy(M, q, subject)
    BY Zenon, <1>1, FaithfulEquation
<1>3. FaithfulBy(M, p, subject)
    BY Zenon, <1>2
<1>4. p.k \in {"all", "any"} => \A n \in DOMAIN p.of : M[p.of[n]] = FaithfulPredicate(p.of[n], subject)
    BY Zenon, <1>2, PartsAreSmaller
<1>5. ASSUME p.k \in {"all", "any"} PROVE \A n \in DOMAIN p.of : FaithfulPredicate(p.of[n], subject)
    BY <1>3, <1>4, <1>5 DEF FaithfulBy
<1>6. ASSUME p.k = "compare", p.target = "field", p.name \in Indexed
      PROVE  Faithful(p) /\ Null \notin Comparands(p, subject)
    BY <1>3, <1>6 DEF FaithfulBy
<1> QED
    BY Zenon, <1>5, <1>6

Answers == {All} \cup {Ids(s) : s \in SUBSET Id} \cup {Unindexed(x) : x \in {Missing} \cup {p.name : p \in Predicate}}

(* The kinds of answers are told apart.                                      *)
LEMMA AnswerKinds ==
    /\ All.k = "all" /\ \A s : Ids(s).k = "indexed" /\ Ids(s).ids = s
    /\ \A x : Unindexed(x).k = "unindexed"
BY DEF All, Ids, Unindexed

(* Lookups find ids.                                                         *)
LEMMA LookupsAreIds ==
    ASSUME TypeOK
    PROVE  /\ \A f, v : index_lookup(f, v) \in SUBSET Id
           /\ \A f, op, v : index_range(f, op, v) \in SUBSET Id
<1>1. \A e \in single : e.id \in Id
  <2>1. \A e \in Entry : e.id \in Id
    BY DEF Entry
  <2> QED
    BY Zenon, <2>1 DEF TypeOK
<1> QED
    BY Zenon, <1>1 DEF index_lookup, index_range

\* The parts that are planned as k says, and the ids of the indexed ones.
Parts(m, p, k) == {n \in DOMAIN p.of : m[p.of[n]].k = k}
IdSets(m, p) == {m[p.of[n]].ids : n \in Parts(m, p, "indexed")}
Shared(sets) == {i \in UNION sets : \A s \in sets : i \in s}

AllPlanned(plan, m, p) ==
    \/ \E n \in Parts(m, p, "unindexed") : plan = m[p.of[n]]
    \/ plan = All
    \/ IdSets(m, p) # {} /\ plan = Ids(Shared(IdSets(m, p)))

AnyPlanned(plan, m, p) ==
    \/ \E n \in Parts(m, p, "all") \cup Parts(m, p, "unindexed") : plan = m[p.of[n]]
    \/ Parts(m, p, "all") \cup Parts(m, p, "unindexed") = {} /\ plan = Ids(UNION IdSets(m, p))

(* What the parts of a conjunction make of it.                               *)
LEMMA AllCandidates ==
    ASSUME NEW p \in Predicate, p.k = "all", NEW m, NEW ctx
    PROVE  AllPlanned(CandidatesBy(m, p, ctx), m, p)
<1> DEFINE sub == [n \in DOMAIN p.of |-> m[p.of[n]]]
<1> DEFINE Is(k) == {n \in DOMAIN sub : sub[n].k = k}
<1> DEFINE Sets == {sub[n].ids : n \in Is("indexed")}
<1> DEFINE n == CHOOSE x \in Is("unindexed") : \A y \in Is("unindexed") : x <= y
<1>1. CandidatesBy(m, p, ctx) = IF Is("unindexed") # {} THEN sub[n]
                                ELSE IF Sets = {} THEN All
                                ELSE Ids(Shared(Sets))
    BY Zenon DEF CandidatesBy, Shared
<1>2. DOMAIN sub = DOMAIN p.of /\ \A x \in DOMAIN p.of : sub[x] = m[p.of[x]]
    BY Zenon
<1> HIDE DEF sub
<1>3. \A k : Is(k) = Parts(m, p, k)
    BY Zenon, <1>2 DEF Parts
<1>4. Sets = IdSets(m, p)
    BY <1>2, <1>3 DEF IdSets
<1>5. Is("unindexed") \in SUBSET Nat
  <2>1. p.k \in {"all", "any"} => DOMAIN p.of \subseteq Nat
    BY Zenon, PredicateAssumption
  <2>2. DOMAIN p.of \subseteq Nat
    BY <2>1
  <2> QED
    BY Zenon, <1>2, <2>2
<1>6. ASSUME Is("unindexed") # {} PROVE n \in Is("unindexed")
  <2>1. \E x \in Is("unindexed") : \A y \in Is("unindexed") : x <= y
    BY Zenon, <1>5, <1>6, Least
  <2> QED
    BY Zenon, <2>1
<1> HIDE DEF n, Is, Sets
<1>7. CASE Is("unindexed") # {}
    BY Zenon, <1>1, <1>2, <1>3, <1>6, <1>7 DEF AllPlanned, Parts
<1>8. CASE Is("unindexed") = {}
    BY Zenon, <1>1, <1>3, <1>4, <1>8 DEF AllPlanned
<1> QED
    BY <1>7, <1>8

(* And of a disjunction.                                                     *)
LEMMA AnyCandidates ==
    ASSUME NEW p \in Predicate, p.k = "any", NEW m, NEW ctx
    PROVE  AnyPlanned(CandidatesBy(m, p, ctx), m, p)
<1> DEFINE sub == [n \in DOMAIN p.of |-> m[p.of[n]]]
<1> DEFINE Is(k) == {n \in DOMAIN sub : sub[n].k = k}
<1> DEFINE Sets == {sub[n].ids : n \in Is("indexed")}
<1> DEFINE wide == Is("all") \cup Is("unindexed")
<1> DEFINE n == CHOOSE x \in wide : \A y \in wide : x <= y
<1>1. CandidatesBy(m, p, ctx) = IF wide = {} THEN Ids(UNION Sets) ELSE sub[n]
    BY Zenon DEF CandidatesBy
<1>2. DOMAIN sub = DOMAIN p.of /\ \A x \in DOMAIN p.of : sub[x] = m[p.of[x]]
    BY Zenon
<1> HIDE DEF sub
<1>3. \A k : Is(k) = Parts(m, p, k)
    BY Zenon, <1>2 DEF Parts
<1>4. Sets = IdSets(m, p)
    BY <1>2, <1>3 DEF IdSets
<1>5. wide \in SUBSET Nat
  <2>1. p.k \in {"all", "any"} => DOMAIN p.of \subseteq Nat
    BY Zenon, PredicateAssumption
  <2>2. DOMAIN p.of \subseteq Nat
    BY <2>1
  <2> QED
    BY Zenon, <1>2, <2>2
<1>6. wide = Parts(m, p, "all") \cup Parts(m, p, "unindexed") /\ wide \subseteq DOMAIN p.of
    BY Zenon, <1>2, <1>3
<1> HIDE DEF wide
<1>7. ASSUME wide # {} PROVE n \in wide
  <2>1. \E x \in wide : \A y \in wide : x <= y
    BY Zenon, <1>5, <1>7, Least
  <2> QED
    BY Zenon, <2>1
<1> HIDE DEF n, Is, Sets
<1>8. CASE wide # {}
    BY Zenon, <1>1, <1>2, <1>6, <1>7, <1>8 DEF AnyPlanned
<1>9. CASE wide = {}
    BY Zenon, <1>1, <1>4, <1>6, <1>9 DEF AnyPlanned
<1> QED
    BY Zenon, <1>8, <1>9

(* And of the rest.                                                          *)
LEMMA LeafCandidates ==
    ASSUME NEW p \in Predicate, p.k \notin {"all", "any"}, NEW m, NEW ctx
    PROVE  LET plan == CandidatesBy(m, p, ctx)
           IN  \/ p.k = "compare" /\ plan = policy_comparison_candidate_plan(p, ctx)
               \/ p.k = "related" /\ plan = policy_related_candidate_plan(ctx)
               \/ plan = All
               \/ plan = Unindexed(Missing)
<1>1. CASE p.k = "compare"  BY <1>1 DEF CandidatesBy
<1>2. CASE p.k = "related"  BY <1>2 DEF CandidatesBy
<1>3. CASE p.k = "operation" /\ p.of = "read"  BY <1>3 DEF CandidatesBy
<1>4. CASE p.k \notin {"compare", "related"} /\ ~(p.k = "operation" /\ p.of = "read")
    BY Zenon, <1>4 DEF CandidatesBy
<1> QED
    BY Zenon, <1>1, <1>2, <1>3, <1>4

\* What a comparison looks up: only a value is in the index.
LookedUp(f, v) == IF v \in Value THEN index_lookup(f, v) ELSE {}

(* What a comparison is planned as.                                          *)
LEMMA ComparisonCandidates ==
    ASSUME NEW c, NEW ctx
    PROVE  LET plan == policy_comparison_candidate_plan(c, ctx)
           IN  \/ plan = Unindexed(Missing)
               \/ plan = Unindexed(c.name)
               \/ /\ c.target = "field" /\ c.name \in Indexed
                  /\ \/ c.op = "eq" /\ plan = Ids(LookedUp(c.name, c.value))
                     \/ /\ c.op \in {"eq_subject", "contains_subject"}
                        /\ plan = Ids(LookedUp(c.name, policy_subject_value(ctx, c.value)))
                     \/ c.op = "in" /\ plan = Ids(UNION {LookedUp(c.name, v) : v \in c.value})
                     \/ /\ c.op \in {"gt", "gte", "lt", "lte"}
                        /\ plan = Ids(IF c.value \in Value THEN index_range(c.name, c.op, c.value) ELSE {})
<1> DEFINE plan == policy_comparison_candidate_plan(c, ctx)
<1>1. CASE c.target # "field"
    BY Zenon, <1>1 DEF policy_comparison_candidate_plan
<1>2. CASE c.target = "field" /\ c.name \notin Indexed
    BY Zenon, <1>2 DEF policy_comparison_candidate_plan
<1>3. CASE c.target = "field" /\ c.name \in Indexed
  <2>1. ASSUME c.op = "eq" PROVE plan = Ids(LookedUp(c.name, c.value))
    BY <1>3, <2>1 DEF policy_comparison_candidate_plan, LookedUp
  <2>2. ASSUME c.op \in {"eq_subject", "contains_subject"}
        PROVE  plan = Ids(LookedUp(c.name, policy_subject_value(ctx, c.value)))
    <3>1. CASE c.op = "eq_subject"  BY <1>3, <3>1 DEF policy_comparison_candidate_plan, LookedUp
    <3>2. CASE c.op = "contains_subject"  BY <1>3, <3>2 DEF policy_comparison_candidate_plan, LookedUp
    <3> QED
      BY Zenon, <2>2, <3>1, <3>2
  <2>3. ASSUME c.op = "in" PROVE plan = Ids(UNION {LookedUp(c.name, v) : v \in c.value})
    BY <1>3, <2>3 DEF policy_comparison_candidate_plan, LookedUp
  <2>4. ASSUME c.op \in {"gt", "gte", "lt", "lte"}
        PROVE  plan = Ids(IF c.value \in Value THEN index_range(c.name, c.op, c.value) ELSE {})
    BY <1>3, <2>4 DEF policy_comparison_candidate_plan
  <2>5. ASSUME c.op \notin {"eq", "in", "eq_subject", "contains_subject", "gt", "gte", "lt", "lte"}
        PROVE  plan = Unindexed(c.name)
    BY Zenon, <1>3, <2>5 DEF policy_comparison_candidate_plan
  <2> QED
    BY Zenon, <1>3, <2>1, <2>2, <2>3, <2>4, <2>5
<1> QED
    BY Zenon, <1>1, <1>2, <1>3

(* Every plan is an answer.                                                  *)
LEMMA CandidatesAreAnswers ==
    ASSUME TypeOK, NEW p \in Predicate, NEW ctx, ctx.related \in SUBSET Id,
           NEW m, p.k \in {"all", "any"} => \A n \in DOMAIN p.of : m[p.of[n]] \in Answers
    PROVE  CandidatesBy(m, p, ctx) \in Answers
<1> DEFINE plan == CandidatesBy(m, p, ctx)
<1> DEFINE sets == IdSets(m, p)
<1>1. \A s \in SUBSET Id : Ids(s) \in Answers
    BY Zenon DEF Answers
<1>2. All \in Answers /\ Unindexed(Missing) \in Answers /\ Unindexed(p.name) \in Answers
    BY Zenon DEF Answers
<1>3. ASSUME NEW x \in Answers, x.k = "indexed" PROVE x.ids \in SUBSET Id
  <2>1. x # All /\ \A y : x # Unindexed(y)
    <3>1. All.k # "indexed" /\ \A y : Unindexed(y).k # "indexed"
      BY AnswerKinds
    <3> QED
      BY Zenon, <1>3, <3>1
  <2>2. PICK s \in SUBSET Id : x = Ids(s)
    BY Zenon, <1>3, <2>1 DEF Answers
  <2> QED
    BY Zenon, <2>2, AnswerKinds
<1>4. p.k \in {"all", "any"} => \A s \in sets : s \in SUBSET Id
    BY Zenon, <1>3 DEF IdSets, Parts
<1>5. CASE p.k = "all"
  <2>1. AllPlanned(plan, m, p)
    BY Zenon, <1>5, AllCandidates
  <2>2. Shared(sets) \in SUBSET Id
    BY Zenon, <1>4, <1>5 DEF Shared
  <2> QED
    BY Zenon, <1>1, <1>2, <1>5, <2>1, <2>2 DEF AllPlanned, Parts
<1>6. CASE p.k = "any"
  <2>1. AnyPlanned(plan, m, p)
    BY Zenon, <1>6, AnyCandidates
  <2>2. UNION sets \in SUBSET Id
    BY Zenon, <1>4, <1>6
  <2> QED
    BY Zenon, <1>1, <1>2, <1>6, <2>1, <2>2 DEF AnyPlanned, Parts
<1>7. policy_comparison_candidate_plan(p, ctx) \in Answers
  <2>1. \A f, v : LookedUp(f, v) \in SUBSET Id
    BY Zenon, LookupsAreIds DEF LookedUp
  <2>2. (IF p.value \in Value THEN index_range(p.name, p.op, p.value) ELSE {}) \in SUBSET Id
    BY Zenon, LookupsAreIds
  <2>3. UNION {LookedUp(p.name, v) : v \in p.value} \in SUBSET Id
    <3>1. \A s \in {LookedUp(p.name, v) : v \in p.value} : s \in SUBSET Id
      BY Zenon, <2>1
    <3> QED
      BY Zenon, <3>1
  <2> DEFINE look == policy_comparison_candidate_plan(p, ctx)
  <2>4. \/ look \in {Unindexed(Missing), Unindexed(p.name)}
        \/ \E f, v : look = Ids(LookedUp(f, v))
        \/ look = Ids(UNION {LookedUp(p.name, v) : v \in p.value})
        \/ look = Ids(IF p.value \in Value THEN index_range(p.name, p.op, p.value) ELSE {})
    BY Zenon, ComparisonCandidates
  <2> HIDE DEF look
  <2>5. look \in Answers
    BY Zenon, <1>1, <1>2, <2>1, <2>2, <2>3, <2>4
  <2> QED
    BY Zenon, <2>5 DEF look
<1>8. policy_related_candidate_plan(ctx) \in Answers
    BY Zenon, <1>1 DEF policy_related_candidate_plan
<1>9. CASE p.k \notin {"all", "any"}
    BY Zenon, <1>2, <1>7, <1>8, <1>9, LeafCandidates
<1> QED
    BY Zenon, <1>5, <1>6, <1>9

\* A plan from the plans of the parts.
FromParts(sub, p, ctx) ==
    LET is(k) == {n \in DOMAIN sub : sub[n].k = k}
        sets == {sub[n].ids : n \in is("indexed")}
        first(S) == sub[CHOOSE n \in S : \A m \in S : n <= m]
    IN  CASE p.k = "all" -> IF is("unindexed") # {} THEN first(is("unindexed"))
                            ELSE IF sets = {} THEN All
                            ELSE Ids({i \in UNION sets : \A s \in sets : i \in s})
          [] p.k = "any" -> IF is("all") \cup is("unindexed") = {} THEN Ids(UNION sets)
                            ELSE first(is("all") \cup is("unindexed"))
          [] p.k = "compare" -> policy_comparison_candidate_plan(p, ctx)
          [] p.k = "related" -> policy_related_candidate_plan(ctx)
          [] p.k = "operation" /\ p.of = "read" -> All
          [] OTHER -> Unindexed(Missing)

(* Nothing but the parts is asked for.                                       *)
LEMMA CandidatesLookBelow ==
    ASSUME NEW p \in Predicate, NEW g, NEW h, NEW ctx, SameBelow(g, h, p)
    PROVE  CandidatesBy(g, p, ctx) = CandidatesBy(h, p, ctx)
<1>1. CASE p.k \in {"all", "any"}
  <2>1. \A n \in DOMAIN p.of : g[p.of[n]] = h[p.of[n]]
    BY <1>1, SameOnParts
  <2>2. [n \in DOMAIN p.of |-> g[p.of[n]]] = [n \in DOMAIN p.of |-> h[p.of[n]]]
    BY Zenon, <2>1
  <2>3. \A m : CandidatesBy(m, p, ctx) = FromParts([n \in DOMAIN p.of |-> m[p.of[n]]], p, ctx)
    BY Zenon DEF CandidatesBy, FromParts
  <2> QED
    BY Zenon, <2>2, <2>3
<1>2. CASE p.k = "compare"  BY <1>2 DEF CandidatesBy
<1>3. CASE p.k = "related"  BY <1>3 DEF CandidatesBy
<1>4. CASE p.k \notin {"all", "any", "compare", "related"}  BY Zenon, <1>4 DEF CandidatesBy
<1> QED
    BY Zenon, <1>1, <1>2, <1>3, <1>4

(* policy_predicate_candidate_plan is what its definition says, level by     *)
(* level.                                                                    *)
LEMMA CandidatesEquation ==
    ASSUME TypeOK, NEW ctx, ctx.related \in SUBSET Id
    PROVE  \A p \in Predicate :
               policy_predicate_candidate_plan(p, ctx) =
                   CandidatesBy([q \in Predicate |-> policy_predicate_candidate_plan(q, ctx)], p, ctx)
<1> DEFINE F == [p \in Predicate |-> [g \in [Predicate -> Answers] |-> CandidatesBy(g, p, ctx)]]
<1>1. PICK rank : rank \in [Predicate -> Nat] /\ \A p \in Predicate : rank[p] = PredicateDepth[p]
    BY Zenon, DepthIsRank
<1>2. ASSUME NEW p \in Predicate, NEW g \in [Predicate -> Answers] PROVE CandidatesBy(g, p, ctx) \in Answers
  <2>1. p.k \in {"all", "any"} => \A n \in DOMAIN p.of : g[p.of[n]] \in Answers
    BY Zenon, PartsAreSmaller
  <2> QED
    BY Zenon, <2>1, CandidatesAreAnswers
<1>3. \A p \in Predicate : \A g \in [Predicate -> Answers] : F[p][g] = CandidatesBy(g, p, ctx)
    BY Zenon
<1>4. F \in [Predicate -> [[Predicate -> Answers] -> Answers]]
    BY Zenon, <1>2
<1> HIDE DEF F
<1>5. LooksBelow(F, rank, Predicate, Answers)
  <2>1. ASSUME NEW p \in Predicate, NEW g \in [Predicate -> Answers], NEW h \in [Predicate -> Answers],
               \A q \in Predicate : rank[q] < rank[p] => g[q] = h[q]
        PROVE  F[p][g] = F[p][h]
    <3>1. SameBelow(g, h, p)
      BY Zenon, <1>1, <2>1 DEF SameBelow
    <3>2. CandidatesBy(g, p, ctx) = CandidatesBy(h, p, ctx)
      BY <3>1, CandidatesLookBelow
    <3> QED
      BY Zenon, <1>3, <3>2
  <2> QED
    BY Zenon, <2>1 DEF LooksBelow
<1>6. PICK f \in [Predicate -> Answers] : \A p \in Predicate : f[p] = F[p][f]
  <2>1. Answers # {}
    BY Zenon DEF Answers
  <2>2. Solvable(F, Predicate, Answers)
    BY Zenon, <1>1, <1>4, <1>5, <2>1, Recursion
  <2> QED
    BY Zenon, <2>2 DEF Solvable
<1>7. f = [q \in Predicate |-> CandidatesBy(f, q, ctx)]
    BY Zenon, <1>3, <1>6
<1> DEFINE M == CHOOSE m : m = [q \in Predicate |-> CandidatesBy(m, q, ctx)]
<1>8. M = [q \in Predicate |-> CandidatesBy(M, q, ctx)]
    BY Zenon, <1>7
<1>9. \A p : policy_predicate_candidate_plan(p, ctx) = M[p]
    BY Zenon DEF policy_predicate_candidate_plan
<1> HIDE DEF M
<1>10. M = [q \in Predicate |-> policy_predicate_candidate_plan(q, ctx)]
    BY Zenon, <1>8, <1>9
<1>11. \A p \in Predicate : M[p] = CandidatesBy(M, p, ctx)
    BY Zenon, <1>8
<1> QED
    BY Zenon, <1>9, <1>10, <1>11

\* The contexts the policy of a read is planned in and evaluated in.
Planning(subject, related) == Ctx(subject, "read", [f \in Field |-> Missing], Missing, related)
Reading(subject, related, i) == Ctx(subject, "read", rows[i].data, i, related)

(* The rows looked up for a comparison of the policy are all that match it.  *)
LEMMA ComparisonNarrows ==
    ASSUME TypeOK, IndexHoldsRows, NEW i \in Live, NEW subject, NEW related,
           NEW p \in Predicate, p.k = "compare",
           p.target = "field" => (p.name \in Indexed => Faithful(p) /\ Null \notin Comparands(p, subject)),
           policy_comparison_candidate_plan(p, Planning(subject, related)).k = "indexed",
           policy_comparison_matches(p, Reading(subject, related, i))
    PROVE  i \in policy_comparison_candidate_plan(p, Planning(subject, related)).ids
<1> DEFINE a == Planning(subject, related)
<1> DEFINE b == Reading(subject, related, i)
<1>1. PICK plan : plan = policy_comparison_candidate_plan(p, a)
    BY Zenon
<1>2. PICK d : d = rows[i].data[p.name]
    BY Zenon
<1>3. a.subject = subject /\ b.subject = subject /\ b.data = rows[i].data
    BY DEF Planning, Reading, Ctx
<1>4. plan # Unindexed(Missing) /\ plan # Unindexed(p.name)
  <2>1. Unindexed(Missing).k # "indexed" /\ Unindexed(p.name).k # "indexed"
    BY AnswerKinds
  <2> QED
    BY Zenon, <1>1, <2>1
<1>5. /\ p.target = "field" /\ p.name \in Indexed
      /\ \/ p.op = "eq" /\ plan = Ids(LookedUp(p.name, p.value))
         \/ /\ p.op \in {"eq_subject", "contains_subject"}
            /\ plan = Ids(LookedUp(p.name, policy_subject_value(a, p.value)))
         \/ p.op = "in" /\ plan = Ids(UNION {LookedUp(p.name, v) : v \in p.value})
         \/ /\ p.op \in {"gt", "gte", "lt", "lte"}
            /\ plan = Ids(IF p.value \in Value THEN index_range(p.name, p.op, p.value) ELSE {})
    BY Zenon, <1>1, <1>4, ComparisonCandidates
<1> HIDE DEF a, b
<1>6. p.name \in Field /\ Current(p.name) /\ (p.op \in {"lt", "lte"} => Total(p.name))
    BY Zenon, <1>5, IndexedIsField DEF Faithful
<1>7. Null \notin Comparands(p, subject)
    BY Zenon, <1>5
<1>8. ASSUME d # Missing, d # Null PROVE i \in LookedUp(p.name, d)
  <2>1. rows[i].data[p.name] \in Value
    BY <1>2, <1>6, <1>8, RowHasDocument
  <2>2. i \in index_lookup(p.name, rows[i].data[p.name])
    BY Zenon, <1>6, <2>1, LookupFinds
  <2> QED
    BY ZenonT(60), <1>2, <2>1, <2>2 DEF LookedUp
<1>9. PICK values : values = policy_values_at_path(b.data, p.name)
    BY Zenon
<1>10. values = {d} \ {Missing}
    BY Zenon, <1>2, <1>3, <1>9 DEF policy_values_at_path
<1>11. ASSUME p.op = "eq", plan = Ids(LookedUp(p.name, p.value)) PROVE i \in plan.ids
  <2>1. p.value \in values
    BY <1>5, <1>9, <1>11 DEF policy_comparison_matches, b
  <2>2. d = p.value /\ d # Missing
    BY Zenon, <1>10, <2>1
  <2>3. Comparands(p, subject) = {p.value}
    BY <1>11 DEF Comparands
  <2> QED
    BY ZenonT(60), <1>7, <1>8, <1>11, <2>2, <2>3, AnswerKinds
<1>12. ASSUME p.op \in {"eq_subject", "contains_subject"},
              plan = Ids(LookedUp(p.name, policy_subject_value(a, p.value)))
       PROVE  i \in plan.ids
  <2>1. policy_subject_value(b, p.value) \in values
    <3>1. CASE p.op = "eq_subject"  BY Zenon, <1>5, <1>9, <3>1 DEF policy_comparison_matches, b
    <3>2. CASE p.op = "contains_subject"  BY Zenon, <1>5, <1>9, <3>2 DEF policy_comparison_matches, b
    <3> QED
      BY Zenon, <1>12, <3>1, <3>2
  <2>2. policy_subject_value(b, p.value) = subject[p.value] /\ policy_subject_value(a, p.value) = subject[p.value]
    BY Zenon, <1>3 DEF policy_subject_value
  <2>3. d = subject[p.value] /\ d # Missing
    BY Zenon, <1>10, <2>1, <2>2
  <2>4. Comparands(p, subject) = {subject[p.value]}
    BY <1>12 DEF Comparands
  <2> QED
    BY ZenonT(60), <1>7, <1>8, <1>12, <2>2, <2>3, <2>4, AnswerKinds
<1>13. ASSUME p.op = "in", plan = Ids(UNION {LookedUp(p.name, v) : v \in p.value}) PROVE i \in plan.ids
  <2>1. values \cap p.value # {}
    BY <1>5, <1>9, <1>13 DEF policy_comparison_matches, b
  <2>2. d \in p.value /\ d # Missing
    BY Zenon, <1>10, <2>1
  <2>3. Comparands(p, subject) = p.value
    BY <1>13 DEF Comparands
  <2>4. i \in LookedUp(p.name, d)
    BY Zenon, <1>7, <1>8, <2>2, <2>3
  <2> QED
    BY ZenonT(60), <1>13, <2>2, <2>4, AnswerKinds
<1>14. ASSUME p.op \in {"gt", "gte", "lt", "lte"},
              plan = Ids(IF p.value \in Value THEN index_range(p.name, p.op, p.value) ELSE {})
       PROVE  i \in plan.ids
  <2>1. \E v \in values : compare_values(v, p.value) \in Wanted(p.op)
    <3>1. CASE p.op = "gt"  BY Zenon, <1>5, <1>9, <3>1 DEF policy_comparison_matches, b, Wanted
    <3>2. CASE p.op = "gte"  BY <1>5, <1>9, <3>2 DEF policy_comparison_matches, b, Wanted
    <3>3. CASE p.op = "lt"  BY Zenon, <1>5, <1>9, <3>3 DEF policy_comparison_matches, b, Wanted
    <3>4. CASE p.op = "lte"  BY <1>5, <1>9, <3>4 DEF policy_comparison_matches, b, Wanted
    <3> QED
      BY Zenon, <1>14, <3>1, <3>2, <3>3, <3>4
  <2>2. compare_values(rows[i].data[p.name], p.value) \in Wanted(p.op)
    BY Zenon, <1>2, <1>10, <2>1
  <2>3. Comparands(p, subject) = {p.value}
    BY Zenon, <1>14 DEF Comparands
  <2>4. p.value \in Value
    BY Zenon, <1>7, <1>14, <2>3, PlanAssumption
  <2>5. i \in index_range(p.name, p.op, p.value)
    BY Zenon, <1>6, <1>14, <2>2, <2>4, RangeFinds
  <2> QED
    BY Zenon, <1>14, <2>4, <2>5, AnswerKinds
<1>15. i \in plan.ids
    BY Zenon, <1>5, <1>11, <1>12, <1>13, <1>14
<1> QED
    BY Zenon, <1>1, <1>15 DEF a

(* A plan is all rows, some ids, or none for want of an index.               *)
LEMMA PlansHaveKinds ==
    ASSUME TypeOK, NEW ctx, ctx.related \in SUBSET Id
    PROVE  \A p \in Predicate : policy_predicate_candidate_plan(p, ctx).k \in {"all", "indexed", "unindexed"}
<1> DEFINE G == {p \in Predicate : policy_predicate_candidate_plan(p, ctx) \in Answers}
<1>1. ASSUME NEW p \in Predicate, Subpredicates(p) \subseteq G PROVE p \in G
  <2>1. PICK M : M = [q \in Predicate |-> policy_predicate_candidate_plan(q, ctx)]
    BY Zenon
  <2>2. \A q \in Predicate : M[q] = policy_predicate_candidate_plan(q, ctx) /\ M[q] = CandidatesBy(M, q, ctx)
    BY Zenon, <2>1, CandidatesEquation
  <2>3. p.k \in {"all", "any"} => \A n \in DOMAIN p.of : M[p.of[n]] \in Answers
    <3>1. p.k \in {"all", "any"} => \A n \in DOMAIN p.of : p.of[n] \in Subpredicates(p)
      BY Zenon DEF Subpredicates
    <3> QED
      BY Zenon, <1>1, <2>2, <3>1
  <2>4. CandidatesBy(M, p, ctx) \in Answers
    BY Zenon, <2>3, CandidatesAreAnswers
  <2> QED
    BY Zenon, <2>2, <2>4
<1>2. \A p \in Predicate : p \in G
  <2> HIDE DEF G
  <2> QED
    BY Zenon, <1>1, PredicateInduction
<1>3. \A x \in Answers : x.k \in {"all", "indexed", "unindexed"}
    BY Zenon, AnswerKinds DEF Answers
<1> QED
    BY Zenon, <1>2, <1>3

\* The candidates planned for p have row i, if p holds of it.
Narrows(p, subject, related, i) ==
    /\ FaithfulPredicate(p, subject)
    /\ policy_predicate_candidate_plan(p, Planning(subject, related)).k = "indexed"
    /\ policy_predicate_matches(p, Reading(subject, related, i))
    => i \in policy_predicate_candidate_plan(p, Planning(subject, related)).ids

(* The candidates planned for a predicate lose no row it holds of: by        *)
(* induction on the predicate.                                               *)
LEMMA PredicateNarrows ==
    ASSUME TypeOK, IndexHoldsRows, NEW i \in Live, NEW subject, NEW related \in SUBSET Id
    PROVE  \A p \in Predicate : Narrows(p, subject, related, i)
<1> DEFINE a == Planning(subject, related)
<1> DEFINE b == Reading(subject, related, i)
<1> DEFINE G == {p \in Predicate : Narrows(p, subject, related, i)}
<1>a. a.related = related /\ b.related = related /\ b.id = i
    BY DEF Planning, Reading, Ctx
<1>1. ASSUME NEW p \in Predicate, Subpredicates(p) \subseteq G,
             FaithfulPredicate(p, subject),
             policy_predicate_candidate_plan(p, a).k = "indexed", policy_predicate_matches(p, b)
      PROVE  i \in policy_predicate_candidate_plan(p, a).ids
  <2>1. PICK M : M = [q \in Predicate |-> policy_predicate_candidate_plan(q, a)]
    BY Zenon
  <2>2. \A q \in Predicate : M[q] = policy_predicate_candidate_plan(q, a) /\ M[q] = CandidatesBy(M, q, a)
    BY Zenon, <1>a, <2>1, CandidatesEquation
  <2>3. PICK plan : plan = CandidatesBy(M, p, a)
    BY Zenon
  <2>4. plan = policy_predicate_candidate_plan(p, a) /\ plan.k = "indexed"
    BY Zenon, <1>1, <2>2, <2>3
  <2>5. p.k \in {"all", "any"} => \A n \in DOMAIN p.of :
            M[p.of[n]].k = "indexed" /\ policy_predicate_matches(p.of[n], b) => i \in M[p.of[n]].ids
    <3>1. p.k \in {"all", "any"} => \A n \in DOMAIN p.of : p.of[n] \in Subpredicates(p)
      BY Zenon DEF Subpredicates
    <3>2. p.k \in {"all", "any"} => \A n \in DOMAIN p.of :
              p.of[n] \in Predicate /\ Narrows(p.of[n], subject, related, i)
      BY Zenon, <1>1, <3>1
    <3>3. p.k \in {"all", "any"} => \A n \in DOMAIN p.of : FaithfulPredicate(p.of[n], subject)
      BY Zenon, <1>1, FaithfulUnfolds
    <3> QED
      BY Zenon, <2>2, <3>2, <3>3 DEF Narrows
  <2>6. plan # All /\ \A x : plan # Unindexed(x)
    <3>1. All.k # "indexed" /\ \A x : Unindexed(x).k # "indexed"
      BY AnswerKinds
    <3> QED
      BY Zenon, <2>4, <3>1
  <2>7. CASE p.k = "all"
    <3>1. AllPlanned(plan, M, p)
      BY Zenon, <2>3, <2>7, AllCandidates
    <3>2. \A n \in Parts(M, p, "unindexed") : plan # M[p.of[n]]
      <4>1. "unindexed" # "indexed"
        OBVIOUS
      <4> QED
        BY Zenon, <2>4, <4>1 DEF Parts
    <3>3. IdSets(M, p) # {} /\ plan = Ids(Shared(IdSets(M, p)))
      BY Zenon, <2>6, <3>1, <3>2 DEF AllPlanned
    <3>4. \A n \in DOMAIN p.of : policy_predicate_matches(p.of[n], b)
      BY Zenon, <1>1, <2>7, MatchesUnfolds
    <3>5. \A s \in IdSets(M, p) : i \in s
      BY Zenon, <2>5, <2>7, <3>4 DEF IdSets, Parts
    <3>6. i \in Shared(IdSets(M, p))
      BY Zenon, <3>3, <3>5 DEF Shared
    <3> QED
      BY Zenon, <2>4, <3>3, <3>6, AnswerKinds
  <2>8. CASE p.k = "any"
    <3>1. AnyPlanned(plan, M, p)
      BY Zenon, <2>3, <2>8, AnyCandidates
    <3>2. \A n \in Parts(M, p, "all") \cup Parts(M, p, "unindexed") : plan # M[p.of[n]]
      <4>1. "unindexed" # "indexed" /\ "all" # "indexed"
        OBVIOUS
      <4> QED
        BY Zenon, <2>4, <4>1 DEF Parts
    <3>3. Parts(M, p, "all") \cup Parts(M, p, "unindexed") = {} /\ plan = Ids(UNION IdSets(M, p))
      BY Zenon, <3>1, <3>2 DEF AnyPlanned
    <3>4. PICK n \in DOMAIN p.of : policy_predicate_matches(p.of[n], b)
      BY Zenon, <1>1, <2>8, MatchesUnfolds
    <3>5. M[p.of[n]].k = "indexed"
      <4>1. p.of[n] \in Predicate
        BY Zenon, <2>8, PartsAreSmaller
      <4>2. M[p.of[n]].k \in {"all", "indexed", "unindexed"}
        BY Zenon, <4>1, <2>2, <1>a, PlansHaveKinds
      <4> QED
        BY Zenon, <3>3, <4>2 DEF Parts
    <3>6. i \in M[p.of[n]].ids
      BY Zenon, <2>5, <2>8, <3>4, <3>5
    <3>7. i \in UNION IdSets(M, p)
      BY Zenon, <3>5, <3>6 DEF IdSets, Parts
    <3> QED
      BY Zenon, <2>4, <3>3, <3>7, AnswerKinds
  <2>9. CASE p.k \notin {"all", "any"}
    <3>1. \/ p.k = "compare" /\ plan = policy_comparison_candidate_plan(p, a)
          \/ p.k = "related" /\ plan = policy_related_candidate_plan(a)
      BY Zenon, <2>3, <2>6, <2>9, LeafCandidates
    <3>2. CASE p.k = "compare" /\ plan = policy_comparison_candidate_plan(p, a)
      <4>1. policy_comparison_matches(p, b)
        BY Zenon, <1>1, <3>2, MatchesUnfolds
      <4>2. p.target = "field" => (p.name \in Indexed => Faithful(p) /\ Null \notin Comparands(p, subject))
        BY Zenon, <1>1, <3>2, FaithfulUnfolds
      <4>3. policy_comparison_candidate_plan(p, a).k = "indexed"
        BY Zenon, <2>4, <3>2
      <4>4. i \in policy_comparison_candidate_plan(p, a).ids
        BY Zenon, <3>2, <4>1, <4>2, <4>3, ComparisonNarrows
      <4> QED
        BY Zenon, <2>4, <3>2, <4>4
    <3>3. CASE p.k = "related" /\ plan = policy_related_candidate_plan(a)
      <4>1. i \in related
        BY ZenonT(60), <1>a, <1>1, <3>3, MatchesUnfolds DEF policy_related_matches
      <4>2. plan.ids = related
        BY Zenon, <1>a, <3>3, AnswerKinds DEF policy_related_candidate_plan
      <4> QED
        BY Zenon, <2>4, <4>1, <4>2
    <3> QED
      BY Zenon, <3>1, <3>2, <3>3
  <2> QED
    BY Zenon, <2>7, <2>8, <2>9
<1>2. ASSUME NEW p \in Predicate, Subpredicates(p) \subseteq G PROVE p \in G
    BY Zenon, <1>1, <1>2 DEF Narrows
<1> HIDE DEF G
<1>3. \A p \in Predicate : p \in G
    BY Zenon, <1>2, PredicateInduction
<1> QED
    BY Zenon, <1>3 DEF G

(* Nor do the candidates planned for a rule.                                 *)
LEMMA RuleNarrows ==
    ASSUME TypeOK, IndexHoldsRows, NEW i \in Live, NEW subject, NEW related \in SUBSET Id,
           NEW r \in PolicyRule, FaithfulPredicate(r.where, subject),
           policy_rule_candidate_plan(r, Planning(subject, related)).k = "indexed",
           policy_rule_matches(r, Reading(subject, related, i))
    PROVE  i \in policy_rule_candidate_plan(r, Planning(subject, related)).ids
<1> DEFINE a == Planning(subject, related)
<1> DEFINE b == Reading(subject, related, i)
<1>1. SameRequest(a, b)
    BY DEF SameRequest, Planning, Reading, Ctx
<1>2. r.when \in Predicate /\ r.where \in Predicate
    BY DEF PolicyRule
<1> HIDE DEF a, b
<1>3. policy_predicate_matches(r.when, b) /\ policy_predicate_matches(r.where, b)
    BY Zenon DEF policy_rule_matches, b
<1>4. policy_static_predicate_matches(r.when, a) # {FALSE}
    BY Zenon, <1>1, <1>2, <1>3, StaticIsSound DEF Sound
<1>5. All.k # "indexed" /\ Unindexed(Missing).k # "indexed"
    BY AnswerKinds
<1>6. policy_rule_candidate_plan(r, a) # All /\ policy_rule_candidate_plan(r, a) # Unindexed(Missing)
    BY Zenon, <1>5 DEF a
<1>7. policy_rule_candidate_plan(r, a) = policy_predicate_candidate_plan(r.where, a)
    BY Zenon, <1>4, <1>6 DEF policy_rule_candidate_plan
<1>8. Narrows(r.where, subject, related, i)
    BY Zenon, <1>2, PredicateNarrows
<1> QED
    BY Zenon, <1>3, <1>7, <1>8 DEF Narrows, a, b

(* Nor those of the read policy.                                             *)
LEMMA PolicyNarrows ==
    ASSUME TypeOK, IndexHoldsRows, NEW i \in Live, NEW plan \in Plan, NEW subject, NEW related \in SUBSET Id,
           FaithfulPlan(plan, subject), read_policy_allows_entity(plan, subject, related, i)
    PROVE  i \in Fetched(plan_read_policy_storage_filters(plan, Planning(subject, related)).candidates)
<1> DEFINE a == Planning(subject, related)
<1> DEFINE b == Reading(subject, related, i)
<1> DEFINE none == [allow |-> {}, deny |-> {}]
<1> DEFINE policy == IF "read" \in DOMAIN plan.operations THEN plan.operations["read"] ELSE none
<1> DEFINE allow == {policy_rule_candidate_plan(r, a) : r \in policy.allow}
<1> DEFINE found == plan_read_policy_storage_filters(plan, a).candidates
<1>1. found = IF \A x \in allow : x.k = "indexed"
              THEN IF allow = {} THEN Scan ELSE Narrow(UNION {x.ids : x \in allow})
              ELSE Scan
    BY Zenon DEF plan_read_policy_storage_filters
<1>2. CASE found = Scan
    BY Zenon, <1>2 DEF Fetched
<1>3. CASE found # Scan
  <2>1. (\A x \in allow : x.k = "indexed") /\ found = Narrow(UNION {x.ids : x \in allow}) /\ allow # {}
    BY Zenon, <1>1, <1>3
  <2>2. none.allow = {}
    BY Zenon
  <2>3. "read" \in DOMAIN plan.operations /\ policy = plan.operations["read"] /\ policy.allow # {}
    BY Zenon, <2>1, <2>2
  <2>4. applicable_operation_policies(plan, "read") = {plan.operations["read"]}
    <3>1. Governing("read") = {"read"}
      BY DEF Governing, Writes
    <3> QED
      BY <2>3, <3>1 DEF applicable_operation_policies
  <2>5. b.operation = "read"
    BY DEF Reading, Ctx
  <2>6. policy_operation_allows(plan, b)
    BY Zenon DEF read_policy_allows_entity, Reading
  <2> HIDE DEF b
  <2>7. PICK r \in policy.allow : policy_rule_matches(r, b)
    <3>1. UNION {p.allow : p \in {plan.operations["read"]}} = policy.allow
      BY Zenon, <2>3
    <3> HIDE DEF policy
    <3> QED
      BY Zenon, <2>3, <2>4, <2>5, <2>6, <3>1
         DEF policy_operation_allows, policy_operation_denial_label, Denied
  <2>8. r \in PolicyRule
    <3>1. policy \in PolicyRules
      BY Zenon, <2>3, PlanAssumption
    <3> HIDE DEF policy
    <3> QED
      BY <2>7, <3>1 DEF PolicyRules
  <2>9. FaithfulPredicate(r.where, subject)
    BY Zenon, <2>3, <2>7 DEF FaithfulPlan
  <2>10. policy_rule_candidate_plan(r, a).k = "indexed"
    BY Zenon, <2>1, <2>7
  <2>11. i \in policy_rule_candidate_plan(r, a).ids
    BY Zenon, <2>7, <2>8, <2>9, <2>10, RuleNarrows DEF b
  <2>12. i \in UNION {x.ids : x \in allow}
    BY Zenon, <2>7, <2>11
  <2> QED
    BY Zenon, <2>1, <2>12, NarrowIsNotScan DEF Fetched
<1> QED
    BY Zenon, <1>2, <1>3

(* A row that two sets of candidates have, their combination has.            *)
LEMMA CombineKeeps ==
    ASSUME NEW a, NEW b, NEW i, i \in Fetched(a), i \in Fetched(b)
    PROVE  i \in Fetched(combine_candidate_ids(a, b))
<1>1. CASE a = Scan
  <2>1. combine_candidate_ids(a, b) = b
    BY Zenon, <1>1 DEF combine_candidate_ids
  <2> QED
    BY Zenon, <2>1
<1>2. CASE a # Scan /\ b = Scan
  <2>1. combine_candidate_ids(a, b) = a
    BY Zenon, <1>2 DEF combine_candidate_ids
  <2> QED
    BY Zenon, <2>1
<1>3. CASE a # Scan /\ b # Scan
  <2>1. combine_candidate_ids(a, b) = Narrow(a.ids \cap b.ids)
    BY Zenon, <1>3 DEF combine_candidate_ids
  <2>2. i \in a.ids \cap b.ids /\ i \in Live
    BY Zenon, <1>3 DEF Fetched
  <2> QED
    BY Zenon, <2>1, <2>2, NarrowIsNotScan DEF Fetched
<1> QED
    BY Zenon, <1>1, <1>2, <1>3

(* A query that is not refused answers what a scan would.                    *)
LEMMA QueryIsScan ==
    ASSUME TypeOK, IndexHoldsRows
    PROVE  QueryEqualsScan
<1> SUFFICES ASSUME NEW c \in Filter, NEW plan \in Plan, NEW subject \in Subject, NEW related \in SUBSET Id,
                    FaithfulFilter(c), FaithfulPlan(plan, subject)
             PROVE  query_entities(c, plan, subject, related)
                        \in {Refused, Narrow(Expected(c, plan, subject, related))}
    BY Zenon DEF QueryEqualsScan
<1> DEFINE matches(i) == apply_filter(c, rows[i].data) /\ read_policy_allows_entity(plan, subject, related, i)
<1>1. PICK found : found = Candidates(c, plan, subject, related)
    BY Zenon
<1>2. Fetched(found) \subseteq Live
    BY Zenon DEF Fetched
<1>3. ASSUME NEW i \in Live, matches(i) PROVE i \in Fetched(found)
  <2>1. i \in Fetched(try_index_lookup(c))
    BY Zenon, <1>3, FilterNarrows
  <2>2. i \in Fetched(plan_read_policy_storage_filters(plan, Planning(subject, related)).candidates)
    BY Zenon, <1>3, PolicyNarrows
  <2> QED
    BY Zenon, <1>1, <2>1, <2>2, CombineKeeps DEF Candidates, Planning
<1>4. {i \in Fetched(found) : matches(i)} = {i \in Live : matches(i)}
    BY Zenon, <1>2, <1>3
<1> QED
    BY Zenon, <1>1, <1>4 DEF query_entities, Expected

----------------------------------------------------------------------------
(* Counts                                                                    *)

INSTANCE FiniteSetTheorems

\* f pairs the members of S with those of T.
Pairs(f, S, T) ==
    /\ f \in [S -> T]
    /\ \A a, b \in S : f[a] = f[b] => a = b
    /\ \A t \in T : \E s \in S : f[s] = t

(* Such a function is a bijection.                                           *)
LEMMA MakesBijection ==
    ASSUME NEW S, NEW T, NEW f, Pairs(f, S, T)
    PROVE  ExistsBijection(S, T)
<1>1. f \in Injection(S, T)
    BY Zenon DEF Injection, IsInjective, Pairs
<1>2. f \in Surjection(S, T)
    BY Zenon DEF Surjection, Pairs
<1> QED
    BY ZenonT(60), <1>1, <1>2 DEF ExistsBijection, Bijection

\* S taken apart by key: the keys, how many of each, how many of all.
Grouped(S, key, K, n) == K = {key[i] : i \in S} /\ \A k \in K : n[k] = Cardinality({i \in S : key[i] = k})
GroupTotal(K, n) == Cardinality(UNION {{k} \X (1..n[k]) : k \in K})

(* A finite set, taken apart by key, has as many members as its groups have  *)
(* together.                                                                 *)
LEMMA GroupsAddUp ==
    ASSUME NEW S, IsFiniteSet(S), NEW key, NEW K, NEW n, Grouped(S, key, K, n)
    PROVE  GroupTotal(K, n) = Cardinality(S)
<1>k. K = {key[i] : i \in S} /\ \A k \in K : n[k] = Cardinality({i \in S : key[i] = k})
    BY Zenon DEF Grouped
<1> DEFINE group(k) == {i \in S : key[i] = k}
<1> DEFINE U == UNION {{k} \X (1..n[k]) : k \in K}
<1> DEFINE b(k) == CHOOSE f : f \in Bijection(group(k), 1..n[k])
<1>1. ASSUME NEW k \in K PROVE b(k) \in Bijection(group(k), 1..n[k])
  <2>1. group(k) \in SUBSET S
    BY Zenon
  <2>2. IsFiniteSet(group(k)) /\ n[k] = Cardinality(group(k))
    BY ZenonT(60), <1>k, <1>1, <2>1, FS_Subset
  <2> HIDE DEF group
  <2>3. n[k] \in Nat
    BY <2>2, FS_CardinalityType
  <2>4. IsFiniteSet(1..n[k]) /\ Cardinality(1..n[k]) = n[k]
    <3>1. PICK m \in Nat : m = n[k]
      BY Zenon, <2>3
    <3>2. 1 \in Int /\ m \in Int
      OBVIOUS
    <3>3. IsFiniteSet(1..m) /\ Cardinality(1..m) = IF 1 > m THEN 0 ELSE m - 1 + 1
      BY ZenonT(60), <3>2, FS_Interval
    <3>4. (IF 1 > m THEN 0 ELSE m - 1 + 1) = m
      OBVIOUS
    <3> QED
      BY ZenonT(60), <3>1, <3>3, <3>4
  <2>5. ExistsBijection(group(k), 1..n[k])
    BY <2>2, <2>4, FS_SameCardinalityBij
  <2> QED
    BY Zenon, <2>5 DEF ExistsBijection
<1>3. \A i \in S : key[i] \in K /\ i \in group(key[i])
    BY Zenon, <1>k
<1>g. \A k \in K : \A i \in group(k) : i \in S /\ key[i] = k
    BY Zenon
<1> HIDE DEF b, group
<1>2. ASSUME NEW k \in K
      PROVE  /\ \A i \in group(k) : b(k)[i] \in 1..n[k]
             /\ \A i, j \in group(k) : b(k)[i] = b(k)[j] => i = j
             /\ \A t \in 1..n[k] : \E i \in group(k) : b(k)[i] = t
  <2>1. PICK f : f = b(k)
    BY Zenon
  <2>2. PICK T : T = 1..n[k]
    BY Zenon
  <2>3. f \in Bijection(group(k), T)
    BY ZenonT(60), <1>1, <1>2, <2>1, <2>2
  <2>4. /\ f \in [group(k) -> T]
        /\ \A i, j \in group(k) : f[i] = f[j] => i = j
        /\ \A t \in T : \E i \in group(k) : f[i] = t
    BY Zenon, <2>3 DEF Bijection, Injection, Surjection, IsInjective
  <2> QED
    BY ZenonT(60), <2>1, <2>2, <2>4
<1> DEFINE B == [i \in S |-> <<key[i], b(key[i])[i]>>]
<1>4. \A i \in S : B[i] = <<key[i], b(key[i])[i]>>
    BY Zenon
<1>5. B \in [S -> U]
  <2>1. ASSUME NEW i \in S PROVE <<key[i], b(key[i])[i]>> \in U
    <3>1. b(key[i])[i] \in 1..n[key[i]]
      BY ZenonT(60), <1>2, <1>3
    <3>2. <<key[i], b(key[i])[i]>> \in {key[i]} \X (1..n[key[i]])
      BY <3>1
    <3> QED
      BY Zenon, <1>3, <3>2
  <2> HIDE DEF U
  <2> QED
    BY Zenon, <2>1
<1> HIDE DEF B
<1>6. ASSUME NEW i \in S, NEW j \in S, B[i] = B[j] PROVE i = j
  <2>1. key[i] = key[j] /\ b(key[i])[i] = b(key[j])[j]
    BY <1>4, <1>6
  <2> QED
    BY ZenonT(60), <1>2, <1>3, <2>1
<1>7. ASSUME NEW u \in U PROVE \E i \in S : B[i] = u
  <2>1. PICK k \in K : u \in {k} \X (1..n[k])
    BY Zenon
  <2>2. PICK t \in 1..n[k] : u = <<k, t>>
    BY <2>1
  <2>3. PICK i \in group(k) : b(k)[i] = t
    BY ZenonT(60), <1>2, <2>2
  <2>4. i \in S /\ key[i] = k
    BY ZenonT(60), <1>g, <2>3
  <2> QED
    BY ZenonT(60), <1>4, <2>2, <2>3, <2>4
<1> HIDE DEF U
<1>8. ExistsBijection(S, U)
  <2>1. Pairs(B, S, U)
    BY ZenonT(60), <1>5, <1>6, <1>7 DEF Pairs
  <2> QED
    BY ZenonT(60), <2>1, MakesBijection
<1>9. Cardinality(U) = Cardinality(S)
    BY <1>8, FS_Bijection
<1> QED
    BY Zenon, <1>9 DEF U, GroupTotal

\* The result of a count adds up, and is that of a scan.
SumsUp(total, groups, c) ==
    LET size(k) == (CHOOSE x \in groups : x.key = k).count
        keys == {x.key : x \in groups}
    IN  /\ FaithfulFilter(c) => total = Cardinality({i \in Live : apply_filter(c, rows[i].data)})
        /\ Cardinality(groups) = Cardinality(keys)
        /\ total = Cardinality(UNION {{k} \X (1..size(k)) : k \in keys})

(* A count is the sum of its groups, and that of a scan.                     *)
LEMMA CountIsRight ==
    ASSUME TypeOK, IndexHoldsRows, IsFiniteSet(Live)
    PROVE  CountsAddUp
<1> SUFFICES ASSUME NEW c \in Filter, NEW f \in Field
             PROVE  SumsUp(count_entities(c, f).total, count_entities(c, f).groups, c)
    BY Zenon DEF CountsAddUp, SumsUp
<1>1. PICK matched : matched = {i \in Fetched(try_index_lookup(c)) : apply_filter(c, rows[i].data)}
    BY Zenon
<1>2. PICK key : key = [i \in matched |-> IF rows[i].data[f] = Missing THEN Null ELSE rows[i].data[f]]
    BY Zenon
<1>3. PICK K : K = {key[i] : i \in matched}
    BY Zenon
<1>4. PICK n : n = [k \in K |-> Cardinality({i \in matched : key[i] = k})]
    BY Zenon
<1>5. PICK groups : groups = {[key |-> k, count |-> n[k]] : k \in K}
    BY Zenon
<1>6. PICK r : r = count_entities(c, f)
    BY Zenon
<1>7. r.total = Cardinality(matched) /\ r.groups = groups
  <2> DEFINE at(i) == IF rows[i].data[f] = Missing THEN Null ELSE rows[i].data[f]
  <2>1. r = [total |-> Cardinality(matched),
             groups |-> {[key |-> k, count |-> Cardinality({i \in matched : at(i) = k})] :
                             k \in {at(i) : i \in matched}}]
    BY ZenonT(60), <1>1, <1>6 DEF count_entities
  <2>2. \A i \in matched : key[i] = at(i)
    BY Zenon, <1>2
  <2> HIDE DEF at
  <2>3. K = {at(i) : i \in matched}
    BY ZenonT(60), <1>3, <2>2
  <2>4. \A k : {i \in matched : key[i] = k} = {i \in matched : at(i) = k}
    BY Zenon, <2>2
  <2>5. \A k \in K : n[k] = Cardinality({i \in matched : at(i) = k})
    BY Zenon, <1>4, <2>4
  <2>6. groups = {[key |-> k, count |-> Cardinality({i \in matched : at(i) = k})] : k \in K}
    BY ZenonT(60), <1>5, <2>5
  <2> QED
    BY <2>1, <2>3, <2>6
<1>8. matched \in SUBSET Live
    BY Zenon, <1>1 DEF Fetched
<1>9. IsFiniteSet(matched)
    BY Zenon, <1>8, FS_Subset
<1>10. IsFiniteSet(K)
  <2>1. key \in [matched -> K]
    BY ZenonT(60), <1>2, <1>3
  <2>2. key \in Surjection(matched, K)
    BY ZenonT(60), <1>3, <2>1 DEF Surjection
  <2> QED
    BY ZenonT(60), <1>9, <2>2, FS_Surjection
<1>11. \A k \in K : n[k] = Cardinality({i \in matched : key[i] = k})
    BY ZenonT(60), <1>4
<1>12. GroupTotal(K, n) = Cardinality(matched)
  <2>1. Grouped(matched, key, K, n)
    BY ZenonT(60), <1>3, <1>11 DEF Grouped
  <2> QED
    BY <1>9, <2>1, GroupsAddUp
<1>13. Cardinality(groups) = Cardinality(K)
  <2>1. PICK g : g = [k \in K |-> [key |-> k, count |-> n[k]]]
    BY Zenon
  <2>2. \A k \in K : g[k] = [key |-> k, count |-> n[k]]
    BY Zenon, <2>1
  <2>3. g \in [K -> groups]
    BY ZenonT(60), <1>5, <2>1
  <2>k. ASSUME NEW k \in K PROVE g[k].key = k
    <3>1. PICK m : m = n[k]
      BY Zenon
    <3>2. g[k] = [key |-> k, count |-> m]
      BY ZenonT(60), <2>2, <3>1
    <3> QED
      BY <3>2
  <2>4. \A a, b \in K : g[a] = g[b] => a = b
    BY Zenon, <2>k
  <2>5. \A x \in groups : \E k \in K : g[k] = x
    BY Zenon, <1>5, <2>2
  <2>p. Pairs(g, K, groups)
    BY ZenonT(60), <2>3, <2>4, <2>5 DEF Pairs
  <2>6. ExistsBijection(K, groups)
    BY Zenon, <2>p, MakesBijection
  <2> QED
    BY <1>10, <2>6, FS_Bijection
<1>14. {x.key : x \in groups} = K
  <2>1. \A k \in K : [key |-> k, count |-> n[k]] \in groups
    BY Zenon, <1>5
  <2>2. \A k \in K : [key |-> k, count |-> n[k]].key = k
    OBVIOUS
  <2>3. \A x \in groups : x.key \in K
    BY Zenon, <1>5, <2>2
  <2> QED
    BY ZenonT(60), <2>1, <2>2, <2>3
<1>15. ASSUME NEW k \in K PROVE (CHOOSE x \in groups : x.key = k).count = n[k]
  <2>1. [key |-> k, count |-> n[k]] \in groups /\ [key |-> k, count |-> n[k]].key = k
    BY <1>5, <1>15
  <2>2. PICK y : y = CHOOSE x \in groups : x.key = k
    BY Zenon
  <2>3. y \in groups /\ y.key = k
    BY Zenon, <2>1, <2>2
  <2>4. PICK l \in K : y = [key |-> l, count |-> n[l]]
    BY ZenonT(60), <1>5, <2>3
  <2>5. y.key = l /\ y.count = n[l]
    BY <2>4
  <2> QED
    BY ZenonT(60), <2>2, <2>3, <2>5
<1>16. ASSUME FaithfulFilter(c) PROVE matched = {i \in Live : apply_filter(c, rows[i].data)}
  <2>1. \A i \in Live : apply_filter(c, rows[i].data) => i \in Fetched(try_index_lookup(c))
    BY ZenonT(60), <1>16, FilterNarrows
  <2> QED
    BY ZenonT(60), <1>1, <1>8, <2>1
<1> DEFINE size(k) == (CHOOSE x \in groups : x.key = k).count
<1>17. UNION {{k} \X (1..size(k)) : k \in K} = UNION {{k} \X (1..n[k]) : k \in K}
  <2>1. \A k \in K : size(k) = n[k]
    BY Zenon, <1>15
  <2> HIDE DEF size
  <2>2. \A k \in K : {k} \X (1..size(k)) = {k} \X (1..n[k])
    BY Zenon, <2>1
  <2> QED
    BY Zenon, <2>2
<1>18. FaithfulFilter(c) => r.total = Cardinality({i \in Live : apply_filter(c, rows[i].data)})
    BY ZenonT(60), <1>7, <1>16
<1>19. Cardinality(groups) = Cardinality({x.key : x \in groups})
    BY ZenonT(60), <1>13, <1>14
<1>20. r.total = Cardinality(UNION {{k} \X (1..size(k)) : k \in {x.key : x \in groups}})
    BY ZenonT(60), <1>7, <1>12, <1>14, <1>17 DEF GroupTotal
<1>21. SumsUp(r.total, groups, c)
    BY ZenonT(60), <1>18, <1>19, <1>20 DEF SumsUp
<1> QED
    BY ZenonT(60), <1>6, <1>7, <1>21

FewRows == IsFiniteSet(Live)

(* A collection has finitely many rows.                                      *)
LEMMA RowsAreFinite == Spec => []FewRows
<1>1. Init => FewRows
  <2>1. ASSUME Init PROVE Live = {}
    BY Zenon, <2>1 DEF Init, Live
  <2> QED
    BY Zenon, <2>1, FS_EmptySet DEF FewRows
<1>2. IInv /\ [Next]_vars /\ FewRows => FewRows'
  <2> SUFFICES ASSUME IInv, [Next]_vars, IsFiniteSet(Live) PROVE IsFiniteSet(Live')
    BY Zenon DEF FewRows
  <2>1. ASSUME NEW i \in Id, NEW row, rows' = [rows EXCEPT ![i] = row] PROVE IsFiniteSet(Live')
    <3>1. DOMAIN rows = Id
      BY Zenon DEF IInv, TypeOK
    <3>2. \A j \in Id : j # i => rows'[j] = rows[j]
      BY ZenonT(60), <2>1, <3>1
    <3>3. Live' \in SUBSET (Live \cup {i})
      BY ZenonT(60), <3>2 DEF Live
    <3>4. IsFiniteSet(Live \cup {i})
      BY FS_AddElement
    <3> QED
      BY <3>3, <3>4, FS_Subset
  <2>2. ASSUME rows' = rows PROVE IsFiniteSet(Live')
    <3>1. Live' = Live
      BY Zenon, <2>2 DEF Live
    <3> QED
      BY Zenon, <3>1
  <2>3. ASSUME NEW i \in Id, NEW d, NEW stamp, Write(i, d, stamp) PROVE IsFiniteSet(Live')
    BY Zenon, <2>1, <2>3 DEF Write
  <2>4. ASSUME NEW i \in Id, Remove(i) PROVE IsFiniteSet(Live')
    BY Zenon, <2>1, <2>4 DEF Remove
  <2>5. CASE drop_collection
    <3>1. Live' = {}
      BY Zenon, <2>5 DEF drop_collection, Live
    <3> QED
      BY ZenonT(60), <3>1, FS_EmptySet
  <2>6. CASE \E s \in Schema : put_schema(s) \/ create_collection(s)
    BY ZenonT(60), <2>2, <2>6 DEF put_schema, create_collection
  <2>7. CASE UNCHANGED vars
    BY ZenonT(60), <2>2, <2>7 DEF vars
  <2>8. CASE \E i \in Id, d \in Document : create_entity(i, d) \/ update_entity(i, d)
    BY ZenonT(60), <2>3, <2>8 DEF create_entity, update_entity
  <2>9. CASE \E i \in Id, d \in Document : commit_create(i, d) \/ commit_update(i, d)
    BY ZenonT(60), <2>3, <2>9 DEF commit_create, commit_update
  <2>10. CASE \E i \in Id : delete_entity(i) \/ commit_delete(i)
    BY ZenonT(60), <2>4, <2>10 DEF delete_entity, commit_delete
  <2> QED
    BY ZenonT(60), <2>5, <2>6, <2>7, <2>8, <2>9, <2>10 DEF Next
<1>3. Spec => []IInv
    BY Invariance
<1> QED
    BY <1>1, <1>2, <1>3, PTL DEF Spec

----------------------------------------------------------------------------
(* Theorems                                                                  *)

(* query_entities answers what a scan of the collection would: the rows the  *)
(* filter matches and the policy shows, whichever indexes the two were       *)
(* looked up in.                                                             *)
THEOREM QueriesAreScans == Spec => []QueryEqualsScan
<1>1. IInv => QueryEqualsScan
    BY Zenon, QueryIsScan DEF IInv
<1> QED
    BY <1>1, Invariance, PTL

(* The groups count_entities returns add up to the total it returns, which   *)
(* is that of a scan.                                                        *)
THEOREM CountsAreScans == Spec => []CountsAddUp
<1>1. IInv /\ FewRows => CountsAddUp
    BY Zenon, CountIsRight DEF IInv, FewRows
<1> QED
    BY <1>1, Invariance, RowsAreFinite, PTL

(* What effective_policy says with no row at hand stands for every row.      *)
THEOREM EffectivePolicies == Spec => []EffectivePolicyIsSound
BY EffectiveIsSound, PTL

(* The explanation a preview gives of a transaction foretells its commit.    *)
THEOREM PreviewsForetell == Spec => []PreviewForetellsCommit
<1>1. IInv => PreviewForetellsCommit
    BY Zenon, PreviewIsCommit DEF IInv
<1> QED
    BY <1>1, Invariance, PTL
=============================================================================
