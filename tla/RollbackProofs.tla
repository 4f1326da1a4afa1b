--------------------------- MODULE RollbackProofs ---------------------------
(* Undoing from the audit log, for any number of entities, transactions and  *)
(* log entries.  Every step that writes appends entries to the log and       *)
(* leaves the rows they describe (Writing); the invariants are preserved by  *)
(* any such step.                                                            *)
EXTENDS Rollback, WellFoundedInduction, TLAPS

\* A leaf that names no prover goes to SMT, then to Zenon, then to SMT for longer.
USE SMT, Zenon, SMTT(60)

----------------------------------------------------------------------------
(* The inductive invariant                                                   *)

Row == [version : Nat, data : Data \cup {Nil}]
Job == [kind : {"none", "collection", "transaction"}, coll : Collection \cup {Nil}, to : Nat,
        tx : TxId \cup {NoTx}, todo : SUBSET Nat, failed : SUBSET Nat, from : Nat]

Typed ==
    /\ row \in [Id -> Row]
    /\ \A k \in Id : row[k].version = 0 <=> row[k].data = Nil
    /\ log \in Seq(Entry)
    /\ now \in Nat
    /\ job \in Job

\* Entries are of the past, and an entry that leaves a document numbers it.
EntriesInv == \A i \in DOMAIN log : log[i].at <= now /\ (log[i].after # Nil => log[i].version > 0)

\* Without a restart between, versions do not fall, and a document has a higher
\* one; version 0 is that of a deletion of what is not there.
Counts(e, f) ==
    \/ f.version = 0
    \/ e.version <= f.version /\ (f.after # Nil => e.version < f.version)
VersionInv ==
    \A k \in Id : \A i, j \in Of(k) :
        /\ i < j /\ log[i].after # Nil
        /\ \A m \in Of(k) : i < m /\ m <= j => ~Restarts(k, m)
        => Counts(log[i], log[j])

\* The first entry of an entity in a transaction has what was there before as
\* its before-image, unless it creates what was not there; it updates only what
\* was there, and after the deletion of what was there the transaction leaves
\* nothing.
Undoes(e, was) ==
    /\ e.kind \in {"create", "update", "delete"}
    /\ e.kind = "create" => was = Nil
    /\ e.kind = "update" => was # Nil
    /\ e.kind # "create" => e.before = was
TxInv ==
    \A t \in TxId, k \in Id : \A f \in Of(k) \cap InTx(t) :
        (\A g \in Of(k) \cap InTx(t) : f <= g) =>
            LET was == Left({i \in Of(k) : i < f})
            IN  /\ Undoes(log[f], was)
                /\ log[f].kind = "delete" /\ was # Nil =>
                      \A g \in Of(k) \cap InTx(t) : log[g].after = Nil

\* A rollback has one entry to do for each entity, from before it began, and
\* has not written these entities yet.
JobInv ==
    /\ job.todo \subseteq DOMAIN log /\ job.failed \subseteq DOMAIN log
    /\ job.from <= Len(log)
    /\ job.kind = "none" => job.todo = {}
    /\ \A i \in job.todo :
         /\ \A j \in job.todo : log[i].key = log[j].key => i = j
         /\ \A j \in DOMAIN log : log[i].key = log[j].key => j <= job.from
    /\ job.kind = "collection" => job.todo \subseteq Since(job.coll, job.to)
    /\ job.kind = "transaction" => job.tx \in TxId /\ job.todo \subseteq InTx(job.tx)

IInv ==
    /\ Typed
    /\ EntriesInv
    /\ LogAccounts
    /\ VersionInv
    /\ TxInv
    /\ JobInv
    /\ CollectionRestored
    /\ TransactionUndone

----------------------------------------------------------------------------
(* First and last                                                            *)

(* A set of naturals that is not empty has a first element.                  *)
LEMMA FirstIn ==
    ASSUME NEW S \in SUBSET Nat, S # {}
    PROVE  First(S) \in S /\ \A j \in S : First(S) <= j
<1> DEFINE R == {ss \in Nat \X Nat : ss[1] < ss[2]}
<1>1. IsWellFoundedOn(R, Nat)
    BY NatLessThanWellFounded DEF OpToRel
<1>2. PICK m \in S : \A n \in S : ~(<<n, m>> \in R)
  <2> HIDE DEF R
  <2> QED
    BY Zenon, <1>1, WFMin
<1>3. ASSUME NEW n \in S PROVE m <= n
  <2>1. n \in Nat /\ m \in Nat
    OBVIOUS
  <2>2. n < m => <<n, m>> \in R
    BY <2>1
  <2>3. ~(<<n, m>> \in R)
    BY <1>2
  <2> HIDE DEF R
  <2> QED
    BY <2>1, <2>2, <2>3
<1> HIDE DEF R
<1> QED
    BY Zenon, <1>2, <1>3 DEF First

(* A bounded one has a last element, too.                                    *)
LEMMA LastIn ==
    ASSUME NEW n \in Nat, NEW S \in SUBSET (1..n), S # {}
    PROVE  Last(S) \in S /\ \A j \in S : j <= Last(S)
<1> DEFINE T == {m \in Nat : n - m \in S}
<1>1. T \in SUBSET Nat /\ T # {}
  <2>1. PICK x \in S : TRUE
    BY Zenon
  <2>2. n - x \in Nat /\ n - (n - x) = x
    BY <2>1
  <2> QED
    BY <2>1, <2>2
<1>2. First(T) \in T /\ \A m \in T : First(T) <= m
  <2> HIDE DEF T
  <2> QED
    BY Zenon, <1>1, FirstIn
<1>3. PICK m \in Nat : n - m \in S /\ \A x \in T : m <= x
    BY <1>2
<1>4. \A j \in S : j <= n - m
  <2> TAKE j \in S
  <2>1. n - j \in T
    BY DEF T
  <2> HIDE DEF T
  <2> QED
    BY <1>3, <2>1
<1> QED
    BY Zenon, <1>3, <1>4 DEF Last

(* The first and the last element are unique.                                *)
LEMMA FirstIs ==
    ASSUME NEW S \in SUBSET Nat, NEW m \in S, \A j \in S : m <= j
    PROVE  First(S) = m
<1>1. First(S) \in S /\ \A j \in S : First(S) <= j
    BY Zenon DEF First
<1>2. \A x \in S : x \in Nat
    OBVIOUS
<1>3. \A x, y \in Nat : x <= y /\ y <= x => x = y
    OBVIOUS
<1> QED
    BY Zenon, <1>1, <1>2, <1>3

(* An element that no other exceeds is the last one.                         *)
LEMMA LastIs ==
    ASSUME NEW S \in SUBSET Nat, NEW m \in S, \A j \in S : j <= m
    PROVE  Last(S) = m
<1>1. Last(S) \in S /\ \A j \in S : j <= Last(S)
    BY Zenon DEF Last
<1>2. \A x \in S : x \in Nat
    OBVIOUS
<1>3. \A x, y \in Nat : x <= y /\ y <= x => x = y
    OBVIOUS
<1> QED
    BY Zenon, <1>1, <1>2, <1>3

----------------------------------------------------------------------------
(* Steps that write                                                          *)

Keyed(s, k) == {i \in DOMAIN s : s[i].key = k}

\* An entry goes on from the last one of its entity, or starts again.
GoesOn(e) ==
    \/ e.version = 1
    \/ e.version = 0
    \/ /\ Of(e.key) # {}
       /\ LET v == log[Last(Of(e.key))].version
          IN  e.version = v + 1 \/ (e.version = v /\ e.after = Nil)

\* The entries more are appended, by now and no transaction or by a new one,
\* and each row becomes what the last of its entries says.
Writing(more) ==
    /\ more \in Seq(Entry)
    /\ log' = log \o more
    /\ row' \in [Id -> Row]
    /\ \A k \in Id : row'[k].version = 0 <=> row'[k].data = Nil
    /\ \A k \in Id :
         /\ Keyed(more, k) = {} => row'[k] = row[k]
         /\ Keyed(more, k) # {} =>
               /\ row'[k].data = more[Last(Keyed(more, k))].after
               /\ row'[k].data # Nil => row'[k].version = more[Last(Keyed(more, k))].version
    /\ \A n \in DOMAIN more :
         /\ more[n].at = now
         /\ more[n].after # Nil => more[n].version > 0
         /\ \/ GoesOn(more[n]) /\ \A m \in DOMAIN more : m < n => more[m].key # more[n].key
            \/ more[n].version = 1
            \/ /\ more[n].kind = "delete" /\ more[n].tx # NoTx
               /\ \E m \in DOMAIN more : m < n /\ more[m].key = more[n].key /\ more[m].tx = more[n].tx
    /\ \/ \A n \in DOMAIN more : more[n].tx = NoTx
       \/ \E t \in TxId :
            /\ InTx(t) = {}
            /\ \A n \in DOMAIN more : more[n].tx = t
            /\ \A k \in Id : \A n \in Keyed(more, k) :
                 (\A m \in Keyed(more, k) : n <= m) =>
                     /\ Undoes(more[n], row[k].data)
                     /\ more[n].kind = "delete" /\ row[k].data # Nil =>
                           \A m \in Keyed(more, k) : more[m].after = Nil

(* The log grows: the old entries stay, the new ones follow.                 *)
LEMMA LogGrows ==
    ASSUME log \in Seq(Entry), NEW more \in Seq(Entry), log' = log \o more
    PROVE  /\ log' \in Seq(Entry) /\ Len(log) \in Nat /\ Len(more) \in Nat
           /\ DOMAIN log = 1..Len(log) /\ DOMAIN more = 1..Len(more)
           /\ Len(log') = Len(log) + Len(more) /\ DOMAIN log' = 1..(Len(log) + Len(more))
           /\ \A i \in DOMAIN log : i \in DOMAIN log' /\ log'[i] = log[i]
           /\ \A n \in DOMAIN more : Len(log) + n \in DOMAIN log' /\ log'[Len(log) + n] = more[n]
           /\ \A j \in DOMAIN log' : j \in DOMAIN log \/ \E n \in DOMAIN more : j = Len(log) + n
<1>1. /\ Len(log) \in Nat /\ Len(more) \in Nat
      /\ DOMAIN log = 1..Len(log) /\ DOMAIN more = 1..Len(more)
    OBVIOUS
<1>2. /\ log' \in Seq(Entry) /\ Len(log') = Len(log) + Len(more)
      /\ \A i \in 1..(Len(log) + Len(more)) : log'[i] = IF i <= Len(log) THEN log[i] ELSE more[i - Len(log)]
    BY <1>1
<1>3. DOMAIN log' = 1..(Len(log) + Len(more))
    BY <1>2
<1>4. \A i \in DOMAIN log : i \in DOMAIN log' /\ log'[i] = log[i]
    BY <1>1, <1>2, <1>3
<1>5. \A n \in DOMAIN more : Len(log) + n \in DOMAIN log' /\ log'[Len(log) + n] = more[n]
  <2> TAKE n \in DOMAIN more
  <2>1. Len(log) + n \in 1..(Len(log) + Len(more)) /\ ~(Len(log) + n <= Len(log)) /\ Len(log) + n - Len(log) = n
    BY <1>1
  <2> QED
    BY <1>2, <1>3, <2>1
<1>6. \A j \in DOMAIN log' : j \in DOMAIN log \/ \E n \in DOMAIN more : j = Len(log) + n
  <2> TAKE j \in DOMAIN log'
  <2>1. j \in DOMAIN log \/ (j - Len(log) \in DOMAIN more /\ j = Len(log) + (j - Len(log)))
    BY <1>1, <1>3
  <2> QED
    BY Zenon, <2>1
<1> QED
    BY <1>1, <1>2, <1>3, <1>4, <1>5, <1>6

(* The entries of an entity are its old ones and its new ones.               *)
LEMMA OfGrows ==
    ASSUME log \in Seq(Entry), NEW more \in Seq(Entry), log' = log \o more, NEW k
    PROVE  /\ Of(k) \subseteq 1..Len(log) /\ Of(k)' \subseteq 1..Len(log')
           /\ Keyed(more, k) \subseteq 1..Len(more)
           /\ \A i \in Of(k) : i \in Of(k)' /\ log'[i] = log[i]
           /\ \A n \in Keyed(more, k) : Len(log) + n \in Of(k)' /\ log'[Len(log) + n] = more[n]
           /\ \A j \in Of(k)' : j \in Of(k) \/ \E n \in Keyed(more, k) : j = Len(log) + n
<1>1. /\ DOMAIN log = 1..Len(log) /\ DOMAIN more = 1..Len(more) /\ DOMAIN log' = 1..Len(log')
      /\ \A i \in DOMAIN log : i \in DOMAIN log' /\ log'[i] = log[i]
      /\ \A n \in DOMAIN more : Len(log) + n \in DOMAIN log' /\ log'[Len(log) + n] = more[n]
      /\ \A j \in DOMAIN log' : j \in DOMAIN log \/ \E n \in DOMAIN more : j = Len(log) + n
    BY LogGrows
<1>2. /\ Of(k) \subseteq 1..Len(log) /\ Of(k)' \subseteq 1..Len(log') /\ Keyed(more, k) \subseteq 1..Len(more)
    BY Zenon, <1>1 DEF Of, Keyed
<1>3. \A i \in Of(k) : i \in Of(k)' /\ log'[i] = log[i]
    BY Zenon, <1>1 DEF Of
<1>4. \A n \in Keyed(more, k) : Len(log) + n \in Of(k)' /\ log'[Len(log) + n] = more[n]
    BY Zenon, <1>1 DEF Of, Keyed
<1>5. ASSUME NEW j \in Of(k)' PROVE j \in Of(k) \/ \E n \in Keyed(more, k) : j = Len(log) + n
  <2>1. j \in DOMAIN log' /\ log'[j].key = k
    BY Zenon DEF Of
  <2>2. CASE j \in DOMAIN log
    BY Zenon, <1>1, <2>1, <2>2 DEF Of
  <2>3. CASE \E n \in DOMAIN more : j = Len(log) + n
    BY Zenon, <1>1, <2>1, <2>3 DEF Keyed
  <2> QED
    BY Zenon, <1>1, <2>1, <2>2, <2>3
<1> QED
    BY Zenon, <1>2, <1>3, <1>4, <1>5

(* An entity that gets no new entry has the entries it had.                  *)
LEMMA OfSame ==
    ASSUME log \in Seq(Entry), NEW more \in Seq(Entry), log' = log \o more, NEW k,
           Keyed(more, k) = {}
    PROVE  Of(k)' = Of(k)
BY Zenon, OfGrows

(* The last entry of an entity that is written is the last new one.          *)
LEMMA LastGrows ==
    ASSUME log \in Seq(Entry), NEW more \in Seq(Entry), log' = log \o more, NEW k,
           Keyed(more, k) # {}
    PROVE  /\ Last(Keyed(more, k)) \in Keyed(more, k)
           /\ Last(Of(k)') = Len(log) + Last(Keyed(more, k))
<1> DEFINE l == Last(Keyed(more, k))
<1>1. Len(log) \in Nat /\ Len(more) \in Nat
    BY LogGrows
<1>2. l \in Keyed(more, k) /\ \A n \in Keyed(more, k) : n <= l
    BY Zenon, <1>1, OfGrows, LastIn
<1>3. l \in 1..Len(more) /\ Len(log) + l \in Of(k)'
    BY Zenon, <1>2, OfGrows
<1>4. Keyed(more, k) \subseteq 1..Len(more)
    BY Zenon, OfGrows
<1>8. \A j \in Of(k)' : j \in Of(k) \/ \E n \in Keyed(more, k) : j = Len(log) + n
  <2> HIDE DEF l
  <2> QED
    BY Zenon, OfGrows
<1> HIDE DEF l
<1>5. ASSUME NEW j \in Of(k)' PROVE j \in Nat /\ j <= Len(log) + l
  <2>1. j \in Of(k) \/ \E n \in Keyed(more, k) : j = Len(log) + n
    BY Zenon, <1>8
  <2>2. CASE j \in Of(k)
    <3>1. j \in 1..Len(log)
      BY Zenon, <2>2, OfGrows
    <3> QED
      BY <1>1, <1>3, <3>1
  <2>3. CASE \E n \in Keyed(more, k) : j = Len(log) + n
    BY <1>1, <1>2, <1>3, <1>4, <2>3
  <2> QED
    BY <2>1, <2>2, <2>3
<1>6. Of(k)' \in SUBSET Nat
    BY <1>5
<1>7. Last(Of(k)') = Len(log) + l
    BY Zenon, <1>3, <1>5, <1>6, LastIs
<1> QED
    BY <1>2, <1>7 DEF l

----------------------------------------------------------------------------
(* What a step that writes preserves                                         *)

(* A step that writes leaves every row as the last entry about it says.      *)
LEMMA LogAccountsKept ==
    ASSUME Typed, LogAccounts, NEW more, Writing(more)
    PROVE  LogAccounts'
<1>0. log \in Seq(Entry) /\ more \in Seq(Entry) /\ log' = log \o more /\ Len(log) \in Nat
    BY DEF Typed, Writing
<1> SUFFICES ASSUME NEW k \in Id
             PROVE  /\ row'[k].data = IF Of(k)' = {} THEN Nil ELSE log'[Last(Of(k)')].after
                    /\ row'[k].data # Nil => row'[k].version = log'[Last(Of(k)')].version
    BY Zenon DEF LogAccounts, Left, Present
<1>1. CASE Keyed(more, k) = {}
  <2>0. row'[k] = row[k]
    BY Zenon, <1>1 DEF Writing
  <2>1. Of(k)' = Of(k)
    BY Zenon, <1>0, <1>1, OfSame
  <2>2. /\ row[k].data = IF Of(k) = {} THEN Nil ELSE log[Last(Of(k))].after
        /\ row[k].data # Nil => row[k].version = log[Last(Of(k))].version
    BY Zenon DEF LogAccounts, Left, Present
  <2>3. Of(k) # {} => Last(Of(k)) \in Of(k)
    BY Zenon, <1>0, OfGrows, LastIn
  <2>4. Of(k) # {} => log'[Last(Of(k))] = log[Last(Of(k))]
    BY Zenon, <1>0, <2>3, OfGrows
  <2> QED
    BY Zenon, <2>0, <2>1, <2>2, <2>4
<1>2. CASE Keyed(more, k) # {}
  <2> DEFINE l == Last(Keyed(more, k))
  <2>1. l \in Keyed(more, k) /\ Last(Of(k)') = Len(log) + l
    BY Zenon, <1>0, <1>2, LastGrows
  <2>2. Of(k)' # {} /\ log'[Len(log) + l] = more[l]
    BY Zenon, <1>0, <2>1, OfGrows
  <2>3. row'[k].data = more[l].after /\ (row'[k].data # Nil => row'[k].version = more[l].version)
    BY Zenon, <1>2 DEF Writing
  <2> QED
    BY Zenon, <2>1, <2>2, <2>3
<1> QED
    BY <1>1, <1>2

(* The clock does not go back, so new entries too are of the past.           *)
LEMMA EntriesKept ==
    ASSUME Typed, EntriesInv, NEW more, Writing(more), now' \in Nat, now <= now'
    PROVE  EntriesInv'
<1>0. log \in Seq(Entry) /\ more \in Seq(Entry) /\ log' = log \o more /\ now \in Nat
    BY DEF Typed, Writing
<1>1. \A n \in DOMAIN more : more[n].at = now /\ (more[n].after # Nil => more[n].version > 0)
    BY Zenon DEF Writing
<1>2. \A i \in DOMAIN log : log[i].at <= now'
  <2> TAKE i \in DOMAIN log
  <2>1. log[i] \in Entry /\ log[i].at <= now
    BY <1>0 DEF EntriesInv
  <2>2. log[i].at \in Nat
    BY Zenon, <2>1 DEF Entry
  <2> QED
    BY <1>0, <2>1, <2>2
<1>3. ASSUME NEW j \in DOMAIN log'
      PROVE  log'[j].at <= now' /\ (log'[j].after # Nil => log'[j].version > 0)
  <2>1. CASE j \in DOMAIN log
    <3>1. log'[j] = log[j]
      BY Zenon, <1>0, <2>1, LogGrows
    <3> QED
      BY Zenon, <1>2, <2>1, <3>1 DEF EntriesInv
  <2>2. CASE \E n \in DOMAIN more : j = Len(log) + n
    <3>1. PICK n \in DOMAIN more : j = Len(log) + n
      BY <2>2
    <3>2. log'[j] = more[n]
      BY Zenon, <1>0, <3>1, LogGrows
    <3> QED
      BY Zenon, <1>1, <3>2
  <2> QED
    BY <1>0, <2>1, <2>2, LogGrows
<1> QED
    BY Zenon, <1>3 DEF EntriesInv

(* Going on from an entry that counts after e counts after e.                *)
LEMMA CountsOn ==
    ASSUME NEW e \in Entry, NEW f \in Entry, NEW g \in Entry,
           e = f \/ Counts(e, f), g.version # 1,
           g.version = f.version + 1 \/ (g.version = f.version /\ g.after = Nil)
    PROVE  Counts(e, g)
<1>1. e.version \in Nat /\ f.version \in Nat /\ g.version \in Nat
    BY DEF Entry
<1> QED
    BY <1>1 DEF Counts

(* A new entry goes on counting from the last one of its entity, or          *)
(* restarts.                                                                 *)
LEMMA VersionsKept ==
    ASSUME Typed, VersionInv, NEW more, Writing(more)
    PROVE  VersionInv'
<1>0. /\ log \in Seq(Entry) /\ more \in Seq(Entry) /\ log' = log \o more
      /\ Len(log) \in Nat /\ Len(more) \in Nat
    BY DEF Typed, Writing
<1> SUFFICES ASSUME NEW k \in Id, NEW i \in Of(k)', NEW j \in Of(k)',
                    i < j, log'[i].after # Nil,
                    \A m \in Of(k)' : i < m /\ m <= j => ~Restarts(k, m)'
             PROVE  Counts(log'[i], log'[j])
    BY Zenon DEF VersionInv
<1>1. /\ Of(k) \subseteq 1..Len(log) /\ Keyed(more, k) \subseteq 1..Len(more)
      /\ Of(k)' \subseteq 1..Len(log')
    BY Zenon, <1>0, OfGrows
<1>2. \A m \in Of(k) : m \in Of(k)' /\ log'[m] = log[m]
    BY Zenon, <1>0, OfGrows
<1>3. \A m \in Of(k)' : m \in Of(k) \/ \E n \in Keyed(more, k) : m = Len(log) + n
    BY ZenonT(30), <1>0, OfGrows
<1>4. \A n \in Keyed(more, k) : Len(log) + n \in Of(k)' /\ log'[Len(log) + n] = more[n]
    BY Zenon, <1>0, OfGrows
<1>5. \A m \in Of(k) : Restarts(k, m) => Restarts(k, m)'
    BY Zenon, <1>2 DEF Restarts
<1>6. \A m \in Of(k) : i < m /\ m <= j => ~Restarts(k, m)
    BY Zenon, <1>2, <1>5
<1>7. i \in Nat /\ j \in Nat /\ Len(log') \in Nat
  <2>1. Len(log') \in Nat
    BY <1>0, LogGrows
  <2> QED
    BY <1>1, <2>1
<1>8. CASE j \in Of(k)
  <2>1. i \in Of(k)
    BY <1>0, <1>1, <1>3, <1>7, <1>8
  <2> QED
    BY Zenon, <1>2, <1>6, <1>8, <2>1 DEF VersionInv
<1>9. CASE \E n \in Keyed(more, k) : j = Len(log) + n
  <2>1. PICK n \in Keyed(more, k) : j = Len(log) + n
    BY <1>9
  <2>2. n \in DOMAIN more /\ more[n].key = k /\ log'[j] = more[n] /\ n \in 1..Len(more)
    BY Zenon, <1>1, <1>4, <2>1 DEF Keyed
  <2>3. ~Restarts(k, j)'
    BY <1>7
  <2>4. more[n].version # 1
    BY Zenon, <2>2, <2>3 DEF Restarts
  <2>5. ~ /\ more[n].kind = "delete" /\ more[n].tx # NoTx
          /\ \E m \in DOMAIN more : m < n /\ more[m].key = more[n].key /\ more[m].tx = more[n].tx
    <3> SUFFICES ASSUME more[n].kind = "delete", more[n].tx # NoTx,
                        NEW m \in DOMAIN more, m < n, more[m].key = more[n].key, more[m].tx = more[n].tx
                 PROVE  FALSE
      BY Zenon
    <3>1. m \in Keyed(more, k)
      BY <2>2 DEF Keyed
    <3>2. Len(log) + m \in Of(k)' /\ log'[Len(log) + m] = more[m]
      BY <1>4, <3>1
    <3>3. Len(log) + m < j
      BY <1>0, <1>1, <2>1, <2>2, <3>1
    <3> QED
      BY Zenon, <2>2, <2>3, <3>2, <3>3 DEF Restarts
  <2>6. GoesOn(more[n]) /\ \A m \in DOMAIN more : m < n => more[m].key # k
    BY Zenon, <2>2, <2>4, <2>5 DEF Writing
  <2>7. i \in Of(k)
    <3>1. ASSUME NEW m \in Keyed(more, k), i = Len(log) + m PROVE FALSE
      <4>1. m < n /\ m \in DOMAIN more /\ more[m].key = k
        BY <1>0, <1>1, <2>1, <2>2, <3>1 DEF Keyed
      <4> QED
        BY <2>6, <4>1
    <3> QED
      BY Zenon, <1>3, <3>1
  <2>8. CASE more[n].version = 0
    BY Zenon, <2>2, <2>8 DEF Counts
  <2>9. CASE more[n].version # 0
    <3> DEFINE l == Last(Of(k))
    <3>1. l \in Of(k) /\ \A m \in Of(k) : m <= l
      BY Zenon, <1>0, <1>1, <2>7, LastIn
    <3> HIDE DEF l
    <3>2. /\ more[n].version = log[l].version + 1
             \/ (more[n].version = log[l].version /\ more[n].after = Nil)
      BY Zenon, <2>2, <2>4, <2>6, <2>9 DEF GoesOn, l
    <3>3. l \in DOMAIN log /\ i \in DOMAIN log /\ l <= j /\ (i # l => i < l)
      BY <1>0, <1>1, <1>7, <2>1, <2>2, <2>7, <3>1 DEF Of
    <3>4. \A m \in Of(k) : i < m /\ m <= l => ~Restarts(k, m)
      BY <1>0, <1>1, <1>6, <1>7, <3>1, <3>3
    <3>5. log[i] = log[l] \/ Counts(log[i], log[l])
      BY Zenon, <1>2, <2>7, <3>1, <3>3, <3>4 DEF VersionInv
    <3>6. log[i] \in Entry /\ log[l] \in Entry /\ more[n] \in Entry
      BY <1>0, <2>2, <3>3
    <3> QED
      BY ZenonT(60), <1>2, <2>2, <2>4, <2>7, <3>2, <3>5, <3>6, CountsOn
  <2> QED
    BY <2>8, <2>9
<1> QED
    BY Zenon, <1>3, <1>8, <1>9

(* What old entries leave behind does not change.                            *)
LEMMA LeftKept ==
    ASSUME log \in Seq(Entry), NEW more \in Seq(Entry), log' = log \o more,
           NEW S \in SUBSET DOMAIN log
    PROVE  Left(S) = IF S = {} THEN Nil ELSE log'[Last(S)].after
<1>1. Len(log) \in Nat /\ S \in SUBSET (1..Len(log))
    OBVIOUS
<1>2. S # {} => Last(S) \in S
    BY Zenon, <1>1, LastIn
<1>3. \A i \in S : log'[i] = log[i]
    BY Zenon, LogGrows
<1> QED
    BY Zenon, <1>2, <1>3 DEF Left

(* A transaction appends its entries in one step, so the first of them about *)
(* an entity has what was there before as its before-image.                  *)
LEMMA TransactionsKept ==
    ASSUME Typed, LogAccounts, TxInv, NEW more, Writing(more)
    PROVE  TxInv'
<1>0. /\ log \in Seq(Entry) /\ more \in Seq(Entry) /\ log' = log \o more
      /\ Len(log) \in Nat /\ Len(more) \in Nat
    BY DEF Typed, Writing
<1> DEFINE In(k, t) == Of(k) \cap InTx(t)
<1> SUFFICES ASSUME NEW t \in TxId, NEW k \in Id, NEW f \in In(k, t)',
                    \A g \in In(k, t)' : f <= g
             PROVE  LET was == Left({i \in Of(k) : i < f})'
                    IN  /\ Undoes(log'[f], was)
                        /\ log'[f].kind = "delete" /\ was # Nil =>
                              \A g \in In(k, t)' : log'[g].after = Nil
    BY Zenon DEF TxInv
<1>1. Of(k) \subseteq 1..Len(log) /\ Keyed(more, k) \subseteq 1..Len(more)
    BY Zenon, <1>0, OfGrows
<1>2. \A m \in Of(k) : m \in Of(k)' /\ log'[m] = log[m]
    BY Zenon, <1>0, OfGrows
<1>3. \A m \in Of(k)' : m \in Of(k) \/ \E n \in Keyed(more, k) : m = Len(log) + n
    BY Zenon, <1>0, OfGrows
<1>4. \A n \in Keyed(more, k) : Len(log) + n \in Of(k)' /\ log'[Len(log) + n] = more[n]
    BY Zenon, <1>0, OfGrows
<1>5. \A m \in Of(k)' : m \in InTx(t)' <=> log'[m].tx = t
    BY Zenon DEF Of, InTx
<1>6. \A m \in Of(k) : m \in InTx(t) <=> log[m].tx = t
    BY Zenon DEF Of, InTx
<1>7. t # NoTx
    BY RollbackAssumption
<1>8. CASE f \in Of(k)
  <2>1. f \in In(k, t)
    BY Zenon, <1>2, <1>5, <1>6, <1>8
  <2>2. \A n \in Keyed(more, k) : more[n].tx # t
    BY Zenon, <1>7, <2>1 DEF Writing, Keyed
  <2>3. ASSUME NEW g \in In(k, t)' PROVE g \in In(k, t)
    <3>1. g \in Of(k)' /\ log'[g].tx = t
      BY Zenon, <1>5
    <3>2. ASSUME NEW n \in Keyed(more, k), g = Len(log) + n PROVE FALSE
      BY Zenon, <1>4, <2>2, <3>1, <3>2
    <3>3. g \in Of(k)
      BY Zenon, <1>3, <3>1, <3>2
    <3> QED
      BY Zenon, <1>2, <1>6, <3>1, <3>3
  <2>4. \A g \in In(k, t) : g \in In(k, t)'
    BY Zenon, <1>2, <1>5, <1>6
  <2>5. ASSUME NEW i \in Of(k)', i < f PROVE i \in Of(k)
    <3>1. ASSUME NEW n \in Keyed(more, k), i = Len(log) + n PROVE FALSE
      BY <1>0, <1>1, <1>8, <2>5, <3>1
    <3> QED
      BY Zenon, <1>3, <3>1
  <2>6. {i \in Of(k) : i < f}' = {i \in Of(k) : i < f}
    BY Zenon, <1>2, <2>5
  <2>7. {i \in Of(k) : i < f} \in SUBSET DOMAIN log
    BY Zenon DEF Of
  <2>8. Left({i \in Of(k) : i < f})' = Left({i \in Of(k) : i < f})
    BY Zenon, <1>0, <2>6, <2>7, LeftKept DEF Left
  <2>9. log'[f] = log[f] /\ \A g \in In(k, t) : log'[g] = log[g]
    BY Zenon, <1>2, <1>8
  <2> HIDE DEF In
  <2> QED
    BY Zenon, <2>1, <2>3, <2>4, <2>8, <2>9 DEF TxInv, In
<1>9. CASE \E n \in Keyed(more, k) : f = Len(log) + n
  <2>1. PICK n \in Keyed(more, k) : f = Len(log) + n
    BY <1>9
  <2>2. log'[f] = more[n] /\ more[n].tx = t /\ n \in DOMAIN more
    BY Zenon, <1>4, <1>5, <2>1 DEF Keyed
  <2>3. /\ InTx(t) = {} /\ \A m \in DOMAIN more : more[m].tx = t
        /\ \A m \in Keyed(more, k) :
             (\A g \in Keyed(more, k) : m <= g) =>
                 /\ Undoes(more[m], row[k].data)
                 /\ more[m].kind = "delete" /\ row[k].data # Nil =>
                       \A g \in Keyed(more, k) : more[g].after = Nil
    <3>1. PICK u \in TxId :
            /\ InTx(u) = {} /\ \A m \in DOMAIN more : more[m].tx = u
            /\ \A q \in Id : \A m \in Keyed(more, q) :
                 (\A g \in Keyed(more, q) : m <= g) =>
                     /\ Undoes(more[m], row[q].data)
                     /\ more[m].kind = "delete" /\ row[q].data # Nil =>
                           \A g \in Keyed(more, q) : more[g].after = Nil
      BY Zenon, <1>7, <2>2 DEF Writing
    <3>2. u = t
      BY Zenon, <2>2, <3>1
    <3> QED
      BY Zenon, <3>1, <3>2
  <2>4. \A g \in Keyed(more, k) : Len(log) + g \in In(k, t)'
    BY <1>4, <1>5, <2>3 DEF Keyed
  <2>5. ASSUME NEW g \in Keyed(more, k) PROVE n <= g
    <3>1. Len(log) + n <= Len(log) + g
      BY Zenon, <2>1, <2>4
    <3> QED
      BY <1>0, <1>1, <3>1
  <2>6. \A i \in Of(k) : i < f
    BY <1>0, <1>1, <2>1
  <2>7. ASSUME NEW i \in Of(k)', i < f PROVE i \in Of(k)
    <3>1. ASSUME NEW g \in Keyed(more, k), i = Len(log) + g PROVE FALSE
      <4>1. n <= g
        BY <2>5
      <4> QED
        BY <1>0, <1>1, <2>1, <2>7, <3>1, <4>1
    <3> QED
      BY Zenon, <1>3, <3>1
  <2>8. {i \in Of(k) : i < f}' = Of(k)
    BY Zenon, <1>2, <2>6, <2>7
  <2>9. Left({i \in Of(k) : i < f})' = row[k].data
    <3>1. Of(k) \in SUBSET DOMAIN log
      BY Zenon DEF Of
    <3>2. Left({i \in Of(k) : i < f})' = Left(Of(k))
      BY Zenon, <1>0, <2>8, <3>1, LeftKept DEF Left
    <3> QED
      BY Zenon, <3>2 DEF LogAccounts
  <2>10. ASSUME NEW g \in In(k, t)' PROVE \E m \in Keyed(more, k) : log'[g] = more[m]
    <3>1. g \notin Of(k)
      BY Zenon, <1>2, <1>5, <1>6, <2>3
    <3> QED
      BY Zenon, <1>3, <1>4, <3>1
  <2>11. /\ Undoes(more[n], row[k].data)
         /\ more[n].kind = "delete" /\ row[k].data # Nil =>
               \A g \in Keyed(more, k) : more[g].after = Nil
    BY Zenon, <2>3, <2>5
  <2> HIDE DEF In
  <2> QED
    BY ZenonT(60), <2>2, <2>9, <2>10, <2>11
<1> QED
    BY Zenon, <1>3, <1>8, <1>9

----------------------------------------------------------------------------
(* The operations write                                                      *)

(* The last entry of a living entity has its version.                        *)
LEMMA LivingLast ==
    ASSUME LogAccounts, NEW k \in Id, Present(k)
    PROVE  Of(k) # {} /\ log[Last(Of(k))].version = row[k].version
BY Zenon DEF LogAccounts, Left, Present

(* Storing one row with its one audit entry is a step that writes.           *)
LEMMA SingleWrite ==
    ASSUME Typed, NEW e \in Entry, e.tx = NoTx, e.at = now, e.after # Nil => e.version > 0,
           GoesOn(e), NEW v \in Nat, v = 0 <=> e.after = Nil, e.after # Nil => v = e.version,
           Writes(e.key, v, e.after, e)
    PROVE  Writing(<<e>>)
<1> DEFINE k == e.key
           more == <<e>>
<1>1. /\ k \in Id /\ e.after \in Data \cup {Nil}
      /\ more \in Seq(Entry) /\ DOMAIN more = {1} /\ more[1] = e
    BY DEF Entry
<1>2. log' = log \o more
    BY DEF Writes, Typed
<1>3. row \in [Id -> Row] /\ row' = [row EXCEPT ![k] = [version |-> v, data |-> e.after]]
    BY Zenon DEF Typed, Writes
<1>4. /\ row' \in [Id -> Row]
      /\ row'[k].version = v /\ row'[k].data = e.after
      /\ \A q \in Id : q # k => row'[q] = row[q]
    BY <1>1, <1>3 DEF Row
<1>5. Keyed(more, k) = {1} /\ Last({1}) = 1 /\ \A q \in Id : q # k => Keyed(more, q) = {}
  <2>1. Last({1}) = 1
    BY LastIs
  <2> QED
    BY Zenon, <1>1, <2>1 DEF Keyed
<1>6. ASSUME NEW q \in Id PROVE row'[q].version = 0 <=> row'[q].data = Nil
  <2>1. row[q].version = 0 <=> row[q].data = Nil
    BY Zenon DEF Typed
  <2>2. CASE q = k
    BY Zenon, <1>4, <2>2
  <2>3. CASE q # k
    BY Zenon, <1>4, <2>1, <2>3
  <2> QED
    BY Zenon, <2>2, <2>3
<1>7. \A n \in DOMAIN more :
         /\ more[n].at = now
         /\ more[n].after # Nil => more[n].version > 0
         /\ GoesOn(more[n]) /\ \A m \in DOMAIN more : m < n => more[m].key # more[n].key
  <2>1. ~(1 < 1)
    OBVIOUS
  <2> QED
    BY Zenon, <1>1, <2>1
<1>8. \A n \in DOMAIN more : more[n].tx = NoTx
    BY Zenon, <1>1
<1>9. ASSUME NEW q \in Id
      PROVE  /\ Keyed(more, q) = {} => row'[q] = row[q]
             /\ Keyed(more, q) # {} =>
                   /\ row'[q].data = more[Last(Keyed(more, q))].after
                   /\ row'[q].data # Nil => row'[q].version = more[Last(Keyed(more, q))].version
    BY Zenon, <1>1, <1>4, <1>5
<1> HIDE DEF more
<1> QED
    BY Zenon, <1>1, <1>2, <1>4, <1>6, <1>7, <1>8, <1>9 DEF Writing, more

\* Entity k is written, and nothing else, and is left with document d.
Wrote(k, d) ==
    /\ row'[k].data = d
    /\ \E more :
         /\ Writing(more) /\ Len(more) = 1
         /\ more[1].key = k /\ more[1].tx = NoTx

(* Storing a row at version 1 or the last version plus one, with its entry,  *)
(* writes that entity only.                                                  *)
LEMMA WritesWrote ==
    ASSUME Typed, LogAccounts, NEW k \in Id, NEW kind \in Kind, NEW n \in Nat,
           NEW before \in Data \cup {Nil}, NEW d \in Data \cup {Nil}, NEW v \in Nat,
           Writes(k, v, d, Logged(k, kind, n, before, d, NoTx)),
           d = Nil => v = 0, d # Nil => v = n /\ n > 0,
           \/ n = 1
           \/ Of(k) # {} /\ n = log[Last(Of(k))].version + 1
           \/ Of(k) # {} /\ n = log[Last(Of(k))].version /\ d = Nil
    PROVE  Wrote(k, d)
<1> DEFINE e == Logged(k, kind, n, before, d, NoTx)
<1>1. /\ e \in Entry /\ e.key = k /\ e.after = d /\ e.tx = NoTx /\ e.at = now /\ e.version = n
    BY DEF Logged, Entry, Typed
<1>2. GoesOn(e)
    BY Zenon, <1>1 DEF GoesOn
<1>3. v = 0 <=> d = Nil
    OBVIOUS
<1> HIDE DEF e
<1>4. Writing(<<e>>)
  <2>1. Writes(e.key, v, e.after, e)
    BY <1>1 DEF e
  <2> QED
    BY Zenon, <1>1, <1>2, <1>3, <2>1, SingleWrite
<1>5. Len(<<e>>) = 1 /\ <<e>>[1].key = k /\ <<e>>[1].tx = NoTx
    BY <1>1
<1>6. row'[k].data = d
    BY DEF Writes, Typed
<1> QED
    BY Zenon, <1>4, <1>5, <1>6 DEF Wrote

(* Restoring a document (rollback_single_entity_to_timestamp) writes that    *)
(* entity only.                                                              *)
LEMMA RestoreWrote ==
    ASSUME Typed, LogAccounts, NEW k \in Id, NEW d \in Data, Restore(k, d)
    PROVE  Wrote(k, d)
<1>1. row[k].version \in Nat /\ row[k].data \in Data \cup {Nil} /\ d # Nil /\ Nil \in Data \cup {Nil}
    BY RollbackAssumption DEF Typed, Row
<1>2. "revert" \in Kind /\ d \in Data \cup {Nil}
    BY DEF Kind
<1>3. CASE Present(k)
  <2> DEFINE v == row[k].version + 1
  <2>1. v \in Nat /\ v > 0 /\ Of(k) # {} /\ v = log[Last(Of(k))].version + 1
    BY <1>1, <1>3, LivingLast
  <2>2. Writes(k, v, d, Logged(k, "revert", v, row[k].data, d, NoTx))
    BY Zenon, <1>3 DEF Restore
  <2> HIDE DEF v
  <2> QED
    BY Zenon, <1>1, <1>2, <2>1, <2>2, WritesWrote
<1>4. CASE ~Present(k)
  <2>1. Writes(k, 1, d, Logged(k, "revert", 1, Nil, d, NoTx))
    BY Zenon, <1>4 DEF Restore
  <2>2. 1 \in Nat /\ 1 > 0
    OBVIOUS
  <2> QED
    BY Zenon, <1>1, <1>2, <2>1, <2>2, WritesWrote
<1> QED
    BY <1>3, <1>4

(* Removing an entity (the same function) writes that entity only.           *)
LEMMA RemoveWrote ==
    ASSUME Typed, LogAccounts, NEW k \in Id, Present(k), Remove(k)
    PROVE  Wrote(k, Nil)
<1>1. row[k].version \in Nat /\ row[k].data \in Data \cup {Nil} /\ Nil \in Data \cup {Nil}
    BY DEF Typed, Row
<1> DEFINE n == row[k].version + 1
<1>2. n \in Nat /\ 0 \in Nat /\ Of(k) # {} /\ n = log[Last(Of(k))].version + 1
    BY <1>1, LivingLast
<1>3. "delete" \in Kind /\ Writes(k, 0, Nil, Logged(k, "delete", n, row[k].data, Nil, NoTx))
    BY DEF Kind, Remove
<1> HIDE DEF n
<1> QED
    BY Zenon, <1>1, <1>2, <1>3, WritesWrote

Operation == [kind : {"create", "update", "delete"}, key : Id, data : Data \cup {Nil}]

\* The entry and the row an operation of a transaction leaves.
Leaves(op, t, e, r, old) ==
    /\ e \in Entry /\ e.key = op.key /\ e.kind = op.kind /\ e.tx = t /\ e.at = now
    /\ e.after = op.data /\ old.version \in Nat
    /\ e.kind = "create" => e.version = 1
    /\ e.kind = "update" => e.version = old.version + 1
    /\ e.kind = "delete" => e.version = old.version
    /\ e.kind # "create" => e.before = old.data
    /\ r \in Row /\ r.data = op.data
    /\ IF op.kind = "delete" THEN r.version = 0 ELSE r.version = e.version

(* One operation of a transaction logs and leaves what it stages.            *)
LEMMA OpWrites ==
    ASSUME Typed, NEW t \in TxId, NEW op \in Operation, op.data = Nil <=> op.kind = "delete"
    PROVE  Leaves(op, t, OpEntry(t, op), OpRow(t, op), row[op.key])
<1> USE DEF Operation, Leaves
<1>1. op.key \in Id /\ op.data \in Data \cup {Nil} /\ now \in Nat
      /\ row[op.key].version \in Nat /\ row[op.key].data \in Data \cup {Nil}
    BY DEF Typed, Row
<1>2. CASE op.kind = "create"
    BY <1>1, <1>2 DEF OpEntry, OpRow, Logged, Entry, Kind, Row
<1>3. CASE op.kind = "update"
    BY <1>1, <1>3 DEF OpEntry, OpRow, Logged, Entry, Kind, Row
<1>4. CASE op.kind = "delete"
    BY <1>1, <1>4 DEF OpEntry, OpRow, Logged, Entry, Kind, Row, Absent
<1> QED
    BY <1>2, <1>3, <1>4

(* The commit of a transaction is a step that writes, all its entries at     *)
(* once.                                                                     *)
LEMMA TransactWrites ==
    ASSUME Typed, LogAccounts, NEW t \in TxId, NEW ops \in Ops, Transact(t, ops)
    PROVE  Writing([i \in DOMAIN ops |-> OpEntry(t, ops[i])])
<1> DEFINE more == [i \in DOMAIN ops |-> OpEntry(t, ops[i])]
<1>1. /\ ops \in Seq(Operation) /\ Len(ops) \in Nat /\ DOMAIN ops = 1..Len(ops)
      /\ \A i \in DOMAIN ops : ops[i] \in Operation /\ (ops[i].data = Nil <=> ops[i].kind = "delete")
  <2>1. ops \in Seq(Operation) /\ \A i \in DOMAIN ops : ops[i].data = Nil <=> ops[i].kind = "delete"
    BY Zenon, RollbackAssumption DEF Operation
  <2>2. Len(ops) \in Nat /\ DOMAIN ops = 1..Len(ops) /\ \A i \in DOMAIN ops : ops[i] \in Operation
    BY <2>1
  <2> QED
    BY Zenon, <2>1, <2>2
<1>2. DOMAIN more = DOMAIN ops /\ \A i \in DOMAIN ops : more[i] = OpEntry(t, ops[i])
    BY Zenon
<1> HIDE DEF more
<1>3. /\ \A i \in DOMAIN ops : ops[i].kind = "create" => ~Present(ops[i].key)
      /\ \A i \in DOMAIN ops : ops[i].kind = "update" => Present(ops[i].key)
      /\ \A i \in DOMAIN ops : \A j \in 1..(i - 1) : ops[j].key = ops[i].key => ops[i].kind # "update"
      /\ InTx(t) = {} /\ log' = log \o more
      /\ row' = [k \in Id |-> LET I == {i \in DOMAIN ops : ops[i].key = k}
                              IN  IF I = {} THEN row[k] ELSE OpRow(t, ops[Last(I)])]
    BY Zenon DEF Transact, more
<1>4. ASSUME NEW n \in DOMAIN ops
      PROVE  LET e == more[n]
                 old == row[e.key]
             IN  /\ e \in Entry /\ e.key \in Id /\ e.key = ops[n].key /\ e.kind = ops[n].kind
                 /\ e.kind \in {"create", "update", "delete"} /\ e.tx = t /\ e.at = now
                 /\ e.after = ops[n].data /\ (e.after = Nil <=> e.kind = "delete")
                 /\ e.kind = "create" => e.version = 1
                 /\ e.kind = "update" => e.version = old.version + 1
                 /\ e.kind = "delete" => e.version = old.version
                 /\ e.kind # "create" => e.before = old.data
                 /\ old.version \in Nat
                 /\ OpRow(t, ops[n]) \in Row /\ OpRow(t, ops[n]).data = e.after
                 /\ IF e.kind = "delete" THEN OpRow(t, ops[n]).version = 0
                    ELSE OpRow(t, ops[n]).version = e.version
  <2>1. /\ ops[n] \in Operation /\ (ops[n].data = Nil <=> ops[n].kind = "delete")
        /\ ops[n].key \in Id /\ ops[n].kind \in {"create", "update", "delete"}
    BY Zenon, <1>1 DEF Operation
  <2>2. more[n] = OpEntry(t, ops[n])
    BY Zenon, <1>2
  <2>3. Leaves(ops[n], t, more[n], OpRow(t, ops[n]), row[ops[n].key])
    BY Zenon, <2>1, <2>2, OpWrites
  <2>4. more[n].key = ops[n].key
    BY Zenon, <2>3 DEF Leaves
  <2> QED
    BY Zenon, <2>1, <2>3, <2>4 DEF Leaves
<1>5. more \in Seq(Entry)
  <2>1. more \in [1..Len(ops) -> Entry]
    BY Zenon, <1>1, <1>4 DEF more
  <2> QED
    BY <1>1, <2>1
<1>6. ASSUME NEW i \in DOMAIN more, NEW j \in DOMAIN more, j < i, more[j].key = more[i].key
      PROVE  more[i].kind # "update"
  <2>1. j \in 1..(i - 1)
    BY <1>1, <1>2, <1>6
  <2> QED
    BY ZenonT(60), <1>2, <1>3, <1>4, <1>6, <2>1
<1>7. \A n \in DOMAIN more :
        /\ more[n].kind = "create" => row[more[n].key].data = Nil
        /\ more[n].kind = "update" => row[more[n].key].data # Nil
  <2> TAKE n \in DOMAIN more
  <2>1. n \in DOMAIN ops /\ more[n].key = ops[n].key /\ more[n].kind = ops[n].kind
    BY Zenon, <1>2, <1>4
  <2> QED
    BY Zenon, <1>3, <2>1 DEF Present
<1>8. \A k \in Id : Keyed(more, k) = {i \in DOMAIN ops : ops[i].key = k}
    BY Zenon, <1>2, <1>4 DEF Keyed

<1>9. ASSUME NEW k \in Id
      PROVE  /\ row'[k] \in Row
             /\ row'[k].version = 0 <=> row'[k].data = Nil
             /\ Keyed(more, k) = {} => row'[k] = row[k]
             /\ Keyed(more, k) # {} =>
                   /\ row'[k].data = more[Last(Keyed(more, k))].after
                   /\ row'[k].data # Nil => row'[k].version = more[Last(Keyed(more, k))].version
  <2>1. CASE Keyed(more, k) = {}
    <3>1. row'[k] = row[k]
      BY Zenon, <1>3, <1>8, <2>1
    <3> QED
      BY Zenon, <2>1, <3>1 DEF Typed
  <2>2. CASE Keyed(more, k) # {}
    <3> DEFINE l == Last(Keyed(more, k))
    <3>1. l \in Keyed(more, k)
      <4>1. Keyed(more, k) \in SUBSET (1..Len(ops))
        BY Zenon, <1>1, <1>2 DEF Keyed
      <4> QED
        BY Zenon, <1>1, <2>2, <4>1, LastIn
    <3>2. row'[k] = OpRow(t, ops[l])
      BY Zenon, <1>3, <1>8, <2>2
    <3>3. l \in DOMAIN ops /\ more[l].key = k
      BY Zenon, <1>2, <3>1 DEF Keyed
    <3> HIDE DEF l
    <3>4. /\ OpRow(t, ops[l]) \in Row /\ OpRow(t, ops[l]).data = more[l].after
          /\ (more[l].after = Nil <=> more[l].kind = "delete")
          /\ IF more[l].kind = "delete" THEN OpRow(t, ops[l]).version = 0
             ELSE OpRow(t, ops[l]).version = more[l].version
          /\ more[l].kind \in {"create", "update", "delete"}
          /\ more[l].kind = "create" => more[l].version = 1
          /\ more[l].kind = "update" => more[l].version = row[k].version + 1
          /\ row[k].version \in Nat
      BY Zenon, <1>4, <3>3
    <3>5. more[l].kind # "delete" => more[l].version # 0
      BY <3>4
    <3> QED
      BY Zenon, <2>2, <3>2, <3>4, <3>5 DEF l
  <2> QED
    BY <2>1, <2>2
<1>10. row' \in [Id -> Row]
  <2>1. row' = [k \in Id |-> row'[k]]
    BY Zenon, <1>3
  <2> QED
    BY Zenon, <1>9, <2>1
<1>11. ASSUME NEW n \in DOMAIN more
       PROVE  /\ more[n].at = now
              /\ more[n].after # Nil => more[n].version > 0
              /\ \/ GoesOn(more[n]) /\ \A m \in DOMAIN more : m < n => more[m].key # more[n].key
                 \/ more[n].version = 1
                 \/ /\ more[n].kind = "delete" /\ more[n].tx # NoTx
                    /\ \E m \in DOMAIN more : m < n /\ more[m].key = more[n].key /\ more[m].tx = more[n].tx
  <2> DEFINE e == more[n]
             k == more[n].key
  <2>1. /\ k \in Id /\ e.kind \in {"create", "update", "delete"} /\ e.tx = t /\ e.at = now
        /\ (e.after = Nil <=> e.kind = "delete")
        /\ e.kind = "create" => e.version = 1
        /\ e.kind = "update" => e.version = row[k].version + 1
        /\ e.kind = "delete" => e.version = row[k].version
        /\ row[k].version \in Nat
    BY Zenon, <1>2, <1>4
  <2>2. e.kind # "delete" => e.version > 0
    BY <2>1
  <2>3. CASE \E m \in DOMAIN more : m < n /\ more[m].key = k
    <3>1. e.kind # "update"
      BY Zenon, <1>6, <2>3
    <3>2. \A m \in DOMAIN more : more[m].tx = t
      BY Zenon, <1>2, <1>4
    <3>3. t # NoTx
      BY RollbackAssumption
    <3> QED
      BY Zenon, <2>1, <2>2, <2>3, <3>1, <3>2, <3>3
  <2>4. CASE \A m \in DOMAIN more : m < n => more[m].key # k
    <3>1. CASE row[k].data = Nil
      <4>1. row[k].version = 0 /\ e.kind # "update"
        BY Zenon, <1>7, <2>1, <3>1 DEF Typed
      <4> QED
        BY Zenon, <2>1, <2>2, <2>4, <4>1 DEF GoesOn
    <3>2. CASE row[k].data # Nil
      <4>1. Of(k) # {} /\ log[Last(Of(k))].version = row[k].version
        BY Zenon, <2>1, <3>2, LivingLast DEF Present
      <4>2. GoesOn(e)
        BY Zenon, <2>1, <4>1 DEF GoesOn
      <4> QED
        BY Zenon, <2>1, <2>2, <2>4, <4>2
    <3> QED
      BY <3>1, <3>2
  <2> QED
    BY Zenon, <2>3, <2>4
<1>12. ASSUME NEW k \in Id, NEW n \in Keyed(more, k), \A m \in Keyed(more, k) : n <= m
       PROVE  /\ Undoes(more[n], row[k].data)
              /\ more[n].kind = "delete" /\ row[k].data # Nil =>
                    \A m \in Keyed(more, k) : more[m].after = Nil
  <2>1. n \in DOMAIN ops /\ n \in DOMAIN more /\ more[n].key = k
    BY Zenon, <1>2 DEF Keyed
  <2>2. Undoes(more[n], row[k].data)
    BY Zenon, <1>4, <1>7, <2>1 DEF Undoes
  <2>3. ASSUME more[n].kind = "delete", row[k].data # Nil, NEW m \in Keyed(more, k)
        PROVE  more[m].after = Nil
    <3>1. m \in DOMAIN more /\ m \in DOMAIN ops /\ more[m].key = k /\ (m = n \/ n < m)
      BY <1>1, <1>2, <1>12, <2>1 DEF Keyed
    <3>2. more[m].kind # "create"
      BY Zenon, <1>7, <2>3, <3>1
    <3>3. more[m].kind # "update"
      BY Zenon, <1>6, <2>1, <2>3, <3>1
    <3> QED
      BY Zenon, <1>4, <3>1, <3>2, <3>3
  <2> QED
    BY <2>2, <2>3
<1>13. \A n \in DOMAIN more : more[n].tx = t
    BY Zenon, <1>2, <1>4
<1> QED
    BY Zenon, <1>3, <1>5, <1>9, <1>10, <1>11, <1>12, <1>13 DEF Writing, more

(* Nothing written is a case of writing.                                     *)
LEMMA NoWrite ==
    ASSUME Typed, UNCHANGED <<row, log>>
    PROVE  Writing(<<>>)
<1>1. /\ <<>> \in Seq(Entry) /\ log' = log \o <<>> /\ DOMAIN <<>> = {}
    BY DEF Typed
<1>2. \A k \in Id : Keyed(<<>>, k) = {}
    BY <1>1 DEF Keyed
<1> QED
    BY Zenon, <1>1, <1>2 DEF Writing, Typed

(* Requests that write at once do so while no rollback is under way.         *)
LEMMA ClientsWrite ==
    ASSUME Typed, LogAccounts,
           \/ Clients
           \/ \E i \in DOMAIN log : RevertEntity(i)
           \/ \E k \in Id : \E i \in Of(k) : RollbackEntity(k, i)
    PROVE  /\ job = NoJob /\ job' = NoJob /\ now' = now
           /\ \E more : Writing(more)
<1> DEFINE Done == job = NoJob /\ job' = NoJob /\ now' = now /\ \E more : Writing(more)
<1>1. \A k : \A d : Wrote(k, d) => \E more : Writing(more)
    BY Zenon DEF Wrote
<1>2. /\ \A k \in Id : row[k].version \in Nat /\ row[k].data \in Data \cup {Nil}
      /\ \A d \in Data : d # Nil /\ d \in Data \cup {Nil}
      /\ Nil \in Data \cup {Nil} /\ {"create", "update", "delete", "revert"} \subseteq Kind
      /\ 0 \in Nat /\ 1 \in Nat /\ 1 > 0
    BY RollbackAssumption DEF Typed, Row, Kind
<1>3. ASSUME NEW k \in Id, NEW d \in Data, CreateEntity(k, d) PROVE Done
  <2>1. Writes(k, 1, d, Logged(k, "create", 1, Nil, d, NoTx))
    BY Zenon, <1>3 DEF CreateEntity
  <2>2. Wrote(k, d)
    BY Zenon, <1>2, <2>1, WritesWrote
  <2> QED
    BY <1>1, <1>3, <2>2 DEF CreateEntity, Free
<1>4. ASSUME NEW k \in Id, NEW d \in Data, UpdateEntity(k, d) PROVE Done
  <2> DEFINE v == row[k].version + 1
  <2>1. v \in Nat /\ v > 0 /\ Of(k) # {} /\ v = log[Last(Of(k))].version + 1
    BY <1>2, <1>4, LivingLast DEF UpdateEntity
  <2>2. Writes(k, v, d, Logged(k, "update", v, row[k].data, d, NoTx))
    BY Zenon, <1>4 DEF UpdateEntity
  <2> HIDE DEF v
  <2>3. Wrote(k, d)
    BY Zenon, <1>2, <2>1, <2>2, WritesWrote
  <2> QED
    BY <1>1, <1>4, <2>3 DEF UpdateEntity, Free
<1>5. ASSUME NEW k \in Id, DeleteEntity(k) PROVE Done
  <2> DEFINE n == row[k].version
  <2>1. n \in Nat /\ Of(k) # {} /\ n = log[Last(Of(k))].version
    BY <1>2, <1>5, LivingLast DEF DeleteEntity
  <2>2. Writes(k, 0, Nil, Logged(k, "delete", n, row[k].data, Nil, NoTx))
    BY Zenon, <1>5 DEF DeleteEntity
  <2> HIDE DEF n
  <2>3. Wrote(k, Nil)
    BY Zenon, <1>2, <2>1, <2>2, WritesWrote
  <2> QED
    BY <1>1, <1>5, <2>3 DEF DeleteEntity, Free
<1>6. ASSUME NEW t \in TxId, NEW ops \in Ops, Transact(t, ops) PROVE Done
  <2>1. job = NoJob /\ job' = NoJob /\ now' = now
    BY <1>6 DEF Transact, Free
  <2> QED
    BY Zenon, <1>6, <2>1, TransactWrites
<1>7. \A i \in DOMAIN log : log[i].key \in Id /\ log[i].before \in Data \cup {Nil} /\ log[i].after \in Data \cup {Nil}
  <2>1. \A i \in DOMAIN log : log[i] \in Entry
    BY DEF Typed
  <2> QED
    BY Zenon, <2>1 DEF Entry
<1>8. ASSUME NEW i \in DOMAIN log, RevertEntity(i) PROVE Done
  <2>1. Wrote(log[i].key, log[i].before)
    BY <1>7, <1>8, RestoreWrote DEF RevertEntity
  <2> QED
    BY <1>1, <1>8, <2>1 DEF RevertEntity, Free
<1>9. ASSUME NEW k \in Id, NEW i \in Of(k), RollbackEntity(k, i) PROVE Done
  <2> DEFINE n == log[Last(Of(k))].version
             v == 1 + IF Present(k) THEN row[k].version ELSE n
             d == log[i].after
  <2>1. n \in Nat
    <3>1. Of(k) \in SUBSET (1..Len(log)) /\ Len(log) \in Nat
      BY DEF Of, Typed
    <3>2. Last(Of(k)) \in Of(k)
      BY Zenon, <3>1, LastIn
    <3>3. log[Last(Of(k))] \in Entry
      BY <3>1, <3>2 DEF Typed
    <3> QED
      BY <3>3 DEF Entry
  <2>2. v = n + 1
    BY <1>2, <2>1, LivingLast
  <2>3. v \in Nat /\ v > 0 /\ Of(k) # {}
    BY <2>1, <2>2
  <2>4. d \in Data \cup {Nil} /\ d # Nil
    BY Zenon, <1>7, <1>9 DEF RollbackEntity, Of
  <2>5. Writes(k, v, d, Logged(k, "revert", v, row[k].data, d, NoTx))
    BY Zenon, <1>9 DEF RollbackEntity
  <2> HIDE DEF v, d
  <2>6. Wrote(k, d)
    BY Zenon, <1>2, <2>2, <2>3, <2>4, <2>5, WritesWrote
  <2> QED
    BY <1>1, <1>9, <2>6 DEF RollbackEntity, Free
<1> HIDE DEF Done
<1>10. Done
    BY Zenon, <1>3, <1>4, <1>5, <1>6, <1>8, <1>9 DEF Clients
<1> QED
    BY <1>10 DEF Done

----------------------------------------------------------------------------
(* The rollback of one entity                                                *)

\* Entity k is left with document d, written or not.
Effect(k, d) ==
    /\ row'[k].data = d
    /\ \E more :
         /\ Writing(more)
         /\ \A n \in DOMAIN more : more[n].key = k /\ more[n].tx = NoTx

(* An entity that was written has the document it was left with.             *)
LEMMA WroteEffect ==
    ASSUME NEW k, NEW d, Wrote(k, d)
    PROVE  Effect(k, d)
<1>1. PICK more : Writing(more) /\ Len(more) = 1 /\ more[1].key = k /\ more[1].tx = NoTx
    BY Zenon DEF Wrote
<1>2. \A n \in DOMAIN more : n = 1
    BY <1>1 DEF Writing
<1> QED
    BY Zenon, <1>1, <1>2 DEF Wrote, Effect

(* An entity that was left alone has the document it had.                    *)
LEMMA StayEffect ==
    ASSUME Typed, NEW k, UNCHANGED <<row, log>>
    PROVE  Effect(k, row[k].data)
<1>1. \A n \in DOMAIN <<>> : FALSE
    OBVIOUS
<1> QED
    BY Zenon, <1>1, NoWrite DEF Effect

(* What some entries of the log leave behind is a document, or nothing.      *)
LEMMA LeftTyped ==
    ASSUME Typed, NEW S \in SUBSET DOMAIN log
    PROVE  Left(S) \in Data \cup {Nil}
<1>1. Len(log) \in Nat /\ S \in SUBSET (1..Len(log)) /\ \A i \in DOMAIN log : log[i] \in Entry
    BY DEF Typed
<1>2. S # {} => Last(S) \in S
    BY Zenon, <1>1, LastIn
<1> QED
    BY Zenon, <1>1, <1>2 DEF Left, Entry

(* Rolling an entity back to a time leaves the document it had then, whether *)
(* that takes a write, a removal or nothing.                                 *)
LEMMA TimestampEffect ==
    ASSUME Typed, LogAccounts, NEW k \in Id, NEW t, ToTimestamp(k, t)
    PROVE  Effect(k, StateAt(k, t))
<1> DEFINE d == StateAt(k, t)
<1>1. d \in Data \cup {Nil}
  <2>1. {i \in Of(k) : log[i].at <= t} \in SUBSET DOMAIN log
    BY Zenon DEF Of
  <2> QED
    BY ZenonT(60), <2>1, LeftTyped DEF StateAt, Left
<1>2. \/ d = row[k].data /\ UNCHANGED <<row, log>>
      \/ d = Nil /\ Present(k) /\ Remove(k)
      \/ d # Nil /\ Restore(k, d)
  <2> HIDE DEF d
  <2>1. CASE d = row[k].data
    BY Zenon, <2>1 DEF ToTimestamp, Present, d
  <2>2. CASE d # row[k].data /\ d = Nil
    BY Zenon, <2>2 DEF ToTimestamp, Present, d
  <2>3. CASE d # row[k].data /\ d # Nil
    BY Zenon, <2>3 DEF ToTimestamp, Present, d
  <2> QED
    BY <2>1, <2>2, <2>3
<1> HIDE DEF d
<1> QED
    BY Zenon, <1>1, <1>2, StayEffect, RemoveWrote, RestoreWrote, WroteEffect DEF d

(* Undoing a transaction for an entity leaves what the entity was before it, *)
(* when the transaction's entries about the entity are its last.             *)
LEMMA TransactionEffect ==
    ASSUME Typed, LogAccounts, TxInv, NEW k \in Id, NEW t \in TxId,
           Of(k) \cap InTx(t) # {}, FromTransaction(k, t)
    PROVE  \E d :
              /\ Effect(k, d)
              /\ (\A i \in Of(k) : i <= Last(Of(k) \cap InTx(t))) =>
                    d = Left({i \in Of(k) : i < First(Of(k) \cap InTx(t))})
<1> DEFINE T == Of(k) \cap InTx(t)
           f == First(T)
           e == log[f]
           was == Left({i \in Of(k) : i < f})
<1>1. T \in SUBSET Nat /\ T \in SUBSET (1..Len(log)) /\ Len(log) \in Nat /\ T # {}
    BY DEF Of, Typed
<1>2. f \in T /\ \A g \in T : f <= g
  <2> HIDE DEF T
  <2> QED
    BY Zenon, <1>1, FirstIn
<1>3. /\ Undoes(e, was)
      /\ e.kind = "delete" /\ was # Nil => \A g \in T : log[g].after = Nil
    BY Zenon, <1>2 DEF TxInv
<1>4. was \in Data \cup {Nil}
  <2>1. {i \in Of(k) : i < f} \in SUBSET DOMAIN log
    BY ZenonT(60) DEF Of
  <2> QED
    BY Zenon, <2>1, LeftTyped
<1>5. /\ e.kind = "create" => IF Present(k) THEN Remove(k) ELSE UNCHANGED <<row, log>>
      /\ e.kind = "update" => IF row[k].data = e.before THEN UNCHANGED <<row, log>> ELSE Restore(k, e.before)
      /\ e.kind = "delete" => e.before # Nil /\ IF Present(k) THEN UNCHANGED <<row, log>>
                                                              ELSE Restore(k, e.before)
  <2> HIDE DEF T, f, e
  <2>1. CASE e.kind = "create"
    BY <2>1 DEF FromTransaction, T, f, e
  <2>2. CASE e.kind = "update"
    BY <2>2 DEF FromTransaction, T, f, e
  <2>3. CASE e.kind = "delete"
    BY <2>3 DEF FromTransaction, T, f, e
  <2> QED
    BY <1>3, <2>1, <2>2, <2>3 DEF Undoes
<1> SUFFICES \E d : Effect(k, d) /\ ((\A i \in Of(k) : i <= Last(T)) => d = was)
    BY Zenon
<1> HIDE DEF T, f, e, was
<1>6. CASE e.kind = "create"
    BY Zenon, <1>3, <1>5, <1>6, StayEffect, RemoveWrote, WroteEffect DEF Undoes, Present
<1>7. CASE e.kind = "update"
  <2>1. e.before = was /\ was \in Data
    BY Zenon, <1>3, <1>4, <1>7 DEF Undoes
  <2> QED
    BY Zenon, <1>5, <1>7, <2>1, StayEffect, RestoreWrote, WroteEffect
<1>8. CASE e.kind = "delete"
  <2>1. e.before = was /\ was \in Data /\ was # Nil
    BY Zenon, <1>3, <1>4, <1>5, <1>8 DEF Undoes
  <2>2. CASE Present(k)
    <3>1. ASSUME \A i \in Of(k) : i <= Last(T) PROVE FALSE
      <4>1. Last(T) \in T /\ Last(T) \in Of(k)
        BY Zenon, <1>1, LastIn DEF T
      <4>2. Of(k) \in SUBSET Nat
        BY DEF Of, Typed
      <4>3. Last(Of(k)) = Last(T)
        BY Zenon, <3>1, <4>1, <4>2, LastIs
      <4>4. row[k].data = log[Last(T)].after
        BY Zenon, <4>1, <4>3 DEF LogAccounts, Left
      <4> QED
        BY Zenon, <1>3, <1>8, <2>1, <2>2, <4>1, <4>4 DEF Present
    <3> QED
      BY Zenon, <1>5, <1>8, <2>2, <3>1, StayEffect
  <2>3. CASE ~Present(k)
    BY Zenon, <1>5, <1>8, <2>1, <2>3, RestoreWrote, WroteEffect
  <2> QED
    BY <2>2, <2>3
<1> QED
    BY Zenon, <1>3, <1>6, <1>7, <1>8 DEF Undoes

----------------------------------------------------------------------------
(* A transaction rollback begins                                             *)

(* The entries of the past number the domain of the log.                     *)
LEMMA Positions ==
    ASSUME Typed
    PROVE  /\ Len(log) \in Nat /\ DOMAIN log = 1..Len(log)
           /\ \A i \in DOMAIN log : i \in Nat /\ i <= Len(log) /\ log[i] \in Entry
           /\ \A i \in DOMAIN log : log[i].at \in Nat /\ log[i].key \in Id
<1>1. /\ Len(log) \in Nat /\ DOMAIN log = 1..Len(log)
      /\ \A i \in DOMAIN log : i \in Nat /\ i <= Len(log) /\ log[i] \in Entry
    BY DEF Typed
<1> QED
    BY Zenon, <1>1 DEF Entry

(* When a transaction rollback begins, it has all of the transaction to do.  *)
LEMMA TransactionBegins ==
    ASSUME Typed, NEW t \in TxId, RollbackTransaction(t)
    PROVE  job' \in Job /\ JobInv' /\ CollectionRestored' /\ TransactionUndone'
<1> DEFINE todo == {i \in InTx(t) : \A j \in InTx(t) : log[j].key = log[i].key => j <= i}
<1>1. /\ job' = [NoJob EXCEPT !.kind = "transaction", !.tx = t, !.from = Len(log), !.todo = todo]
      /\ row' = row /\ log' = log /\ now' = now
    BY Zenon DEF RollbackTransaction
<1>2. InTx(t) \subseteq DOMAIN log /\ todo \subseteq InTx(t)
    BY Zenon DEF InTx
<1>3. /\ Len(log) \in Nat /\ DOMAIN log = 1..Len(log)
      /\ \A i \in DOMAIN log : i \in Nat /\ i <= Len(log)
    BY Zenon, Positions
<1>4. \A i, j \in todo : log[i].key = log[j].key => i = j
  <2>1. \A i, j \in todo : log[i].key = log[j].key => i <= j /\ j <= i
    BY Zenon, <1>2
  <2>2. \A i \in todo : i \in Nat
    BY Zenon, <1>2, <1>3
  <2> HIDE DEF todo
  <2> QED
    BY <2>1, <2>2
<1> HIDE DEF todo
<1>5. /\ job' \in Job /\ job'.kind = "transaction" /\ job'.tx = t
      /\ job'.from = Len(log) /\ job'.todo = todo /\ job'.failed = {}
  <2>1. todo \in SUBSET Nat
    BY Zenon, <1>2, <1>3
  <2> QED
    BY Zenon, <1>1, <1>3, <2>1 DEF NoJob, Job
<1>6. JobInv'
  <2>1. Len(log) <= Len(log)
    BY <1>3
  <2> QED
    BY Zenon, <1>1, <1>2, <1>3, <1>4, <1>5, <2>1 DEF JobInv, InTx
<1>7. ASSUME NEW k \in Id, Of(k) \cap InTx(t) # {}
      PROVE  ~Handled(k)'
  <2> DEFINE T == Of(k) \cap InTx(t)
  <2>1. T \in SUBSET (1..Len(log)) /\ T # {}
    BY Zenon, <1>2, <1>3, <1>7
  <2> HIDE DEF T
  <2>2. Last(T) \in T /\ \A j \in T : j <= Last(T)
    BY Zenon, <1>3, <2>1, LastIn
  <2>3. log[Last(T)].key = k /\ Last(T) \in InTx(t) /\ \A j \in InTx(t) : log[j].key = k => j \in T
    BY Zenon, <1>2, <2>2 DEF T, Of
  <2>4. Last(T) \in todo
    BY Zenon, <2>2, <2>3 DEF todo
  <2> QED
    BY Zenon, <1>1, <1>5, <2>3, <2>4 DEF Handled
<1>8. TransactionUndone'
  <2>1. \A k \in Id : (Of(k) \cap InTx(job.tx))' = Of(k) \cap InTx(t)
    BY Zenon, <1>1, <1>5 DEF Of, InTx
  <2> QED
    BY Zenon, <1>7, <2>1 DEF TransactionUndone
<1> QED
    BY Zenon, <1>5, <1>6, <1>8 DEF CollectionRestored

----------------------------------------------------------------------------
(* A rollback goes on                                                        *)

(* One entity is rolled back: what remains to be done is as before.          *)
LEMMA JobGoesOn ==
    ASSUME Typed, JobInv, NEW i \in job.todo, job' = [job EXCEPT !.todo = @ \ {i}],
           NEW more, Writing(more), \A n \in DOMAIN more : more[n].key = log[i].key
    PROVE  job' \in Job /\ JobInv'
<1>0. /\ log \in Seq(Entry) /\ more \in Seq(Entry) /\ log' = log \o more /\ job \in Job
    BY DEF Typed, Writing
<1>1. /\ \A j \in DOMAIN log : j \in DOMAIN log' /\ log'[j] = log[j]
      /\ \A n \in DOMAIN more : log'[Len(log) + n] = more[n]
    BY Zenon, <1>0, LogGrows
<1>2. \A j \in DOMAIN log' : j \in DOMAIN log \/ \E n \in DOMAIN more : j = Len(log) + n
    BY Zenon, <1>0, LogGrows
<1>3. Len(log) \in Nat /\ Len(more) \in Nat /\ Len(log') = Len(log) + Len(more)
    BY Zenon, <1>0, LogGrows
<1>4. /\ job' \in Job /\ job'.kind = job.kind /\ job'.coll = job.coll /\ job'.to = job.to /\ job'.tx = job.tx
      /\ job'.from = job.from /\ job'.todo = job.todo \ {i} /\ job'.failed = job.failed
    BY Zenon, <1>0 DEF Job
<1>5. job.from <= Len(log')
    BY <1>0, <1>3 DEF JobInv, Job
<1>6. ASSUME NEW m \in job.todo \ {i}
      PROVE  /\ \A j \in job.todo \ {i} : log'[m].key = log'[j].key => m = j
             /\ \A j \in DOMAIN log' : log'[m].key = log'[j].key => j <= job.from
  <2>1. m \in DOMAIN log /\ log'[m] = log[m] /\ \A j \in job.todo : j \in DOMAIN log /\ log'[j] = log[j]
    BY Zenon, <1>1 DEF JobInv
  <2>2. \A j \in job.todo : log[m].key = log[j].key => m = j
    BY Zenon DEF JobInv
  <2>3. ASSUME NEW j \in DOMAIN log', log'[m].key = log'[j].key PROVE j <= job.from
    <3>1. CASE j \in DOMAIN log
      BY Zenon, <1>1, <2>1, <2>3, <3>1 DEF JobInv
    <3>2. ASSUME NEW n \in DOMAIN more, j = Len(log) + n PROVE FALSE
      <4>1. log'[j].key = log[i].key
        BY Zenon, <1>1, <3>2
      <4> QED
        BY Zenon, <2>1, <2>2, <2>3, <4>1
    <3> QED
      BY Zenon, <1>2, <3>1, <3>2
  <2> QED
    BY Zenon, <2>1, <2>2, <2>3
<1>7. job.kind = "collection" => job.todo \ {i} \subseteq Since(job.coll, job.to)'
    BY ZenonT(60), <1>1, <1>4 DEF JobInv, Since
<1>8. job.kind = "transaction" => job.tx \in TxId /\ job.todo \ {i} \subseteq InTx(job.tx)'
    BY Zenon, <1>1, <1>4 DEF JobInv, InTx
<1>9. /\ job.todo \ {i} \subseteq DOMAIN log' /\ job.failed \subseteq DOMAIN log'
      /\ job.kind = "none" => job.todo \ {i} = {}
    BY Zenon, <1>1 DEF JobInv
<1> QED
    BY Zenon, <1>4, <1>5, <1>6, <1>7, <1>8, <1>9 DEF JobInv

(* The next entity of a collection rollback is restored, and those before    *)
(* stay restored.                                                            *)
LEMMA CollectionGoesOn ==
    ASSUME Typed, EntriesInv, JobInv, CollectionRestored,
           NEW i \in job.todo, job' = [job EXCEPT !.todo = @ \ {i}], job.kind = "collection",
           Effect(log[i].key, StateAt(log[i].key, job.to))
    PROVE  CollectionRestored'
<1> DEFINE k == log[i].key
           t == job.to
<1>0. PICK more : Writing(more) /\ \A n \in DOMAIN more : more[n].key = k
    BY Zenon DEF Effect
<1>1. /\ log \in Seq(Entry) /\ more \in Seq(Entry) /\ log' = log \o more /\ job \in Job /\ now \in Nat
    BY <1>0 DEF Typed, Writing
<1>2. /\ job'.kind = job.kind /\ job'.coll = job.coll /\ job'.to = job.to
      /\ job'.from = job.from /\ job'.todo = job.todo \ {i} /\ job'.failed = job.failed
    BY <1>1 DEF Job
<1>3. i \in DOMAIN log /\ ~(now <= t)
  <2>1. i \in DOMAIN log /\ log[i].at > t /\ log[i].at <= now /\ t \in Nat
    BY <1>1 DEF JobInv, Since, EntriesInv, Job
  <2>2. log[i].at \in Nat
    BY Zenon, <2>1, Positions
  <2> QED
    BY <1>1, <2>1, <2>2
<1>4. \A q : \A n \in Keyed(more, q) : more[n].at = now /\ q = k
    BY Zenon, <1>0 DEF Writing, Keyed
<1>5. ASSUME NEW q \in Id PROVE StateAt(q, t)' = StateAt(q, t) /\ StateAt(q, job.to)' = StateAt(q, t)
  <2> DEFINE H == {j \in Of(q) : log[j].at <= t}
  <2>1. {j \in Of(q)' : log'[j].at <= t} = H
    <3>1. \A j \in Of(q) : j \in Of(q)' /\ log'[j] = log[j]
      BY Zenon, <1>1, OfGrows
    <3>2. \A j \in Of(q)' : j \in Of(q) \/ \E n \in Keyed(more, q) : j = Len(log) + n
      BY Zenon, <1>1, OfGrows
    <3>3. \A n \in Keyed(more, q) : log'[Len(log) + n] = more[n]
      BY Zenon, <1>1, OfGrows
    <3>4. \A n \in Keyed(more, q) : ~(log'[Len(log) + n].at <= t)
      BY Zenon, <1>3, <1>4, <3>3
    <3> QED
      BY Zenon, <3>1, <3>2, <3>4
  <2>2. H \in SUBSET DOMAIN log
    BY Zenon DEF Of
  <2> HIDE DEF H
  <2>3. Left(H) = IF H = {} THEN Nil ELSE log'[Last(H)].after
    BY Zenon, <1>1, <2>2, LeftKept
  <2>4. StateAt(q, t) = Left(H)
    BY Zenon DEF StateAt, Left, H
  <2> QED
    BY Zenon, <1>2, <2>1, <2>3, <2>4 DEF StateAt
<1>6. WholePage' => WholePage
  <2>1. {j \in Since(job.coll, job.to) : j <= job.from}' = {j \in Since(job.coll, job.to) : j <= job.from}
    <3>1. \A j \in DOMAIN log : j \in DOMAIN log' /\ log'[j] = log[j]
      BY Zenon, <1>1, LogGrows
    <3>2. ASSUME NEW j \in DOMAIN log', j <= job.from PROVE j \in DOMAIN log
      <4>1. DOMAIN log = 1..Len(log) /\ Len(log) \in Nat /\ DOMAIN log' = 1..Len(log') /\ Len(log') \in Nat
        BY <1>1, LogGrows
      <4>2. job.from \in Nat /\ job.from <= Len(log)
        BY <1>1 DEF JobInv, Job
      <4> QED
        BY <3>2, <4>1, <4>2
    <3> QED
      BY Zenon, <1>2, <3>1, <3>2 DEF Since
  <2> QED
    BY Zenon, <2>1 DEF WholePage
<1>7. ASSUME NEW q \in Id, q # k, Handled(q)' PROVE Handled(q)
  <2>1. \A j \in DOMAIN log : log'[j] = log[j]
    BY Zenon, <1>1, LogGrows
  <2> QED
    BY Zenon, <1>2, <1>7, <2>1 DEF Handled, JobInv
<1>8. ASSUME NEW q \in Id, q # k PROVE row'[q] = row[q]
  <2>1. Keyed(more, q) = {}
    BY Zenon, <1>4, <1>8
  <2> QED
    BY Zenon, <1>0, <2>1 DEF Writing
<1>9. row'[k].data = StateAt(k, t)
    BY Zenon DEF Effect
<1> HIDE DEF k, t
<1>10. ASSUME WholePage', NEW q \in Id, CollectionOf[q] = job.coll, Handled(q)'
       PROVE  row'[q].data = StateAt(q, t)
    BY Zenon, <1>6, <1>7, <1>8, <1>9, <1>10 DEF CollectionRestored, t
<1> QED
    BY Zenon, <1>2, <1>5, <1>10 DEF CollectionRestored

(* The next entity of a transaction rollback is undone, and those before     *)
(* stay undone.                                                              *)
LEMMA TransactionGoesOn ==
    ASSUME Typed, LogAccounts, TxInv, JobInv, TransactionUndone,
           NEW i \in job.todo, job' = [job EXCEPT !.todo = @ \ {i}], job.kind = "transaction",
           FromTransaction(log[i].key, job.tx)
    PROVE  TransactionUndone' /\ \E d : Effect(log[i].key, d)
<1>0. PICK t, k : t = job.tx /\ k = log[i].key
    BY Zenon
<1> DEFINE T(q) == Of(q) \cap InTx(t)
           B(q) == {j \in Of(q) : j < First(T(q))}
<1>1. log \in Seq(Entry) /\ job \in Job
    BY DEF Typed
<1>2. /\ job'.kind = job.kind /\ job'.tx = job.tx
      /\ job'.from = job.from /\ job'.todo = job.todo \ {i} /\ job'.failed = job.failed
    BY <1>1 DEF Job
<1>3. t \in TxId /\ i \in DOMAIN log /\ i \in InTx(t) /\ t # NoTx
    BY Zenon, <1>0, RollbackAssumption DEF JobInv
<1>4. k \in Id /\ T(k) # {}
  <2>1. k \in Id /\ i \in Of(k)
    BY Zenon, <1>0, <1>3, Positions DEF Of
  <2> QED
    BY Zenon, <1>3, <2>1
<1>5. PICK d : /\ Effect(k, d)
               /\ (\A j \in Of(k) : j <= Last(T(k))) => d = Left(B(k))
    BY Zenon, <1>0, <1>3, <1>4, TransactionEffect
<1>6. PICK more : /\ Writing(more)
                  /\ \A n \in DOMAIN more : more[n].key = k /\ more[n].tx = NoTx
    BY Zenon, <1>5 DEF Effect
<1>7. more \in Seq(Entry) /\ log' = log \o more
    BY Zenon, <1>6 DEF Writing
<1>8. /\ Len(log) \in Nat
      /\ \A q \in Id : Of(q) \subseteq 1..Len(log) /\ Keyed(more, q) \subseteq 1..Len(more)
  <2>1. Len(log) \in Nat
    BY <1>1
  <2> QED
    BY Zenon, <1>1, <1>7, <2>1, OfGrows
<1>9. \A q \in Id : \A j \in Of(q) : j \in Of(q)' /\ log'[j] = log[j]
    BY Zenon, <1>1, <1>7, OfGrows
<1>10. \A q \in Id : \A j \in Of(q)' : j \in Of(q) \/ \E n \in Keyed(more, q) : j = Len(log) + n
    BY ZenonT(60), <1>1, <1>7, OfGrows
<1>11. \A q \in Id : \A n \in Keyed(more, q) : log'[Len(log) + n] = more[n] /\ more[n].tx = NoTx
  <2>1. \A q \in Id : \A n \in Keyed(more, q) : log'[Len(log) + n] = more[n]
    BY Zenon, <1>1, <1>7, OfGrows
  <2>2. \A q \in Id : \A n \in Keyed(more, q) : more[n].tx = NoTx
    BY Zenon, <1>6 DEF Keyed
  <2> QED
    BY Zenon, <2>1, <2>2
<1>12. ASSUME NEW q \in Id PROVE (Of(q) \cap InTx(job.tx))' = T(q)
  <2>1. \A j \in Of(q)' : j \in InTx(t)' <=> log'[j].tx = t
    BY Zenon DEF Of, InTx
  <2>2. \A j \in Of(q) : j \in InTx(t) <=> log[j].tx = t
    BY Zenon DEF Of, InTx
  <2>3. ASSUME NEW j \in Of(q)', j \in InTx(t)' PROVE j \in T(q)
    <3>1. log'[j].tx = t
      BY Zenon, <2>1, <2>3
    <3>2. j \in Of(q)
      BY Zenon, <1>3, <1>10, <1>11, <3>1
    <3> QED
      BY Zenon, <1>9, <2>2, <3>1, <3>2
  <2>4. ASSUME NEW j \in T(q) PROVE j \in Of(q)' /\ j \in InTx(t)'
    BY Zenon, <1>9, <2>1, <2>2
  <2>5. InTx(job.tx)' = InTx(t)'
    BY Zenon, <1>0, <1>2 DEF InTx
  <2> QED
    BY Zenon, <2>3, <2>4, <2>5
<1>13. ASSUME NEW q \in Id, T(q) # {}
       PROVE  Left({j \in Of(q) : j < First(Of(q) \cap InTx(job.tx))})' = Left(B(q))
  <2>1. T(q) \in SUBSET Nat
    BY <1>8
  <2>2. First(T(q)) \in Of(q)
    <3> HIDE DEF T
    <3>1. First(T(q)) \in T(q)
      BY Zenon, <1>13, <2>1, FirstIn
    <3> QED
      BY <3>1 DEF T
  <2> DEFINE f == First(T(q))
  <2>3. ASSUME NEW n \in Keyed(more, q) PROVE ~(Len(log) + n < f)
    <3> HIDE DEF f
    <3>1. f \in 1..Len(log) /\ n \in 1..Len(more) /\ Len(more) \in Nat
      BY <1>7, <1>8, <2>2 DEF f
    <3> QED
      BY <1>8, <3>1
  <2>4. {j \in Of(q)' : j < f} = B(q)
    BY Zenon, <1>9, <1>10, <2>3
  <2>5. B(q) \in SUBSET DOMAIN log
    BY Zenon DEF Of
  <2>6. Left(B(q)) = IF B(q) = {} THEN Nil ELSE log'[Last(B(q))].after
    <3> HIDE DEF B
    <3> QED
      BY Zenon, <1>1, <1>7, <2>5, LeftKept
  <2>7. {j \in Of(q) : j < First(Of(q) \cap InTx(job.tx))}' = B(q)
    BY Zenon, <1>12, <2>4
  <2> HIDE DEF B, f, T
  <2> QED
    BY Zenon, <2>6, <2>7 DEF Left
<1>14. ASSUME NEW q \in Id, T(q) # {}, \A j \in Of(q)' : j > Last(T(q)) => j > job.from, Handled(q)'
       PROVE  row'[q].data = Left(B(q))
  <2>1. CASE q = k
    <3>1. ASSUME NEW j \in Of(k) PROVE j <= Last(T(k))
      <4>1. j <= job.from /\ j \in Of(k)' /\ job.from \in Nat
        <5>1. j \in DOMAIN log /\ log[j].key = log[i].key
          BY Zenon, <1>0 DEF Of
        <5>2. j <= job.from
          BY Zenon, <5>1 DEF JobInv
        <5> QED
          BY Zenon, <1>1, <1>4, <1>9, <5>2 DEF Job
      <4>2. j \in Nat /\ T(k) \in SUBSET (1..Len(log))
        BY <1>4, <1>8
      <4>3. Last(T(k)) \in T(k)
        <5> HIDE DEF T
        <5> QED
          BY Zenon, <1>4, <1>8, <4>2, LastIn
      <4>4. Last(T(k)) \in Nat
        BY <4>2, <4>3
      <4>5. j > Last(T(k)) => j > job.from
        BY Zenon, <1>14, <2>1, <4>1
      <4> HIDE DEF T
      <4> QED
        BY <4>1, <4>2, <4>4, <4>5
    <3> QED
      BY Zenon, <1>5, <2>1, <3>1 DEF Effect
  <2>2. CASE q # k
    <3>1. \A j \in DOMAIN log : log'[j] = log[j]
      BY Zenon, <1>1, <1>7, LogGrows
    <3>2. Handled(q)
      BY Zenon, <1>0, <1>2, <1>14, <2>2, <3>1 DEF Handled, JobInv
    <3>3. Keyed(more, q) = {}
      BY Zenon, <1>6, <2>2 DEF Keyed
    <3>4. row'[q] = row[q]
      BY Zenon, <1>6, <3>3 DEF Writing
    <3>5. \A j \in Of(q) : j > Last(T(q)) => j > job.from
      BY Zenon, <1>9, <1>14
    <3> QED
      BY Zenon, <1>0, <1>14, <3>2, <3>4, <3>5 DEF TransactionUndone
  <2> QED
    BY <2>1, <2>2
<1>15. TransactionUndone'
    BY Zenon, <1>2, <1>12, <1>13, <1>14 DEF TransactionUndone
<1> QED
    BY Zenon, <1>0, <1>5, <1>15

----------------------------------------------------------------------------
(* The invariant                                                             *)

(* What a step that writes preserves, together.                              *)
LEMMA WritingKeeps ==
    ASSUME IInv, NEW more, Writing(more), now' \in Nat, now <= now', job' \in Job
    PROVE  Typed' /\ EntriesInv' /\ LogAccounts' /\ VersionInv' /\ TxInv'
<1>1. log' \in Seq(Entry)
  <2>1. log \in Seq(Entry) /\ more \in Seq(Entry) /\ log' = log \o more
    BY Zenon DEF IInv, Typed, Writing
  <2> QED
    BY Zenon, <2>1, LogGrows
<1>2. Typed'
    BY Zenon, <1>1 DEF Typed, Writing
<1>3. EntriesInv'
    BY Zenon, EntriesKept DEF IInv
<1>4. LogAccounts'
    BY Zenon, LogAccountsKept DEF IInv
<1>5. VersionInv'
    BY Zenon, VersionsKept DEF IInv
<1>6. TxInv'
    BY Zenon, TransactionsKept DEF IInv
<1> QED
    BY <1>2, <1>3, <1>4, <1>5, <1>6

(* Nothing is promised while no rollback is under way.                       *)
LEMMA NoJobKeeps ==
    ASSUME Typed', job' = NoJob
    PROVE  job' \in Job /\ JobInv' /\ CollectionRestored' /\ TransactionUndone'
<1>1. /\ job'.kind = "none" /\ job'.todo = {} /\ job'.failed = {} /\ job'.from = 0
    BY DEF NoJob
<1>2. 0 <= Len(log')
    BY DEF Typed
<1>3. job' \in Job
    BY DEF Typed
<1> QED
    BY Zenon, <1>1, <1>2, <1>3 DEF JobInv, CollectionRestored, TransactionUndone

(* A step that writes nothing, and counts no further entity as handled,      *)
(* keeps what a transaction rollback has promised.                           *)
LEMMA UndoneStays ==
    ASSUME TransactionUndone, row' = row, log' = log,
           job'.kind = job.kind, job'.tx = job.tx, job'.from = job.from,
           \A k \in Id : Handled(k)' => Handled(k)
    PROVE  TransactionUndone'
<1>1. InTx(job.tx)' = InTx(job.tx)
    BY Zenon DEF InTx
<1>2. \A k : Of(k)' = Of(k)
    BY Zenon DEF Of
<1>3. \A S : Left(S)' = Left(S)
    BY Zenon DEF Left
<1> DEFINE T(k) == Of(k) \cap InTx(job.tx)
           Undone(k) == /\ T(k) # {}
                        /\ \A j \in Of(k) : j > Last(T(k)) => j > job.from
                        /\ Handled(k)
                        => row[k].data = Left({j \in Of(k) : j < First(T(k))})
<1>4. ASSUME NEW k \in Id, Undone(k) PROVE Undone(k)'
  <2>1. T(k)' = T(k)
    BY Zenon, <1>1, <1>2
  <2>2. {j \in Of(k) : j < First(T(k))}' = {j \in Of(k) : j < First(T(k))}
    BY Zenon, <1>2, <2>1
  <2>3. (\A j \in Of(k) : j > Last(T(k)) => j > job.from)'
        => (\A j \in Of(k) : j > Last(T(k)) => j > job.from)
    BY Zenon, <1>2, <2>1
  <2> HIDE DEF T
  <2> QED
    BY Zenon, <1>3, <1>4, <2>1, <2>2, <2>3
<1>5. job.kind = "transaction" => \A k \in Id : Undone(k)
    BY Zenon DEF TransactionUndone
<1> QED
    BY Zenon, <1>4, <1>5 DEF TransactionUndone

(* The empty store and log satisfy the invariant.                            *)
LEMMA InvInit == Init => IInv
<1> SUFFICES ASSUME Init PROVE IInv
    OBVIOUS
<1>1. log = <<>> /\ DOMAIN log = {} /\ log \in Seq(Entry) /\ Len(log) = 0
    BY DEF Init
<1>2. job \in Job /\ job.kind = "none" /\ job.todo = {} /\ job.failed = {} /\ job.from = 0
    BY DEF Init, NoJob, Job
<1>3. Typed
    BY <1>1, <1>2 DEF Init, Typed, Row, Absent
<1>4. \A k : Of(k) = {}
    BY Zenon, <1>1 DEF Of
<1>5. LogAccounts
    BY Zenon, <1>4 DEF LogAccounts, Left, Present, Init, Absent
<1>6. EntriesInv /\ VersionInv /\ TxInv
    BY Zenon, <1>1, <1>4 DEF EntriesInv, VersionInv, TxInv
<1>7. JobInv /\ CollectionRestored /\ TransactionUndone
  <2>1. 0 <= 0
    OBVIOUS
  <2> QED
    BY Zenon, <1>1, <1>2, <2>1 DEF JobInv, CollectionRestored, TransactionUndone
<1> QED
    BY <1>3, <1>5, <1>6, <1>7 DEF IInv

----------------------------------------------------------------------------
(* A collection rollback begins, and every step                              *)

\* A page holds all the entries when they are no more than its size.
PagesHold == \A n \in Nat : \A S \in SUBSET (1..n) : Cardinality(S) <= PageSize => Page(S) = S

(* When a collection rollback begins, what it has not to do is as at that    *)
(* time.                                                                     *)
LEMMA CollectionBegins ==
    ASSUME PagesHold, Typed, LogAccounts,
           NEW c \in Collection, NEW t \in 0..now, RollbackCollection(c, t)
    PROVE  job' \in Job /\ JobInv' /\ CollectionRestored' /\ TransactionUndone'
<1> DEFINE P == Page(Since(c, t))
           todo == {i \in P : \A j \in P : log[j].key = log[i].key => i <= j}
<1>1. /\ job' = [NoJob EXCEPT !.kind = "collection", !.coll = c, !.to = t, !.from = Len(log), !.todo = todo]
      /\ row' = row /\ log' = log /\ now' = now
    BY Zenon DEF RollbackCollection
<1>2. P \subseteq Since(c, t) /\ Since(c, t) \subseteq DOMAIN log /\ todo \subseteq P
    BY Zenon DEF Page, Since
<1>3. /\ Len(log) \in Nat /\ DOMAIN log = 1..Len(log)
      /\ \A i \in DOMAIN log : i \in Nat /\ i <= Len(log)
      /\ \A i \in DOMAIN log : log[i].at \in Nat /\ log[i].key \in Id
    BY Zenon, Positions
<1>4. t \in Nat
    BY DEF Typed
<1>5. \A i, j \in todo : log[i].key = log[j].key => i = j
  <2>1. \A i, j \in todo : log[i].key = log[j].key => i <= j /\ j <= i
    BY Zenon, <1>2
  <2>2. \A i \in todo : i \in Nat
    BY Zenon, <1>2, <1>3
  <2> HIDE DEF todo
  <2> QED
    BY <2>1, <2>2
<1> HIDE DEF todo
<1>6. /\ job' \in Job /\ job'.kind = "collection" /\ job'.coll = c /\ job'.to = t
      /\ job'.from = Len(log) /\ job'.todo = todo /\ job'.failed = {}
  <2>1. todo \in SUBSET Nat
    BY Zenon, <1>2, <1>3
  <2> QED
    BY Zenon, <1>1, <1>3, <1>4, <2>1 DEF NoJob, Job
<1>7. JobInv'
  <2>1. Len(log) <= Len(log)
    BY <1>3
  <2> QED
    BY ZenonT(60), <1>1, <1>2, <1>3, <1>5, <1>6, <2>1 DEF JobInv, Since
<1>8. ASSUME WholePage', NEW k \in Id, CollectionOf[k] = c, Handled(k)'
      PROVE  row[k].data = StateAt(k, t)
  <2>1. Cardinality({i \in Since(c, t) : i <= Len(log)}) <= PageSize
    BY Zenon, <1>1, <1>6, <1>8 DEF WholePage, Since
  <2>2. {i \in Since(c, t) : i <= Len(log)} = Since(c, t)
    BY Zenon, <1>2, <1>3
  <2>3. P = Since(c, t)
    BY Zenon, <1>2, <1>3, <2>1, <2>2 DEF PagesHold
  <2>4. ASSUME NEW i \in Of(k) PROVE log[i].at <= t
    <3> SUFFICES ASSUME ~(log[i].at <= t) PROVE FALSE
      OBVIOUS
    <3> DEFINE G == {j \in P : log[j].key = k}
    <3>1. i \in DOMAIN log /\ log[i].key = k /\ log[i].at > t
      BY <1>3, <1>4 DEF Of
    <3>2. i \in G /\ G \in SUBSET Nat
      BY Zenon, <1>2, <1>3, <1>8, <2>3, <3>1 DEF Since
    <3> HIDE DEF G
    <3>3. First(G) \in G /\ \A j \in G : First(G) <= j
      BY Zenon, <3>2, FirstIn
    <3>4. First(G) \in todo /\ log[First(G)].key = k
      BY Zenon, <3>3 DEF G, todo
    <3> QED
      BY Zenon, <1>1, <1>6, <1>8, <3>4 DEF Handled
  <2>5. {i \in Of(k) : log[i].at <= t} = Of(k)
    BY Zenon, <2>4
  <2> QED
    BY Zenon, <2>5 DEF StateAt, LogAccounts, Left
<1>9. CollectionRestored'
  <2>1. \A k \in Id : StateAt(k, job.to)' = StateAt(k, t)
    BY Zenon, <1>1, <1>6 DEF StateAt, Of
  <2> QED
    BY Zenon, <1>1, <1>6, <1>8, <2>1 DEF CollectionRestored
<1> QED
    BY Zenon, <1>6, <1>7, <1>9 DEF TransactionUndone

(* Every step preserves the invariant: the clients' writes, the beginning,   *)
(* the entities, the failures and the end of a rollback, a crash and the     *)
(* clock.                                                                    *)
LEMMA InvStep ==
    ASSUME PagesHold, IInv, [Next]_vars
    PROVE  IInv'
<1> DEFINE JobKept == JobInv' /\ CollectionRestored' /\ TransactionUndone'
<1>0. now \in Nat /\ now <= now /\ job \in Job
    BY DEF IInv, Typed
<1>1. CASE \/ Clients
           \/ \E i \in DOMAIN log : RevertEntity(i)
           \/ \E k \in Id : \E i \in Of(k) : RollbackEntity(k, i)
  <2>1. job = NoJob /\ job' = NoJob /\ now' = now /\ \E more : Writing(more)
    BY Zenon, <1>1, ClientsWrite DEF IInv
  <2>2. Typed' /\ EntriesInv' /\ LogAccounts' /\ VersionInv' /\ TxInv'
    BY Zenon, <1>0, <2>1, WritingKeeps
  <2> QED
    BY Zenon, <2>1, <2>2, NoJobKeeps DEF IInv
<1>2. ASSUME UNCHANGED <<row, log>>, now' \in Nat, now <= now', job' \in Job, JobKept
      PROVE  IInv'
  <2>1. Writing(<<>>)
    BY Zenon, <1>2, NoWrite DEF IInv
  <2>2. Typed' /\ EntriesInv' /\ LogAccounts' /\ VersionInv' /\ TxInv'
    BY Zenon, <1>2, <2>1, WritingKeeps
  <2> QED
    BY Zenon, <1>2, <2>2 DEF IInv
<1>3. ASSUME NEW c \in Collection, NEW t \in 0..now, RollbackCollection(c, t) PROVE IInv'
  <2>1. UNCHANGED <<row, log>> /\ now' = now
    BY <1>3 DEF RollbackCollection
  <2>2. job' \in Job /\ JobKept
    BY Zenon, <1>3, CollectionBegins DEF IInv
  <2> QED
    BY Zenon, <1>0, <1>2, <2>1, <2>2
<1>4. ASSUME NEW t \in TxId, RollbackTransaction(t) PROVE IInv'
  <2>1. UNCHANGED <<row, log>> /\ now' = now
    BY <1>4 DEF RollbackTransaction
  <2>2. job' \in Job /\ JobKept
    BY Zenon, <1>4, TransactionBegins DEF IInv
  <2> QED
    BY Zenon, <1>0, <1>2, <2>1, <2>2
<1>5. CASE RollbackNext
  <2> DEFINE i == First(job.todo)
  <2>1. i \in job.todo
    <3>1. job.todo # {} /\ job.todo \in SUBSET Nat
      BY Zenon, <1>0, <1>5 DEF RollbackNext, Job
    <3> QED
      BY Zenon, <3>1, FirstIn
  <2>2. /\ job' = [job EXCEPT !.todo = @ \ {i}] /\ now' = now
        /\ \/ job.kind = "collection" /\ ToTimestamp(log[i].key, job.to)
           \/ job.kind = "transaction" /\ FromTransaction(log[i].key, job.tx)
    BY Zenon, <1>5 DEF RollbackNext
  <2>3. log[i].key \in Id
    BY Zenon, <2>1, Positions DEF IInv, JobInv
  <2> HIDE DEF i
  <2>4. job'.kind = job.kind
    BY <1>0, <2>2 DEF Job
  <2>5. /\ CollectionRestored' /\ TransactionUndone'
        /\ \E d : Effect(log[i].key, d)
    <3>1. CASE job.kind = "collection"
      <4>1. Effect(log[i].key, StateAt(log[i].key, job.to))
        BY Zenon, <2>2, <2>3, <3>1, TimestampEffect DEF IInv
      <4>2. CollectionRestored'
        BY Zenon, <2>1, <2>2, <3>1, <4>1, CollectionGoesOn DEF IInv
      <4> QED
        BY Zenon, <2>4, <3>1, <4>1, <4>2 DEF TransactionUndone
    <3>2. CASE job.kind = "transaction"
      <4>1. TransactionUndone' /\ \E d : Effect(log[i].key, d)
        BY Zenon, <2>1, <2>2, <3>2, TransactionGoesOn DEF IInv
      <4> QED
        BY Zenon, <2>4, <3>2, <4>1 DEF CollectionRestored
    <3> QED
      BY Zenon, <2>2, <3>1, <3>2
  <2>6. PICK more : Writing(more) /\ \A n \in DOMAIN more : more[n].key = log[i].key
    BY Zenon, <2>5 DEF Effect
  <2>7. job' \in Job /\ JobInv'
    BY Zenon, <2>1, <2>2, <2>6, JobGoesOn DEF IInv
  <2>8. Typed' /\ EntriesInv' /\ LogAccounts' /\ VersionInv' /\ TxInv'
    BY Zenon, <1>0, <2>2, <2>6, <2>7, WritingKeeps
  <2> QED
    BY Zenon, <2>5, <2>7, <2>8 DEF IInv
<1>6. CASE RollbackFails
  <2> DEFINE i == First(job.todo)
  <2>1. i \in job.todo
    <3>1. job.todo # {} /\ job.todo \in SUBSET Nat
      BY Zenon, <1>0, <1>6 DEF RollbackFails, Job
    <3> QED
      BY Zenon, <3>1, FirstIn
  <2>2. /\ job' = [job EXCEPT !.todo = @ \ {i}, !.failed = @ \cup {i}]
        /\ row' = row /\ log' = log /\ now' = now
    BY Zenon, <1>6 DEF RollbackFails
  <2> HIDE DEF i
  <2>3. /\ job' \in Job /\ job'.kind = job.kind /\ job'.coll = job.coll /\ job'.to = job.to
        /\ job'.tx = job.tx /\ job'.from = job.from
        /\ job'.todo = job.todo \ {i} /\ job'.failed = job.failed \cup {i}
    BY Zenon, <1>0, <2>1, <2>2 DEF Job
  <2>4. JobInv'
    BY Zenon, <2>1, <2>2, <2>3 DEF IInv, JobInv, Since, InTx
  <2>5. \A k \in Id : /\ Handled(k)' => Handled(k)
                      /\ StateAt(k, job.to)' = StateAt(k, job.to)
                      /\ Of(k)' = Of(k)
    BY Zenon, <2>1, <2>2, <2>3 DEF Handled, StateAt, Of
  <2>6. CollectionRestored'
    <3>1. WholePage' => WholePage
      BY Zenon, <2>2, <2>3 DEF WholePage, Since
    <3> QED
      BY Zenon, <2>2, <2>3, <2>5, <3>1 DEF IInv, CollectionRestored
  <2>7. TransactionUndone'
    BY Zenon, <2>2, <2>3, <2>5, UndoneStays DEF IInv
  <2> QED
    BY Zenon, <1>0, <1>2, <2>2, <2>3, <2>4, <2>6, <2>7
<1>7. CASE RollbackEnds \/ Crash
  <2>1. job' = NoJob /\ UNCHANGED <<row, log>> /\ now' = now
    BY <1>7 DEF RollbackEnds, Crash
  <2>2. Typed'
    BY <2>1 DEF IInv, Typed, NoJob, Job
  <2> QED
    BY Zenon, <1>0, <1>2, <2>1, <2>2, NoJobKeeps
<1>8. CASE Tick \/ UNCHANGED vars
  <2>1. UNCHANGED <<row, log, job>> /\ now' \in Nat /\ now <= now'
    BY <1>0, <1>8 DEF Tick, vars
  <2>2. JobInv'
    BY Zenon, <2>1 DEF IInv, JobInv, Since, InTx
  <2>3. CollectionRestored'
    BY ZenonT(60), <2>1 DEF IInv, CollectionRestored, WholePage, Since, Handled, StateAt, Of
  <2>4. TransactionUndone'
    BY Zenon, <2>1, UndoneStays DEF IInv, Handled
  <2> QED
    BY Zenon, <1>0, <1>2, <2>1, <2>2, <2>3, <2>4
<1> QED
    BY Zenon, <1>1, <1>3, <1>4, <1>5, <1>6, <1>7, <1>8 DEF Next, Rollbacks

(* The invariant's account of versions is that a version names a document.   *)
LEMMA InvNames == IInv => VersionsNameStates
<1> SUFFICES ASSUME IInv, NEW k \in Id, NEW i \in Of(k), NEW j \in Of(k),
                    i < j, log[i].after # Nil, log[j].after # Nil,
                    \A m \in Of(k) : i < m /\ m <= j => ~Restarts(k, m)
             PROVE  log[i].version < log[j].version
  BY Zenon DEF VersionsNameStates
<1>1. Counts(log[i], log[j])
  BY Zenon DEF IInv, VersionInv
<1>2. j \in DOMAIN log
  BY Zenon DEF Of
<1>3. log[j].version > 0
  BY Zenon, <1>2 DEF IInv, EntriesInv
<1>4. log[j].version # 0
  BY <1>3
<1> QED
  BY Zenon, <1>1, <1>4 DEF Counts

----------------------------------------------------------------------------
(* Theorems                                                                  *)

INSTANCE FiniteSetTheorems

(* A page holds all the entries when they are no more than its size.         *)
LEMMA PageAll ==
    ASSUME NEW n \in Nat, NEW S \in SUBSET (1..n), Cardinality(S) <= PageSize
    PROVE  Page(S) = S
<1>1. IsFiniteSet(S) /\ Cardinality(S) \in Nat
  <2>1. IsFiniteSet(1..n)
    BY FS_Interval
  <2> QED
    BY Zenon, <2>1, FS_Subset, FS_CardinalityType
<1>2. ASSUME NEW i \in S PROVE Cardinality({j \in S : j < i}) < PageSize
  <2> DEFINE B == {j \in S : j < i}
  <2>1. B \in SUBSET S /\ B # S
    OBVIOUS
  <2> HIDE DEF B
  <2>2. IsFiniteSet(B) /\ Cardinality(B) <= Cardinality(S) /\ Cardinality(B) # Cardinality(S)
    BY Zenon, <1>1, <2>1, FS_Subset
  <2>3. Cardinality(B) \in Nat
    BY Zenon, <2>2, FS_CardinalityType
  <2>4. Cardinality(B) < PageSize
    BY <1>1, <2>2, <2>3, RollbackAssumption
  <2> QED
    BY <2>4 DEF B
<1> QED
    BY Zenon, <1>2 DEF Page

(* The invariant holds of every run of the undo operations, client writes,   *)
(* ticks and crashes included.                                               *)
THEOREM Invariant == Spec => []IInv
<1>1. PagesHold
    BY Zenon, PageAll DEF PagesHold
<1>2. IInv /\ [Next]_vars => IInv'
    BY Zenon, <1>1, InvStep
<1> QED
    BY InvInit, <1>2, PTL DEF Spec

(* The log accounts for the state: every entity is what the last audit entry *)
(* about it says it left, whoever wrote it, and a rollback that stopped half *)
(* way included.                                                             *)
THEOREM LogAccountsAlways == Spec => []LogAccounts
BY Invariant, PTL DEF IInv

(* rollback_collection leaves what it has handled as it was at the requested *)
(* time, when one page of the log holds all the later entries.               *)
THEOREM CollectionRollback == Spec => []CollectionRestored
BY Invariant, PTL DEF IInv

(* rollback_transaction leaves what it has handled as it was before the      *)
(* transaction, unless somebody wrote it in between.                         *)
THEOREM TransactionRollback == Spec => []TransactionUndone
BY Invariant, PTL DEF IInv

(* Until an entity is created anew, a version names one of its documents:    *)
(* rollback_entity by version is not ambiguous.                              *)
THEOREM VersionsName == Spec => []VersionsNameStates
BY Invariant, InvNames, PTL

=============================================================================
