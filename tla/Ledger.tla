------------------------------- MODULE Ledger -------------------------------
(* What a tenant database promises whoever reads it from outside: a table of *)
(* versioned rows and an audit log that only ever change together, by whole  *)
(* batches.  A batch extends the log; the rows its entries name become what  *)
(* the last entry about them says and all the others stay; an update is one  *)
(* version above the entry it follows.                                       *)
EXTENDS Integers, Sequences

CONSTANTS Key, Nil

VARIABLES rows, entries

NoRow == [version |-> 0, data |-> Nil]

Result(e) == IF e.after = Nil THEN NoRow ELSE [version |-> e.version, data |-> e.after]

\* Entry i of l is the last one about its key.
Final(l, i) == \A j \in DOMAIN l : j > i => l[j].key # l[i].key

\* An update follows an entry about its key that left a row one version below.
Follows(l, j) ==
    \E i \in 1..(j - 1) :
        /\ l[i].key = l[j].key
        /\ \A m \in (i + 1)..(j - 1) : l[m].key # l[j].key
        /\ l[i].after # Nil
        /\ l[j].version = l[i].version + 1

Init == rows = [k \in Key |-> NoRow] /\ entries = <<>>

Added == (Len(entries) + 1)..Len(entries')

Commit ==
    /\ Len(entries) < Len(entries')
    /\ \A i \in DOMAIN entries : entries'[i] = entries[i]
    /\ \A k \in Key : (\A i \in Added : entries'[i].key # k) => rows'[k] = rows[k]
    /\ \A i \in Added : Final(entries', i) => rows'[entries'[i].key] = Result(entries'[i])
    /\ \A i \in Added : entries'[i].kind = "update" => Follows(entries', i)

Spec == Init /\ [][Commit]_<<rows, entries>>
=============================================================================
