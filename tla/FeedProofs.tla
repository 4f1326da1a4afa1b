----------------------------- MODULE FeedProofs -----------------------------
(* What followers of the audit log can rely on, for any number of entities,  *)
(* any log, any channel, page size and number of faults.                     *)
EXTENDS Feed, TLAPS

\* A leaf that names no prover goes to SMT, then to Zenon, then to SMT for longer.
USE SMT, Zenon, SMTT(60)

----------------------------------------------------------------------------
(* Sequences                                                                 *)

(* The elements of two sequences, one after the other.                       *)
LEMMA Concatenation ==
    ASSUME NEW S, NEW s \in Seq(S), NEW t \in Seq(S)
    PROVE  /\ s \o t \in Seq(S) /\ Len(s \o t) = Len(s) + Len(t)
           /\ \A n \in 1..(Len(s) + Len(t)) :
                  (s \o t)[n] = IF n <= Len(s) THEN s[n] ELSE t[n - Len(s)]
OBVIOUS

(* The elements of a sequence with one more.                                 *)
LEMMA Appending ==
    ASSUME NEW S, NEW s \in Seq(S), NEW x \in S
    PROVE  /\ Append(s, x) \in Seq(S) /\ Len(Append(s, x)) = Len(s) + 1
           /\ \A n \in 1..Len(s) : Append(s, x)[n] = s[n]
           /\ Append(s, x)[Len(s) + 1] = x
OBVIOUS

(* It is a concatenation.                                                    *)
LEMMA OneMore ==
    ASSUME NEW S, NEW s \in Seq(S), NEW x \in S
    PROVE  Append(s, x) = s \o <<x>>
OBVIOUS

(* A part of a finite set is finite.                                         *)
LEMMA FinitePart ==
    ASSUME NEW S, IsFiniteSet(S), NEW T \in SUBSET S
    PROVE  IsFiniteSet(T)
<1>1. PICK seq \in Seq(S) : \A s \in S : \E n \in 1..Len(seq) : seq[n] = s
    BY DEF IsFiniteSet
<1>2. ASSUME T = {} PROVE IsFiniteSet(T)
  <2>1. << >> \in Seq(T)
    OBVIOUS
  <2> QED
    BY Zenon, <1>2, <2>1 DEF IsFiniteSet
<1>3. ASSUME NEW t \in T PROVE IsFiniteSet(T)
  <2> DEFINE kept == [n \in 1..Len(seq) |-> IF seq[n] \in T THEN seq[n] ELSE t]
  <2>1. kept \in Seq(T) /\ Len(kept) = Len(seq)
    OBVIOUS
  <2>2. ASSUME NEW s \in T PROVE \E n \in 1..Len(kept) : kept[n] = s
    <3>1. PICK n \in 1..Len(seq) : seq[n] = s
      BY Zenon, <1>1
    <3> QED
      BY <2>1, <2>2, <3>1
  <2> HIDE DEF kept
  <2> QED
    BY Zenon, <2>1, <2>2 DEF IsFiniteSet
<1> QED
    BY Zenon, <1>2, <1>3

(* The empty set is finite.                                                  *)
LEMMA NoneIsFinite == IsFiniteSet({})
<1>1. << >> \in Seq({})
    OBVIOUS
<1> QED
    BY Zenon, <1>1 DEF IsFiniteSet

(* So is a finite set with one more element.                                 *)
LEMMA FiniteWith ==
    ASSUME NEW S, IsFiniteSet(S), NEW x
    PROVE  IsFiniteSet(S \cup {x})
<1>1. PICK seq \in Seq(S) : \A s \in S : \E n \in 1..Len(seq) : seq[n] = s
    BY DEF IsFiniteSet
<1> DEFINE all == Append(seq, x)
<1>2. /\ all \in Seq(S \cup {x}) /\ Len(all) = Len(seq) + 1 /\ all[Len(seq) + 1] = x
      /\ \A n \in 1..Len(seq) : all[n] = seq[n]
    OBVIOUS
<1>3. Len(seq) \in Nat
    OBVIOUS
<1> HIDE DEF all
<1>4. Len(seq) + 1 \in 1..Len(all) /\ \A n \in 1..Len(seq) : n \in 1..Len(all)
    BY <1>2, <1>3
<1>5. \A s \in S \cup {x} : \E n \in 1..Len(all) : all[n] = s
    BY Zenon, <1>1, <1>2, <1>4
<1> QED
    BY Zenon, <1>2, <1>5 DEF IsFiniteSet

----------------------------------------------------------------------------
(* Writers                                                                   *)

Entry == [kind : Kind, key : Key \cup {0}]

\* The log has only grown.
Grows ==
    /\ log' \in Seq(Entry)
    /\ Len(log) <= Len(log')
    /\ \A id \in 1..Len(log) : log'[id] = log[id]

\* Events were published, about entries just made and in their order.
Fresh(id) == id \in (Len(log) + 1)..Len(log') /\ log'[id].key \in Key
Publishes ==
    /\ sent' \in Seq(Nat) /\ Len(sent) <= Len(sent')
    /\ \A n \in 1..Len(sent) : sent'[n] = sent[n]
    /\ \A n \in (Len(sent) + 1)..Len(sent') : Fresh(sent'[n])
    /\ \A m, n \in (Len(sent) + 1)..Len(sent') : m < n => sent'[m] <= sent'[n]

\* A change of the rows is in the log.
Recorded == rows' = rows \/ \E id \in (Len(log) + 1)..Len(log') : log'[id].kind # "other"

USE EntitiesAreOrdered

(* The kinds a request may have.                                             *)
LEMMA KindsOf ==
    ASSUME NEW op \in Op
    PROVE  KindOf(op) \in {"create", "update", "delete"}
BY DEF KindOf

(* A write of one or two operations appends their entries.                   *)
LEMMA WriteGrows ==
    ASSUME NEW ops \in Seq(Op), ops # <<>>, log \in Seq(Entry), Write(ops)
    PROVE  /\ Grows /\ Recorded
           /\ Len(log') = Len(log) + Len(ops)
           /\ \A n \in 1..Len(ops) : log'[Len(log) + n].key = ops[n].key
           /\ \A n \in 1..Len(ops) : log'[Len(log) + n] = AuditEntry(KindOf(ops[n]), ops[n].key)
<1> DEFINE more == [n \in DOMAIN ops |-> AuditEntry(KindOf(ops[n]), ops[n].key)]
<1>1. DOMAIN ops = 1..Len(ops) /\ Len(ops) \in Nat /\ Len(ops) > 0 /\ Len(log) \in Nat
    OBVIOUS
<1>2. \A n \in 1..Len(ops) : ops[n] \in Op /\ ops[n].key \in Key
  <2>1. \A n \in 1..Len(ops) : ops[n] \in Op
    OBVIOUS
  <2>2. \A op \in Op : op.key \in Key
    BY DEF Op
  <2> QED
    BY <2>1, <2>2
<1>3. \A n \in 1..Len(ops) : more[n] \in Entry /\ more[n].key = ops[n].key /\ more[n].kind # "other"
    BY <1>1, <1>2, KindsOf DEF AuditEntry, Entry, Kind
<1>4. more \in Seq(Entry) /\ Len(more) = Len(ops)
    BY <1>1, <1>3
<1>5. log' = log \o more
    BY DEF Write
<1> HIDE DEF more
<1>6. /\ log' \in Seq(Entry) /\ Len(log') = Len(log) + Len(ops)
      /\ \A n \in 1..(Len(log) + Len(ops)) :
             log'[n] = IF n <= Len(log) THEN log[n] ELSE more[n - Len(log)]
  <2>1. /\ log \o more \in Seq(Entry) /\ Len(log \o more) = Len(log) + Len(more)
        /\ \A n \in 1..(Len(log) + Len(more)) :
               (log \o more)[n] = IF n <= Len(log) THEN log[n] ELSE more[n - Len(log)]
    BY Zenon, <1>4, Concatenation
  <2> QED
    BY <1>4, <1>5, <2>1
<1>7. Grows
    BY <1>1, <1>6 DEF Grows
<1>8. \A n \in 1..Len(ops) : log'[Len(log) + n] = more[n]
  <2>1. \A n \in 1..Len(ops) : /\ Len(log) + n \in 1..(Len(log) + Len(ops))
                               /\ ~(Len(log) + n <= Len(log))
                               /\ (Len(log) + n) - Len(log) = n
    BY <1>1
  <2> QED
    BY <1>6, <2>1
<1>9. Recorded
  <2>1. Len(log) + 1 \in (Len(log) + 1)..Len(log') /\ log'[Len(log) + 1].kind # "other"
    BY <1>1, <1>3, <1>6, <1>8
  <2> QED
    BY <2>1 DEF Recorded
<1>10. \A n \in 1..Len(ops) : log'[Len(log) + n] = AuditEntry(KindOf(ops[n]), ops[n].key)
    BY Zenon, <1>1, <1>8 DEF more
<1> QED
    BY <1>3, <1>6, <1>7, <1>8, <1>9, <1>10

(* The events of a transaction are about its entries, in order.              *)
LEMMA EventsInOrder ==
    ASSUME NEW a \in Op, NEW b \in Op
    PROVE  /\ EventOf(<<a, b>>, 1) = Len(log) + 1
           /\ EventOf(<<a, b>>, 2) = IF a.key = b.key THEN Len(log) + 1 ELSE Len(log) + 2
<1> DEFINE ops == <<a, b>>
           first(n, i) == ops[i].key = ops[n].key /\ \A j \in 1..(i - 1) : ops[j].key # ops[n].key
<1>1. DOMAIN ops = {1, 2} /\ ops[1] = a /\ ops[2] = b
    OBVIOUS
<1>2. \A n \in {1, 2} : EventOf(ops, n) = Len(log) + CHOOSE i \in DOMAIN ops : first(n, i)
    BY DEF EventOf
<1>3. 1..(1 - 1) = {} /\ 1..(2 - 1) = {1}
    OBVIOUS
<1>4. first(1, 1) /\ ~first(1, 2)
    BY <1>1, <1>3
<1>5. first(2, 1) <=> a.key = b.key
    BY <1>1, <1>3
<1>6. first(2, 2) <=> a.key # b.key
    BY <1>1, <1>3
<1> HIDE DEF first, ops
<1>7. (CHOOSE i \in DOMAIN ops : first(1, i)) = 1
    BY <1>1, <1>4
<1>8. (CHOOSE i \in DOMAIN ops : first(2, i)) = IF a.key = b.key THEN 1 ELSE 2
    BY <1>1, <1>5, <1>6
<1> QED
    BY Zenon, <1>2, <1>7, <1>8 DEF ops

(* Publishing fresh events in their order, heard or not.                     *)
LEMMA PublishesFresh ==
    ASSUME sent \in Seq(Nat), NEW ids \in Seq(Nat), publish(ids),
           \A n \in 1..Len(ids) : Fresh(ids[n]),
           \A m, n \in 1..Len(ids) : m < n => ids[m] <= ids[n]
    PROVE  Publishes
<1>0. Len(sent) \in Nat /\ Len(ids) \in Nat
    OBVIOUS
<1>1. CASE sent' = sent
    BY <1>0, <1>1 DEF Publishes
<1>2. CASE sent' = sent \o ids
  <2>1. /\ sent' \in Seq(Nat) /\ Len(sent') = Len(sent) + Len(ids)
        /\ \A n \in 1..(Len(sent) + Len(ids)) :
               sent'[n] = IF n <= Len(sent) THEN sent[n] ELSE ids[n - Len(sent)]
    BY <1>2, Concatenation
  <2>2. \A n \in (Len(sent) + 1)..Len(sent') :
            n - Len(sent) \in 1..Len(ids) /\ sent'[n] = ids[n - Len(sent)]
    BY <1>0, <2>1
  <2>3. \A n \in 1..Len(sent) : sent'[n] = sent[n]
    BY <1>0, <2>1
  <2>4. \A n \in (Len(sent) + 1)..Len(sent') : Fresh(sent'[n])
    BY <2>2
  <2>5. \A m, n \in (Len(sent) + 1)..Len(sent') : m < n => m - Len(sent) < n - Len(sent)
    BY <1>0, <2>1
  <2>6. \A m, n \in (Len(sent) + 1)..Len(sent') : m < n => sent'[m] <= sent'[n]
    BY Zenon, <2>2, <2>5
  <2> QED
    BY <1>0, <2>1, <2>3, <2>4, <2>6 DEF Publishes
<1> QED
    BY <1>1, <1>2 DEF publish

(* The writers' steps, seen by a follower.                                   *)
LEMMA WriterStep ==
    ASSUME log \in Seq(Entry), sent \in Seq(Nat), FeedNext
    PROVE  Grows /\ Recorded /\ Publishes
<1>0. Len(log) \in Nat /\ \A op \in Op : op.key \in Key
    BY DEF Op
<1>1. ASSUME NEW op \in Op, Write(<<op>>)
      PROVE  Grows /\ Recorded /\ Len(log') = Len(log) + 1 /\ log'[Len(log) + 1].key = op.key
  <2>1. <<op>> \in Seq(Op) /\ <<op>> # <<>> /\ Len(<<op>>) = 1 /\ <<op>>[1] = op
    OBVIOUS
  <2>2. /\ Grows /\ Recorded /\ Len(log') = Len(log) + Len(<<op>>)
        /\ \A n \in 1..Len(<<op>>) : log'[Len(log) + n].key = <<op>>[n].key
    BY Zenon, <1>1, <2>1, WriteGrows
  <2> QED
    BY <2>1, <2>2
<1>2. ASSUME NEW op \in Op, broadcast_entity_change(op)
      PROVE  Grows /\ Recorded /\ Publishes
  <2>1. Grows /\ Recorded /\ Fresh(Len(log) + 1)
    BY <1>0, <1>1, <1>2 DEF broadcast_entity_change, Fresh
  <2> DEFINE ids == <<Len(log) + 1>>
  <2>2. ids \in Seq(Nat) /\ Len(ids) = 1 /\ ids[1] = Len(log) + 1
    BY <1>0
  <2>3. publish(ids)
    BY <1>2 DEF broadcast_entity_change
  <2> HIDE DEF ids
  <2>4. /\ \A n \in 1..Len(ids) : Fresh(ids[n])
        /\ \A m, n \in 1..Len(ids) : m < n => ids[m] <= ids[n]
    <3>1. \A n \in 1..Len(ids) : n = 1
      BY <2>2
    <3> QED
      BY <2>1, <2>2, <3>1
  <2>5. Publishes
    BY Zenon, <2>2, <2>3, <2>4, PublishesFresh
  <2> QED
    BY <2>1, <2>5
<1>8. sent' = sent => Publishes
    BY DEF Publishes
<1>3. ASSUME NEW op \in Op, WriteUnpublished(op)
      PROVE  Grows /\ Recorded /\ Publishes
    BY <1>1, <1>3, <1>8 DEF WriteUnpublished
<1>4. ASSUME NEW a \in Op, NEW b \in Op, commit_transaction(a, b)
      PROVE  Grows /\ Recorded /\ Publishes
  <2> DEFINE x == EventOf(<<a, b>>, 1)
             y == EventOf(<<a, b>>, 2)
             xs == IF a.key \in Entity THEN <<x>> ELSE <<>>
             ys == IF b.key \in Entity THEN <<y>> ELSE <<>>
  <2>1. /\ <<a, b>> \in Seq(Op) /\ <<a, b>> # <<>> /\ Len(<<a, b>>) = 2
        /\ <<a, b>>[1] = a /\ <<a, b>>[2] = b
    OBVIOUS
  <2>2. Write(<<a, b>>) /\ publish(xs \o ys)
    BY <1>4, <2>1 DEF commit_transaction
  <2>3. /\ Grows /\ Recorded /\ Len(log') = Len(log) + 2
        /\ log'[Len(log) + 1].key = a.key /\ log'[Len(log) + 2].key = b.key
    <3>1. /\ Grows /\ Recorded /\ Len(log') = Len(log) + Len(<<a, b>>)
          /\ \A n \in 1..Len(<<a, b>>) : log'[Len(log) + n].key = <<a, b>>[n].key
      BY Zenon, <2>1, <2>2, WriteGrows
    <3>2. 1 \in 1..2 /\ 2 \in 1..2
      OBVIOUS
    <3> QED
      BY <2>1, <3>1, <3>2
  <2>4. x = Len(log) + 1 /\ y = IF a.key = b.key THEN Len(log) + 1 ELSE Len(log) + 2
    BY EventsInOrder
  <2> HIDE DEF x, y
  <2>5. Fresh(x) /\ Fresh(y) /\ x <= y /\ x \in Nat /\ y \in Nat
    BY <1>0, <2>3, <2>4 DEF Fresh
  <2>6. /\ xs \in Seq(Nat) /\ Len(xs) \in {0, 1} /\ \A n \in 1..Len(xs) : xs[n] = x
        /\ ys \in Seq(Nat) /\ Len(ys) \in {0, 1} /\ \A n \in 1..Len(ys) : ys[n] = y
    <3>1. \A v \in Nat : <<v>> \in Seq(Nat) /\ Len(<<v>>) = 1 /\ \A n \in 1..1 : <<v>>[n] = v
      OBVIOUS
    <3>2. <<>> \in Seq(Nat) /\ Len(<<>>) = 0 /\ 1..0 = {}
      OBVIOUS
    <3>3. xs \in Seq(Nat) /\ Len(xs) \in {0, 1} /\ \A n \in 1..Len(xs) : xs[n] = x
      BY <2>5, <3>1, <3>2
    <3>4. ys \in Seq(Nat) /\ Len(ys) \in {0, 1} /\ \A n \in 1..Len(ys) : ys[n] = y
      BY <2>5, <3>1, <3>2
    <3> QED
      BY <3>3, <3>4
  <2> DEFINE ids == xs \o ys
  <2> HIDE DEF xs, ys
  <2>7. /\ ids \in Seq(Nat) /\ Len(ids) = Len(xs) + Len(ys)
        /\ \A n \in 1..(Len(xs) + Len(ys)) :
               ids[n] = IF n <= Len(xs) THEN xs[n] ELSE ys[n - Len(xs)]
    BY <2>6, Concatenation
  <2> HIDE DEF ids
  <2>8. \A n \in 1..Len(ids) : ids[n] = IF n <= Len(xs) THEN x ELSE y
    <3>1. \A n \in 1..Len(ids) : IF n <= Len(xs) THEN n \in 1..Len(xs)
                                                ELSE n - Len(xs) \in 1..Len(ys)
      BY <2>6, <2>7
    <3> QED
      BY Zenon, <2>6, <2>7, <3>1
  <2>9. \A n \in 1..Len(ids) : Fresh(ids[n])
    BY <2>5, <2>8
  <2>10. \A m, n \in 1..Len(ids) : m < n => ids[m] <= ids[n]
    <3>1. Len(xs) \in Nat /\ Len(ids) \in Nat
      BY <2>6, <2>7
    <3>2. \A m, n \in 1..Len(ids) : m < n => ~(m > Len(xs) /\ n <= Len(xs))
      BY <3>1
    <3>3. x <= x /\ y <= y /\ \A m \in 1..Len(ids) : m <= Len(xs) \/ m > Len(xs)
      BY <2>5, <3>1
    <3> QED
      BY <2>5, <2>8, <3>2, <3>3
  <2>11. publish(ids)
    BY <2>2 DEF ids
  <2>12. Publishes
    BY Zenon, <2>7, <2>9, <2>10, <2>11, PublishesFresh
  <2> QED
    BY <2>3, <2>12
<1>5. ASSUME NEW kind \in Kind, log' = Append(log, AuditEntry(kind, 0))
      PROVE  Grows /\ Len(log') = Len(log) + 1 /\ log'[Len(log) + 1].kind = kind
    BY <1>0, <1>5 DEF Grows, AuditEntry, Entry
<1>6. CASE drop_collection
  <2>1. Grows /\ Len(log') = Len(log) + 1 /\ log'[Len(log) + 1].kind = "drop"
    BY <1>5, <1>6 DEF drop_collection, Kind
  <2>2. Len(log) + 1 \in (Len(log) + 1)..Len(log')
    BY <1>0, <2>1
  <2> QED
    BY <1>6, <1>8, <2>1, <2>2 DEF drop_collection, Recorded
<1>7. CASE AppendOther
    BY <1>5, <1>7, <1>8 DEF AppendOther, Recorded, Kind
<1> QED
    BY <1>2, <1>3, <1>4, <1>6, <1>7 DEF FeedNext

----------------------------------------------------------------------------
\* Events are about entries of the log, in the order of their ids.
SentInv ==
    /\ log \in Seq(Entry)
    /\ sent \in Seq(Nat)
    /\ \A n \in 1..Len(sent) : sent[n] \in 1..Len(log) /\ log[sent[n]].key \in Key
    /\ \A m, n \in 1..Len(sent) : m < n => sent[m] <= sent[n]

\* What a change stream has delivered is not after what it has yet to see.
Delivered(got, pos) ==
    /\ pos <= Len(sent)
    /\ \A m \in 1..Len(got) : got[m] <= Len(log)
    /\ \A m, n \in 1..Len(got) : m < n => got[m] <= got[n]
    /\ \A m \in 1..Len(got), n \in (pos + 1)..Len(sent) : got[m] <= sent[n]

WatchInv ==
    /\ watch \in [on : {"no", "yes"}, pos : Nat, got : Seq(Nat)]
    /\ Delivered(watch.got, watch.pos)

\* Between being woken and being evaluated a query may be behind events it has
\* passed; an open one that is behind has events left, which will wake it.
Shows(on, start, pos, shown, at) ==
    /\ on \in {"no", "evaluated", "yes", "woken"}
    /\ start \in Nat /\ pos \in Nat /\ at \in Nat
    /\ pos <= Len(sent) /\ at <= Len(log)
    /\ on = "yes" /\ pos = Len(sent) => \A n \in (start + 1)..Len(sent) : sent[n] <= at
    /\ on # "no" /\ (\A id \in (at + 1)..Len(log) : ~ChangesRows(id)) => shown = rows

LiveInv ==
    /\ live = [on |-> live.on, start |-> live.start, pos |-> live.pos,
               shown |-> live.shown, at |-> live.at]
    /\ Shows(live.on, live.start, live.pos, live.shown, live.at)

Covered(id) == from_audit_entry(id) => \E n \in 1..Len(topic) : topic[n] = Message(id, FALSE)

\* Below the end of the page in hand, what is not waiting was sent.
CaptureInv ==
    /\ topic \in Seq([id : Nat, tomb : BOOLEAN])
    /\ cursor \in Nat /\ cursor <= Len(log)
    /\ page \in [busy : BOOLEAN, todo : SUBSET Nat, next : Nat]
    /\ page.todo \subseteq 1..Len(log) /\ page.next <= Len(log)
    /\ \A id \in 1..cursor : Covered(id)
    /\ page.busy =>
           \A id \in 1..Len(log) :
               /\ id <= page.next \/ \E j \in page.todo : id <= j
               /\ id \notin page.todo
               => Covered(id)

IInv == SentInv /\ WatchInv /\ LiveInv /\ CaptureInv

(* The invariant holds of an empty log.                                       *)
LEMMA InvInit == Init => IInv
<1> SUFFICES ASSUME Init PROVE IInv
    OBVIOUS
<1>1. log = <<>> /\ sent = <<>> /\ Len(log) = 0 /\ Len(sent) = 0
    BY DEF Init, FeedInit
<1>2. SentInv
    BY <1>1 DEF SentInv
<1>3. WatchInv
    BY <1>1 DEF Init, SubsInit, NoWatch, WatchInv, Delivered
<1>4. LiveInv
    BY <1>1 DEF Init, SubsInit, NoQuery, LiveInv, Shows
<1>5. CaptureInv
    BY <1>1 DEF Init, CaptureInit, CaptureInv, Idle
<1> QED
    BY <1>2, <1>3, <1>4, <1>5 DEF IInv

(* The writers keep what the followers rely on.                              *)
LEMMA WriterSent ==
    ASSUME SentInv, Grows, Publishes
    PROVE  /\ SentInv' /\ Len(sent) <= Len(sent')
           /\ \A n \in 1..Len(sent) : sent'[n] = sent[n]
           /\ \A n \in (Len(sent) + 1)..Len(sent') : sent'[n] > Len(log)
<1>0. Len(log) \in Nat /\ Len(log') \in Nat /\ Len(sent) \in Nat
    BY DEF SentInv, Grows
<1>1. /\ sent' \in Seq(Nat) /\ Len(sent) <= Len(sent') /\ Len(sent') \in Nat
      /\ \A n \in 1..Len(sent) : sent'[n] = sent[n]
    BY DEF Publishes
<1>2. \A n \in (Len(sent) + 1)..Len(sent') :
          sent'[n] > Len(log) /\ sent'[n] \in 1..Len(log') /\ log'[sent'[n]].key \in Key
    BY <1>0, <1>1 DEF Publishes, Fresh
<1>3. \A n \in 1..Len(sent) :
          sent'[n] \in 1..Len(log) /\ sent'[n] \in 1..Len(log') /\ log'[sent'[n]].key \in Key
  <2> SUFFICES ASSUME NEW n \in 1..Len(sent)
               PROVE  /\ sent'[n] \in 1..Len(log) /\ sent'[n] \in 1..Len(log')
                      /\ log'[sent'[n]].key \in Key
    OBVIOUS
  <2>1. sent'[n] = sent[n] /\ sent[n] \in 1..Len(log) /\ log[sent[n]].key \in Key
    BY <1>1 DEF SentInv
  <2>2. Len(log) <= Len(log') /\ Len(log') \in Nat /\ log'[sent[n]] = log[sent[n]]
    BY <2>1 DEF Grows
  <2> QED
    BY <1>0, <2>1, <2>2
<1>4. \A n \in 1..Len(sent') : sent'[n] \in 1..Len(log') /\ log'[sent'[n]].key \in Key
    BY <1>0, <1>1, <1>2, <1>3
<1>5. ASSUME NEW m \in 1..Len(sent'), NEW n \in 1..Len(sent'), m < n
      PROVE  sent'[m] <= sent'[n]
  <2>1. CASE n <= Len(sent)
    <3>1. m \in 1..Len(sent) /\ n \in 1..Len(sent)
      BY <1>0, <1>1, <1>5, <2>1
    <3>2. sent[m] <= sent[n]
      BY <1>5, <3>1 DEF SentInv
    <3> QED
      BY <1>1, <3>1, <3>2
  <2>2. CASE m <= Len(sent) /\ n > Len(sent)
    <3>1. m \in 1..Len(sent) /\ n \in (Len(sent) + 1)..Len(sent')
      BY <1>0, <1>1, <2>2
    <3>2. sent'[m] \in 1..Len(log) /\ sent'[n] > Len(log) /\ sent'[n] \in 1..Len(log')
      BY <1>2, <1>3, <3>1
    <3> QED
      BY <1>0, <3>2
  <2>3. CASE m > Len(sent) /\ n > Len(sent)
    <3>1. m \in (Len(sent) + 1)..Len(sent') /\ n \in (Len(sent) + 1)..Len(sent')
      BY <1>0, <1>1, <2>3
    <3> QED
      BY <1>5, <3>1 DEF Publishes
  <2> QED
    BY <1>0, <1>1, <1>5, <2>1, <2>2, <2>3
<1> QED
    BY <1>1, <1>2, <1>4, <1>5 DEF SentInv, Grows

(* A write, with its audit entry and its event.                               *)
LEMMA WriterKeeps ==
    ASSUME IInv, Writer
    PROVE  IInv'
<1>0. Len(log) \in Nat /\ Len(sent) \in Nat
    BY DEF IInv, SentInv
<1>1. Grows /\ Recorded /\ Publishes
    BY WriterStep DEF IInv, SentInv, Writer
<1>2. /\ SentInv' /\ Len(sent) <= Len(sent')
      /\ \A n \in 1..Len(sent) : sent'[n] = sent[n]
      /\ \A n \in (Len(sent) + 1)..Len(sent') : sent'[n] > Len(log)
    BY <1>1, WriterSent DEF IInv
<1>3. Len(log') \in Nat /\ Len(sent') \in Nat
    BY <1>2 DEF SentInv
<1>4. WatchInv'
  <2>1. watch' = watch
    BY DEF Writer, subVars
  <2>2. ASSUME NEW m \in 1..Len(watch.got), NEW n \in (watch.pos + 1)..Len(sent')
        PROVE  watch.got[m] <= sent'[n]
    <3>0. watch.pos \in Nat /\ watch.pos <= Len(sent) /\ Len(watch.got) \in Nat
      BY DEF IInv, WatchInv, Delivered
    <3>1. CASE n <= Len(sent)
      <4>1. n \in (watch.pos + 1)..Len(sent) /\ n \in 1..Len(sent)
        BY <1>0, <1>3, <2>2, <3>0, <3>1
      <4> QED
        BY <1>2, <4>1 DEF IInv, WatchInv, Delivered
    <3>2. CASE n > Len(sent)
      <4>1. watch.got[m] <= Len(log) /\ watch.got[m] \in Nat
        BY DEF IInv, WatchInv, Delivered
      <4>2. n \in (Len(sent) + 1)..Len(sent') /\ n \in 1..Len(sent')
        BY <1>0, <1>3, <2>2, <3>0, <3>2
      <4>3. sent'[n] > Len(log) /\ sent'[n] \in Nat
        BY <1>2, <4>2 DEF SentInv
      <4> QED
        BY <1>0, <4>1, <4>3
    <3> QED
      BY <1>0, <1>3, <2>2, <3>0, <3>1, <3>2
  <2>3. \A m \in 1..Len(watch.got) : watch.got[m] <= Len(log')
    BY <1>0, <1>1, <1>3 DEF IInv, WatchInv, Delivered, Grows
  <2> QED
    BY <1>0, <1>2, <1>3, <2>1, <2>2, <2>3 DEF IInv, WatchInv, Delivered
<1>5. LiveInv'
  <2>0. live' = live
    BY DEF Writer, subVars
  <2>1. /\ live.start \in Nat /\ live.pos \in Nat /\ live.at \in Nat
        /\ live.pos <= Len(sent) /\ live.at <= Len(log)
    BY DEF IInv, LiveInv, Shows
  <2>2. ASSUME live.on = "yes", live.pos = Len(sent'), NEW n \in (live.start + 1)..Len(sent')
        PROVE  sent'[n] <= live.at
    <3>1. Len(sent') = Len(sent) /\ n \in 1..Len(sent) /\ n \in (live.start + 1)..Len(sent)
      BY <1>0, <1>2, <1>3, <2>1, <2>2
    <3> QED
      BY <1>2, <2>2, <3>1 DEF IInv, LiveInv, Shows
  <2>3. ASSUME live.on # "no", \A id \in (live.at + 1)..Len(log') : ~ChangesRows(id)'
        PROVE  live.shown = rows'
    <3>1. \A id \in (live.at + 1)..Len(log) : id \in 1..Len(log) /\ id \in (live.at + 1)..Len(log')
      BY <1>0, <1>1, <1>3, <2>1 DEF Grows
    <3>2. \A id \in (live.at + 1)..Len(log) : ~ChangesRows(id)
      BY <1>1, <2>3, <3>1 DEF Grows, ChangesRows
    <3>3. \A id \in (Len(log) + 1)..Len(log') : id \in (live.at + 1)..Len(log')
      BY <1>0, <1>3, <2>1
    <3>4. rows' = rows
      BY <1>1, <2>3, <3>3 DEF Recorded, ChangesRows
    <3> QED
      BY <2>3, <3>2, <3>4 DEF IInv, LiveInv, Shows
  <2>4. live.pos <= Len(sent') /\ live.at <= Len(log')
    BY <1>0, <1>1, <1>2, <1>3, <2>1 DEF Grows
  <2> QED
    BY <2>0, <2>2, <2>3, <2>4 DEF IInv, LiveInv, Shows
<1>6. CaptureInv'
  <2>0. cursor' = cursor /\ page' = page /\ topic' = topic
    BY DEF Writer, captureVars
  <2>1. \A id \in 1..Len(log) : Covered(id) => Covered(id)'
    BY Zenon, <1>1, <2>0 DEF Covered, from_audit_entry, Grows
  <2>2. cursor \in Nat /\ cursor <= Len(log) /\ page.next \in Nat /\ page.next <= Len(log)
    BY DEF IInv, CaptureInv
  <2>3. \A id \in 1..cursor : Covered(id)'
    <3>1. \A id \in 1..cursor : id \in 1..Len(log)
      BY <1>0, <2>2
    <3> QED
      BY <2>1, <3>1 DEF IInv, CaptureInv
  <2>4. ASSUME page.busy, NEW id \in 1..Len(log'), id \notin page.todo,
               id <= page.next \/ \E j \in page.todo : id <= j
        PROVE  Covered(id)'
    <3>1. id \in 1..Len(log)
      BY <1>0, <1>3, <2>2, <2>4 DEF IInv, CaptureInv
    <3> QED
      BY <2>1, <2>4, <3>1 DEF IInv, CaptureInv
  <2>5. cursor <= Len(log') /\ page.next <= Len(log') /\ page.todo \subseteq 1..Len(log')
    BY <1>0, <1>1, <1>3, <2>2 DEF IInv, CaptureInv, Grows
  <2> QED
    BY <2>0, <2>3, <2>4, <2>5 DEF IInv, CaptureInv
<1> QED
    BY <1>2, <1>4, <1>5, <1>6 DEF IInv

(* A receiver that takes an event, or is told that it lags, moves on.        *)
LEMMA NextPosMoves ==
    ASSUME sent \in Seq(Nat), NEW pos \in Nat, pos < Len(sent)
    PROVE  /\ NextPos(pos) \in Nat /\ pos < NextPos(pos) /\ NextPos(pos) <= Len(sent)
           /\ Lagged(pos) => NextPos(pos) < Len(sent)
           /\ ~Lagged(pos) => NextPos(pos) = pos + 1
<1>1. Len(sent) \in Nat /\ Capacity \in Nat /\ Capacity > 0
    BY CapacityIsPositive
<1> QED
    BY <1>1 DEF NextPos, Lagged, Oldest

(* What a poll delivers comes after what was delivered, also after a lag.     *)
LEMMA PollKeepsOrder ==
    ASSUME SentInv, NEW pos \in Nat, NEW got \in Seq(Nat), Delivered(got, pos), pos < Len(sent)
    PROVE  IF Lagged(pos) THEN Delivered(got, NextPos(pos))
           ELSE sent[pos + 1] \in Nat /\ Delivered(Append(got, sent[pos + 1]), NextPos(pos))
<1> DEFINE new == NextPos(pos)
<1>0. sent \in Seq(Nat) /\ Len(sent) \in Nat /\ Len(log) \in Nat /\ Len(got) \in Nat
    BY DEF SentInv
<1>1. /\ new \in Nat /\ pos < new /\ new <= Len(sent)
      /\ ~Lagged(pos) => new = pos + 1
    BY <1>0, NextPosMoves
<1> HIDE DEF new
<1>2. \A n \in (new + 1)..Len(sent) : n \in (pos + 1)..Len(sent) /\ n \in 1..Len(sent)
    BY <1>0, <1>1
<1>3. CASE Lagged(pos)
  <2>1. Delivered(got, new)
    BY <1>1, <1>2 DEF Delivered
  <2> QED
    BY <1>3, <2>1 DEF new
<1>4. CASE ~Lagged(pos)
  <2> DEFINE x == sent[pos + 1]
             all == Append(got, x)
  <2>1. pos + 1 \in 1..Len(sent) /\ pos + 1 \in (pos + 1)..Len(sent)
    BY <1>0
  <2>2. x \in Nat /\ x <= Len(log) /\ \A m \in 1..Len(got) : got[m] <= x
    BY <1>0, <2>1 DEF SentInv, Delivered
  <2>3. \A n \in (new + 1)..Len(sent) : x <= sent[n]
    <3>1. \A n \in (new + 1)..Len(sent) : n \in 1..Len(sent) /\ pos + 1 < n
      BY <1>0, <1>1, <1>4
    <3> QED
      BY <2>1, <3>1 DEF SentInv
  <2> HIDE DEF x
  <2>4. /\ Len(all) = Len(got) + 1 /\ all[Len(got) + 1] = x
        /\ \A m \in 1..Len(got) : all[m] = got[m]
    BY <2>2, Appending
  <2> HIDE DEF all
  <2>5. \A m \in 1..Len(all) : m \in 1..Len(got) \/ m = Len(got) + 1
    <3>1. \A k \in Nat : \A m \in 1..(k + 1) : m \in 1..k \/ m = k + 1
      OBVIOUS
    <3>2. Len(got) \in Nat /\ Len(all) = Len(got) + 1
      BY <1>0, <2>4
    <3> QED
      BY Zenon, <3>1, <3>2
  <2>6. \A m \in 1..Len(all) : all[m] <= Len(log)
    BY Zenon, <2>2, <2>4, <2>5 DEF Delivered
  <2>7. ASSUME NEW m \in 1..Len(all), NEW n \in 1..Len(all), m < n
        PROVE  all[m] <= all[n]
    <3>1. m \in 1..Len(got)
      BY <1>0, <2>4, <2>7
    <3>2. CASE n \in 1..Len(got)
      BY <2>4, <2>7, <3>1, <3>2 DEF Delivered
    <3>3. CASE n = Len(got) + 1
      BY <2>2, <2>4, <3>1, <3>3
    <3> QED
      BY <2>5, <3>2, <3>3
  <2>8. \A m \in 1..Len(all), n \in (new + 1)..Len(sent) : all[m] <= sent[n]
    BY <1>2, <2>3, <2>4, <2>5 DEF Delivered
  <2>9. Delivered(all, new)
    BY <1>1, <2>6, <2>7, <2>8 DEF Delivered
  <2> QED
    BY <1>4, <2>2, <2>9 DEF new, all, x
<1> QED
    BY <1>3, <1>4

(* The steps of a change stream.                                              *)
LEMMA WatcherKeeps ==
    ASSUME IInv, Watcher
    PROVE  IInv'
<1>0. /\ UNCHANGED <<rows, log, sent, cursor, page, topic>>
      /\ Len(log) \in Nat /\ Len(sent) \in Nat
    BY DEF IInv, SentInv, Watcher, feedVars, captureVars
<1>1. SentInv' /\ CaptureInv'
    BY Zenon, <1>0 DEF IInv, SentInv, CaptureInv, Covered, from_audit_entry
<1>2. ASSUME live' = live PROVE LiveInv'
    BY <1>0, <1>2 DEF IInv, LiveInv, Shows, ChangesRows
<1>3. ASSUME watch' \in [on : {"no", "yes"}, pos : Nat, got : Seq(Nat)],
             Delivered(watch'.got, watch'.pos)
      PROVE  WatchInv'
    BY Zenon, <1>0, <1>3 DEF WatchInv, Delivered
<1>4. watch \in [on : {"no", "yes"}, pos : Nat, got : Seq(Nat)] /\ Delivered(watch.got, watch.pos)
    BY DEF IInv, WatchInv
<1>5. CASE subscribe_changes
  <2>1. /\ watch' \in [on : {"no", "yes"}, pos : Nat, got : Seq(Nat)]
        /\ watch'.pos = Len(sent) /\ watch'.got = watch.got
    BY Zenon, <1>0, <1>4, <1>5 DEF subscribe_changes
  <2>2. Delivered(watch.got, Len(sent))
    BY <1>0, <1>4 DEF Delivered
  <2> QED
    BY <1>1, <1>2, <1>3, <1>5, <2>1, <2>2 DEF IInv, subscribe_changes
<1>6. CASE PollChanges
  <2> DEFINE x == sent[watch.pos + 1]
  <2>1. /\ watch.pos \in Nat /\ watch.got \in Seq(Nat) /\ watch.pos < Len(sent)
        /\ NextPos(watch.pos) \in Nat
    BY <1>4, <1>6, NextPosMoves DEF PollChanges, IInv, SentInv
  <2>2. IF Lagged(watch.pos) THEN Delivered(watch.got, NextPos(watch.pos))
        ELSE x \in Nat /\ Delivered(Append(watch.got, x), NextPos(watch.pos))
    BY <1>4, <2>1, PollKeepsOrder DEF IInv
  <2>3. watch' = [watch EXCEPT !.pos = NextPos(watch.pos),
                               !.got = IF Lagged(watch.pos) THEN watch.got
                                                            ELSE Append(watch.got, x)]
    BY <1>6 DEF PollChanges
  <2> HIDE DEF x
  <2>4. ASSUME Lagged(watch.pos) PROVE WatchInv'
    <3>1. /\ watch' \in [on : {"no", "yes"}, pos : Nat, got : Seq(Nat)]
          /\ watch'.pos = NextPos(watch.pos) /\ watch'.got = watch.got
      BY Zenon, <1>4, <2>1, <2>3, <2>4
    <3> QED
      BY <1>3, <2>2, <2>4, <3>1
  <2>5. ASSUME ~Lagged(watch.pos) PROVE WatchInv'
    <3>1. Append(watch.got, x) \in Seq(Nat)
      BY <2>1, <2>2, <2>5, Appending
    <3>2. /\ watch' \in [on : {"no", "yes"}, pos : Nat, got : Seq(Nat)]
          /\ watch'.pos = NextPos(watch.pos) /\ watch'.got = Append(watch.got, x)
      BY Zenon, <1>4, <2>1, <2>3, <2>5, <3>1
    <3> QED
      BY <1>3, <2>2, <2>5, <3>2
  <2> QED
    BY <1>1, <1>2, <1>6, <2>4, <2>5 DEF IInv, PollChanges
<1>7. CASE Unsubscribe
  <2>1. WatchInv'
    BY <1>0, <1>7 DEF WatchInv, Delivered, Unsubscribe, NoWatch
  <2>2. LiveInv'
    BY <1>0, <1>7 DEF LiveInv, Shows, Unsubscribe, NoQuery
  <2> QED
    BY <1>1, <2>1, <2>2 DEF IInv
<1> QED
    BY <1>5, <1>6, <1>7 DEF Watcher

----------------------------------------------------------------------------
(* The steps of a live query.                                                 *)
LEMMA ViewerKeeps ==
    ASSUME IInv, Viewer
    PROVE  IInv'
<1>0. /\ UNCHANGED <<rows, log, sent, cursor, page, topic>>
      /\ Len(log) \in Nat /\ Len(sent) \in Nat
    BY DEF IInv, SentInv, Viewer, feedVars, captureVars
<1>1. SentInv' /\ CaptureInv'
    BY Zenon, <1>0 DEF IInv, SentInv, CaptureInv, Covered, from_audit_entry
<1>2. watch' = watch => WatchInv'
    BY Zenon, <1>0 DEF IInv, WatchInv, Delivered
<1>3. ASSUME NEW on, NEW start, NEW pos, NEW shown, NEW at, Shows(on, start, pos, shown, at),
             live' = [on |-> on, start |-> start, pos |-> pos, shown |-> shown, at |-> at]
      PROVE  LiveInv'
  <2>1. /\ live'.on = on /\ live'.start = start /\ live'.pos = pos
        /\ live'.shown = shown /\ live'.at = at
    BY <1>3
  <2>2. live' = [on |-> live'.on, start |-> live'.start, pos |-> live'.pos,
                 shown |-> live'.shown, at |-> live'.at]
    BY <1>3, <2>1
  <2>3. Shows(live'.on, live'.start, live'.pos, live'.shown, live'.at)
    BY <1>3, <2>1
  <2> QED
    BY <1>0, <2>2, <2>3 DEF LiveInv, Shows, ChangesRows
<1>4. /\ live = [on |-> live.on, start |-> live.start, pos |-> live.pos,
                 shown |-> live.shown, at |-> live.at]
      /\ Shows(live.on, live.start, live.pos, live.shown, live.at)
    BY DEF IInv, LiveInv, Shows
<1>5. CASE EvaluateFirst
  <2>1. live' = [on |-> "evaluated", start |-> live.start, pos |-> live.pos,
                 shown |-> rows, at |-> Len(log)]
    BY Zenon, <1>4, <1>5 DEF EvaluateFirst
  <2>2. Shows("evaluated", live.start, live.pos, rows, Len(log))
    BY <1>0, <1>4 DEF Shows
  <2>3. LiveInv'
    BY <1>3, <2>1, <2>2
  <2> QED
    BY <1>1, <1>2, <1>5, <2>3 DEF IInv, EvaluateFirst
<1>6. CASE OpenReceiver
  <2>1. live' = [on |-> "yes", start |-> Len(sent), pos |-> Len(sent),
                 shown |-> live.shown, at |-> live.at]
    BY Zenon, <1>4, <1>6 DEF OpenReceiver
  <2>2. Shows("yes", Len(sent), Len(sent), live.shown, live.at)
    BY <1>0, <1>4, <1>6 DEF Shows, OpenReceiver
  <2>3. LiveInv'
    BY <1>3, <2>1, <2>2
  <2> QED
    BY <1>1, <1>2, <1>6, <2>3 DEF IInv, OpenReceiver
<1>7. CASE PollLive
  <2> DEFINE new == NextPos(live.pos)
             on == IF Lagged(live.pos) THEN "yes" ELSE "woken"
  <2>1. /\ live.on = "yes" /\ live.pos \in Nat /\ live.pos < Len(sent)
        /\ live.pos + 1 \in 1..Len(sent)
    BY <1>0, <1>4, <1>7 DEF PollLive, Shows
  <2>2. named_query_event_is_relevant(sent[live.pos + 1])
    BY <2>1 DEF IInv, SentInv, named_query_event_is_relevant
  <2>3. live' = [on |-> on, start |-> live.start, pos |-> new,
                 shown |-> live.shown, at |-> live.at]
    BY Zenon, <1>4, <1>7, <2>2 DEF PollLive
  <2>4. new \in Nat /\ new <= Len(sent) /\ (Lagged(live.pos) => new < Len(sent))
    BY <2>1, NextPosMoves DEF IInv, SentInv
  <2>5. on \in {"yes", "woken"} /\ (on = "yes" => Lagged(live.pos))
    OBVIOUS
  <2> HIDE DEF on, new
  <2>6. Shows(on, live.start, new, live.shown, live.at)
    BY <1>0, <1>4, <2>1, <2>4, <2>5 DEF Shows
  <2>7. LiveInv'
    BY <1>3, <2>3, <2>6
  <2> QED
    BY <1>1, <1>2, <1>7, <2>7 DEF IInv, PollLive
<1>8. CASE Reevaluate
  <2>1. live' = [on |-> "yes", start |-> live.start, pos |-> live.pos,
                 shown |-> rows, at |-> Len(log)]
    BY Zenon, <1>4, <1>8 DEF Reevaluate
  <2>2. \A n \in (live.start + 1)..Len(sent) : sent[n] <= Len(log)
    <3>1. \A n \in (live.start + 1)..Len(sent) : n \in 1..Len(sent)
      BY <1>0, <1>4 DEF Shows
    <3> QED
      BY <1>0, <3>1 DEF IInv, SentInv
  <2>3. Shows("yes", live.start, live.pos, rows, Len(log))
    BY <1>0, <1>4, <2>2 DEF Shows
  <2>4. LiveInv'
    BY <1>3, <2>1, <2>3
  <2> QED
    BY <1>1, <1>2, <1>8, <2>4 DEF IInv, Reevaluate
<1>9. CASE Unsubscribe
  <2>1. WatchInv'
    BY <1>0, <1>9 DEF WatchInv, Delivered, Unsubscribe, NoWatch
  <2>2. LiveInv'
    BY <1>0, <1>9 DEF LiveInv, Shows, Unsubscribe, NoQuery
  <2> QED
    BY <1>1, <2>1, <2>2 DEF IInv
<1> QED
    BY <1>5, <1>6, <1>7, <1>8, <1>9 DEF Viewer

----------------------------------------------------------------------------
(* A send leaves its envelope in the topic, after what was there.            *)
LEMMA SendCovers ==
    ASSUME CaptureInv, NEW id \in 1..Len(log), NEW more \in Seq([id : Nat, tomb : BOOLEAN]),
           topic' = topic \o more, log' = log
    PROVE  /\ topic' \in Seq([id : Nat, tomb : BOOLEAN])
           /\ \A k \in 1..Len(log) : Covered(k) => Covered(k)'
           /\ (more # <<>> /\ more[1] = Message(id, FALSE)) => Covered(id)'
<1>0. topic \in Seq([id : Nat, tomb : BOOLEAN]) /\ Len(topic) \in Nat /\ Len(more) \in Nat
    BY DEF CaptureInv
<1>1. /\ topic' \in Seq([id : Nat, tomb : BOOLEAN]) /\ Len(topic') = Len(topic) + Len(more)
      /\ \A n \in 1..(Len(topic) + Len(more)) :
             topic'[n] = IF n <= Len(topic) THEN topic[n] ELSE more[n - Len(topic)]
    BY <1>0, Concatenation
<1>2. \A n \in 1..Len(topic) : n \in 1..Len(topic') /\ topic'[n] = topic[n]
    BY <1>0, <1>1
<1>3. \A k \in 1..Len(log) : Covered(k) => Covered(k)'
    BY Zenon, <1>2 DEF Covered, from_audit_entry
<1>4. ASSUME more # <<>>, more[1] = Message(id, FALSE)
      PROVE  Covered(id)'
  <2>1. Len(more) > 0
    BY <1>0, <1>4
  <2>2. Len(topic) + 1 \in 1..Len(topic') /\ topic'[Len(topic) + 1] = more[1]
    <3>1. /\ Len(topic) + 1 \in 1..(Len(topic) + Len(more))
          /\ ~(Len(topic) + 1 <= Len(topic)) /\ (Len(topic) + 1) - Len(topic) = 1
      BY <1>0, <2>1
    <3> QED
      BY <1>1, <3>1
  <2> QED
    BY Zenon, <1>4, <2>2 DEF Covered
<1> QED
    BY Zenon, <1>1, <1>3, <1>4

(* The messages of an entry begin with its envelope.                          *)
LEMMA MessagesTyped ==
    ASSUME NEW id \in Nat
    PROVE  /\ Messages(id) \in Seq([id : Nat, tomb : BOOLEAN])
           /\ Messages(id) # <<>> /\ Messages(id)[1] = Message(id, FALSE)
<1>1. \A tomb \in BOOLEAN : Message(id, tomb) \in [id : Nat, tomb : BOOLEAN]
    BY DEF Message
<1>2. \A S : \A a, b \in S : /\ <<a>> \in Seq(S) /\ <<a>> # <<>> /\ <<a>>[1] = a
                            /\ <<a, b>> \in Seq(S) /\ <<a, b>> # <<>> /\ <<a, b>>[1] = a
    OBVIOUS
<1> QED
    BY Zenon, <1>1, <1>2 DEF Messages

(* An envelope in its turn is sent: what was covered stays covered, and      *)
(* everything up to it is.                                                   *)
LEMMA EmittedCovers ==
    ASSUME CaptureInv, log \in Seq(Entry), NEW id \in page.todo, Emitted(id), log' = log
    PROVE  /\ topic' \in Seq([id : Nat, tomb : BOOLEAN])
           /\ id \in 1..Len(log)
           /\ \A k \in 1..Len(log) : Covered(k) => Covered(k)'
           /\ \A k \in 1..id : Covered(k)'
           /\ page' \in [busy : BOOLEAN, todo : SUBSET Nat, next : Nat]
           /\ page'.todo = page.todo \ {id} /\ page'.next = page.next
           /\ \A k \in 1..Len(log) :
                  /\ k <= page'.next \/ \E j \in page'.todo : k <= j
               /\ k \notin page'.todo
               => Covered(k)'
<1>0. id \in 1..Len(log) /\ id \in Nat /\ Len(log) \in Nat
    BY DEF CaptureInv
<1>1. /\ Messages(id) \in Seq([id : Nat, tomb : BOOLEAN])
      /\ Messages(id) # <<>> /\ Messages(id)[1] = Message(id, FALSE)
    BY Zenon, <1>0, MessagesTyped
<1>2. topic' = topic \o Messages(id)
    BY DEF Emitted
<1>3. /\ topic' \in Seq([id : Nat, tomb : BOOLEAN])
      /\ \A k \in 1..Len(log) : Covered(k) => Covered(k)'
      /\ Covered(id)'
    BY Zenon, <1>0, <1>1, <1>2, SendCovers
<1>4. page.busy /\ \A j \in page.todo : id <= j
    BY DEF Emitted, IsNext
<1>5. /\ page' \in [busy : BOOLEAN, todo : SUBSET Nat, next : Nat]
      /\ page'.todo = page.todo \ {id} /\ page'.next = page.next
  <2>1. /\ page \in [busy : BOOLEAN, todo : SUBSET Nat, next : Nat]
        /\ page' = [page EXCEPT !.todo = @ \ {id}]
    BY Zenon DEF CaptureInv, Emitted
  <2> QED
    BY <2>1
<1>6. ASSUME NEW k \in 1..id
      PROVE  Covered(k)'
  <2>1. k \in 1..Len(log) /\ k <= id
    BY <1>0
  <2>2. CASE k = id
    BY <1>3, <2>2
  <2>3. CASE k # id
    <3>1. k \notin page.todo
      BY <1>0, <1>4, <2>1, <2>3
    <3>2. Covered(k)
      BY <1>4, <2>1, <3>1 DEF CaptureInv
    <3> QED
      BY <1>3, <2>1, <3>2
  <2> QED
    BY <2>2, <2>3
<1>7. ASSUME NEW k \in 1..Len(log), k \notin page'.todo,
             k <= page'.next \/ \E j \in page'.todo : k <= j
      PROVE  Covered(k)'
  <2>1. CASE k = id
    BY <1>3, <2>1
  <2>2. CASE k # id
    <3>1. k \notin page.todo /\ (k <= page.next \/ \E j \in page.todo : k <= j)
      BY <1>5, <1>7, <2>2
    <3>2. Covered(k)
      BY <1>4, <3>1 DEF CaptureInv
    <3> QED
      BY <1>3, <3>2
  <2> QED
    BY <2>1, <2>2
<1> QED
    BY <1>0, <1>3, <1>5, <1>6, <1>7

(* The producer's steps, failed sends and restarts.                           *)
LEMMA ProducerKeeps ==
    ASSUME CaptureInv, log \in Seq(Entry), ProducerStep \/ ProducerFault, log' = log
    PROVE  CaptureInv'
<1>0. /\ Len(log) \in Nat /\ cursor \in Nat /\ cursor <= Len(log)
      /\ page \in [busy : BOOLEAN, todo : SUBSET Nat, next : Nat]
      /\ page.next \in Nat /\ page.next <= Len(log) /\ page.todo \subseteq 1..Len(log)
    BY DEF CaptureInv
<1>1. topic' = topic => \A k : Covered(k)' <=> Covered(k)
    BY DEF Covered, from_audit_entry
<1>2. CASE replay_from_cursor
  <2> DEFINE end == PageEnd(cursor)
             todo == {id \in (cursor + 1)..end : from_audit_entry(id)}
             next == IF end < Len(log) THEN end ELSE 0
  <2>1. end \in Nat /\ end <= Len(log) /\ next \in Nat /\ next <= end /\ next <= Len(log)
    BY <1>0, LimitIsPositive DEF PageEnd
  <2>2. page' = [busy |-> TRUE, todo |-> todo, next |-> next] /\ cursor' = cursor /\ topic' = topic
    BY <1>2 DEF replay_from_cursor
  <2>3. todo \subseteq 1..Len(log) /\ todo \subseteq Nat /\ \A j \in todo : j <= end
    BY <1>0, <2>1
  <2>4. ASSUME NEW k \in 1..Len(log), k <= next \/ \E j \in todo : k <= j, k \notin todo
        PROVE  Covered(k)
    <3>1. k <= end
      BY <1>0, <2>1, <2>3, <2>4
    <3>2. CASE k <= cursor
      BY <1>0, <3>2 DEF CaptureInv
    <3>3. CASE k > cursor
      <4>1. k \in (cursor + 1)..end
        BY <1>0, <2>1, <3>1, <3>3
      <4> QED
        BY <2>4, <4>1 DEF Covered
    <3> QED
      BY <1>0, <3>2, <3>3
  <2> HIDE DEF todo, next, end
  <2>5. /\ page' \in [busy : BOOLEAN, todo : SUBSET Nat, next : Nat]
        /\ page'.todo = todo /\ page'.next = next
    BY <2>1, <2>2, <2>3
  <2> QED
    BY <1>1, <2>1, <2>2, <2>3, <2>4, <2>5 DEF CaptureInv
<1>3. ASSUME NEW id \in page.todo, Emitted(id), cursor' \in {id, cursor}
      PROVE  CaptureInv'
  <2>1. /\ topic' \in Seq([id : Nat, tomb : BOOLEAN])
        /\ id \in 1..Len(log)
        /\ \A k \in 1..Len(log) : Covered(k) => Covered(k)'
        /\ \A k \in 1..id : Covered(k)'
        /\ page' \in [busy : BOOLEAN, todo : SUBSET Nat, next : Nat]
        /\ page'.todo = page.todo \ {id} /\ page'.next = page.next
        /\ \A k \in 1..Len(log) :
               /\ k <= page'.next \/ \E j \in page'.todo : k <= j
               /\ k \notin page'.todo
               => Covered(k)'
    BY Zenon, <1>3, EmittedCovers
  <2>2. cursor' \in Nat /\ cursor' <= Len(log)
    BY <1>0, <1>3, <2>1
  <2>3. \A k \in 1..cursor' : Covered(k)'
    <3>1. \A k \in 1..cursor : k \in 1..Len(log)
      BY <1>0
    <3>2. \A k \in 1..cursor : Covered(k)'
      BY <2>1, <3>1 DEF CaptureInv
    <3> QED
      BY <1>3, <2>1, <3>2
  <2> QED
    BY <1>0, <2>1, <2>2, <2>3 DEF CaptureInv
<1>4. CASE PageDone
  <2>1. page.busy /\ page.todo = {} /\ page' = Idle /\ topic' = topic
        /\ cursor' = IF page.next > cursor THEN page.next ELSE cursor
    BY <1>4 DEF PageDone
  <2>2. cursor' \in Nat /\ cursor' <= Len(log)
    BY <1>0, <2>1
  <2>3. \A k \in 1..page.next : Covered(k)
    <3>1. \A k \in 1..page.next : k \in 1..Len(log) /\ k <= page.next
      BY <1>0
    <3> QED
      BY <2>1, <3>1 DEF CaptureInv
  <2>4. \A k \in 1..cursor' : Covered(k)
    BY <2>1, <2>3 DEF CaptureInv
  <2> QED
    BY <1>0, <1>1, <2>1, <2>2, <2>4 DEF CaptureInv, Idle
<1>5. ASSUME page' = Idle, cursor' = cursor, topic' \in Seq([id : Nat, tomb : BOOLEAN]),
             \A k \in 1..Len(log) : Covered(k) => Covered(k)'
      PROVE  CaptureInv'
  <2>1. \A k \in 1..cursor : k \in 1..Len(log)
    BY <1>0
  <2> QED
    BY <1>0, <1>5, <2>1 DEF CaptureInv, Idle
<1>6. ASSUME NEW id \in page.todo, EmitFails(id)
      PROVE  CaptureInv'
  <2>1. page' = Idle /\ cursor' = cursor
    BY <1>6 DEF EmitFails
  <2>2. CASE topic' = topic
    BY <1>1, <1>5, <2>1, <2>2 DEF CaptureInv
  <2>3. CASE topic' = Append(topic, Message(id, FALSE))
    <3> DEFINE more == <<Message(id, FALSE)>>
    <3>1. id \in 1..Len(log) /\ Message(id, FALSE) \in [id : Nat, tomb : BOOLEAN]
      BY <1>0 DEF Message
    <3>2. more \in Seq([id : Nat, tomb : BOOLEAN]) /\ topic' = topic \o more
      <4>1. \A S : \A a \in S : <<a>> \in Seq(S)
        OBVIOUS
      <4>2. topic \in Seq([id : Nat, tomb : BOOLEAN])
        BY DEF CaptureInv
      <4>3. Append(topic, Message(id, FALSE)) = topic \o <<Message(id, FALSE)>>
        BY ZenonT(60), <3>1, <4>2, OneMore
      <4> QED
        BY Zenon, <2>3, <3>1, <4>1, <4>3
    <3> HIDE DEF more
    <3>3. /\ topic' \in Seq([id : Nat, tomb : BOOLEAN])
          /\ \A k \in 1..Len(log) : Covered(k) => Covered(k)'
      BY Zenon, <3>1, <3>2, SendCovers
    <3> QED
      BY <1>5, <2>1, <3>3
  <2> QED
    BY Zenon, <1>6, <2>2, <2>3 DEF EmitFails
<1>7. CASE ProducerRestarts
    BY <1>1, <1>5, <1>7 DEF ProducerRestarts, CaptureInv
<1> QED
    BY <1>2, <1>3, <1>4, <1>6, <1>7 DEF ProducerStep, ProducerFault, emit, CursorNotStored

(* The steps of the producer and of the replica.                              *)
LEMMA CaptureKeeps ==
    ASSUME IInv, Capture(CaptureNext)
    PROVE  IInv'
<1>1. UNCHANGED <<rows, log, sent, watch, live>>
    BY DEF Capture, feedVars, subVars
<1>2. SentInv' /\ WatchInv' /\ LiveInv'
    BY <1>1 DEF IInv, SentInv, WatchInv, Delivered, LiveInv, Shows, ChangesRows
<1>3. CaptureInv'
  <2>1. CASE ProducerStep \/ ProducerFault
    BY <1>1, <2>1, ProducerKeeps DEF IInv, SentInv
  <2>2. CASE ReplicaStep \/ Reconnect
    <3>1. UNCHANGED <<cursor, page, topic>>
      BY <2>2 DEF ReplicaStep, snapshot_entities, SnapshotRefused, apply, Reconnect
    <3> QED
      BY Zenon, <1>1, <3>1 DEF IInv, CaptureInv, Covered, from_audit_entry
  <2> QED
    BY <2>1, <2>2 DEF Capture, CaptureNext
<1> QED
    BY <1>2, <1>3 DEF IInv

(* The invariant is inductive.                                               *)
THEOREM Invariant == Spec => []IInv
<1>1. IInv /\ [Next]_vars => IInv'
  <2> SUFFICES ASSUME IInv, [Next]_vars PROVE IInv'
    OBVIOUS
  <2>1. CASE UNCHANGED vars
    BY Zenon, <2>1 DEF vars, feedVars, subVars, captureVars, IInv, SentInv, WatchInv, Delivered,
                LiveInv, Shows, ChangesRows, CaptureInv, Covered, from_audit_entry
  <2> QED
    BY <2>1, WriterKeeps, WatcherKeeps, ViewerKeeps, CaptureKeeps DEF Next
<1> QED
    BY <1>1, InvInit, PTL DEF Spec

(* The audit ids a change stream delivers never go back, for any channel     *)
(* capacity and any number of entities: the stream's last id is a cursor.    *)
THEOREM StreamInOrder == Spec => []WatchInOrder
<1>1. IInv => WatchInOrder
  <2> SUFFICES ASSUME IInv PROVE WatchInOrder
    OBVIOUS
  <2>1. watch.got \in Seq(Nat) /\ DOMAIN watch.got = 1..Len(watch.got)
    BY DEF IInv, WatchInv
  <2> QED
    BY <2>1 DEF IInv, WatchInv, Delivered, WatchInOrder
<1> QED
    BY <1>1, Invariant, PTL

(* A live query with no event waiting has been evaluated since every change  *)
(* published to it, however small the channel, and shows what is stored      *)
(* unless something changed that was not published to it.                    *)
THEOREM QueryCatchesUp == Spec => []LiveCatchesUp
<1>1. IInv => LiveCatchesUp
    BY DEF IInv, LiveInv, Shows, LiveCatchesUp
<1> QED
    BY <1>1, Invariant, PTL

(* Nothing at or below the stored cursor is missing from the sink, for any   *)
(* page size, any failures and any restarts.                                 *)
THEOREM NothingSkipped == Spec => []CursorCovers
<1>1. IInv => CursorCovers
  <2> SUFFICES ASSUME IInv PROVE CursorCovers
    OBVIOUS
  <2>1. DOMAIN topic = 1..Len(topic)
    BY DEF IInv, CaptureInv
  <2> QED
    BY Zenon, <2>1 DEF IInv, CaptureInv, Covered, CursorCovers
<1> QED
    BY <1>1, Invariant, PTL

HIDE EntitiesAreOrdered

----------------------------------------------------------------------------
(* The rows are what the log tells, apart from what a drop took away.        *)

\* Entry i is the last about k; no entry is about k.
LastOf(k, i) == log[i].key = k /\ \A j \in (i + 1)..Len(log) : log[j].key # k
Unheard(k) == \A i \in 1..Len(log) : log[i].key # k

RowInv ==
    /\ rows \in [Key -> Nat]
    /\ IsFiniteSet({k \in Key : rows[k] # Nil})
    /\ \A i \in 1..Len(log) : from_audit_entry(i) <=> log[i].key \in Key
    /\ \A k \in Key : Unheard(k) => rows[k] = Nil
    /\ \A k \in Key : \A i \in 1..Len(log) : LastOf(k, i) /\ ~Dropped(k) => rows[k] = After(i)

\* Up to message c, entry i was sent, and nothing before it since.
ToldBy(i, c) ==
    \E n \in 1..c : topic[n] = Message(i, FALSE) /\ \A m \in n..c : topic[m].id >= i

\* Entry i was sent to the end, and only later ones since.
Sealed(i) ==
    \E n \in 1..Len(topic) :
        /\ topic[n] = Message(i, log[i].kind = "delete")
        /\ \A m \in (n + 1)..Len(topic) : topic[m].id > i

InTurn(i) == from_audit_entry(i) => ToldBy(i, Len(topic)) /\ Sealed(i)

(* The page in hand is what is left of a range of the log, and what is       *)
(* before the range was sent, in turn.                                       *)
SinkInv ==
    /\ \A n \in 1..Len(topic) : topic[n].id \in 1..Len(log)
    /\ \A c \in 1..Len(topic) : \A i \in 1..topic[c].id : from_audit_entry(i) => ToldBy(i, c)
    /\ \A i \in 1..cursor : InTurn(i)
    /\ page.busy => \E lo, end \in 0..Len(log) :
           /\ cursor <= lo /\ lo <= end /\ page.next <= end
           /\ page.todo = {i \in (lo + 1)..end : from_audit_entry(i)}
           /\ \A i \in 1..lo : InTurn(i)

ReplicaType == [phase : {"new", "paging", "tail"}, token : Nat, first : Nat, last : Nat,
                from : Nat, pos : Nat, store : [Key -> Nat]]

\* Message n was applied to e.
AppliedTo(e, n) ==
    ~topic[n].tomb /\ topic[n].id > replica.from /\ log[topic[n].id].key = e

\* Entry i will reach the replica.
Coming(i) ==
    /\ i > replica.from
    /\ \/ ~ToldBy(i, Len(topic))
       \/ \E n \in (replica.pos + 1)..Len(topic) : topic[n] = Message(i, FALSE)

\* Entities the snapshot has passed.
Scanned(e) == replica.phase = "tail" \/ e <= replica.token

(* What the replica holds of an entity is current, or what will make it so   *)
(* is still to come; and it is what the last message applied to it says.     *)
ReplicaInv ==
    /\ replica \in ReplicaType
    /\ replica.from <= Len(log) /\ replica.pos <= Len(topic)
    /\ replica.phase # "tail" => /\ replica.pos = 0 /\ replica.first = replica.from
                                 /\ \A e \in Entity : ~Scanned(e) => replica.store[e] = Nil
    /\ replica.phase = "new" => replica.token = 0
    /\ \A e \in Entity : Unheard(e) => replica.store[e] = Nil
    /\ \A e \in Entity : \A i \in 1..Len(log) :
           Scanned(e) /\ LastOf(e, i) /\ ~Dropped(e) => replica.store[e] = After(i) \/ Coming(i)
    /\ \A e \in Entity : \A n \in 1..replica.pos :
           /\ AppliedTo(e, n)
           /\ \A m \in n..replica.pos : AppliedTo(e, m) => topic[m].id = topic[n].id
           => replica.store[e] = After(topic[n].id)

FollowInv == RowInv /\ SinkInv /\ ReplicaInv


\* A step of a writer, as one key sees it: nothing, a drop, or its last entry.
Untouched(k) == \A i \in (Len(log) + 1)..Len(log') : log'[i].key # k
Follows(k) ==
    \/ Untouched(k) /\ rows'[k] = rows[k]
    \/ Untouched(k) /\ Dropped(k)' /\ rows'[k] = Nil
    \/ \E i \in (Len(log) + 1)..Len(log') : LastOf(k, i)' /\ rows'[k] = After(i)'

RowsFollow ==
    /\ rows' \in [Key -> Nat]
    /\ IsFiniteSet({k \in Key : rows'[k] # Nil})
    /\ \A i \in (Len(log) + 1)..Len(log') : from_audit_entry(i)' <=> log'[i].key \in Key
    /\ \A k \in Key : Follows(k)

(* An entry that is the last about a key after a step, and is not new, was   *)
(* the last before, and the key is not dropped if it was dropped before.     *)
LEMMA StillLast ==
    ASSUME log \in Seq(Entry), Grows, NEW k, Untouched(k)
    PROVE  /\ Unheard(k)' => Unheard(k)
           /\ \A i \in 1..Len(log) : LastOf(k, i)' => LastOf(k, i)
           /\ Dropped(k) => Dropped(k)'
           /\ \A i \in 1..Len(log) : After(i)' = After(i)
<1>0. /\ Len(log) \in Nat /\ Len(log') \in Nat /\ Len(log) <= Len(log')
      /\ DOMAIN log = 1..Len(log) /\ DOMAIN log' = 1..Len(log')
    BY DEF Grows
<1>1. \A i \in 1..Len(log) : i \in 1..Len(log') /\ log'[i] = log[i]
    BY <1>0 DEF Grows
<1>2. Unheard(k)' => Unheard(k)
    BY Zenon, <1>1 DEF Unheard
<1>3. ASSUME NEW i \in 1..Len(log), LastOf(k, i)' PROVE LastOf(k, i)
  <2>1. \A j \in (i + 1)..Len(log) : j \in 1..Len(log) /\ j \in (i + 1)..Len(log')
    BY <1>0
  <2> QED
    BY Zenon, <1>1, <1>3, <2>1 DEF LastOf
<1>4. ASSUME Dropped(k) PROVE Dropped(k)'
  <2>1. PICK d \in 1..Len(log) : log[d].kind = "drop" /\ \A j \in d..Len(log) : log[j].key # k
    BY Zenon, <1>0, <1>4 DEF Dropped
  <2>2. ASSUME NEW j \in d..Len(log') PROVE log'[j].key # k
    <3>1. (j \in 1..Len(log) /\ j \in d..Len(log)) \/ j \in (Len(log) + 1)..Len(log')
      BY <1>0, <2>1
    <3> QED
      BY Zenon, <1>1, <2>1, <3>1 DEF Untouched
  <2>3. d \in DOMAIN log' /\ log'[d].kind = "drop"
    BY Zenon, <1>0, <1>1, <2>1
  <2> QED
    BY Zenon, <2>2, <2>3 DEF Dropped
<1>5. \A i \in 1..Len(log) : After(i)' = After(i)
    BY Zenon, <1>1 DEF After
<1> QED
    BY Zenon, <1>2, <1>3, <1>4, <1>5

(* A key has one last entry.                                                 *)
LEMMA OneLast ==
    ASSUME NEW l \in Seq(Entry), NEW k, NEW i \in 1..Len(l), NEW j \in 1..Len(l),
           l[i].key = k, \A m \in (i + 1)..Len(l) : l[m].key # k,
           l[j].key = k, \A m \in (j + 1)..Len(l) : l[m].key # k
    PROVE  i = j
<1>1. ~(i < j) /\ ~(j < i)
    OBVIOUS
<1> QED
    BY <1>1

(* The rows keep telling what the log does.                                  *)
LEMMA RowStep ==
    ASSUME log \in Seq(Entry), Grows, RowInv, RowsFollow
    PROVE  RowInv'
<1>0. /\ Len(log) \in Nat /\ Len(log') \in Nat /\ Len(log) <= Len(log')
      /\ \A i \in 1..Len(log) : log'[i] = log[i]
      /\ \A i \in 1..Len(log') : i \in 1..Len(log) \/ i \in (Len(log) + 1)..Len(log')
      /\ \A i \in (Len(log) + 1)..Len(log') : i \in 1..Len(log')
    BY DEF Grows
<1>1. \A i \in 1..Len(log') : from_audit_entry(i)' <=> log'[i].key \in Key
  <2>1. \A i \in 1..Len(log) : from_audit_entry(i)' <=> log'[i].key \in Key
    BY Zenon, <1>0 DEF RowInv, from_audit_entry
  <2> QED
    BY Zenon, <1>0, <2>1 DEF RowsFollow
<1>2. ASSUME NEW k \in Key, Unheard(k)' PROVE rows'[k] = Nil
  <2>1. Untouched(k)
    BY Zenon, <1>0, <1>2 DEF Unheard, Untouched
  <2>2. Unheard(k)
    BY Zenon, <1>2, <2>1, StillLast
  <2>3. \A i \in (Len(log) + 1)..Len(log') : ~LastOf(k, i)'
    BY Zenon, <2>1 DEF Untouched, LastOf
  <2> QED
    BY Zenon, <2>2, <2>3 DEF RowsFollow, Follows, RowInv
<1>3. ASSUME NEW k \in Key, NEW i \in 1..Len(log'), LastOf(k, i)', ~Dropped(k)'
      PROVE  rows'[k] = After(i)'
  <2>1. CASE \E j \in (Len(log) + 1)..Len(log') : LastOf(k, j)' /\ rows'[k] = After(j)'
    <3>1. PICK j \in (Len(log) + 1)..Len(log') : LastOf(k, j)' /\ rows'[k] = After(j)'
      BY Zenon, <2>1
    <3>2. log' \in Seq(Entry) /\ j \in 1..Len(log')
      BY Zenon, <1>0 DEF Grows
    <3>3. i = j
      BY Zenon, <1>3, <3>1, <3>2, OneLast DEF LastOf
    <3> QED
      BY Zenon, <3>1, <3>3
  <2>2. CASE Untouched(k) /\ rows'[k] = rows[k]
    <3>1. i \in 1..Len(log)
      BY Zenon, <1>0, <1>3, <2>2 DEF Untouched, LastOf
    <3>2. LastOf(k, i) /\ ~Dropped(k) /\ After(i)' = After(i)
      BY Zenon, <1>3, <2>2, <3>1, StillLast
    <3> QED
      BY Zenon, <2>2, <3>1, <3>2 DEF RowInv
  <2> QED
    BY Zenon, <1>3, <2>1, <2>2 DEF RowsFollow, Follows
<1> QED
    BY Zenon, <1>1, <1>2, <1>3 DEF RowInv, RowsFollow

(* A key that is not a key of the log's headers.                             *)
LEMMA ZeroIsNoKey == 0 \notin Key
BY EntitiesAreOrdered DEF Key

----------------------------------------------------------------------------
(* The sink                                                                  *)

MessageType == [id : Nat, tomb : BOOLEAN]

\* Messages of entry id, its envelope first, were added to the topic.
Sends(id) ==
    /\ topic' \in Seq(MessageType)
    /\ Len(topic) < Len(topic')
    /\ \A n \in 1..Len(topic) : topic'[n] = topic[n]
    /\ \A n \in (Len(topic) + 1)..Len(topic') : topic'[n].id = id
    /\ topic'[Len(topic) + 1] = Message(id, FALSE)
Completes(id) == topic'[Len(topic')] = Message(id, log[id].kind = "delete")

(* One or two messages added to the topic.                                    *)
LEMMA AddsMessages ==
    ASSUME topic \in Seq(MessageType), NEW id \in Nat, NEW more \in Seq(MessageType),
           more # <<>>, more[1] = Message(id, FALSE), \A n \in 1..Len(more) : more[n].id = id,
           topic' = topic \o more
    PROVE  Sends(id) /\ topic'[Len(topic')] = more[Len(more)]
<1>0. Len(topic) \in Nat /\ Len(more) \in Nat /\ Len(more) > 0
    OBVIOUS
<1>1. /\ topic' \in Seq(MessageType) /\ Len(topic') = Len(topic) + Len(more)
      /\ \A n \in 1..(Len(topic) + Len(more)) :
             topic'[n] = IF n <= Len(topic) THEN topic[n] ELSE more[n - Len(topic)]
    BY Zenon, Concatenation
<1>2. Len(topic) < Len(topic')
    BY <1>0, <1>1
<1>3. \A n \in 1..Len(topic) : topic'[n] = topic[n]
    BY <1>0, <1>1
<1>4. \A n \in (Len(topic) + 1)..Len(topic') :
          n - Len(topic) \in 1..Len(more) /\ topic'[n] = more[n - Len(topic)]
    BY <1>0, <1>1
<1>5. /\ Len(topic) + 1 \in (Len(topic) + 1)..Len(topic') /\ (Len(topic) + 1) - Len(topic) = 1
      /\ Len(topic') \in (Len(topic) + 1)..Len(topic') /\ Len(topic') - Len(topic) = Len(more)
    BY <1>0, <1>1
<1>6. topic'[Len(topic) + 1] = more[1] /\ topic'[Len(topic')] = more[Len(more)]
    BY Zenon, <1>4, <1>5
<1>7. \A n \in (Len(topic) + 1)..Len(topic') : topic'[n].id = id
    BY Zenon, <1>4
<1> QED
    BY Zenon, <1>1, <1>2, <1>3, <1>6, <1>7 DEF Sends

(* What a send of an envelope adds, when it succeeds and when it half fails.  *)
LEMMA SendSends ==
    ASSUME topic \in Seq(MessageType), NEW id \in Nat
    PROVE  /\ topic' = topic \o Messages(id) => Sends(id) /\ Completes(id)
           /\ topic' = Append(topic, Message(id, FALSE)) => Sends(id)
<1>1. \A tomb \in BOOLEAN : Message(id, tomb) \in MessageType /\ Message(id, tomb).id = id
    BY DEF Message, MessageType
<1>2. \A S : \A a, b \in S :
          /\ <<a>> \in Seq(S) /\ <<a>> # <<>> /\ <<a>>[1] = a /\ Len(<<a>>) = 1
          /\ <<a, b>> \in Seq(S) /\ <<a, b>> # <<>> /\ <<a, b>>[1] = a /\ <<a, b>>[2] = b
          /\ Len(<<a, b>>) = 2
    OBVIOUS
<1>3. (\A n \in 1..1 : n = 1) /\ (\A n \in 1..2 : n = 1 \/ n = 2)
    OBVIOUS
<1>4. ASSUME topic' = topic \o <<Message(id, FALSE)>>
      PROVE  Sends(id) /\ topic'[Len(topic')] = Message(id, FALSE)
  <2> DEFINE more == <<Message(id, FALSE)>>
  <2>1. more \in Seq(MessageType) /\ more # <<>> /\ more[1] = Message(id, FALSE) /\ Len(more) = 1
    BY Zenon, <1>1, <1>2
  <2>2. topic' = topic \o more
    BY Zenon, <1>4
  <2> HIDE DEF more
  <2>3. \A n \in 1..Len(more) : more[n].id = id
    BY Zenon, <1>1, <1>3, <2>1
  <2> QED
    BY Zenon, <2>1, <2>2, <2>3, AddsMessages
<1>5. ASSUME topic' = topic \o <<Message(id, FALSE), Message(id, TRUE)>>
      PROVE  Sends(id) /\ topic'[Len(topic')] = Message(id, TRUE)
  <2> DEFINE more == <<Message(id, FALSE), Message(id, TRUE)>>
  <2>1. /\ more \in Seq(MessageType) /\ more # <<>> /\ Len(more) = 2
        /\ more[1] = Message(id, FALSE) /\ more[2] = Message(id, TRUE)
    BY Zenon, <1>1, <1>2
  <2>2. topic' = topic \o more
    BY Zenon, <1>5
  <2> HIDE DEF more
  <2>3. \A n \in 1..Len(more) : more[n].id = id
    BY Zenon, <1>1, <1>3, <2>1
  <2> QED
    BY Zenon, <2>1, <2>2, <2>3, AddsMessages
<1>6. ASSUME topic' = topic \o Messages(id) PROVE Sends(id) /\ Completes(id)
  <2>1. CASE log[id].kind = "delete"
    <3>1. (log[id].kind = "delete") = TRUE
      BY <2>1
    <3> QED
      BY Zenon, <1>5, <1>6, <2>1, <3>1 DEF Messages, Completes
  <2>2. CASE log[id].kind # "delete"
    <3>1. (log[id].kind = "delete") = FALSE
      BY <2>2
    <3> QED
      BY Zenon, <1>4, <1>6, <2>2, <3>1 DEF Messages, Completes
  <2> QED
    BY Zenon, <2>1, <2>2
<1>7. Append(topic, Message(id, FALSE)) = topic \o <<Message(id, FALSE)>>
    BY Zenon, <1>1, OneMore
<1> QED
    BY Zenon, <1>4, <1>6, <1>7

(* What was told in turn stays so after a send of the next entry.             *)
LEMMA SendKeeps ==
    ASSUME log' = log, log \in Seq(Entry), topic \in Seq(MessageType), SinkInv,
           NEW id \in 1..Len(log), Sends(id), \A i \in 1..(id - 1) : InTurn(i)
    PROVE  /\ \A n \in 1..Len(topic') : topic'[n].id \in 1..Len(log')
           /\ \A c \in 1..Len(topic') : \A i \in 1..topic'[c].id : from_audit_entry(i)' => ToldBy(i, c)'
           /\ \A i \in 1..(id - 1) : InTurn(i)'
           /\ Completes(id) => InTurn(id)'
<1>0. Len(log) \in Nat /\ id \in Nat /\ id >= 1 /\ Len(topic) \in Nat /\ Len(topic') \in Nat
    BY DEF Sends
<1>1. /\ Len(topic) < Len(topic')
      /\ \A n \in 1..Len(topic) : topic'[n] = topic[n]
      /\ \A n \in (Len(topic) + 1)..Len(topic') : topic'[n].id = id
      /\ topic'[Len(topic) + 1] = Message(id, FALSE)
    BY Zenon DEF Sends
<1>2. \A n \in 1..Len(topic') : n \in 1..Len(topic) \/ n \in (Len(topic) + 1)..Len(topic')
    BY <1>0
<1>3. \A n \in 1..Len(topic') : topic'[n].id \in 1..Len(log')
    BY Zenon, <1>1, <1>2 DEF SinkInv
<1>4. ASSUME NEW c \in 1..Len(topic), NEW i, ToldBy(i, c) PROVE ToldBy(i, c)'
  <2>1. PICK n \in 1..c : topic[n] = Message(i, FALSE) /\ \A m \in n..c : topic[m].id >= i
    BY Zenon, <1>4 DEF ToldBy
  <2>2. n \in 1..Len(topic) /\ \A m \in n..c : m \in 1..Len(topic)
    BY <1>0, <2>1
  <2> QED
    BY Zenon, <1>1, <2>1, <2>2 DEF ToldBy
<1>5. ASSUME NEW c \in (Len(topic) + 1)..Len(topic') PROVE ToldBy(id, c)'
  <2>1. Len(topic) + 1 \in 1..c /\ \A m \in (Len(topic) + 1)..c : m \in (Len(topic) + 1)..Len(topic')
    BY <1>0
  <2>2. id >= id
    BY <1>0
  <2> QED
    BY Zenon, <1>1, <2>1, <2>2 DEF ToldBy
<1>6. ASSUME NEW c \in (Len(topic) + 1)..Len(topic'), NEW i \in 1..(id - 1), ToldBy(i, Len(topic))
      PROVE  ToldBy(i, c)'
  <2>1. PICK n \in 1..Len(topic) : /\ topic[n] = Message(i, FALSE)
                                   /\ \A m \in n..Len(topic) : topic[m].id >= i
    BY Zenon, <1>6 DEF ToldBy
  <2>2. /\ n \in 1..c /\ id >= i
        /\ \A m \in n..c : \/ m \in 1..Len(topic) /\ m \in n..Len(topic)
                           \/ m \in (Len(topic) + 1)..Len(topic')
    BY <1>0, <2>1
  <2> QED
    BY Zenon, <1>1, <2>1, <2>2 DEF ToldBy
<1>7. ASSUME NEW c \in (Len(topic) + 1)..Len(topic'), NEW i \in 1..id, from_audit_entry(i)
      PROVE  ToldBy(i, c)'
  <2>1. i = id \/ i \in 1..(id - 1)
    BY <1>0
  <2> QED
    BY Zenon, <1>5, <1>6, <1>7, <2>1 DEF InTurn
<1>8. \A i : from_audit_entry(i)' <=> from_audit_entry(i)
    BY Zenon DEF from_audit_entry
<1>9. ASSUME NEW c \in 1..Len(topic'), NEW i \in 1..topic'[c].id, from_audit_entry(i)'
      PROVE  ToldBy(i, c)'
  <2>1. CASE c \in 1..Len(topic)
    <3>1. topic'[c].id = topic[c].id
      BY Zenon, <1>1, <2>1
    <3>2. ToldBy(i, c)
      BY Zenon, <1>8, <1>9, <2>1, <3>1 DEF SinkInv
    <3> QED
      BY Zenon, <1>4, <2>1, <3>2
  <2>2. CASE c \in (Len(topic) + 1)..Len(topic')
    BY Zenon, <1>1, <1>7, <1>8, <1>9, <2>2
  <2> QED
    BY Zenon, <1>2, <2>1, <2>2
<1>10. Len(topic') \in (Len(topic) + 1)..Len(topic')
    BY <1>0, <1>1
<1>11. ASSUME NEW i \in 1..(id - 1), Sealed(i) PROVE Sealed(i)'
  <2>1. PICK n \in 1..Len(topic) : /\ topic[n] = Message(i, log[i].kind = "delete")
                                   /\ \A m \in (n + 1)..Len(topic) : topic[m].id > i
    BY Zenon, <1>11 DEF Sealed
  <2>2. /\ n \in 1..Len(topic') /\ id > i
        /\ \A m \in (n + 1)..Len(topic') : \/ m \in 1..Len(topic) /\ m \in (n + 1)..Len(topic)
                                           \/ m \in (Len(topic) + 1)..Len(topic')
    BY <1>0, <1>1, <2>1
  <2>3. topic'[n] = Message(i, log'[i].kind = "delete")
    BY Zenon, <1>1, <2>1
  <2>4. \A m \in (n + 1)..Len(topic') : topic'[m].id > i
    BY Zenon, <1>1, <2>1, <2>2
  <2> QED
    BY Zenon, <2>2, <2>3, <2>4 DEF Sealed
<1>12. \A i \in 1..(id - 1) : InTurn(i)'
  <2>1. \A i \in 1..(id - 1) : i \in 1..id
    BY <1>0
  <2> QED
    BY Zenon, <1>7, <1>8, <1>10, <1>11, <2>1 DEF InTurn
<1>13. ASSUME Completes(id) PROVE InTurn(id)'
  <2>1. Len(topic') \in 1..Len(topic') /\ (Len(topic') + 1)..Len(topic') = {} /\ id \in 1..id
    BY <1>0, <1>1
  <2>2. topic'[Len(topic')] = Message(id, log'[id].kind = "delete")
    BY Zenon, <1>13 DEF Completes
  <2>3. Sealed(id)'
    BY Zenon, <2>1, <2>2 DEF Sealed
  <2> QED
    BY Zenon, <1>7, <1>8, <1>10, <2>1, <2>3 DEF InTurn
<1> QED
    BY Zenon, <1>3, <1>9, <1>12, <1>13

(* A longer log leaves what was told of the entries before.                   *)
LEMMA SinkGrows ==
    ASSUME log \in Seq(Entry), Grows, CaptureInv, SinkInv, UNCHANGED <<topic, cursor, page>>
    PROVE  SinkInv'
<1>0. /\ Len(log) \in Nat /\ Len(log') \in Nat /\ Len(log) <= Len(log')
      /\ \A i \in 1..Len(log) : i \in 1..Len(log') /\ log'[i] = log[i]
      /\ \A i \in 0..Len(log) : i \in 0..Len(log') /\ \A j \in 1..i : j \in 1..Len(log)
    BY DEF Grows
<1>1. cursor \in 0..Len(log) /\ topic' = topic /\ cursor' = cursor /\ page' = page
    BY DEF CaptureInv
<1>2. ASSUME NEW i \in 1..Len(log)
      PROVE  (from_audit_entry(i)' <=> from_audit_entry(i)) /\ (InTurn(i) => InTurn(i)')
  <2>1. from_audit_entry(i)' <=> from_audit_entry(i)
    BY Zenon, <1>0 DEF from_audit_entry
  <2>2. ToldBy(i, Len(topic)) => ToldBy(i, Len(topic))'
    BY Zenon, <1>1 DEF ToldBy
  <2>3. Sealed(i) => Sealed(i)'
    BY Zenon, <1>0, <1>1 DEF Sealed
  <2> QED
    BY Zenon, <2>1, <2>2, <2>3 DEF InTurn
<1>3. \A n \in 1..Len(topic') : topic'[n].id \in 1..Len(log')
    BY Zenon, <1>0, <1>1 DEF SinkInv
<1>4. ASSUME NEW c \in 1..Len(topic'), NEW i \in 1..topic'[c].id, from_audit_entry(i)'
      PROVE  ToldBy(i, c)'
  <2>1. topic[c].id \in 1..Len(log)
    BY Zenon, <1>1 DEF SinkInv
  <2>2. i \in 1..Len(log) /\ i \in 1..topic[c].id
    BY <1>0, <1>1, <2>1
  <2>3. ToldBy(i, c)
    BY Zenon, <1>1, <1>2, <1>4, <2>2 DEF SinkInv
  <2> QED
    BY Zenon, <1>1, <2>3 DEF ToldBy
<1>5. \A i \in 1..cursor' : InTurn(i)'
    BY Zenon, <1>0, <1>1, <1>2 DEF SinkInv
<1>6. ASSUME page'.busy
      PROVE  \E lo, end \in 0..Len(log') :
                 /\ cursor' <= lo /\ lo <= end /\ page'.next <= end
                 /\ page'.todo = {i \in (lo + 1)..end : from_audit_entry(i)'}
                 /\ \A i \in 1..lo : InTurn(i)'
  <2>1. PICK lo \in 0..Len(log), end \in 0..Len(log) :
            /\ cursor <= lo /\ lo <= end /\ page.next <= end
            /\ page.todo = {i \in (lo + 1)..end : from_audit_entry(i)}
            /\ \A i \in 1..lo : InTurn(i)
    BY Zenon, <1>1, <1>6 DEF SinkInv
  <2>2. \A i \in (lo + 1)..end : i \in 1..Len(log)
    BY <1>0
  <2>3. {i \in (lo + 1)..end : from_audit_entry(i)'} = {i \in (lo + 1)..end : from_audit_entry(i)}
    BY Zenon, <1>2, <2>2
  <2> QED
    BY Zenon, <1>0, <1>1, <1>2, <2>1, <2>3
<1> QED
    BY Zenon, <1>3, <1>4, <1>5, <1>6 DEF SinkInv

(* A step that sends nothing.                                                 *)
LEMMA SinkSame ==
    ASSUME log' = log, topic' = topic, SinkInv,
           \A i \in 1..cursor' : InTurn(i),
           page'.busy => \E lo, end \in 0..Len(log) :
               /\ cursor' <= lo /\ lo <= end /\ page'.next <= end
               /\ page'.todo = {i \in (lo + 1)..end : from_audit_entry(i)}
               /\ \A i \in 1..lo : InTurn(i)
    PROVE  SinkInv'
<1>1. \A i : /\ from_audit_entry(i)' <=> from_audit_entry(i)
             /\ InTurn(i)' <=> InTurn(i)
             /\ \A c : ToldBy(i, c)' <=> ToldBy(i, c)
    BY ZenonT(60) DEF from_audit_entry, InTurn, ToldBy, Sealed
<1>2. \A lo, end : {i \in (lo + 1)..end : from_audit_entry(i)'} = {i \in (lo + 1)..end : from_audit_entry(i)}
    BY Zenon, <1>1
<1>3. /\ \A n \in 1..Len(topic') : topic'[n].id \in 1..Len(log')
      /\ \A c \in 1..Len(topic') : \A i \in 1..topic'[c].id : from_audit_entry(i)' => ToldBy(i, c)'
      /\ \A i \in 1..cursor' : InTurn(i)'
    BY Zenon, <1>1 DEF SinkInv
<1>4. page'.busy => \E lo, end \in 0..Len(log') :
          /\ cursor' <= lo /\ lo <= end /\ page'.next <= end
          /\ page'.todo = {i \in (lo + 1)..end : from_audit_entry(i)'}
          /\ \A i \in 1..lo : InTurn(i)'
    BY Zenon, <1>1, <1>2
<1> QED
    BY Zenon, <1>3, <1>4 DEF SinkInv

(* What the next envelope of a page finds sent before it.                     *)
LEMMA NextInTurn ==
    ASSUME CaptureInv, log \in Seq(Entry), SinkInv, NEW id \in page.todo, IsNext(id)
    PROVE  /\ id \in 1..Len(log)
           /\ \A i \in 1..(id - 1) : InTurn(i)
           /\ cursor < id
           /\ \E end \in 0..Len(log) :
                  /\ id <= end /\ page.next <= end
                  /\ page.todo \ {id} = {i \in (id + 1)..end : from_audit_entry(i)}
<1>0. Len(log) \in Nat /\ cursor \in Nat
    BY DEF CaptureInv
<1>1. page.busy /\ \A j \in page.todo : id <= j
    BY Zenon DEF IsNext
<1>2. PICK lo \in 0..Len(log), end \in 0..Len(log) :
          /\ cursor <= lo /\ lo <= end /\ page.next <= end
          /\ page.todo = {i \in (lo + 1)..end : from_audit_entry(i)}
          /\ \A i \in 1..lo : InTurn(i)
    BY Zenon, <1>1 DEF SinkInv
<1>3. id \in (lo + 1)..end /\ \A j \in (lo + 1)..end : from_audit_entry(j) => id <= j
    BY Zenon, <1>1, <1>2
<1>4. lo \in Nat /\ end \in Nat /\ id \in Nat /\ lo < id /\ id <= end /\ end <= Len(log)
    BY <1>0, <1>3
<1>5. \A i \in 1..(id - 1) : i \in 1..lo \/ (i \in (lo + 1)..end /\ ~(id <= i))
    BY <1>4
<1>6. \A i \in 1..(id - 1) : InTurn(i)
    BY Zenon, <1>2, <1>3, <1>5 DEF InTurn
<1>7. /\ \A j \in (id + 1)..end : j \in (lo + 1)..end /\ j # id
      /\ \A j \in (lo + 1)..end : id <= j => j = id \/ j \in (id + 1)..end
    BY <1>4
<1>8. page.todo \ {id} = {i \in (id + 1)..end : from_audit_entry(i)}
    BY Zenon, <1>2, <1>3, <1>7
<1>9. id \in 1..Len(log) /\ cursor < id
    BY <1>0, <1>2, <1>4
<1> QED
    BY Zenon, <1>2, <1>4, <1>6, <1>8, <1>9

(* The producer's steps keep the order of the sink.                           *)
LEMMA SinkStep ==
    ASSUME CaptureInv, log \in Seq(Entry), SinkInv, ProducerStep \/ ProducerFault, log' = log
    PROVE  SinkInv' /\ (topic' = topic \/ \E id \in 1..Len(log) : Sends(id))
<1>0. /\ Len(log) \in Nat /\ cursor \in Nat /\ cursor <= Len(log) /\ cursor \in 0..Len(log)
      /\ page \in [busy : BOOLEAN, todo : SUBSET Nat, next : Nat]
      /\ page.next \in Nat /\ page.next <= Len(log) /\ topic \in Seq(MessageType)
    BY DEF CaptureInv, MessageType
<1>1. ASSUME page' = Idle, cursor' = cursor, topic' = topic PROVE SinkInv'
    BY Zenon, <1>1, SinkSame DEF Idle, SinkInv
<1>2. CASE replay_from_cursor
  <2>1. PICK end \in 0..Len(log) :
            /\ cursor <= end
            /\ page'.next <= end /\ page'.todo = {i \in (cursor + 1)..end : from_audit_entry(i)}
    <3> DEFINE end == PageEnd(cursor)
               todo == {id \in (cursor + 1)..end : from_audit_entry(id)}
    <3>1. /\ end \in 0..Len(log) /\ cursor <= end
          /\ (IF end < Len(log) THEN end ELSE 0) <= end
      BY <1>0, LimitIsPositive DEF PageEnd
    <3>2. page' = [busy |-> TRUE, todo |-> todo, next |-> IF end < Len(log) THEN end ELSE 0]
      BY Zenon, <1>2 DEF replay_from_cursor
    <3> HIDE DEF todo, end
    <3>3. page'.todo = todo /\ page'.next = IF end < Len(log) THEN end ELSE 0
      BY <3>2
    <3> QED
      BY Zenon, <3>1, <3>3 DEF todo
  <2>2. cursor' = cursor /\ topic' = topic /\ cursor <= cursor /\ \A i \in 1..cursor : InTurn(i)
    BY <1>0, <1>2 DEF replay_from_cursor, SinkInv
  <2> QED
    BY Zenon, <1>0, <2>1, <2>2, SinkSame
<1>3. CASE PageDone
  <2>1. page.busy /\ page.todo = {} /\ page' = Idle /\ topic' = topic
        /\ cursor' = IF page.next > cursor THEN page.next ELSE cursor
    BY Zenon, <1>3 DEF PageDone
  <2>2. PICK lo \in 0..Len(log), end \in 0..Len(log) :
            /\ cursor <= lo /\ lo <= end /\ page.next <= end
            /\ page.todo = {i \in (lo + 1)..end : from_audit_entry(i)}
            /\ \A i \in 1..lo : InTurn(i)
    BY Zenon, <2>1 DEF SinkInv
  <2>3. \A i \in 1..cursor' : i \in 1..lo \/ i \in (lo + 1)..end
    BY <1>0, <2>1, <2>2
  <2>4. \A i \in (lo + 1)..end : ~from_audit_entry(i)
    BY Zenon, <2>1, <2>2
  <2>5. \A i \in 1..cursor' : InTurn(i)
    BY Zenon, <2>2, <2>3, <2>4 DEF InTurn
  <2>6. ~page'.busy
    BY <2>1 DEF Idle
  <2> QED
    BY Zenon, <2>1, <2>5, <2>6, SinkSame
<1>4. ASSUME NEW id \in page.todo, Emitted(id), cursor' \in {id, cursor}
      PROVE  SinkInv' /\ id \in 1..Len(log) /\ Sends(id)
  <2>1. IsNext(id) /\ topic' = topic \o Messages(id) /\ page' = [page EXCEPT !.todo = @ \ {id}]
    BY Zenon, <1>4 DEF Emitted
  <2>2. PICK end \in 0..Len(log) :
            /\ id <= end /\ page.next <= end
            /\ page.todo \ {id} = {i \in (id + 1)..end : from_audit_entry(i)}
    BY Zenon, <2>1, NextInTurn
  <2>3. id \in 1..Len(log) /\ cursor < id /\ \A i \in 1..(id - 1) : InTurn(i)
    BY Zenon, <2>1, NextInTurn
  <2>4. id \in Nat /\ id \in 0..Len(log) /\ cursor' <= id /\ \A i \in 1..id : i = id \/ i \in 1..(id - 1)
    BY <1>0, <1>4, <2>3
  <2>5. Sends(id) /\ Completes(id)
    BY Zenon, <1>0, <2>1, <2>4, SendSends
  <2>6. /\ \A n \in 1..Len(topic') : topic'[n].id \in 1..Len(log')
        /\ \A c \in 1..Len(topic') : \A i \in 1..topic'[c].id : from_audit_entry(i)' => ToldBy(i, c)'
        /\ \A i \in 1..id : InTurn(i)'
    BY Zenon, <1>0, <2>3, <2>4, <2>5, SendKeeps
  <2>7. \A i \in 1..cursor' : i \in 1..id
    BY <1>0, <1>4, <2>3
  <2>8. page'.todo = page.todo \ {id} /\ page'.next = page.next
    BY <1>0, <2>1
  <2>9. {i \in (id + 1)..end : from_audit_entry(i)'} = {i \in (id + 1)..end : from_audit_entry(i)}
    BY Zenon DEF from_audit_entry
  <2> QED
    BY Zenon, <2>2, <2>3, <2>4, <2>5, <2>6, <2>7, <2>8, <2>9 DEF SinkInv
<1>5. ASSUME NEW id \in page.todo, EmitFails(id)
      PROVE  SinkInv' /\ (topic' = topic \/ (id \in 1..Len(log) /\ Sends(id)))
  <2>1. IsNext(id) /\ page' = Idle /\ cursor' = cursor
    BY Zenon, <1>5 DEF EmitFails
  <2>2. CASE topic' = topic
    BY Zenon, <1>1, <2>1, <2>2
  <2>3. CASE topic' = Append(topic, Message(id, FALSE))
    <3>1. id \in 1..Len(log) /\ cursor < id /\ \A i \in 1..(id - 1) : InTurn(i)
      BY Zenon, <2>1, NextInTurn
    <3>2. id \in Nat /\ \A i \in 1..cursor : i \in 1..(id - 1)
      BY <1>0, <3>1
    <3>3. Sends(id)
      BY Zenon, <1>0, <2>3, <3>2, SendSends
    <3>4. /\ \A n \in 1..Len(topic') : topic'[n].id \in 1..Len(log')
          /\ \A c \in 1..Len(topic') : \A i \in 1..topic'[c].id : from_audit_entry(i)' => ToldBy(i, c)'
          /\ \A i \in 1..(id - 1) : InTurn(i)'
      BY Zenon, <1>0, <3>1, <3>3, SendKeeps
    <3>5. ~page'.busy
      BY <2>1 DEF Idle
    <3> QED
      BY Zenon, <2>1, <3>1, <3>2, <3>3, <3>4, <3>5 DEF SinkInv
  <2> QED
    BY Zenon, <1>5, <2>2, <2>3 DEF EmitFails
<1>6. CASE ProducerRestarts
    BY Zenon, <1>1, <1>6 DEF ProducerRestarts
<1> QED
    BY Zenon, <1>2, <1>3, <1>4, <1>5, <1>6
       DEF ProducerStep, ProducerFault, emit, CursorNotStored, replay_from_cursor, PageDone, ProducerRestarts

----------------------------------------------------------------------------
(* The replica                                                               *)

(* The fields of a replica.                                                   *)
LEMMA ReplicaFields ==
    ASSUME NEW r \in ReplicaType
    PROVE  /\ r.phase \in {"new", "paging", "tail"}
           /\ r.token \in Nat /\ r.first \in Nat /\ r.last \in Nat /\ r.from \in Nat /\ r.pos \in Nat
           /\ r.store \in [Key -> Nat]
BY DEF ReplicaType

(* A longer log leaves a replica current, or with what is new to come.        *)
LEMMA ReplicaGrows ==
    ASSUME log \in Seq(Entry), topic \in Seq(MessageType), Grows, SinkInv, ReplicaInv,
           UNCHANGED <<topic, replica>>
    PROVE  ReplicaInv'
<1>0. /\ Len(log) \in Nat /\ Len(log') \in Nat /\ Len(log) <= Len(log') /\ Len(topic) \in Nat
      /\ \A i \in 1..Len(log) : i \in 1..Len(log') /\ log'[i] = log[i]
      /\ \A i \in 1..Len(log') : i \in 1..Len(log) \/ i \in (Len(log) + 1)..Len(log')
    BY DEF Grows
<1>1. topic' = topic /\ replica' = replica /\ replica.from \in Nat /\ replica.pos \in Nat
      /\ replica.from <= Len(log) /\ replica.pos <= Len(topic)
    BY ReplicaFields DEF ReplicaInv
<1>2. replica.from <= Len(log')
    BY <1>0, <1>1
<1>3. \A e : Scanned(e)' <=> Scanned(e)
    BY Zenon, <1>1 DEF Scanned
<1>4. \A k : Unheard(k)' => Unheard(k)
    BY Zenon, <1>0 DEF Unheard
<1>5. \A i : Coming(i) => Coming(i)'
    BY Zenon, <1>1 DEF Coming, ToldBy
<1>6. ASSUME NEW e \in Entity, NEW i \in 1..Len(log'), Scanned(e)', LastOf(e, i)', ~Dropped(e)'
      PROVE  replica'.store[e] = After(i)' \/ Coming(i)'
  <2>1. CASE i \in 1..Len(log)
    <3>1. \A j \in (Len(log) + 1)..Len(log') : j \in (i + 1)..Len(log')
      BY <1>0, <2>1
    <3>2. Untouched(e)
      BY Zenon, <1>6, <3>1 DEF Untouched, LastOf
    <3>3. LastOf(e, i) /\ ~Dropped(e) /\ After(i)' = After(i)
      BY Zenon, <1>6, <2>1, <3>2, StillLast
    <3> QED
      BY Zenon, <1>1, <1>3, <1>5, <1>6, <2>1, <3>3 DEF ReplicaInv
  <2>2. CASE i \in (Len(log) + 1)..Len(log')
    <3>1. i > replica.from /\ i \notin 1..Len(log)
      BY <1>0, <1>1, <2>2
    <3>2. \A n \in 1..Len(topic) : topic[n] # Message(i, FALSE)
      <4>1. Message(i, FALSE).id = i
        BY DEF Message
      <4> QED
        BY Zenon, <3>1, <4>1 DEF SinkInv
    <3>3. ~ToldBy(i, Len(topic))
      BY Zenon, <3>2 DEF ToldBy
    <3>4. Coming(i)
      BY Zenon, <3>1, <3>3 DEF Coming
    <3> QED
      BY Zenon, <1>5, <3>4
  <2> QED
    BY Zenon, <1>0, <2>1, <2>2
<1>7. ASSUME NEW n \in 1..replica.pos
      PROVE  /\ \A e : AppliedTo(e, n)' <=> AppliedTo(e, n)
             /\ After(topic[n].id)' = After(topic[n].id)
  <2>1. n \in 1..Len(topic)
    BY <1>0, <1>1
  <2>2. log'[topic[n].id] = log[topic[n].id]
    BY Zenon, <1>0, <2>1 DEF SinkInv
  <2> QED
    BY Zenon, <1>1, <2>2 DEF AppliedTo, After
<1>8. ASSUME NEW e \in Entity, NEW n \in 1..replica'.pos, AppliedTo(e, n)',
             \A m \in n..replica'.pos : AppliedTo(e, m)' => topic'[m].id = topic'[n].id
      PROVE  replica'.store[e] = After(topic[n].id)'
  <2>1. \A m \in n..replica.pos : m \in 1..replica.pos
    BY <1>1
  <2>2. AppliedTo(e, n) /\ \A m \in n..replica.pos : AppliedTo(e, m) => topic[m].id = topic[n].id
    BY Zenon, <1>1, <1>7, <1>8, <2>1
  <2>3. replica.store[e] = After(topic[n].id)
    BY Zenon, <1>1, <2>2 DEF ReplicaInv
  <2> QED
    BY Zenon, <1>1, <1>7, <2>3
<1> QED
    BY Zenon, <1>1, <1>2, <1>3, <1>4, <1>6, <1>8 DEF ReplicaInv

(* What is to come keeps coming when something is sent.                       *)
LEMMA ReplicaSent ==
    ASSUME log \in Seq(Entry), topic \in Seq(MessageType), ReplicaInv,
           UNCHANGED <<log, replica>>, NEW id, Sends(id)
    PROVE  ReplicaInv'
<1>0. Len(topic) \in Nat /\ Len(topic') \in Nat
    BY DEF Sends
<1>1. /\ log' = log /\ replica' = replica
      /\ replica.pos \in Nat /\ replica.pos <= Len(topic)
      /\ Len(topic) < Len(topic') /\ \A n \in 1..Len(topic) : topic'[n] = topic[n]
    BY ReplicaFields DEF ReplicaInv, Sends
<1>2. replica.pos <= Len(topic') /\ \A n \in 1..replica.pos : n \in 1..Len(topic) /\ topic'[n] = topic[n]
    BY <1>0, <1>1
<1>3. \A e : /\ Scanned(e)' <=> Scanned(e)
             /\ Unheard(e)' <=> Unheard(e)
             /\ Dropped(e)' <=> Dropped(e)
             /\ After(e)' = After(e)
             /\ \A i : LastOf(e, i)' <=> LastOf(e, i)
    BY Zenon, <1>1 DEF Scanned, Unheard, Dropped, After, LastOf
<1>4. ASSUME NEW i, Coming(i) PROVE Coming(i)'
  <2>1. i > replica.from
    BY Zenon, <1>4 DEF Coming
  <2>2. CASE \E n \in (replica.pos + 1)..Len(topic) : topic[n] = Message(i, FALSE)
    <3>1. PICK n \in (replica.pos + 1)..Len(topic) : topic[n] = Message(i, FALSE)
      BY Zenon, <2>2
    <3>2. n \in 1..Len(topic) /\ n \in (replica.pos + 1)..Len(topic')
      BY <1>0, <1>1
    <3> QED
      BY Zenon, <1>1, <2>1, <3>1, <3>2 DEF Coming
  <2>3. CASE ~ToldBy(i, Len(topic)) /\ ToldBy(i, Len(topic))'
    <3>1. PICK n \in 1..Len(topic') : topic'[n] = Message(i, FALSE)
                                      /\ \A m \in n..Len(topic') : topic'[m].id >= i
      BY Zenon, <2>3 DEF ToldBy
    <3>2. CASE n \in 1..Len(topic)
      <4>1. \A m \in n..Len(topic) : m \in 1..Len(topic) /\ m \in n..Len(topic')
        BY <1>0, <1>1, <3>2
      <4> QED
        BY Zenon, <1>1, <2>3, <3>1, <3>2, <4>1 DEF ToldBy
    <3>3. CASE n \notin 1..Len(topic)
      <4>1. n \in (replica.pos + 1)..Len(topic')
        BY <1>0, <1>1, <3>3
      <4> QED
        BY Zenon, <1>1, <2>1, <3>1, <4>1 DEF Coming
    <3> QED
      BY Zenon, <3>2, <3>3
  <2> QED
    BY Zenon, <1>1, <1>4, <2>1, <2>2, <2>3 DEF Coming
<1>5. ASSUME NEW e \in Entity, NEW n \in 1..replica'.pos, AppliedTo(e, n)',
             \A m \in n..replica'.pos : AppliedTo(e, m)' => topic'[m].id = topic'[n].id
      PROVE  replica'.store[e] = After(topic[n].id)'
  <2>1. \A m \in n..replica.pos : m \in 1..replica.pos
    BY <1>1
  <2>2. \A m \in 1..replica.pos : AppliedTo(e, m)' <=> AppliedTo(e, m)
    BY Zenon, <1>1, <1>2 DEF AppliedTo
  <2>3. AppliedTo(e, n) /\ \A m \in n..replica.pos : AppliedTo(e, m) => topic[m].id = topic[n].id
    BY Zenon, <1>1, <1>2, <1>5, <2>1, <2>2
  <2>4. replica.store[e] = After(topic[n].id)
    BY Zenon, <1>1, <2>3 DEF ReplicaInv
  <2> QED
    BY Zenon, <1>1, <1>2, <2>4 DEF After
<1> QED
    BY Zenon, <1>1, <1>2, <1>3, <1>4, <1>5 DEF ReplicaInv

(* The log and the topic stand still.                                        *)
LEMMA Steady ==
    ASSUME UNCHANGED <<log, topic>>
    PROVE  /\ \A e : /\ Unheard(e)' <=> Unheard(e)
                     /\ Dropped(e)' <=> Dropped(e)
                     /\ \A i : LastOf(e, i)' <=> LastOf(e, i)
           /\ \A i : After(i)' = After(i) /\ \A c : ToldBy(i, c)' <=> ToldBy(i, c)
BY Zenon DEF Unheard, Dropped, After, LastOf, ToldBy

(* The number after a number.                                                 *)
LEMMA SuccIsNat == \A n \in Nat : n + 1 \in Nat
OBVIOUS

(* What a replica holds after an upsert.                                      *)
LEMMA Upserts ==
    ASSUME NEW f \in [Key -> Nat], NEW k, NEW a \in Nat
    PROVE  /\ [f EXCEPT ![k] = a] \in [Key -> Nat]
           /\ \A e \in Key : [f EXCEPT ![k] = a][e] = IF e = k THEN a ELSE f[e]
BY Zenon

\* The next message is read, with these documents as its result.
Reading(r, s) == [r EXCEPT !.pos = @ + 1, !.store = s]

(* The fields of a replica that read a message.                              *)
LEMMA ReadsOn ==
    ASSUME NEW r \in ReplicaType, NEW s \in [Key -> Nat]
    PROVE  /\ Reading(r, s) \in ReplicaType
           /\ Reading(r, s).phase = r.phase /\ Reading(r, s).from = r.from
           /\ Reading(r, s).pos = r.pos + 1 /\ Reading(r, s).store = s
<1>1. PICK n \in Nat : n = r.pos + 1
    BY Zenon, ReplicaFields, SuccIsNat
<1>2. Reading(r, s) = [r EXCEPT !.pos = n, !.store = s]
    BY Zenon, <1>1 DEF Reading
<1>3. LET q == [r EXCEPT !.pos = n, !.store = s]
      IN  q.pos = n /\ q.store = s /\ q.phase = r.phase /\ q.from = r.from
    BY DEF ReplicaType
<1>4. [r EXCEPT !.pos = n, !.store = s] \in ReplicaType
    BY Zenon DEF ReplicaType
<1> QED
    BY Zenon, <1>1, <1>2, <1>3, <1>4

(* A message that is passed over.                                            *)
LEMMA PassesOver ==
    ASSUME NEW r \in ReplicaType
    PROVE  [r EXCEPT !.pos = @ + 1] = Reading(r, r.store) /\ r.store \in [Key -> Nat]
BY Zenon DEF ReplicaType, Reading

(* A message is applied.  If it makes an entity older than it was, what      *)
(* makes it current again comes after: entries are sent in turn.             *)
LEMMA ApplyKeeps ==
    ASSUME log \in Seq(Entry), topic \in Seq(MessageType), SinkInv, ReplicaInv,
           apply, UNCHANGED <<log, rows>>
    PROVE  ReplicaInv'
<1> DEFINE p == replica.pos + 1
           m == topic[p]
           k == log[m.id].key
           heard == ~m.tomb /\ m.id > replica.from
<1>0. /\ Len(log) \in Nat /\ Len(topic) \in Nat /\ replica \in ReplicaType
      /\ replica.pos \in Nat /\ replica.from \in Nat /\ replica.pos < Len(topic)
      /\ replica.phase = "tail" /\ replica.store \in [Key -> Nat]
    BY ReplicaFields DEF ReplicaInv, apply
<1>1. p \in Nat /\ p \in 1..Len(topic) /\ p <= Len(topic) /\ p > replica.pos
    BY <1>0
<1>2. m.id \in 1..Len(log) /\ m.id \in Nat
  <2>1. m.id \in 1..Len(log)
    BY Zenon, <1>1 DEF SinkInv
  <2>2. \A i \in 1..Len(log) : i \in Nat
    BY <1>0
  <2> QED
    BY Zenon, <2>1, <2>2
<1>3. UNCHANGED <<log, topic>>
    BY Zenon DEF apply
<1>4. replica' = IF m.tomb \/ m.id <= replica.from
                 THEN [replica EXCEPT !.pos = @ + 1]
                 ELSE [replica EXCEPT !.pos = @ + 1, !.store[k] = After(m.id)]
    BY Zenon DEF apply
<1>5. After(m.id) \in Nat
  <2>1. Nil \in Nat
    BY DEF Nil
  <2> QED
    BY Zenon, <1>2, <2>1 DEF After
<1> HIDE DEF k
<1>6. /\ replica' \in ReplicaType
      /\ replica'.phase = "tail" /\ replica'.from = replica.from /\ replica'.pos = p
      /\ \A e \in Key : replica'.store[e] = IF heard /\ e = k THEN After(m.id) ELSE replica.store[e]
  <2> DEFINE a == After(m.id)
             s == [replica.store EXCEPT ![k] = a]
  <2>1. s \in [Key -> Nat] /\ \A e \in Key : s[e] = IF e = k THEN a ELSE replica.store[e]
    BY Zenon, <1>0, <1>5, Upserts
  <2>2. CASE heard
    <3>1. ~(m.tomb \/ m.id <= replica.from)
      BY <1>0, <1>2, <2>2
    <3>2. replica' = Reading(replica, s)
      BY <1>0, <1>4, <3>1 DEF ReplicaType, Reading
    <3> HIDE DEF s, m
    <3>3. /\ Reading(replica, s) \in ReplicaType
          /\ Reading(replica, s).phase = replica.phase /\ Reading(replica, s).from = replica.from
          /\ Reading(replica, s).pos = replica.pos + 1 /\ Reading(replica, s).store = s
      BY Zenon, <1>0, <2>1, ReadsOn
    <3> QED
      BY Zenon, <1>0, <2>1, <2>2, <3>2, <3>3
  <2>3. CASE ~heard
    <3>1. m.tomb \/ m.id <= replica.from
      BY <1>0, <1>2, <2>3
    <3>2. replica' = Reading(replica, replica.store)
      BY Zenon, <1>0, <1>4, <3>1, PassesOver
    <3> HIDE DEF s, m
    <3> DEFINE t == replica.store
    <3>3. /\ Reading(replica, t) \in ReplicaType
          /\ Reading(replica, t).phase = replica.phase /\ Reading(replica, t).from = replica.from
          /\ Reading(replica, t).pos = replica.pos + 1 /\ Reading(replica, t).store = t
      BY Zenon, <1>0, ReadsOn
    <3> QED
      BY Zenon, <1>0, <2>3, <3>2, <3>3
  <2> QED
    BY Zenon, <2>2, <2>3
<1>7. \A e \in Entity : e \in Key
    BY Zenon DEF Key
<1>8. \A e : AppliedTo(e, p) <=> heard /\ e = k
    BY Zenon DEF AppliedTo, k
<1> HIDE DEF p, m, heard
<1>9. \A e, n : AppliedTo(e, n)' <=> AppliedTo(e, n)
    BY Zenon, <1>3, <1>6 DEF AppliedTo
<1>10. ASSUME NEW e \in Entity, Unheard(e)' PROVE replica'.store[e] = Nil
  <2>1. Unheard(e) /\ e # k
    BY Zenon, <1>2, <1>3, <1>10, Steady DEF Unheard, k
  <2> QED
    BY Zenon, <1>6, <1>7, <2>1 DEF ReplicaInv
<1>11. ASSUME NEW e \in Entity, NEW i \in 1..Len(log'), LastOf(e, i)', ~Dropped(e)'
       PROVE  replica'.store[e] = After(i)' \/ Coming(i)'
  <2>0. i \in Nat /\ i \in 1..Len(log)
    BY <1>0, <1>3
  <2>1. LastOf(e, i) /\ ~Dropped(e) /\ After(i)' = After(i)
    BY Zenon, <1>3, <1>11, Steady
  <2>2. replica.store[e] = After(i) \/ Coming(i)
    BY Zenon, <1>0, <2>0, <2>1 DEF ReplicaInv, Scanned
  <2>3. ASSUME i > replica.from,
               ~ToldBy(i, Len(topic)) \/ \E n \in (p + 1)..Len(topic) : topic[n] = Message(i, FALSE)
        PROVE  Coming(i)'
    BY Zenon, <1>3, <1>6, <2>3, Steady DEF Coming
  <2>4. CASE heard /\ e = k
    <3>1. m.id <= i
      <4>1. m.id \in (i + 1)..Len(log) => log[m.id].key # e
        BY Zenon, <2>1 DEF LastOf
      <4>2. log[m.id].key = e
        BY Zenon, <2>4 DEF k
      <4>3. m.id \notin (i + 1)..Len(log)
        BY Zenon, <4>1, <4>2
      <4> QED
        BY <1>0, <1>2, <2>0, <4>3
    <3>2. CASE m.id = i
      BY Zenon, <1>6, <1>7, <2>1, <2>4, <3>2
    <3>3. CASE m.id < i
      <4>1. i > replica.from
        BY <1>0, <1>2, <2>0, <2>4, <3>3 DEF heard
      <4>2. ASSUME ToldBy(i, Len(topic)) PROVE \E n \in (p + 1)..Len(topic) : topic[n] = Message(i, FALSE)
        <5>1. PICK n \in 1..Len(topic) : topic[n] = Message(i, FALSE)
                                         /\ \A q \in n..Len(topic) : topic[q].id >= i
          BY Zenon, <4>2 DEF ToldBy
        <5>2. ~(m.id >= i)
          BY <1>2, <2>0, <3>3
        <5>3. p \notin n..Len(topic)
          BY Zenon, <5>1, <5>2 DEF m
        <5>4. n \in (p + 1)..Len(topic)
          BY <1>0, <1>1, <5>3
        <5> QED
          BY Zenon, <5>1, <5>4
      <4> QED
        BY Zenon, <2>3, <4>1, <4>2
    <3> QED
      BY <1>2, <2>0, <3>1, <3>2, <3>3
  <2>5. CASE ~(heard /\ e = k)
    <3>1. replica'.store[e] = replica.store[e]
      BY Zenon, <1>6, <1>7, <2>5
    <3>2. ASSUME Coming(i), ToldBy(i, Len(topic))
          PROVE  \E n \in (p + 1)..Len(topic) : topic[n] = Message(i, FALSE)
      <4>1. PICK n \in (replica.pos + 1)..Len(topic) : topic[n] = Message(i, FALSE)
        BY Zenon, <3>2 DEF Coming
      <4>2. n # p
        <5>1. ASSUME n = p PROVE FALSE
          <6>1. m = Message(i, FALSE) /\ i > replica.from
            BY Zenon, <3>2, <4>1, <5>1 DEF m, Coming
          <6>2. Message(i, FALSE).id = i /\ Message(i, FALSE).tomb = FALSE
            BY DEF Message
          <6>3. log[i].key = e
            BY Zenon, <2>1 DEF LastOf
          <6> QED
            BY Zenon, <2>5, <6>1, <6>2, <6>3 DEF heard, k
        <5> QED
          BY Zenon, <5>1
      <4>3. n \in (p + 1)..Len(topic)
        BY <1>0, <4>1, <4>2 DEF p
      <4> QED
        BY Zenon, <4>1, <4>3
    <3> QED
      BY Zenon, <2>1, <2>2, <2>3, <3>1, <3>2 DEF Coming
  <2> QED
    BY Zenon, <2>4, <2>5
<1>12. ASSUME NEW e \in Entity, NEW n \in 1..replica'.pos, AppliedTo(e, n)',
              \A q \in n..replica'.pos : AppliedTo(e, q)' => topic'[q].id = topic'[n].id
       PROVE  replica'.store[e] = After(topic[n].id)'
  <2>1. /\ n \in 1..p /\ AppliedTo(e, n)
        /\ \A q \in n..p : AppliedTo(e, q) => topic[q].id = topic[n].id
    BY Zenon, <1>3, <1>6, <1>9, <1>12
  <2>2. After(topic[n].id)' = After(topic[n].id)
    BY Zenon, <1>3 DEF After
  <2>3. CASE AppliedTo(e, p)
    <3>1. p \in n..p
      BY <1>1, <2>1
    <3>2. m.id = topic[n].id
      BY Zenon, <2>1, <2>3, <3>1 DEF m
    <3> QED
      BY Zenon, <1>6, <1>7, <1>8, <2>2, <2>3, <3>2
  <2>4. CASE ~AppliedTo(e, p)
    <3>1. n # p
      BY Zenon, <2>1, <2>4
    <3>2. n \in 1..replica.pos /\ \A q \in n..replica.pos : q \in n..p
      BY <1>0, <2>1, <3>1 DEF p
    <3>3. replica.store[e] = After(topic[n].id)
      BY ZenonT(60), <2>1, <3>2 DEF ReplicaInv
    <3> QED
      BY Zenon, <1>6, <1>7, <1>8, <2>2, <2>4, <3>3
  <2> QED
    BY Zenon, <2>3, <2>4
<1>13. /\ replica'.from <= Len(log') /\ replica'.pos <= Len(topic')
       /\ ~(replica'.phase # "tail") /\ replica'.phase # "new"
    BY <1>1, <1>3, <1>6 DEF ReplicaInv
<1> QED
    BY Zenon, <1>6, <1>10, <1>11, <1>12, <1>13 DEF ReplicaInv

(* A replica that begins again holds nothing and has passed nothing.         *)
LEMMA NewReplicaKeeps ==
    ASSUME log \in Seq(Entry), topic \in Seq(MessageType), replica' = NewReplica,
           UNCHANGED <<log, topic>>
    PROVE  ReplicaInv'
<1>0. Len(log) \in Nat /\ Len(topic) \in Nat /\ Nil \in Nat
    BY DEF Nil
<1>1. /\ replica'.phase = "new" /\ replica'.token = 0 /\ replica'.first = 0 /\ replica'.from = 0
      /\ replica'.pos = 0 /\ replica'.store = [k \in Key |-> Nil]
    BY DEF NewReplica
<1>2. replica' \in ReplicaType
    BY <1>0 DEF NewReplica, ReplicaType
<1>3. \A e \in Entity : ~Scanned(e)' /\ replica'.store[e] = Nil
  <2>1. \A e \in Entity : ~(e <= 0)
    BY EntitiesAreOrdered
  <2>2. \A e \in Entity : e \in Key
    BY Zenon DEF Key
  <2>3. ~(replica'.phase = "tail")
    BY <1>1
  <2> QED
    BY Zenon, <1>1, <2>1, <2>2, <2>3 DEF Scanned
<1>4. replica'.from <= Len(log') /\ replica'.pos <= Len(topic') /\ 1..replica'.pos = {}
    BY <1>0, <1>1
<1> QED
    BY Zenon, <1>1, <1>2, <1>3, <1>4 DEF ReplicaInv

\* A page of the snapshot is taken in.
Paging(r, phase, token, from, last, s) ==
    [r EXCEPT !.phase = phase, !.token = token, !.first = from, !.from = from, !.last = last, !.store = s]

Taken(q, phase, token, from, s, pos) ==
    /\ q \in ReplicaType /\ q.phase = phase /\ q.token = token /\ q.first = from
    /\ q.from = from /\ q.store = s /\ q.pos = pos

(* The fields of a replica that took a page in.                              *)
LEMMA PageTaken ==
    ASSUME NEW r \in ReplicaType, NEW phase \in {"new", "paging", "tail"}, NEW token \in Nat,
           NEW from \in Nat, NEW last \in Nat, NEW s \in [Key -> Nat]
    PROVE  Taken(Paging(r, phase, token, from, last, s), phase, token, from, s, r.pos)
<1> DEFINE q == [r EXCEPT !.phase = phase, !.token = token, !.first = from, !.from = from,
                          !.last = last, !.store = s]
<1>1. q \in ReplicaType
    BY Zenon DEF ReplicaType
<1>2. /\ q.phase = phase /\ q.token = token /\ q.first = from
      /\ q.from = from /\ q.store = s /\ q.pos = r.pos
    BY Zenon DEF ReplicaType
<1> QED
    BY Zenon, <1>1, <1>2 DEF Paging, Taken

(* Nothing is stored, sent or held at first.                                 *)
LEMMA FollowInit == Init => FollowInv
<1> SUFFICES ASSUME Init PROVE FollowInv
    OBVIOUS
<1>1. /\ log = <<>> /\ topic = <<>> /\ cursor = 0 /\ page = Idle /\ replica = NewReplica
      /\ rows = [k \in Key |-> Nil]
    BY Zenon DEF Init, FeedInit, CaptureInit
<1>2. Len(log) = 0 /\ Len(topic) = 0 /\ 1..0 = {} /\ 0 <= 0 /\ Nil \in Nat
    BY <1>1 DEF Nil
<1>3. RowInv
  <2>1. rows \in [Key -> Nat] /\ \A k \in Key : rows[k] = Nil
    BY Zenon, <1>1, <1>2
  <2>2. {k \in Key : rows[k] # Nil} = {}
    BY Zenon, <2>1
  <2>3. IsFiniteSet({k \in Key : rows[k] # Nil})
    BY Zenon, <2>2, NoneIsFinite
  <2> QED
    BY Zenon, <1>2, <2>1, <2>3 DEF RowInv
<1>4. SinkInv
  <2>1. ~page.busy
    BY <1>1 DEF Idle
  <2> QED
    BY Zenon, <1>1, <1>2, <2>1 DEF SinkInv
<1>5. ReplicaInv
  <2>1. /\ replica.phase = "new" /\ replica.token = 0 /\ replica.first = 0 /\ replica.from = 0
        /\ replica.pos = 0 /\ replica.store = [k \in Key |-> Nil] /\ replica \in ReplicaType
    BY <1>1, <1>2 DEF NewReplica, ReplicaType
  <2>2. \A e \in Entity : replica.store[e] = Nil
    BY Zenon, <2>1 DEF Key
  <2> QED
    BY Zenon, <1>2, <2>1, <2>2 DEF ReplicaInv
<1> QED
    BY Zenon, <1>3, <1>4, <1>5 DEF FollowInv

----------------------------------------------------------------------------
(* First and last                                                            *)

INSTANCE WellFoundedInduction

(* A set of numbers that is not empty has a least element.                   *)
LEMMA Least ==
    ASSUME NEW S \in SUBSET Nat, S # {}
    PROVE  \E x \in S : \A y \in S : x <= y
<1>1. PICK less : less = {p \in Nat \X Nat : p[1] < p[2]} /\ IsWellFoundedOn(less, Nat)
    BY Zenon, NatLessThanWellFounded DEF OpToRel
<1>2. PICK x \in S : \A y \in S : ~ (<<y, x>> \in less)
    BY Zenon, <1>1, WFMin
<1>3. ASSUME NEW y \in S PROVE x <= y
  <2>1. x \in Nat /\ y \in Nat /\ ~ (<<y, x>> \in less)
    BY Zenon, <1>2
  <2> QED
    BY <1>1, <2>1
<1> QED
    BY <1>3

(* Positions, if there are any, have a latest one.                           *)
LEMMA LatestIn ==
    ASSUME NEW n \in Nat, NEW S \in SUBSET (1..n), S # {}
    PROVE  \E x \in S : \A y \in S : y <= x
<1> DEFINE T == {d \in Nat : \E x \in S : d = n - x}
<1>1. \A x \in S : n - x \in Nat /\ x \in Nat
    OBVIOUS
<1>2. T \in SUBSET Nat /\ T # {}
    BY Zenon, <1>1
<1>3. PICK d \in T : \A e \in T : d <= e
    BY Zenon, <1>2, Least
<1>4. PICK x \in S : d = n - x
    BY <1>3
<1>5. ASSUME NEW y \in S PROVE y <= x
  <2>1. n - y \in T
    BY <1>1
  <2>2. d <= n - y
    BY <1>3, <2>1
  <2> QED
    BY <1>1, <1>4, <2>2
<1> QED
    BY <1>5

(* A key has no entry, or a last one.                                        *)
LEMMA LastOrNone ==
    ASSUME log \in Seq(Entry), NEW k
    PROVE  Unheard(k) \/ \E i \in 1..Len(log) : LastOf(k, i)
<1> DEFINE about == {i \in 1..Len(log) : log[i].key = k}
<1>0. Len(log) \in Nat
    OBVIOUS
<1>1. CASE about = {}
    BY Zenon, <1>1 DEF Unheard
<1>2. CASE about # {}
  <2>1. about \in SUBSET (1..Len(log))
    BY Zenon
  <2>2. PICK i \in about : \A j \in about : j <= i
    <3> HIDE DEF about
    <3> QED
      BY Zenon, <1>0, <1>2, <2>1, LatestIn
  <2>3. i \in 1..Len(log) /\ log[i].key = k
    BY Zenon, <2>2
  <2>4. \A j \in (i + 1)..Len(log) : j \in 1..Len(log) /\ ~(j <= i)
    BY <1>0, <2>3
  <2> QED
    BY Zenon, <2>2, <2>3, <2>4 DEF LastOf
<1> QED
    BY Zenon, <1>1, <1>2

(* Once the producer has caught up, the last message about a key is that of  *)
(* the key's last entry.                                                     *)
LEMMA LastMessage ==
    ASSUME IInv, FollowInv, Captured, NEW k \in Key, NEW i \in 1..Len(log), LastOf(k, i)
    PROVE  /\ LastAbout(k) \in 1..Len(topic)
           /\ topic[LastAbout(k)].id = i /\ log[i].key = k
           /\ topic[LastAbout(k)].tomb <=> log[i].kind = "delete"
           /\ ToldBy(i, Len(topic))
<1> DEFINE about == {n \in DOMAIN topic : log[topic[n].id].key = k}
<1>0. /\ Len(log) \in Nat /\ Len(topic) \in Nat /\ cursor \in Nat
      /\ DOMAIN log = 1..Len(log) /\ DOMAIN topic = 1..Len(topic)
    BY DEF IInv, SentInv, CaptureInv
<1>1. from_audit_entry(i) /\ log[i].key = k
    BY Zenon DEF LastOf, FollowInv, RowInv
<1>2. i <= cursor
    BY Zenon, <1>0, <1>1 DEF Captured
<1>3. i \in 1..cursor
    BY <1>0, <1>2
<1>4. ToldBy(i, Len(topic)) /\ Sealed(i)
    BY Zenon, <1>1, <1>3 DEF FollowInv, SinkInv, InTurn
<1>5. PICK n \in 1..Len(topic) : /\ topic[n] = Message(i, log[i].kind = "delete")
                                 /\ \A m \in (n + 1)..Len(topic) : topic[m].id > i
    BY Zenon, <1>4 DEF Sealed
<1>6. topic[n].id = i /\ (topic[n].tomb <=> log[i].kind = "delete")
  <2>1. CASE log[i].kind = "delete"
    <3>1. (log[i].kind = "delete") = TRUE
      BY <2>1
    <3>2. topic[n] = Message(i, TRUE)
      BY Zenon, <1>5, <3>1
    <3>3. Message(i, TRUE).id = i /\ Message(i, TRUE).tomb = TRUE
      BY DEF Message
    <3> QED
      BY Zenon, <2>1, <3>2, <3>3
  <2>2. CASE log[i].kind # "delete"
    <3>1. (log[i].kind = "delete") = FALSE
      BY <2>2
    <3>2. topic[n] = Message(i, FALSE)
      BY Zenon, <1>5, <3>1
    <3>3. Message(i, FALSE).id = i /\ Message(i, FALSE).tomb = FALSE
      BY DEF Message
    <3> QED
      BY Zenon, <2>2, <3>2, <3>3
  <2> QED
    BY Zenon, <2>1, <2>2
<1>7. n \in about
    BY Zenon, <1>0, <1>1, <1>6
<1>8. ASSUME NEW m \in about PROVE m <= n
  <2>1. m \in 1..Len(topic) /\ topic[m].id \in 1..Len(log) /\ log[topic[m].id].key = k
    BY Zenon, <1>0 DEF FollowInv, SinkInv
  <2>2. topic[m].id \notin (i + 1)..Len(log)
    BY Zenon, <2>1 DEF LastOf
  <2>3. \A x \in 1..Len(log) : x > i => x \in (i + 1)..Len(log)
    BY <1>0
  <2>4. m \notin (n + 1)..Len(topic)
    BY Zenon, <1>5, <2>1, <2>2, <2>3
  <2> QED
    BY <1>0, <1>5, <2>1, <2>4
<1>9. LastAbout(k) = CHOOSE x \in about : \A m \in about : m <= x
    BY Zenon DEF LastAbout
<1>10. \A x \in about : x \in 1..Len(topic)
    BY Zenon, <1>0
<1> HIDE DEF about
<1>11. LastAbout(k) \in about /\ \A m \in about : m <= LastAbout(k)
    BY Zenon, <1>7, <1>8, <1>9
<1>12. LastAbout(k) = n
  <2>1. n <= LastAbout(k) /\ LastAbout(k) <= n /\ LastAbout(k) \in 1..Len(topic)
    BY Zenon, <1>7, <1>8, <1>10, <1>11
  <2>2. \A x \in 1..Len(topic) : n <= x /\ x <= n => x = n
    BY <1>0
  <2> QED
    BY Zenon, <2>1, <2>2
<1> QED
    BY Zenon, <1>1, <1>4, <1>5, <1>6, <1>12

----------------------------------------------------------------------------
(* The writers, and a replica that reads on after a fault                   *)

(* A write of operations, as each key sees it.                               *)
LEMMA WriteFollows ==
    ASSUME NEW ops \in Seq(Op), ops # <<>>, log \in Seq(Entry), rows \in [Key -> Nat], Write(ops)
    PROVE  /\ rows' \in [Key -> Nat]
           /\ \A i \in (Len(log) + 1)..Len(log') : from_audit_entry(i)' /\ log'[i].key \in Key
           /\ \A k \in Key : Follows(k)
           /\ \A k \in Key : rows'[k] # Nil => rows[k] # Nil \/ \E n \in 1..Len(ops) : ops[n].key = k
<1> DEFINE about(k) == {n \in 1..Len(ops) : ops[n].key = k}
           last(k, n) == ops[n].key = k /\ \A m \in (n + 1)..Len(ops) : ops[m].key # k
           id(k) == CHOOSE n \in DOMAIN ops : last(k, n)
<1>0. /\ DOMAIN ops = 1..Len(ops) /\ Len(ops) \in Nat /\ Len(log) \in Nat
      /\ \A n \in 1..Len(ops) : ops[n] \in Op /\ ops[n].key \in Key /\ ops[n].delete \in BOOLEAN
  <2>1. DOMAIN ops = 1..Len(ops) /\ Len(ops) \in Nat /\ Len(log) \in Nat
    OBVIOUS
  <2>2. \A n \in 1..Len(ops) : ops[n] \in Op
    OBVIOUS
  <2>3. \A op \in Op : op.key \in Key /\ op.delete \in BOOLEAN
    BY DEF Op
  <2> QED
    BY Zenon, <2>1, <2>2, <2>3
<1>1. /\ Len(log') = Len(log) + Len(ops)
      /\ \A n \in 1..Len(ops) : log'[Len(log) + n] = AuditEntry(KindOf(ops[n]), ops[n].key)
    BY Zenon, WriteGrows
<1>2. \A i \in (Len(log) + 1)..Len(log') : i - Len(log) \in 1..Len(ops) /\ i = Len(log) + (i - Len(log))
    BY <1>0, <1>1
<1>3. \A n \in 1..Len(ops) : Len(log) + n \in (Len(log) + 1)..Len(log')
    BY <1>0, <1>1
<1>4. ASSUME NEW n \in 1..Len(ops)
      PROVE  /\ log'[Len(log) + n].key = ops[n].key
             /\ log'[Len(log) + n].kind \in {"create", "update", "delete"}
             /\ ops[n].delete => log'[Len(log) + n].kind = "delete"
             /\ ~ops[n].delete => log'[Len(log) + n].kind \in {"create", "update"}
  <2>1. PICK op \in Op : op = ops[n] /\ log'[Len(log) + n] = AuditEntry(KindOf(op), op.key)
    BY Zenon, <1>0, <1>1
  <2>2. /\ KindOf(op) \in {"create", "update", "delete"}
        /\ op.delete => KindOf(op) = "delete"
        /\ ~op.delete => KindOf(op) \in {"create", "update"}
    BY DEF KindOf, Op
  <2>3. AuditEntry(KindOf(op), op.key).kind = KindOf(op) /\ AuditEntry(KindOf(op), op.key).key = op.key
    BY Zenon DEF AuditEntry
  <2> QED
    BY Zenon, <2>1, <2>2, <2>3
<1>5. ASSUME NEW i \in (Len(log) + 1)..Len(log') PROVE from_audit_entry(i)' /\ log'[i].key \in Key
  <2>1. PICK n \in 1..Len(ops) : i = Len(log) + n
    BY Zenon, <1>2
  <2>2. log'[i].key = ops[n].key /\ log'[i].kind \in {"create", "update", "delete"} /\ ops[n].key \in Key
    BY Zenon, <1>0, <1>4, <2>1
  <2> QED
    BY Zenon, <2>2 DEF from_audit_entry
<1>6. rows' = [k \in Key |->
                 IF \A n \in DOMAIN ops : ops[n].key # k THEN rows[k]
                 ELSE IF ops[id(k)].delete THEN Nil ELSE Len(log) + id(k)]
    BY Zenon DEF Write
<1> HIDE DEF id
<1>7. ASSUME NEW k \in Key, NEW n \in 1..Len(ops), ops[n].key = k
      PROVE  id(k) \in 1..Len(ops) /\ last(k, id(k))
  <2>1. about(k) \in SUBSET (1..Len(ops)) /\ about(k) # {}
    BY Zenon, <1>7
  <2>2. PICK x \in about(k) : \A y \in about(k) : y <= x
    BY Zenon, <1>0, <2>1, LatestIn
  <2>3. \A m \in (x + 1)..Len(ops) : m \in 1..Len(ops) /\ ~(m <= x)
    BY <1>0, <2>2
  <2>4. x \in DOMAIN ops /\ last(k, x)
    BY Zenon, <1>0, <2>2, <2>3
  <2> HIDE DEF last
  <2> QED
    BY Zenon, <1>0, <2>4 DEF id
<1>8. ASSUME NEW k \in Key, \A n \in 1..Len(ops) : ops[n].key # k
      PROVE  rows'[k] = rows[k] /\ Untouched(k)
  <2>1. rows'[k] = rows[k]
    BY Zenon, <1>0, <1>6, <1>8
  <2>2. ASSUME NEW i \in (Len(log) + 1)..Len(log') PROVE log'[i].key # k
    <3>1. PICK n \in 1..Len(ops) : i = Len(log) + n
      BY Zenon, <1>2
    <3> QED
      BY Zenon, <1>4, <1>8, <3>1
  <2> QED
    BY Zenon, <2>1, <2>2 DEF Untouched
<1>9. ASSUME NEW k \in Key, NEW n \in 1..Len(ops), ops[n].key = k
      PROVE  \E i \in (Len(log) + 1)..Len(log') :
                 LastOf(k, i)' /\ rows'[k] = After(i)' /\ rows'[k] \in Nat
  <2>1. id(k) \in 1..Len(ops) /\ last(k, id(k))
    BY Zenon, <1>7, <1>9
  <2>2. PICK x \in 1..Len(ops), i \in (Len(log) + 1)..Len(log') : x = id(k) /\ i = Len(log) + x
    BY Zenon, <1>3, <2>1
  <2>3. rows'[k] = IF ops[id(k)].delete THEN Nil ELSE Len(log) + id(k)
    BY Zenon, <1>0, <1>6, <1>9
  <2>4. rows'[k] = IF ops[x].delete THEN Nil ELSE i
    BY Zenon, <2>2, <2>3
  <2>5. /\ log'[i].key = ops[x].key
        /\ ops[x].delete => log'[i].kind = "delete"
        /\ ~ops[x].delete => log'[i].kind \in {"create", "update"}
    BY Zenon, <1>4, <2>2
  <2>6. ops[x].key = k /\ \A m \in (x + 1)..Len(ops) : ops[m].key # k
    BY Zenon, <2>1, <2>2
  <2>7. rows'[k] = After(i)'
    BY <2>4, <2>5 DEF After
  <2>8. rows'[k] \in Nat
    BY <1>0, <2>4 DEF Nil
  <2>9. ASSUME NEW j \in (i + 1)..Len(log') PROVE log'[j].key # k
    <3>1. PICK m \in 1..Len(ops) : m \in (x + 1)..Len(ops) /\ j = Len(log) + m
      <4>0. Len(log) \in Nat /\ Len(ops) \in Nat /\ Len(log') = Len(log) + Len(ops) /\ i = Len(log) + x
        BY Zenon, <1>0, <1>1, <2>2
      <4>1. j - Len(log) \in 1..Len(ops) /\ j - Len(log) \in (x + 1)..Len(ops) /\ j = Len(log) + (j - Len(log))
        BY <4>0
      <4> QED
        BY Zenon, <4>1
    <3> QED
      BY Zenon, <1>4, <2>6, <3>1
  <2>10. LastOf(k, i)'
    BY Zenon, <2>5, <2>6, <2>9 DEF LastOf
  <2> QED
    BY Zenon, <2>7, <2>8, <2>10
<1>10. \A k \in Key : Follows(k)
    BY Zenon, <1>8, <1>9 DEF Follows
<1>11. rows' \in [Key -> Nat]
  <2>1. \A k \in Key : rows'[k] \in Nat
    BY Zenon, <1>8, <1>9
  <2> QED
    BY Zenon, <1>6, <2>1
<1>12. \A k \in Key : rows'[k] # Nil => rows[k] # Nil \/ \E n \in 1..Len(ops) : ops[n].key = k
    BY Zenon, <1>8
<1> QED
    BY Zenon, <1>5, <1>10, <1>11, <1>12

(* A request of one or two operations leaves the rows as the log tells.      *)
LEMMA RequestFollows ==
    ASSUME log \in Seq(Entry), RowInv, NEW ops \in Seq(Op), ops # <<>>, Write(ops),
           NEW x, NEW y, \A n \in 1..Len(ops) : ops[n].key \in {x, y}
    PROVE  RowsFollow
<1> DEFINE S == {k \in Key : rows[k] # Nil}
           T == {k \in Key : rows'[k] # Nil}
<1>1. /\ rows' \in [Key -> Nat]
      /\ \A i \in (Len(log) + 1)..Len(log') : from_audit_entry(i)' /\ log'[i].key \in Key
      /\ \A k \in Key : Follows(k)
      /\ \A k \in Key : rows'[k] # Nil => rows[k] # Nil \/ \E n \in 1..Len(ops) : ops[n].key = k
    BY Zenon, WriteFollows DEF RowInv
<1>2. T \in SUBSET ((S \cup {x}) \cup {y})
    BY Zenon, <1>1
<1>3. IsFiniteSet(S)
    BY Zenon DEF RowInv
<1> HIDE DEF S, T
<1>4. IsFiniteSet((S \cup {x}) \cup {y})
    BY Zenon, <1>3, FiniteWith
<1>5. IsFiniteSet(T)
    BY Zenon, <1>2, <1>4, FinitePart
<1> QED
    BY Zenon, <1>1, <1>5 DEF RowsFollow, T

(* Every step of a writer leaves the rows as the log tells.                  *)
LEMMA WriterFollows ==
    ASSUME log \in Seq(Entry), RowInv, FeedNext
    PROVE  RowsFollow
<1>0. Len(log) \in Nat /\ DOMAIN log = 1..Len(log)
    OBVIOUS
<1>1. ASSUME NEW op \in Op, Write(<<op>>) PROVE RowsFollow
  <2> DEFINE ops == <<op>>
  <2>1. ops \in Seq(Op) /\ ops # <<>> /\ \A n \in 1..Len(ops) : ops[n] = op
    OBVIOUS
  <2>2. Write(ops)
    BY <1>1
  <2> HIDE DEF ops
  <2>3. \A n \in 1..Len(ops) : ops[n].key \in {op.key, op.key}
    BY Zenon, <2>1
  <2> QED
    BY Zenon, <2>1, <2>2, <2>3, RequestFollows
<1>2. ASSUME NEW a \in Op, NEW b \in Op, Write(<<a, b>>) PROVE RowsFollow
  <2> DEFINE ops == <<a, b>>
  <2>1. ops \in Seq(Op) /\ ops # <<>> /\ \A n \in 1..Len(ops) : ops[n] = a \/ ops[n] = b
    OBVIOUS
  <2>2. Write(ops)
    BY <1>2
  <2> HIDE DEF ops
  <2>3. \A n \in 1..Len(ops) : ops[n].key \in {a.key, b.key}
    BY Zenon, <2>1
  <2> QED
    BY Zenon, <2>1, <2>2, <2>3, RequestFollows
<1>3. ASSUME NEW kind \in {"drop", "other"}, log' = Append(log, AuditEntry(kind, 0))
      PROVE  /\ \A i \in (Len(log) + 1)..Len(log') : ~from_audit_entry(i)' /\ log'[i].key \notin Key
             /\ \A k \in Key : Untouched(k)
             /\ kind = "drop" => \A k \in Key : Dropped(k)'
  <2>1. /\ Len(log') = Len(log) + 1 /\ DOMAIN log' = 1..Len(log')
        /\ log'[Len(log) + 1] = AuditEntry(kind, 0)
    BY <1>0, <1>3
  <2>2. \A i \in (Len(log) + 1)..Len(log') : i = Len(log) + 1
    BY <1>0, <2>1
  <2>3. AuditEntry(kind, 0).key = 0 /\ AuditEntry(kind, 0).kind = kind /\ Len(log) + 1 \in 1..Len(log')
    BY <1>0, <2>1 DEF AuditEntry
  <2>4. \A i \in (Len(log) + 1)..Len(log') : ~from_audit_entry(i)' /\ log'[i].key \notin Key
    BY <1>3, <2>1, <2>2, <2>3, ZeroIsNoKey DEF from_audit_entry
  <2>5. \A k \in Key : Untouched(k)
    BY Zenon, <2>4 DEF Untouched
  <2> QED
    BY Zenon, <2>1, <2>3, <2>4, <2>5 DEF Dropped, Untouched
<1>4. ASSUME rows' \in [Key -> Nat], \A k \in Key : rows'[k] # Nil => rows[k] # Nil
      PROVE  IsFiniteSet({k \in Key : rows'[k] # Nil})
  <2> DEFINE S == {k \in Key : rows[k] # Nil}
             T == {k \in Key : rows'[k] # Nil}
  <2>1. T \in SUBSET S /\ IsFiniteSet(S)
    BY Zenon, <1>4 DEF RowInv
  <2> HIDE DEF S, T
  <2>2. IsFiniteSet(T)
    BY Zenon, <2>1, FinitePart
  <2> QED
    BY Zenon, <2>2 DEF T
<1>5. CASE drop_collection
  <2>1. /\ log' = Append(log, AuditEntry("drop", 0))
        /\ rows' = [k \in Key |-> IF k \in Entity THEN Nil ELSE rows[k]]
    BY Zenon, <1>5 DEF drop_collection
  <2>2. rows \in [Key -> Nat] /\ Nil \in Nat
    BY DEF RowInv, Nil
  <2>3. \A k \in Key : rows'[k] \in {Nil, rows[k]} /\ rows'[k] \in Nat
    BY Zenon, <2>1, <2>2
  <2>4. rows' \in [Key -> Nat]
    BY Zenon, <2>1, <2>3
  <2> QED
    BY Zenon, <1>3, <1>4, <2>1, <2>3, <2>4 DEF RowsFollow, Follows
<1>6. CASE AppendOther
  <2>1. log' = Append(log, AuditEntry("other", 0)) /\ rows' = rows
    BY Zenon, <1>6 DEF AppendOther
  <2> QED
    BY Zenon, <1>3, <1>4, <2>1 DEF RowsFollow, Follows, RowInv
<1> QED
    BY Zenon, <1>1, <1>2, <1>5, <1>6
       DEF FeedNext, broadcast_entity_change, WriteUnpublished, commit_transaction

(* A client that resumes from the last event it applied misses nothing:      *)
(* every entry up to it was sent before it, and what was applied of it is    *)
(* what the replica holds.                                                   *)
LEMMA ReconnectKeeps ==
    ASSUME log \in Seq(Entry), topic \in Seq(MessageType), RowInv, SinkInv, ReplicaInv,
           Reconnect, UNCHANGED <<log, rows>>
    PROVE  ReplicaInv'
<1> DEFINE done == {n \in 1..replica.pos : ~topic[n].tomb /\ topic[n].id > replica.from}
<1>0. /\ Len(log) \in Nat /\ Len(topic) \in Nat /\ replica \in ReplicaType
      /\ replica.pos \in Nat /\ replica.from \in Nat /\ replica.pos <= Len(topic)
      /\ replica.from <= Len(log) /\ replica.phase = "tail" /\ replica.store \in [Key -> Nat]
    BY ReplicaFields DEF ReplicaInv, Reconnect
<1>1. UNCHANGED <<log, topic>> /\ replica' = [replica EXCEPT !.from = LatestCursor, !.pos = 0]
    BY Zenon DEF Reconnect
<1>2. /\ \A n \in 1..replica.pos : n \in 1..Len(topic)
      /\ \A i \in 1..Len(log) : i \in Nat /\ i <= Len(log)
    BY <1>0
<1>3. \/ LatestCursor = replica.from
      \/ \E c \in done : LatestCursor = topic[c].id /\ \A n \in done : n <= c
  <2>1. CASE done = {}
    BY Zenon, <2>1 DEF LatestCursor
  <2>2. CASE done # {}
    <3>1. \E c \in done : \A n \in done : n <= c
      <4>1. done \in SUBSET (1..replica.pos)
        BY Zenon
      <4> HIDE DEF done
      <4> QED
        BY Zenon, <1>0, <2>2, <4>1, LatestIn
    <3>2. LatestCursor = topic[CHOOSE n \in done : \A q \in done : q <= n].id
      BY Zenon, <2>2 DEF LatestCursor
    <3> HIDE DEF done
    <3> QED
      BY Zenon, <3>1, <3>2
  <2> QED
    BY Zenon, <2>1, <2>2
<1>4. PICK from \in Nat : from = LatestCursor /\ from <= Len(log)
    BY Zenon, <1>0, <1>2, <1>3 DEF SinkInv
<1>5. /\ replica' \in ReplicaType /\ replica'.phase = "tail" /\ replica'.from = from
      /\ replica'.pos = 0 /\ replica'.store = replica.store
  <2>1. replica' = [replica EXCEPT !.from = from, !.pos = 0]
    BY Zenon, <1>1, <1>4
  <2>2. replica' \in ReplicaType
    BY Zenon, <1>0, <2>1 DEF ReplicaType
  <2> QED
    BY <1>0, <2>1, <2>2 DEF ReplicaType
<1>6. ASSUME NEW e \in Entity, NEW i \in 1..Len(log), LastOf(e, i), ~Dropped(e), i <= from
      PROVE  replica.store[e] = After(i)
  <2>0. replica.store[e] = After(i) \/ Coming(i)
    BY Zenon, <1>0, <1>6 DEF ReplicaInv, Scanned
  <2>1. CASE ~(i > replica.from)
    BY Zenon, <2>0, <2>1 DEF Coming
  <2>2. CASE i > replica.from
    <3>1. i \in Nat /\ from # replica.from
      BY <1>0, <1>4, <1>6, <2>2
    <3>2. PICK c \in done : from = topic[c].id /\ \A n \in done : n <= c
      BY Zenon, <1>3, <1>4, <3>1
    <3>3. c \in 1..replica.pos /\ c \in 1..Len(topic)
      BY Zenon, <1>2, <3>2
    <3>4. from_audit_entry(i)
      <4>1. log[i].key \in Key
        BY Zenon, <1>6 DEF LastOf, Key
      <4> QED
        BY Zenon, <4>1 DEF RowInv
    <3>5. i \in 1..topic[c].id
      BY <1>4, <1>6, <3>1, <3>2
    <3>6. PICK n \in 1..c : topic[n] = Message(i, FALSE) /\ \A q \in n..c : topic[q].id >= i
      BY Zenon, <3>3, <3>4, <3>5 DEF SinkInv, ToldBy
    <3>7. Message(i, FALSE).id = i /\ Message(i, FALSE).tomb = FALSE
      BY DEF Message
    <3>8. n \in 1..replica.pos
      BY <1>0, <3>3, <3>6
    <3>9. AppliedTo(e, n) /\ topic[n].id = i
      BY Zenon, <1>6, <2>2, <3>6, <3>7 DEF AppliedTo, LastOf
    <3>10. ASSUME NEW q \in n..replica.pos, AppliedTo(e, q) PROVE topic[q].id = topic[n].id
      <4>1. q \in 1..replica.pos
        BY <1>0, <3>8
      <4>2. q \in done /\ topic[q].id \in 1..Len(log) /\ log[topic[q].id].key = e
        BY Zenon, <1>2, <3>10, <4>1 DEF AppliedTo, SinkInv
      <4>3. q <= c
        BY Zenon, <3>2, <4>2
      <4>4. q \in n..c
        BY <1>0, <3>3, <3>6, <4>1, <4>3
      <4>5. topic[q].id >= i
        BY Zenon, <3>6, <4>4
      <4>6. topic[q].id \notin (i + 1)..Len(log)
        BY Zenon, <1>6, <4>2 DEF LastOf
      <4>7. \A x \in 1..Len(log) : x >= i /\ x \notin (i + 1)..Len(log) => x = i
        BY <1>0, <3>1
      <4> QED
        BY Zenon, <3>9, <4>2, <4>5, <4>6, <4>7
    <3>11. replica.store[e] = After(topic[n].id)
      BY Zenon, <3>8, <3>9, <3>10 DEF ReplicaInv
    <3> QED
      BY Zenon, <3>9, <3>11
  <2> QED
    BY Zenon, <2>1, <2>2
<1> HIDE DEF done
<1>7. ASSUME NEW e \in Entity, NEW i \in 1..Len(log'), LastOf(e, i)', ~Dropped(e)'
      PROVE  replica'.store[e] = After(i)' \/ Coming(i)'
  <2>1. i \in 1..Len(log) /\ LastOf(e, i) /\ ~Dropped(e) /\ After(i)' = After(i)
    BY Zenon, <1>1, <1>7, Steady
  <2>2. CASE i <= from
    BY Zenon, <1>5, <1>6, <2>1, <2>2
  <2>3. CASE ~(i <= from)
    <3>1. i > from /\ (0 + 1)..Len(topic) = 1..Len(topic)
      BY <1>2, <1>4, <2>1, <2>3
    <3>2. ToldBy(i, Len(topic)) => \E n \in (0 + 1)..Len(topic) : topic[n] = Message(i, FALSE)
      BY Zenon, <3>1 DEF ToldBy
    <3> QED
      BY ZenonT(60), <1>1, <1>5, <3>1, <3>2, Steady DEF Coming
  <2> QED
    BY Zenon, <2>2, <2>3
<1>8. /\ replica'.from <= Len(log') /\ replica'.pos <= Len(topic')
      /\ ~(replica'.phase # "tail") /\ replica'.phase # "new" /\ 1..replica'.pos = {}
    BY <1>0, <1>1, <1>4, <1>5
<1>9. \A e \in Entity : Unheard(e)' => replica'.store[e] = Nil
    BY Zenon, <1>1, <1>5, Steady DEF ReplicaInv
<1> QED
    BY Zenon, <1>5, <1>7, <1>8, <1>9 DEF ReplicaInv

----------------------------------------------------------------------------
(* A snapshot, page by page                                                  *)

\* The entities of a page are all that are left, or those up to the last of
\* them.  (That is so while finitely many are stored: PageIsPrefix.)
PrefixPages ==
    \A after \in Nat :
        /\ PageOf(after) \in SUBSET Stored(after)
        /\ ~(Cardinality(Stored(after)) > PageLimit) => PageOf(after) = Stored(after)
        /\ \A e \in PageOf(after) : \A f \in Stored(after) : f <= e => f \in PageOf(after)
        /\ Cardinality(Stored(after)) > PageLimit =>
               \E e \in PageOf(after) : \A f \in PageOf(after) : f <= e

(* A snapshot page: what it shows of an entity is current, what was shown    *)
(* before is current or will come, since the tail begins where the first     *)
(* page was read.                                                            *)
LEMMA SnapshotKeeps ==
    ASSUME log \in Seq(Entry), topic \in Seq(MessageType), RowInv, ReplicaInv,
           PrefixPages, snapshot_entities, UNCHANGED <<log, rows>>
    PROVE  ReplicaInv'
<1> DEFINE got == PageOf(replica.token)
           more == Cardinality(Stored(replica.token)) > PageLimit
           last == CHOOSE e \in got : \A f \in got : f <= e
           s == [k \in Key |-> IF k \in got THEN rows[k] ELSE replica.store[k]]
<1>0. /\ Len(log) \in Nat /\ Len(topic) \in Nat /\ replica \in ReplicaType
      /\ replica.pos = 0 /\ replica.from \in Nat /\ replica.first = replica.from
      /\ replica.from <= Len(log) /\ replica.token \in Nat /\ replica.first \in Nat
      /\ replica.phase \in {"new", "paging"} /\ replica.store \in [Key -> Nat]
    BY ReplicaFields DEF ReplicaInv, snapshot_entities
<1>1. UNCHANGED <<log, topic>>
    BY Zenon DEF snapshot_entities
<1>2. /\ got \in SUBSET Stored(replica.token)
      /\ ~more => got = Stored(replica.token)
      /\ \A e \in got : \A f \in Stored(replica.token) : f <= e => f \in got
      /\ more => \E e \in got : \A f \in got : f <= e
    BY Zenon, <1>0 DEF PrefixPages
<1>3. PICK phase \in {"paging", "tail"}, token \in Nat, from \in Nat :
          /\ replica' = Paging(replica, phase, token, from, Len(log), s)
          /\ phase = IF more THEN "paging" ELSE "tail"
          /\ token = IF more THEN last ELSE replica.token
          /\ from = Boundary(replica)
  <2>1. Boundary(replica) \in Nat
    BY Zenon, <1>0 DEF Boundary
  <2>2. more => last \in got
    BY Zenon, <1>2
  <2>3. \A e \in Stored(replica.token) : e \in Nat
    BY EntitiesAreOrdered DEF Stored
  <2>4. (IF more THEN last ELSE replica.token) \in Nat
    BY Zenon, <1>0, <1>2, <2>2, <2>3
  <2>5. (IF more THEN "paging" ELSE "tail") \in {"paging", "tail"}
    BY Zenon
  <2>6. replica' = Paging(replica, IF more THEN "paging" ELSE "tail",
                          IF more THEN last ELSE replica.token, Boundary(replica), Len(log), s)
    BY Zenon DEF snapshot_entities, Paging
  <2> QED
    BY Zenon, <2>1, <2>4, <2>5, <2>6
<1>4. /\ s \in [Key -> Nat]
      /\ \A e \in Key : s[e] = IF e \in got THEN rows[e] ELSE replica.store[e]
  <2>1. rows \in [Key -> Nat]
    BY Zenon DEF RowInv
  <2> HIDE DEF got
  <2> QED
    BY Zenon, <1>0, <2>1
<1> HIDE DEF s
<1>5. /\ replica' \in ReplicaType /\ replica'.phase = phase /\ replica'.token = token
      /\ replica'.first = from /\ replica'.from = from /\ replica'.store = s /\ replica'.pos = 0
  <2> DEFINE q == Paging(replica, phase, token, from, Len(log), s)
  <2>1. /\ q \in ReplicaType /\ q.phase = phase /\ q.token = token /\ q.first = from
        /\ q.from = from /\ q.store = s /\ q.pos = replica.pos
    <3>1. phase \in {"new", "paging", "tail"} /\ Len(log) \in Nat /\ replica \in ReplicaType
      BY Zenon, <1>0
    <3>2. s \in [Key -> Nat]
      BY Zenon, <1>4
    <3>3. Taken(Paging(replica, phase, token, from, Len(log), s), phase, token, from, s, replica.pos)
      BY Zenon, <3>1, <3>2, PageTaken
    <3> QED
      BY Zenon, <3>3 DEF Taken
  <2>2. replica' = q
    BY Zenon, <1>3
  <2> HIDE DEF q
  <2> QED
    BY Zenon, <1>0, <2>1, <2>2
<1>6. more => last \in got /\ \A f \in got : f <= last
    BY Zenon, <1>2
<1> HIDE DEF got, last, more
<1>7. \A e \in Entity : e \in Nat /\ e > 0 /\ e \in Key
    BY EntitiesAreOrdered DEF Key
<1>8. \A e \in Entity : ~(e <= replica.token) => e > replica.token
    BY <1>0, <1>7
<1>9. ASSUME NEW e \in Entity, ~(e <= replica.token) PROVE replica.store[e] = Nil
  <2>1. ~(replica.phase = "tail")
    BY <1>0
  <2> QED
    BY Zenon, <1>9, <2>1 DEF ReplicaInv, Scanned
<1>10. \A e \in got : e \in Entity /\ e > replica.token
    BY Zenon, <1>2 DEF Stored
<1>11. ASSUME phase # "tail", NEW e \in Entity, ~Scanned(e)' PROVE replica'.store[e] = Nil
  <2>1. more /\ token = last /\ ~(e <= last)
    BY Zenon, <1>3, <1>5, <1>11 DEF Scanned
  <2>2. last \in Nat /\ last > replica.token
    BY Zenon, <1>6, <1>7, <1>10, <2>1
  <2>3. e \notin got
    BY Zenon, <1>6, <2>1
  <2>4. ~(e <= replica.token)
    BY <1>0, <1>7, <2>1, <2>2
  <2>5. replica.store[e] = Nil
    BY Zenon, <1>9, <2>4
  <2> QED
    BY Zenon, <1>4, <1>5, <1>7, <2>3, <2>5
<1>12. ASSUME NEW e \in Entity, Unheard(e)' PROVE replica'.store[e] = Nil
  <2>1. Unheard(e)
    BY Zenon, <1>1, <1>12, Steady
  <2>2. rows[e] = Nil /\ replica.store[e] = Nil
    BY Zenon, <1>7, <2>1 DEF RowInv, ReplicaInv
  <2> QED
    BY Zenon, <1>4, <1>5, <1>7, <2>2
<1>13. ASSUME NEW e \in Entity, NEW i \in 1..Len(log'), Scanned(e)', LastOf(e, i)', ~Dropped(e)'
       PROVE  replica'.store[e] = After(i)' \/ Coming(i)'
  <2>1. i \in 1..Len(log) /\ LastOf(e, i) /\ ~Dropped(e) /\ After(i)' = After(i)
    BY Zenon, <1>1, <1>13, Steady
  <2>2. rows[e] = After(i)
    BY Zenon, <1>7, <2>1 DEF RowInv
  <2>3. CASE e \in got
    BY ZenonT(60), <1>4, <1>5, <1>7, <2>1, <2>2, <2>3
  <2>4. CASE e \notin got /\ ~(e <= replica.token)
    <3>1. e \in Stored(replica.token) => e \in got
      <4>1. CASE more
        <5>1. phase = "paging" /\ "paging" # "tail" /\ token = last
          BY <1>3, <4>1
        <5>2. e <= last
          BY Zenon, <1>5, <1>13, <5>1 DEF Scanned
        <5> QED
          BY ZenonT(60), <1>2, <1>6, <4>1, <5>2
      <4>2. CASE ~more
        BY Zenon, <1>2, <4>2
      <4> QED
        BY Zenon, <4>1, <4>2
    <3>2. rows[e] = Nil
      BY Zenon, <1>8, <2>4, <3>1 DEF Stored, Exists
    <3>3. replica.store[e] = Nil
      BY Zenon, <1>9, <2>4
    <3> QED
      BY ZenonT(60), <1>4, <1>5, <1>7, <2>1, <2>2, <2>4, <3>2, <3>3
  <2>5. CASE e \notin got /\ e <= replica.token
    <3>1. replica.token # 0
      BY <1>7, <2>5
    <3>2. replica.phase = "paging" /\ replica.phase # "new"
      BY Zenon, <1>0, <3>1 DEF ReplicaInv
    <3>3. from = replica.from
      BY Zenon, <1>0, <1>3, <3>2 DEF Boundary
    <3>4. replica.store[e] = After(i) \/ Coming(i)
      BY Zenon, <2>1, <2>5 DEF ReplicaInv, Scanned
    <3>5. Coming(i) => Coming(i)'
      BY ZenonT(60), <1>0, <1>1, <1>5, <3>3, Steady DEF Coming
    <3> QED
      BY ZenonT(60), <1>4, <1>5, <1>7, <2>1, <2>5, <3>4, <3>5
  <2> QED
    BY Zenon, <2>3, <2>4, <2>5
<1>14. /\ replica'.from <= Len(log') /\ replica'.pos <= Len(topic')
       /\ replica'.phase # "new" /\ 1..replica'.pos = {}
  <2>1. from <= Len(log)
    BY <1>0, <1>3 DEF Boundary
  <2>2. phase # "new" /\ 0 <= Len(topic) /\ 1..0 = {}
    BY <1>0, <1>3
  <2> QED
    BY ZenonT(60), <1>1, <1>5, <2>1, <2>2
<1> QED
    BY ZenonT(60), <1>5, <1>11, <1>12, <1>13, <1>14 DEF ReplicaInv

----------------------------------------------------------------------------
(* Every step keeps what the log tells of the rows, the order of the sink    *)
(* and what the replica holds.                                               *)
LEMMA FollowStep ==
    ASSUME IInv, FollowInv, PrefixPages, [Next]_vars
    PROVE  FollowInv'
<1>0. log \in Seq(Entry) /\ sent \in Seq(Nat) /\ topic \in Seq(MessageType) /\ CaptureInv
    BY Zenon DEF IInv, SentInv, CaptureInv, MessageType
<1>1. RowInv /\ SinkInv /\ ReplicaInv
    BY Zenon DEF FollowInv
<1>2. ASSUME UNCHANGED <<rows, log>> PROVE RowInv'
  <2>1. \A k : /\ Unheard(k)' <=> Unheard(k)
               /\ Dropped(k)' <=> Dropped(k)
               /\ \A i : LastOf(k, i)' <=> LastOf(k, i)
    BY Zenon, <1>2 DEF Unheard, Dropped, LastOf
  <2>2. \A i : After(i)' = After(i) /\ (from_audit_entry(i)' <=> from_audit_entry(i))
    BY Zenon, <1>2 DEF After, from_audit_entry
  <2> QED
    BY Zenon, <1>1, <1>2, <2>1, <2>2 DEF RowInv
<1>3. ASSUME UNCHANGED <<log, topic, cursor, page>> PROVE SinkInv'
    BY Zenon, <1>1, <1>3, SinkSame DEF SinkInv
<1>4. ASSUME UNCHANGED <<log, topic, replica>> PROVE ReplicaInv'
  <2>1. \A i : Coming(i)' <=> Coming(i)
    BY Zenon, <1>4 DEF Coming, ToldBy
  <2>2. \A e : (Scanned(e)' <=> Scanned(e)) /\ \A n : AppliedTo(e, n)' <=> AppliedTo(e, n)
    BY Zenon, <1>4 DEF Scanned, AppliedTo
  <2>3. \A n : After(topic[n].id)' = After(topic[n].id)
    BY Zenon, <1>4 DEF After
  <2> QED
    BY ZenonT(60), <1>1, <1>4, <2>1, <2>2, <2>3, Steady DEF ReplicaInv
<1>5. ASSUME UNCHANGED <<rows, log, topic, cursor, page, replica>> PROVE FollowInv'
    BY Zenon, <1>2, <1>3, <1>4, <1>5 DEF FollowInv
<1>6. CASE Writer
  <2>1. FeedNext /\ UNCHANGED <<topic, cursor, page, replica>>
    BY Zenon, <1>6 DEF Writer, captureVars
  <2>2. Grows
    BY Zenon, <1>0, <2>1, WriterStep
  <2>3. RowsFollow
    BY Zenon, <1>0, <1>1, <2>1, WriterFollows
  <2>4. RowInv'
    BY Zenon, <1>0, <1>1, <2>2, <2>3, RowStep
  <2>5. SinkInv'
    BY Zenon, <1>0, <1>1, <2>1, <2>2, SinkGrows
  <2>6. ReplicaInv'
    BY Zenon, <1>0, <1>1, <2>1, <2>2, ReplicaGrows
  <2> QED
    BY Zenon, <2>4, <2>5, <2>6 DEF FollowInv
<1>7. CASE Watcher \/ Viewer
    BY Zenon, <1>5, <1>7 DEF Watcher, Viewer, feedVars, captureVars
<1>8. CASE Capture(CaptureNext)
  <2>0. CaptureNext /\ rows' = rows /\ log' = log
    BY Zenon, <1>8 DEF Capture, feedVars
  <2>1. CASE ProducerStep \/ ProducerFault
    <3>1. SinkInv' /\ (topic' = topic \/ \E id \in 1..Len(log) : Sends(id))
      BY Zenon, <1>0, <1>1, <2>0, <2>1, SinkStep
    <3>2. replica' = replica
      BY Zenon, <2>1 DEF ProducerStep, ProducerFault, replay_from_cursor, emit, PageDone, EmitFails,
                         CursorNotStored, ProducerRestarts
    <3>3. ReplicaInv'
      BY ZenonT(60), <1>0, <1>1, <1>4, <2>0, <3>1, <3>2, ReplicaSent
    <3> QED
      BY Zenon, <1>2, <2>0, <3>1, <3>3 DEF FollowInv
  <2>2. CASE ReplicaStep \/ Reconnect
    <3>1. UNCHANGED <<cursor, page, topic>>
      BY Zenon, <2>2 DEF ReplicaStep, snapshot_entities, SnapshotRefused, apply, Reconnect
    <3>2. ASSUME snapshot_entities PROVE ReplicaInv'
      BY Zenon, <1>0, <1>1, <2>0, <3>2, SnapshotKeeps
    <3>3. ASSUME SnapshotRefused PROVE ReplicaInv'
      BY Zenon, <1>0, <2>0, <3>1, <3>3, NewReplicaKeeps DEF SnapshotRefused
    <3>4. ASSUME apply PROVE ReplicaInv'
      BY Zenon, <1>0, <1>1, <2>0, <3>4, ApplyKeeps
    <3>5. ASSUME Reconnect PROVE ReplicaInv'
      BY Zenon, <1>0, <1>1, <2>0, <3>5, ReconnectKeeps
    <3>6. ReplicaInv'
      BY Zenon, <2>2, <3>2, <3>3, <3>4, <3>5 DEF ReplicaStep
    <3> QED
      BY Zenon, <1>2, <1>3, <2>0, <3>1, <3>6 DEF FollowInv
  <2> QED
    BY Zenon, <2>0, <2>1, <2>2 DEF CaptureNext
<1>9. CASE UNCHANGED vars
    BY Zenon, <1>5, <1>9 DEF vars, feedVars, captureVars
<1> QED
    BY Zenon, <1>6, <1>7, <1>8, <1>9 DEF Next

(* What a topic compacted once the producer has caught up holds.            *)
LEMMA CompactedTopic ==
    ASSUME IInv, FollowInv
    PROVE  CompactionKeepsState
<1> SUFFICES ASSUME Captured, NEW k \in Key, ~Dropped(k)
             PROVE  IF \E n \in DOMAIN topic : log[topic[n].id].key = k
                    THEN /\ topic[LastAbout(k)].tomb <=> ~Exists(k)
                         /\ After(topic[LastAbout(k)].id) = rows[k]
                    ELSE ~Exists(k)
    BY Zenon DEF CompactionKeepsState
<1>0. log \in Seq(Entry) /\ DOMAIN topic = 1..Len(topic) /\ Len(log) \in Nat
    BY DEF IInv, SentInv, CaptureInv
<1>1. CASE Unheard(k)
  <2>1. ~Exists(k)
    BY Zenon, <1>1 DEF FollowInv, RowInv, Exists
  <2>2. \A n \in DOMAIN topic : log[topic[n].id].key # k
    BY Zenon, <1>0, <1>1 DEF FollowInv, SinkInv, Unheard
  <2> QED
    BY Zenon, <2>1, <2>2
<1>2. ASSUME NEW i \in 1..Len(log), LastOf(k, i)
      PROVE  /\ \E n \in DOMAIN topic : log[topic[n].id].key = k
             /\ topic[LastAbout(k)].tomb <=> ~Exists(k)
             /\ After(topic[LastAbout(k)].id) = rows[k]
  <2>1. /\ LastAbout(k) \in 1..Len(topic)
        /\ topic[LastAbout(k)].id = i /\ log[i].key = k
        /\ topic[LastAbout(k)].tomb <=> log[i].kind = "delete"
    BY Zenon, <1>2, LastMessage
  <2>2. rows[k] = After(i)
    BY Zenon, <1>2 DEF FollowInv, RowInv
  <2>3. log[i].kind \in {"create", "update", "delete"}
    BY Zenon, <1>2 DEF FollowInv, RowInv, LastOf, from_audit_entry
  <2>4. i # Nil /\ ~("delete" \in {"create", "update"})
    BY <1>0 DEF Nil
  <2>5. log[i].kind = "delete" <=> After(i) = Nil
    BY Zenon, <2>3, <2>4 DEF After
  <2> QED
    BY Zenon, <1>0, <2>1, <2>2, <2>5 DEF Exists
<1> QED
    BY Zenon, <1>0, <1>1, <1>2, LastOrNone

(* What a replica that caught up holds.                                      *)
LEMMA CaughtUpReplica ==
    ASSUME IInv, FollowInv
    PROVE  ReplicaConverges
<1> SUFFICES ASSUME replica.phase = "tail", replica.pos = Len(topic), Captured,
                    NEW e \in Entity, ~Dropped(e)
             PROVE  replica.store[e] = rows[e]
    BY Zenon DEF ReplicaConverges
<1>0. log \in Seq(Entry) /\ e \in Key /\ (Len(topic) + 1)..Len(topic) = {}
    BY DEF IInv, SentInv, CaptureInv, Key
<1>1. CASE Unheard(e)
    BY Zenon, <1>0, <1>1 DEF FollowInv, RowInv, ReplicaInv
<1>2. ASSUME NEW i \in 1..Len(log), LastOf(e, i) PROVE replica.store[e] = rows[e]
  <2>1. ToldBy(i, Len(topic))
    BY Zenon, <1>0, <1>2, LastMessage
  <2>2. ~Coming(i)
    BY Zenon, <1>0, <2>1 DEF Coming
  <2>3. rows[e] = After(i)
    BY Zenon, <1>0, <1>2 DEF FollowInv, RowInv
  <2> QED
    BY Zenon, <1>2, <2>2, <2>3 DEF FollowInv, ReplicaInv, Scanned
<1> QED
    BY Zenon, <1>0, <1>1, <1>2, LastOrNone

----------------------------------------------------------------------------
(* Theorems                                                                  *)

INSTANCE FiniteSetTheorems

(* The first few of a finite set of numbers, as a snapshot page takes them:  *)
(* they are all up to their last one, and all there are when they are few.   *)
LEMMA FirstFew ==
    ASSUME NEW S \in SUBSET Nat, IsFiniteSet(S), NEW limit \in Nat \ {0}, NEW got,
           got = {e \in S : Cardinality({f \in S : f <= e}) <= limit}
    PROVE  /\ Cardinality(S) <= limit => got = S
           /\ \A e \in got : \A f \in S : f <= e => f \in got
           /\ S # {} => \E e \in got : \A f \in got : f <= e
<1> DEFINE upto(e) == {f \in S : f <= e}
           rank(e) == Cardinality(upto(e))
<1>0. got = {e \in S : rank(e) <= limit} /\ Cardinality(S) \in Nat
    BY Zenon, FS_CardinalityType
<1>1. ASSUME NEW e \in S
      PROVE  upto(e) \in SUBSET S /\ IsFiniteSet(upto(e)) /\ rank(e) \in Nat /\ rank(e) <= Cardinality(S)
  <2>1. upto(e) \in SUBSET S
    BY Zenon
  <2> HIDE DEF upto
  <2> QED
    BY ZenonT(60), <2>1, FS_Subset, FS_CardinalityType
<1>2. ASSUME NEW e \in S, NEW f \in S, f <= e
      PROVE  /\ upto(f) \in SUBSET upto(e) /\ rank(f) <= rank(e)
             /\ rank(e) = rank(f) => upto(e) = upto(f)
  <2>1. ASSUME NEW g \in upto(f) PROVE g \in upto(e)
    <3>1. g \in S /\ g <= f /\ g \in Nat /\ f \in Nat /\ e \in Nat
      BY Zenon, <2>1
    <3>2. g <= e
      BY <1>2, <3>1
    <3> QED
      BY ZenonT(60), <3>1, <3>2
  <2> HIDE DEF upto
  <2>2. upto(f) \in SUBSET upto(e)
    BY Zenon, <2>1
  <2> QED
    BY ZenonT(60), <1>1, <2>2, FS_Subset
<1>3. Cardinality(S) <= limit => got = S
  <2> HIDE DEF rank
  <2>1. ASSUME Cardinality(S) <= limit, NEW e \in S PROVE rank(e) <= limit
    <3>1. rank(e) \in Nat /\ Cardinality(S) \in Nat /\ rank(e) <= Cardinality(S)
      BY Zenon, <1>0, <1>1
    <3> QED
      BY <2>1, <3>1
  <2> QED
    BY ZenonT(60), <1>0, <2>1
<1>4. ASSUME NEW e \in got, NEW f \in S, f <= e
      PROVE  f \in got
  <2> HIDE DEF rank
  <2>1. e \in S /\ rank(e) <= limit /\ rank(f) <= rank(e) /\ rank(e) \in Nat /\ rank(f) \in Nat
    BY ZenonT(60), <1>0, <1>1, <1>2, <1>4
  <2>2. rank(f) <= limit
    BY <2>1
  <2> QED
    BY Zenon, <1>0, <2>2
<1>5. ASSUME S # {} PROVE \E e \in got : \A f \in got : f <= e
  <2>1. PICK m \in S : \A y \in S : m <= y
    BY ZenonT(60), <1>5, Least
  <2>2. upto(m) = {m}
    <3>1. \A y \in S : y <= m <=> y = m
      <4>1. \A y \in S : y \in Nat /\ m \in Nat /\ m <= y
        BY Zenon, <2>1
      <4> QED
        BY <4>1
    <3> QED
      BY Zenon, <3>1
  <2>3. rank(m) = 1
    BY ZenonT(60), <2>2, FS_Singleton
  <2> DEFINE T == {d \in Nat : \E e \in got : d = limit - rank(e)}
  <2> HIDE DEF upto, rank
  <2>4. m \in got
    BY <1>0, <2>3
  <2>5. \A e \in got : e \in S /\ rank(e) \in Nat /\ limit - rank(e) \in Nat
    BY <1>0, <1>1
  <2>6. T \in SUBSET Nat /\ T # {}
    BY <2>4, <2>5
  <2>7. PICK d \in T : \A x \in T : d <= x
    BY ZenonT(60), <2>6, Least
  <2>8. PICK e \in got : d = limit - rank(e)
    BY <2>7
  <2>9. ASSUME NEW f \in got PROVE f <= e
    <3>1. e \in S /\ f \in S /\ e \in Nat /\ f \in Nat
      BY ZenonT(60), <2>5
    <3>2. limit - rank(f) \in T
      BY <2>5
    <3>3. limit - rank(e) <= limit - rank(f)
      BY ZenonT(60), <2>7, <2>8, <3>2
    <3>4. rank(f) <= rank(e)
      BY <2>5, <3>3
    <3>5. CASE f > e
      <4>1. e <= f
        BY <3>1, <3>5
      <4>2. rank(e) <= rank(f) /\ (rank(f) = rank(e) => upto(f) = upto(e))
        BY ZenonT(60), <1>2, <3>1, <4>1
      <4>3. rank(f) = rank(e)
        BY <2>5, <3>4, <4>2
      <4>4. f \in upto(f) /\ f \notin upto(e)
        BY <3>1, <3>5 DEF upto
      <4> QED
        BY ZenonT(60), <4>2, <4>3, <4>4
    <3> QED
      BY <3>1, <3>5
  <2> QED
    BY Zenon, <2>9
<1> QED
    BY ZenonT(60), <1>3, <1>4, <1>5

(* The entities of a snapshot page: all that are left, or those up to the    *)
(* last of them.                                                             *)
LEMMA PageIsPrefix ==
    ASSUME RowInv, NEW after \in Nat
    PROVE  /\ PageOf(after) \in SUBSET Stored(after)
           /\ ~(Cardinality(Stored(after)) > PageLimit) => PageOf(after) = Stored(after)
           /\ \A e \in PageOf(after) : \A f \in Stored(after) : f <= e => f \in PageOf(after)
           /\ Cardinality(Stored(after)) > PageLimit =>
                  \E e \in PageOf(after) : \A f \in PageOf(after) : f <= e
<1> DEFINE S == Stored(after)
<1> PICK got : got = PageOf(after)
    OBVIOUS
<1>0. PageLimit \in Nat \ {0}
    BY LimitIsPositive
<1>1. S \in SUBSET Nat
    BY Zenon, EntitiesAreOrdered DEF Stored
<1>2. IsFiniteSet(S)
  <2> DEFINE T == {k \in Key : rows[k] # Nil}
  <2>1. S \in SUBSET T /\ IsFiniteSet(T)
    BY Zenon DEF Stored, Exists, Key, RowInv
  <2> HIDE DEF S, T
  <2> QED
    BY ZenonT(60), <2>1, FS_Subset
<1>3. got = {e \in S : Cardinality({f \in S : f <= e}) <= PageLimit}
    BY Zenon DEF PageOf
<1> HIDE DEF S
<1>4. /\ Cardinality(S) <= PageLimit => got = S
      /\ \A e \in got : \A f \in S : f <= e => f \in got
      /\ S # {} => \E e \in got : \A f \in got : f <= e
    BY ZenonT(60), <1>0, <1>1, <1>2, <1>3, FirstFew
<1>5. Cardinality(S) \in Nat
    BY ZenonT(60), <1>2, FS_CardinalityType
<1>6. ~(Cardinality(S) > PageLimit) => Cardinality(S) <= PageLimit
    BY <1>0, <1>5
<1>7. Cardinality(S) > PageLimit => S # {}
  <2>1. S = {} => Cardinality(S) = 0
    BY Zenon, FS_EmptySet
  <2>2. ~(0 > PageLimit)
    BY <1>0
  <2> QED
    BY ZenonT(60), <2>1, <2>2
<1>8. got \in SUBSET S
    BY Zenon, <1>3
<1> QED
    BY ZenonT(60), <1>4, <1>6, <1>7, <1>8 DEF S

(* What the rows, the sink and the replica have to do with the log, for any   *)
(* number of entities, any page size, any failures, restarts and              *)
(* reconnections.                                                             *)
THEOREM FollowInvariant == Spec => []FollowInv
<1>1. FollowInv => PrefixPages
    BY Zenon, PageIsPrefix DEF FollowInv, PrefixPages
<1> QED
    BY <1>1, FollowInit, FollowStep, Invariant, PTL DEF Spec

(* A topic compacted to the last message of each key is the database, once    *)
(* the producer has caught up, for any page size, whatever failed and         *)
(* whenever the producer restarted; drops are the exception.                  *)
THEOREM CompactionIsSafe == Spec => []CompactionKeepsState
BY CompactedTopic, Invariant, FollowInvariant, PTL

(* A replica that caught up equals the stored entities, for any page size,    *)
(* whatever was written between the snapshot pages, sent twice or cut off by  *)
(* a lost connection; drops are the exception.                                *)
THEOREM ReplicaIsCurrent == Spec => []ReplicaConverges
BY CaughtUpReplica, Invariant, FollowInvariant, PTL
=============================================================================
