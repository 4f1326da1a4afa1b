--------------------------- MODULE AdmissionProofs ---------------------------
(* Proofs about Admission, for every number of tenants, users, credentials,   *)
(* requests and callers, every rate limit and every bound.                    *)
EXTENDS Admission, FiniteSetTheorems, TLAPS

\* A leaf that names no prover goes to SMT, then to Zenon, then to SMT for longer.
USE SMT, Zenon, SMTT(60)

----------------------------------------------------------------------------
(* The rate limiter *)

(* A set of natural numbers that is not empty has a least element.            *)
LEMMA Least ==
    ASSUME NEW S, S \subseteq Nat, S # {}
    PROVE  \E x \in S : \A y \in S : x <= y
<1>1. PICK less : less = {p \in Nat \X Nat : p[1] < p[2]} /\ IsWellFoundedOn(less, Nat)
  BY Zenon, NatLessThanWellFounded DEF OpToRel
<1>2. PICK x \in S : \A y \in S : ~ (<<y, x>> \in less)
  BY Zenon, <1>1, WFMin
<1>3. ASSUME NEW y \in S PROVE x <= y
  <2>1. x \in Nat /\ y \in Nat /\ ~ (<<y, x>> \in less)
    BY Zenon, <1>2
  <2>2. ~ (y < x)
    BY <1>1, <2>1
  <2> QED
    BY <2>1, <2>2
<1> QED
  BY <1>3

(* Pruning a deque of instants drops some of its front, all of it too old:    *)
(* the rest keeps its order, and every entry still in the window is kept.     *)
LEMMA Prunes ==
    ASSUME NEW w \in Seq(Nat), NEW now \in Nat
    PROVE  \E d \in 0..Len(w) :
             /\ Pruned(w, now) \in Seq(Nat)
             /\ Len(Pruned(w, now)) = Len(w) - d
             /\ \A i \in 1..(Len(w) - d) : Pruned(w, now)[i] = w[i + d]
             /\ \A i \in 1..d : w[i] < now - Window
<1>1. PICK kept : kept = {i \in DOMAIN w : w[i] >= now - Window}
  BY Zenon
<1>2. Len(w) \in Nat /\ DOMAIN w = 1..Len(w) /\ \A i \in 1..Len(w) : w[i] \in Nat
  OBVIOUS
<1>3. CASE kept = {}
  <2>1. Pruned(w, now) = <<>>
    BY <1>1, <1>3 DEF Pruned
  <2>2. \A i \in 1..Len(w) : w[i] < now - Window
    <3>1. ASSUME NEW i \in 1..Len(w) PROVE w[i] < now - Window
      <4>1. i \notin kept
        BY <1>3
      <4>2. w[i] \in Nat /\ i \in DOMAIN w
        BY Zenon, <1>2
      <4>3. ~ (w[i] >= now - Window)
        BY Zenon, <1>1, <4>1, <4>2
      <4> QED
        BY <4>2, <4>3, LimitAssumption
    <3> QED
      BY <3>1
  <2>3. <<>> \in Seq(Nat) /\ Len(<<>>) = Len(w) - Len(w) /\ 1..(Len(w) - Len(w)) = {}
        /\ Len(w) \in 0..Len(w)
    BY <1>2
  <2> QED
    BY Zenon, <2>1, <2>2, <2>3
<1>4. CASE kept # {}
  <2>1. PICK first : first = CHOOSE i \in kept : \A j \in kept : i <= j
    OBVIOUS
  <2>2. first \in kept /\ \A j \in kept : first <= j
    <3>1. kept \subseteq Nat
      BY <1>1, <1>2
    <3>2. \E i \in kept : \A j \in kept : i <= j
      BY Zenon, <1>4, <3>1, Least
    <3> QED
      BY Zenon, <2>1, <3>2
  <2>3. Pruned(w, now) = SubSeq(w, first, Len(w))
    BY Zenon, <1>1, <1>4, <2>1 DEF Pruned
  <2>4. first \in 1..Len(w)
    BY <1>1, <1>2, <2>2
  <2>5. \A i \in 1..(first - 1) : w[i] < now - Window
    <3>1. ASSUME NEW i \in 1..(first - 1) PROVE w[i] < now - Window
      <4>1. i \in 1..Len(w) /\ ~ (first <= i)
        BY <1>2, <2>4
      <4>2. i \notin kept
        BY Zenon, <2>2, <4>1
      <4>3. w[i] \in Nat /\ i \in DOMAIN w
        BY Zenon, <1>2, <4>1
      <4>4. ~ (w[i] >= now - Window)
        BY Zenon, <1>1, <4>2, <4>3
      <4> QED
        BY <4>3, <4>4, LimitAssumption
    <3> QED
      BY <3>1
  <2>6. /\ SubSeq(w, first, Len(w)) \in Seq(Nat)
        /\ Len(SubSeq(w, first, Len(w))) = Len(w) - (first - 1)
        /\ \A i \in 1..(Len(w) - (first - 1)) : SubSeq(w, first, Len(w))[i] = w[i + (first - 1)]
    BY <1>2, <2>4
  <2>7. first - 1 \in 0..Len(w)
    BY <1>2, <2>4
  <2> QED
    BY Zenon, <2>3, <2>5, <2>6, <2>7
<1> QED
  BY <1>3, <1>4

(* The writes of R have entries of their own in the deque w.                  *)
Covers(w, R) ==
    \E f \in [R -> 1..Len(w)] :
        /\ \A p, q \in R : f[p] = f[q] => p = q
        /\ \A p \in R : w[f[p]] = p[1]

(* Fewer writes have entries too.                                             *)
LEMMA CoversFewer ==
    ASSUME NEW w, NEW R, Covers(w, R), NEW S, S \subseteq R
    PROVE  Covers(w, S)
<1>1. PICK f \in [R -> 1..Len(w)] :
        /\ \A p, q \in R : f[p] = f[q] => p = q
        /\ \A p \in R : w[f[p]] = p[1]
  BY Zenon DEF Covers
<1>2. PICK g : g = [p \in S |-> f[p]]
  BY Zenon
<1>3. g \in [S -> 1..Len(w)] /\ \A p \in S : g[p] = f[p]
  BY <1>1, <1>2
<1>4. /\ \A p, q \in S : g[p] = g[q] => p = q
      /\ \A p \in S : w[g[p]] = p[1]
  BY Zenon, <1>1, <1>3
<1> QED
  BY Zenon, <1>3, <1>4 DEF Covers

(* Pruning keeps the entries of writes within the window of its instant.      *)
LEMMA CoversPruned ==
    ASSUME NEW w \in Seq(Nat), NEW now \in Nat, NEW R, Covers(w, R),
           \A p \in R : p[1] \in Nat /\ p[1] >= now - Window
    PROVE  Covers(Pruned(w, now), R)
<1>1. PICK f \in [R -> 1..Len(w)] :
        /\ \A p, q \in R : f[p] = f[q] => p = q
        /\ \A p \in R : w[f[p]] = p[1]
  BY Zenon DEF Covers
<1>2. PICK d \in 0..Len(w) :
        /\ Len(Pruned(w, now)) = Len(w) - d
        /\ \A i \in 1..(Len(w) - d) : Pruned(w, now)[i] = w[i + d]
        /\ \A i \in 1..d : w[i] < now - Window
  BY Zenon, Prunes
<1>3. ASSUME NEW p \in R
      PROVE  f[p] - d \in 1..(Len(w) - d) /\ f[p] \in Int /\ Pruned(w, now)[f[p] - d] = p[1]
  <2>1. f[p] \in 1..Len(w) /\ w[f[p]] = p[1] /\ p[1] \in Nat /\ p[1] >= now - Window
    BY Zenon, <1>1
  <2>2. PICK k \in 1..Len(w) : k = f[p]
    BY Zenon, <2>1
  <2>3. w[k] = p[1] /\ Len(w) \in Nat
    <3>1. Len(w) \in Nat
      OBVIOUS
    <3> QED
      BY Zenon, <2>1, <2>2, <3>1
  <2>4. ~ (w[k] < now - Window)
    BY <2>1, <2>3, LimitAssumption
  <2>5. k \notin 1..d
    BY Zenon, <1>2, <2>4
  <2>6. k - d \in 1..(Len(w) - d) /\ k \in Int /\ (k - d) + d = k
    BY <1>2, <2>3, <2>5
  <2>7. Pruned(w, now)[k - d] = w[(k - d) + d]
    BY Zenon, <1>2, <2>6
  <2> QED
    BY Zenon, <2>2, <2>3, <2>6, <2>7
<1>4. PICK g : g = [p \in R |-> f[p] - d]
  BY Zenon
<1>5. g \in [R -> 1..Len(Pruned(w, now))] /\ \A p \in R : g[p] = f[p] - d
  BY Zenon, <1>2, <1>3, <1>4
<1>6. ASSUME NEW p \in R, NEW q \in R, g[p] = g[q] PROVE p = q
  <2>1. f[p] \in Int /\ f[q] \in Int /\ f[p] - d = f[q] - d
    BY Zenon, <1>3, <1>5, <1>6
  <2>2. f[p] = f[q]
    BY <1>2, <2>1
  <2> QED
    BY Zenon, <1>1, <2>2
<1>7. \A p \in R : Pruned(w, now)[g[p]] = p[1]
  BY Zenon, <1>3, <1>5
<1> QED
  BY Zenon, <1>5, <1>6, <1>7 DEF Covers

(* A write that is let through gets an entry at the end.                      *)
LEMMA CoversAppend ==
    ASSUME NEW w \in Seq(Nat), NEW now \in Nat, NEW R, Covers(w, R), NEW new, new \notin R,
           new[1] = now
    PROVE  Covers(Append(w, now), R \cup {new})
<1>1. PICK f \in [R -> 1..Len(w)] :
        /\ \A p, q \in R : f[p] = f[q] => p = q
        /\ \A p \in R : w[f[p]] = p[1]
  BY Zenon DEF Covers
<1>2. PICK v : v = Append(w, now)
  BY Zenon
<1>3. Len(w) \in Nat /\ Len(v) = Len(w) + 1 /\ v[Len(w) + 1] = now
      /\ \A i \in 1..Len(w) : v[i] = w[i] /\ i \in 1..Len(v) /\ i # Len(w) + 1
  BY <1>2
<1>4. PICK g : g = [p \in R \cup {new} |-> IF p = new THEN Len(w) + 1 ELSE f[p]]
  BY Zenon
<1>5. g[new] = Len(w) + 1 /\ \A p \in R : g[p] = f[p]
  BY Zenon, <1>4
<1>6. Len(w) + 1 \in 1..Len(v)
  BY <1>3
<1>7. g \in [R \cup {new} -> 1..Len(v)]
  <2>1. \A p \in R \cup {new} : g[p] \in 1..Len(v)
    <3>1. ASSUME NEW p \in R PROVE g[p] \in 1..Len(v)
      <4>1. f[p] \in 1..Len(w)
        BY Zenon, <1>1
      <4> QED
        BY Zenon, <1>3, <1>5, <4>1
    <3> QED
      BY Zenon, <1>5, <1>6, <3>1
  <2> QED
    BY Zenon, <1>4, <2>1
<1>8. \A p \in R \cup {new} : v[g[p]] = p[1]
  <2>1. v[g[new]] = new[1]
    BY Zenon, <1>3, <1>5
  <2>2. ASSUME NEW p \in R PROVE v[g[p]] = p[1]
    <3>1. f[p] \in 1..Len(w) /\ w[f[p]] = p[1]
      BY Zenon, <1>1
    <3> QED
      BY Zenon, <1>3, <1>5, <3>1
  <2> QED
    BY Zenon, <2>1, <2>2
<1>9. \A p, q \in R \cup {new} : g[p] = g[q] => p = q
  <2>1. \A p \in R : g[p] # Len(w) + 1
    BY Zenon, <1>1, <1>3, <1>5
  <2> QED
    BY Zenon, <1>1, <1>5, <2>1
<1> QED
  BY Zenon, <1>2, <1>7, <1>8, <1>9 DEF Covers

(* There are no more of them than entries.                                    *)
LEMMA CoversBound ==
    ASSUME NEW w \in Seq(Nat), NEW R, Covers(w, R)
    PROVE  Cardinality(R) <= Len(w) /\ Cardinality(R) \in Nat
<1>1. PICK f \in [R -> 1..Len(w)] : \A p, q \in R : f[p] = f[q] => p = q
  BY Zenon DEF Covers
<1>2. f \in Injection(R, 1..Len(w))
  BY Zenon, <1>1 DEF Injection, IsInjective
<1>3. Len(w) \in Nat
  OBVIOUS
<1>4. IsFiniteSet(1..Len(w)) /\ Cardinality(1..Len(w)) = Len(w)
  <2>1. 1 \in Int /\ Len(w) \in Int
    BY <1>3
  <2>2. IsFiniteSet(1..Len(w)) /\ Cardinality(1..Len(w)) = IF 1 > Len(w) THEN 0 ELSE Len(w) - 1 + 1
    BY Zenon, <2>1, FS_Interval
  <2> QED
    BY <1>3, <2>2
<1>5. IsFiniteSet(R) /\ Cardinality(R) <= Cardinality(1..Len(w))
  BY Zenon, <1>2, <1>4, FS_Injection
<1>6. Cardinality(R) \in Nat
  BY <1>5, FS_CardinalityType
<1> QED
  BY Zenon, <1>4, <1>5, <1>6

(* What the limiter's deques and the history of its answers have in common:   *)
(* every write let through within the last window still has its entry.  This  *)
(* is what pruning only from the front, with instants out of order, must not  *)
(* destroy.  No write has an instant in the future.                           *)
LimitInv ==
    /\ clock \in 0..MaxClock
    /\ windows \in [Actor -> Seq(Nat)]
    /\ passed \in [Actor -> [0..MaxClock -> Nat]]
    /\ \A a \in Actor : Len(windows[a]) <= MaxWrites /\ Covers(windows[a], Recent(a))
    /\ \A a \in Actor, t \in 0..MaxClock : t > clock => passed[a][t] = 0

(* Recent, as a function of an actor's counts and the clock.                  *)
Writes(row, c) == UNION {{t} \X (1..row[t]) : t \in {u \in 0..c : u >= c - Window}}

(* Its elements.                                                              *)
LEMMA WritesOut ==
    ASSUME NEW row, NEW c, NEW p \in Writes(row, c)
    PROVE  \E t \in 0..c : t >= c - Window /\ \E i \in 1..row[t] : p = <<t, i>>
<1>1. PICK t \in 0..c : t >= c - Window /\ p \in {t} \X (1..row[t])
  BY Zenon DEF Writes
<1>2. p = <<t, p[2]>> /\ p[2] \in 1..row[t]
  BY <1>1
<1> QED
  BY Zenon, <1>1, <1>2

(* And what its elements are is in it.                                        *)
LEMMA WritesIn ==
    ASSUME NEW row, NEW c, NEW t \in 0..c, t >= c - Window, NEW i \in 1..row[t]
    PROVE  <<t, i>> \in Writes(row, c)
<1>1. <<t, i>> \in {t} \X (1..row[t])
  OBVIOUS
<1> QED
  BY Zenon, <1>1 DEF Writes

(* One more in a table of counts.                                             *)
LEMMA CountedOnce ==
    ASSUME NEW D, NEW row \in [D -> Nat], NEW k \in D, NEW new, new = [row EXCEPT ![k] = row[k] + 1]
    PROVE  new \in [D -> Nat] /\ new[k] = row[k] + 1 /\ \A t \in D : t # k => new[t] = row[t]
  OBVIOUS

(* check_at keeps the limiter's invariant for an instant that is not in the   *)
(* future, however long ago it was read.                                      *)
LEMMA CheckLimit ==
    ASSUME LimitInv, clock' = clock, NEW a \in Actor, NEW now \in 0..MaxClock, now <= clock,
           check_at(a, now)
    PROVE  LimitInv'
<1>1. now \in Nat /\ clock \in Nat /\ windows[a] \in Seq(Nat) /\ passed[a] \in [0..MaxClock -> Nat]
  BY ClockIsBounded DEF LimitInv
<1>0. Recent(a) = Writes(passed[a], clock) /\ Recent(a)' = Writes(passed'[a], clock)
  BY Zenon DEF Recent, Writes
<1>2. ASSUME NEW p \in Recent(a)
      PROVE  p[1] \in Nat /\ p[1] >= now - Window
  <2>1. PICK t \in 0..clock : t >= clock - Window /\ \E i \in 1..passed[a][t] : p = <<t, i>>
    <3>1. p \in Writes(passed[a], clock)
      BY Zenon, <1>2, <1>0
    <3> QED
      BY <3>1, WritesOut
  <2>2. p[1] = t
    BY <2>1
  <2> QED
    BY <1>1, <2>1, <2>2, LimitAssumption
<1>3. PICK w : w = Pruned(windows[a], now)
  BY Zenon
<1>4. w \in Seq(Nat) /\ Len(w) <= Len(windows[a]) /\ Len(w) \in Nat
  <2>1. PICK d \in 0..Len(windows[a]) :
          Pruned(windows[a], now) \in Seq(Nat) /\ Len(Pruned(windows[a], now)) = Len(windows[a]) - d
    BY Zenon, <1>1, Prunes
  <2>2. w \in Seq(Nat) /\ Len(w) = Len(windows[a]) - d
    BY Zenon, <1>3, <2>1
  <2> QED
    BY <1>1, <2>1, <2>2
<1>5. Covers(w, Recent(a))
  BY Zenon, <1>1, <1>2, <1>3, CoversPruned DEF LimitInv
<1>6. ASSUME NEW b \in Actor, passed'[b] = passed[b] PROVE Recent(b)' = Recent(b)
  BY Zenon, <1>6 DEF Recent
<1>7. CASE Limited(a, now)
  <2>1. windows' = [windows EXCEPT ![a] = w] /\ passed' = passed
    BY Zenon, <1>3, <1>7 DEF check_at
  <2>2. windows' \in [Actor -> Seq(Nat)] /\ windows'[a] = w
        /\ \A b \in Actor : b # a => windows'[b] = windows[b]
    BY <1>4, <2>1 DEF LimitInv
  <2>3. \A b \in Actor : Recent(b)' = Recent(b)
    BY Zenon, <1>6, <2>1
  <2>4. Len(w) <= MaxWrites
    <3>1. Len(windows[a]) <= MaxWrites /\ Len(windows[a]) \in Nat
      BY <1>1 DEF LimitInv
    <3> QED
      BY <1>4, <3>1, LimitAssumption
  <2>5. \A b \in Actor : Len(windows'[b]) <= MaxWrites /\ Covers(windows'[b], Recent(b)')
    BY Zenon, <1>5, <2>2, <2>3, <2>4 DEF LimitInv
  <2>6. \A b \in Actor, t \in 0..MaxClock : t > clock => passed'[b][t] = 0
    BY Zenon, <2>1 DEF LimitInv
  <2> QED
    BY Zenon, <2>1, <2>2, <2>5, <2>6 DEF LimitInv
<1>8. CASE ~Limited(a, now)
  <2>1. windows' = [windows EXCEPT ![a] = Append(w, now)]
        /\ passed' = [passed EXCEPT ![a] = [passed[a] EXCEPT ![now] = passed[a][now] + 1]]
    BY Zenon, <1>3, <1>8 DEF check_at
  <2>2. Append(w, now) \in Seq(Nat) /\ Len(Append(w, now)) = Len(w) + 1
    BY <1>1, <1>4
  <2>3. windows' \in [Actor -> Seq(Nat)] /\ windows'[a] = Append(w, now)
        /\ \A b \in Actor : b # a => windows'[b] = windows[b]
    BY <2>1, <2>2 DEF LimitInv
  <2>4. passed' \in [Actor -> [0..MaxClock -> Nat]] /\ passed'[a][now] = passed[a][now] + 1
        /\ (\A t \in 0..MaxClock : t # now => passed'[a][t] = passed[a][t])
        /\ \A b \in Actor : b # a => passed'[b] = passed[b]
    <3>1. PICK row : row = [passed[a] EXCEPT ![now] = passed[a][now] + 1]
      BY Zenon
    <3>2. row \in [0..MaxClock -> Nat] /\ row[now] = passed[a][now] + 1
          /\ \A t \in 0..MaxClock : t # now => row[t] = passed[a][t]
      BY Zenon, <1>1, <3>1, CountedOnce
    <3>3. passed' = [passed EXCEPT ![a] = row]
      BY Zenon, <2>1, <3>1
    <3>4. passed' \in [Actor -> [0..MaxClock -> Nat]] /\ passed'[a] = row
          /\ \A b \in Actor : b # a => passed'[b] = passed[b]
      BY Zenon, <3>2, <3>3 DEF LimitInv
    <3> QED
      BY Zenon, <3>2, <3>4
  <2>5. PICK new : new = <<now, passed[a][now] + 1>>
    BY Zenon
  <2>6. passed[a][now] \in Nat
    BY Zenon, <1>1
  <2>7. new \notin Recent(a) /\ new[1] = now
    <3>1. ASSUME NEW t, NEW i \in 1..passed[a][t], new = <<t, i>> PROVE FALSE
      <4>1. t = now /\ i = passed[a][now] + 1
        BY <2>5, <3>1
      <4>2. i \in 1..passed[a][now]
        BY Zenon, <4>1
      <4> QED
        BY <2>6, <4>1, <4>2
    <3>2. new \notin Recent(a)
      <4> SUFFICES ASSUME new \in Recent(a) PROVE FALSE
        OBVIOUS
      <4>1. PICK t \in 0..clock : \E i \in 1..passed[a][t] : new = <<t, i>>
        <5>1. new \in Writes(passed[a], clock)
          BY Zenon, <1>0
        <5> QED
          BY <5>1, WritesOut
      <4> QED
        BY Zenon, <3>1, <4>1
    <3> QED
      BY <2>5, <3>2
  <2>8. Recent(a)' \subseteq Recent(a) \cup {new}
    <3>1. ASSUME NEW t \in 0..clock, t >= clock - Window, NEW i \in 1..passed'[a][t]
          PROVE  <<t, i>> \in Recent(a) \cup {new}
      <4>1. t \in 0..MaxClock
        BY ClockIsBounded DEF LimitInv
      <4>2. CASE i \in 1..passed[a][t]
        <5>1. <<t, i>> \in Writes(passed[a], clock)
          BY Zenon, <3>1, <4>2, WritesIn
        <5> QED
          BY Zenon, <1>0, <5>1
      <4>3. CASE i \notin 1..passed[a][t]
        <5>1. t = now
          BY Zenon, <2>4, <3>1, <4>1, <4>3
        <5>2. i \in 1..(passed[a][now] + 1) /\ i \notin 1..passed[a][now]
          BY Zenon, <2>4, <3>1, <4>3, <5>1
        <5>3. i = passed[a][now] + 1
          BY <2>6, <5>2
        <5> QED
          BY Zenon, <2>5, <5>1, <5>3
      <4> QED
        BY <4>2, <4>3
    <3>2. ASSUME NEW p \in Recent(a)' PROVE p \in Recent(a) \cup {new}
      <4>1. PICK t \in 0..clock : t >= clock - Window /\ \E i \in 1..passed'[a][t] : p = <<t, i>>
        <5>1. p \in Writes(passed'[a], clock)
          BY Zenon, <1>0, <3>2
        <5> QED
          BY <5>1, WritesOut
      <4> QED
        BY Zenon, <3>1, <4>1
    <3> QED
      BY <3>2
  <2>9. Covers(windows'[a], Recent(a)')
    <3>1. Covers(Append(w, now), Recent(a) \cup {new})
      BY Zenon, <1>1, <1>4, <1>5, <2>7, CoversAppend
    <3> QED
      BY Zenon, <2>3, <2>8, <3>1, CoversFewer
  <2>10. Len(windows'[a]) <= MaxWrites
    BY <1>3, <1>4, <1>8, <2>2, <2>3, LimitAssumption DEF Limited
  <2>11. \A b \in Actor : Len(windows'[b]) <= MaxWrites /\ Covers(windows'[b], Recent(b)')
    BY Zenon, <1>6, <2>3, <2>4, <2>9, <2>10 DEF LimitInv
  <2>12. ASSUME NEW b \in Actor, NEW t \in 0..MaxClock, t > clock PROVE passed'[b][t] = 0
    <3>1. t # now
      BY <1>1, <2>12
    <3>2. passed[b][t] = 0
      BY Zenon, <2>12 DEF LimitInv
    <3> QED
      BY Zenon, <2>4, <3>1, <3>2
  <2> QED
    BY Zenon, <2>3, <2>4, <2>11, <2>12 DEF LimitInv
<1> QED
  BY <1>7, <1>8

(* Time passes: writes leave the window, none enters it.                      *)
LEMMA TickLimit ==
    ASSUME LimitInv, clock < MaxClock, clock' = clock + 1, Forget(clock + 1)
    PROVE  LimitInv'
<1>1. clock \in Nat /\ clock' \in 0..MaxClock /\ windows' = windows
  BY ClockIsBounded DEF LimitInv, Forget
<1>2. ASSUME NEW a \in Actor
      PROVE  /\ passed'[a] \in [0..MaxClock -> Nat]
             /\ \A t \in 0..MaxClock : passed'[a][t] = IF t < (clock + 1) - Window THEN 0 ELSE passed[a][t]
  <2>1. passed[a] \in [0..MaxClock -> Nat] /\ DOMAIN passed[a] = 0..MaxClock
    BY DEF LimitInv
  <2>2. PICK row : row = [t \in DOMAIN passed[a] |-> IF t < (clock + 1) - Window THEN 0 ELSE passed[a][t]]
    BY Zenon
  <2>3. passed'[a] = row
    BY Zenon, <2>2 DEF Forget
  <2>4. row \in [0..MaxClock -> Nat]
        /\ \A t \in 0..MaxClock : row[t] = IF t < (clock + 1) - Window THEN 0 ELSE passed[a][t]
    BY Zenon, <2>1, <2>2
  <2> QED
    BY Zenon, <2>3, <2>4
<1>3. passed' \in [Actor -> [0..MaxClock -> Nat]]
  BY Zenon, <1>2 DEF Forget
<1>4. ASSUME NEW a \in Actor PROVE Covers(windows'[a], Recent(a)')
  <2>1. Recent(a) = Writes(passed[a], clock) /\ Recent(a)' = Writes(passed'[a], clock')
    BY Zenon DEF Recent, Writes
  <2>2. ASSUME NEW p \in Writes(passed'[a], clock') PROVE p \in Writes(passed[a], clock)
    <3>1. PICK t \in 0..clock' : t >= clock' - Window /\ \E i \in 1..passed'[a][t] : p = <<t, i>>
      BY <2>2, WritesOut
    <3>2. PICK i \in 1..passed'[a][t] : p = <<t, i>>
      BY Zenon, <3>1
    <3>3. t \in Nat /\ t \in 0..MaxClock /\ ~ (t < (clock + 1) - Window) /\ t >= clock - Window
      BY <1>1, <3>1, ClockIsBounded, LimitAssumption
    <3>4. passed'[a][t] = passed[a][t]
      BY Zenon, <1>2, <3>3
    <3>5. t \in 0..clock
      <4>1. CASE t > clock
        <5>1. passed[a][t] = 0
          BY Zenon, <3>3, <4>1 DEF LimitInv
        <5>2. i \in 1..0
          BY Zenon, <3>2, <3>4, <5>1
        <5> QED
          BY <5>2
      <4>2. CASE ~ (t > clock)
        BY <1>1, <3>3, <4>2
      <4> QED
        BY <4>1, <4>2
    <3>6. <<t, i>> \in Writes(passed[a], clock)
      BY Zenon, <3>2, <3>3, <3>4, <3>5, WritesIn
    <3> QED
      BY Zenon, <3>2, <3>6
  <2>3. Recent(a)' \subseteq Recent(a)
    BY Zenon, <2>1, <2>2
  <2> QED
    BY Zenon, <1>1, <2>3, CoversFewer DEF LimitInv
<1>5. ASSUME NEW a \in Actor, NEW t \in 0..MaxClock, t > clock' PROVE passed'[a][t] = 0
  <2>1. t > clock
    BY <1>1, <1>5
  <2>2. passed[a][t] = 0
    BY Zenon, <2>1 DEF LimitInv
  <2> QED
    BY Zenon, <1>2, <2>2
<1> QED
  BY Zenon, <1>1, <1>3, <1>4, <1>5 DEF LimitInv

----------------------------------------------------------------------------
(* The router *)

Live(held) == held \cup {handlers[s] : s \in Slug}

(* Two handlers over one database.                                            *)
Twins(g, h) == g # h /\ g.slug = h.slug /\ g.inc = h.inc

(* What makes the router hand out one handler per database, when `held` are   *)
(* the handlers in use.  A handler in use over the database its slug has now  *)
(* is the cached one, unless the slug is being dropped or a drop failed: so   *)
(* opening a database that is there cannot make a second one.                 *)
RouterInv(held) ==
    /\ held \subseteq Handler
    /\ handlers \in [Slug -> Handler \cup {NoHandler}]
    /\ physical \in [Slug -> 0..MaxOpened]
    /\ opened \in 0..MaxOpened
    /\ \A s \in Slug : physical[s] <= opened
    /\ \A s \in Slug : handlers[s] # NoHandler => handlers[s].slug = s
    /\ \A h \in Live(held) : h.inc <= opened
    /\ dropping # {} => "sqlite" \notin backend
    /\ \A g, h \in Live(held) : Twins(g, h) =>
          \/ g.slug \in torn
          \/ g.slug \in dropping /\ g.inc = physical[g.slug]
    /\ \A h \in held : h.inc = physical[h.slug] =>
          h.slug \in torn \cup dropping \/ handlers[h.slug] = h

(* A handler's fields; no handler looks like none.                            *)
LEMMA HandlerFields ==
    ASSUME NEW h \in Handler
    PROVE  /\ h.inc \in 1..MaxOpened /\ h.slug \in Slug
           /\ h # NoHandler /\ h.inc # 0 /\ NoHandler.inc = 0
  BY OpenedIsBounded DEF Handler, NoHandler

(* A handler in use or cached.                                                *)
LEMMA LiveKinds ==
    ASSUME NEW H, RouterInv(H), NEW h \in Live(H)
    PROVE  \/ h = NoHandler
           \/ /\ h \in Handler /\ h.inc # 0 /\ h.slug \in Slug
              /\ h \in H \/ handlers[h.slug] = h
<1>1. CASE h \in H
  BY Zenon, <1>1, HandlerFields DEF RouterInv
<1>2. CASE h \notin H
  <2>1. PICK s \in Slug : h = handlers[s]
    BY Zenon, <1>2 DEF Live
  <2>2. h = NoHandler \/ (h \in Handler /\ h.slug = s)
    BY Zenon, <2>1 DEF RouterInv
  <2> QED
    BY Zenon, <2>1, <2>2, HandlerFields
<1> QED
  BY <1>1, <1>2

(* Two over one database are both handlers.                                   *)
LEMMA TwinsAreHandlers ==
    ASSUME NEW H, RouterInv(H), NEW g \in Live(H), NEW h \in Live(H), Twins(g, h)
    PROVE  /\ g # NoHandler /\ g.inc # 0 /\ g.slug \in Slug
           /\ g \in H \/ handlers[g.slug] = g
           /\ h \in H \/ handlers[g.slug] = h
<1>1. NoHandler.inc = 0
  BY DEF NoHandler
<1>2. g # h /\ g.slug = h.slug /\ g.inc = h.inc
  BY Zenon DEF Twins
<1>3. g # NoHandler /\ h # NoHandler
  BY Zenon, <1>1, <1>2, LiveKinds
<1> QED
  BY Zenon, <1>2, <1>3, LiveKinds

(* A request takes the cached handler of its database.                        *)
LEMMA RouterTakes ==
    ASSUME NEW H, RouterInv(H)', NEW s \in Slug, handlers'[s] # NoHandler,
           NEW h, h = handlers'[s]
    PROVE  RouterInv(H \cup {h})'
<1>1. handlers'[s] \in Handler /\ handlers'[s].slug = s
  BY Zenon DEF RouterInv
<1>2. Live(H \cup {h})' = Live(H)'
  BY Zenon DEF Live
<1>3. handlers'[h.slug] = h
  BY Zenon, <1>1
<1> QED
  BY Zenon, <1>1, <1>2, <1>3 DEF RouterInv

(* The database of a slug without a cached handler is opened, and created if  *)
(* it is not there.                                                           *)
LEMMA RouterOpens ==
    ASSUME NEW H, RouterInv(H), NEW s \in Slug, handlers[s] = NoHandler, Open(s)
    PROVE  RouterInv(H)' /\ handlers'[s] # NoHandler
<1>1. PICK o, new : o = opened /\ new = OpenedOver(s)
  BY Zenon
<1>2. o \in Nat /\ o < MaxOpened /\ o + 1 \in 1..MaxOpened /\ o + 1 \in 0..MaxOpened
  BY <1>1, OpenedIsBounded DEF RouterInv, Open
<1>3. /\ new \in Handler /\ new.slug = s
      /\ new.inc = IF physical[s] = 0 THEN o + 1 ELSE physical[s]
  <2>1. PICK p : p = physical[s]
    BY Zenon
  <2>2. p \in 0..MaxOpened /\ p <= o
    BY Zenon, <1>1, <2>1 DEF RouterInv
  <2>3. new = [n |-> o + 1, slug |-> s, inc |-> IF p = 0 THEN o + 1 ELSE p]
    BY Zenon, <1>1, <2>1 DEF OpenedOver
  <2>4. (IF p = 0 THEN o + 1 ELSE p) \in 1..MaxOpened
    BY <1>2, <2>2, OpenedIsBounded
  <2> QED
    BY <1>2, <2>1, <2>3, <2>4 DEF Handler
<1>4. /\ opened' = o + 1 /\ backend' = backend /\ dropping' = dropping /\ torn' = torn
      /\ physical' = [physical EXCEPT ![s] = new.inc]
      /\ handlers' = [handlers EXCEPT ![s] = new]
  BY Zenon, <1>1 DEF Open
<1>5. new.inc \in 1..MaxOpened /\ new.inc \in 0..MaxOpened /\ new.inc <= o + 1 /\ new # NoHandler
  <2>1. new.inc \in 1..MaxOpened /\ new # NoHandler
    BY Zenon, <1>3, HandlerFields
  <2>2. physical[s] \in 0..MaxOpened /\ physical[s] <= o
    BY Zenon, <1>1 DEF RouterInv
  <2> QED
    BY <1>2, <1>3, <2>1, <2>2, OpenedIsBounded
<1>6. /\ handlers' \in [Slug -> Handler \cup {NoHandler}] /\ handlers'[s] = new
      /\ \A x \in Slug : x # s => handlers'[x] = handlers[x]
  BY Zenon, <1>3, <1>4 DEF RouterInv
<1>7. /\ physical' \in [Slug -> 0..MaxOpened] /\ physical'[s] = new.inc
      /\ \A x \in Slug : x # s => physical'[x] = physical[x]
  BY Zenon, <1>4, <1>5 DEF RouterInv
<1>8. \A x \in Slug : physical'[x] <= opened'
  <2>1. ASSUME NEW x \in Slug, x # s PROVE physical'[x] <= opened'
    <3>1. physical'[x] = physical[x] /\ physical[x] \in 0..MaxOpened /\ physical[x] <= o
      BY Zenon, <1>1, <1>7, <2>1 DEF RouterInv
    <3> QED
      BY <1>2, <1>4, <3>1, OpenedIsBounded
  <2> QED
    BY Zenon, <1>4, <1>5, <1>7, <2>1
<1>9. Live(H)' \subseteq Live(H) \cup {new}
  BY Zenon, <1>6 DEF Live
<1>10. ASSUME NEW h \in Live(H)
       PROVE  h.inc \in 0..MaxOpened /\ h.inc <= o /\ (h # NoHandler => h \in Handler)
  <2>1. h \in Handler \/ h = NoHandler
    BY Zenon, LiveKinds
  <2>2. NoHandler.inc \in 0..MaxOpened /\ (h \in Handler => h.inc \in 0..MaxOpened)
    BY OpenedIsBounded DEF NoHandler, Handler
  <2>3. h.inc <= o
    <3>1. h.inc <= opened
      BY Zenon DEF RouterInv
    <3> QED
      BY Zenon, <1>1, <3>1
  <2> QED
    BY Zenon, <2>1, <2>2, <2>3
<1>11. \A h \in Live(H)' : h.inc <= opened'
  <2>1. ASSUME NEW h \in Live(H) PROVE h.inc <= o + 1
    <3>1. h.inc \in 0..MaxOpened /\ h.inc <= o
      BY Zenon, <1>10
    <3> QED
      BY <1>2, <3>1, OpenedIsBounded
  <2> QED
    BY Zenon, <1>4, <1>5, <1>9, <2>1

<1>12. ASSUME NEW h \in H, h.slug = s, h.inc = new.inc PROVE s \in torn \cup dropping
  <2>1. h \in Live(H) /\ h \in Handler /\ h # NoHandler
    BY Zenon, HandlerFields DEF Live, RouterInv
  <2>2. physical[s] # 0
    <3>1. h.inc \in 0..MaxOpened /\ h.inc <= o
      BY Zenon, <1>10, <2>1
    <3> QED
      BY <1>2, <1>3, <1>12, <3>1
  <2>3. h.inc = physical[h.slug]
    BY Zenon, <1>3, <1>12, <2>2
  <2> QED
    BY Zenon, <1>12, <2>1, <2>3 DEF RouterInv
<1>13. ASSUME NEW g \in Live(H), NEW h \in Live(H), Twins(g, h)
       PROVE  g.slug \in torn' \/ (g.slug \in dropping' /\ g.inc = physical'[g.slug])
  <2>1. g.inc # 0 /\ g.slug \in Slug
    BY Zenon, <1>13, TwinsAreHandlers
  <2>2. g.inc = physical[g.slug] => g.inc = physical'[g.slug]
    BY Zenon, <1>3, <1>7, <2>1
  <2> QED
    BY Zenon, <1>4, <1>13, <2>2 DEF RouterInv
<1>14. ASSUME NEW h \in Live(H), h.slug = s, h.inc = new.inc PROVE s \in torn \cup dropping
  <2>1. h.inc # 0
    BY Zenon, <1>3, <1>14, HandlerFields
  <2>2. h # NoHandler
    BY <2>1 DEF NoHandler
  <2>3. h \in H
    BY Zenon, <1>14, <2>2, LiveKinds
  <2> QED
    BY Zenon, <1>12, <1>14, <2>3
<1>15. ASSUME NEW g \in Live(H)', NEW h \in Live(H)', Twins(g, h)
       PROVE  g.slug \in torn' \/ (g.slug \in dropping' /\ g.inc = physical'[g.slug])
  <2>1. CASE g \in Live(H) /\ h \in Live(H)
    BY Zenon, <1>13, <1>15, <2>1
  <2>2. CASE ~ (g \in Live(H) /\ h \in Live(H))
    <3>1. g.slug = s /\ g.inc = new.inc /\ s \in torn \cup dropping
      BY Zenon, <1>3, <1>9, <1>14, <1>15, <2>2 DEF Twins
    <3> QED
      BY Zenon, <1>4, <1>7, <3>1
  <2> QED
    BY <2>1, <2>2
<1>16. ASSUME NEW h \in H, h.inc = physical'[h.slug]
       PROVE  h.slug \in torn' \cup dropping' \/ handlers'[h.slug] = h
  <2>1. h.slug \in Slug
    BY Zenon, HandlerFields DEF RouterInv
  <2>2. CASE h.slug = s
    BY Zenon, <1>4, <1>7, <1>12, <1>16, <2>2
  <2>3. CASE h.slug # s
    BY Zenon, <1>4, <1>6, <1>7, <1>16, <2>1, <2>3 DEF RouterInv
  <2> QED
    BY <2>2, <2>3
<1>17. \A x \in Slug : handlers'[x] # NoHandler => handlers'[x].slug = x
  BY Zenon, <1>3, <1>6 DEF RouterInv
<1>18. H \subseteq Handler /\ opened' \in 0..MaxOpened /\ (dropping' # {} => "sqlite" \notin backend')
  BY Zenon, <1>2, <1>4 DEF RouterInv
<1> QED
  BY Zenon, <1>5, <1>6, <1>7, <1>8, <1>11, <1>15, <1>16, <1>17, <1>18 DEF RouterInv

(* A slug loses its cached handler, and the database goes, or cannot go, or   *)
(* is about to go.                                                            *)
LEMMA RouterForgets ==
    ASSUME NEW H, RouterInv(H), NEW s \in Slug, drop_database(s)
    PROVE  RouterInv(H)'
<1>1. handlers' = [handlers EXCEPT ![s] = NoHandler] /\ opened' = opened
  BY Zenon DEF drop_database, DropFile, ForgetHandler
<1>2. /\ handlers' \in [Slug -> Handler \cup {NoHandler}] /\ handlers'[s] = NoHandler
      /\ \A x \in Slug : x # s => handlers'[x] = handlers[x]
  BY Zenon, <1>1 DEF RouterInv
<1>3. ASSUME NEW h \in Live(H)' PROVE h \in Live(H) \/ h = NoHandler
  BY Zenon, <1>2 DEF Live
<1>4. NoHandler.inc <= opened
  BY OpenedIsBounded DEF NoHandler, RouterInv
<1>5. ASSUME NEW h \in Live(H)' PROVE h.inc <= opened'
  <2>1. h \in Live(H) => h.inc <= opened
    BY Zenon DEF RouterInv
  <2> QED
    BY Zenon, <1>1, <1>3, <1>4, <2>1
<1>6. ASSUME NEW g \in Live(H)'
      PROVE  g = NoHandler \/ (g.inc # 0 /\ g \in Live(H))
  BY Zenon, <1>3, LiveKinds
<1>7. ASSUME NEW g \in Live(H)', NEW h \in Live(H)', Twins(g, h)
      PROVE  /\ g \in Live(H) /\ h \in Live(H) /\ g.inc # 0 /\ g.slug \in Slug
             /\ g.slug \in torn \/ (g.slug \in dropping /\ g.inc = physical[g.slug])
  <2>1. NoHandler.inc = 0
    BY DEF NoHandler
  <2>2. g # NoHandler /\ h # NoHandler
    BY Zenon, <1>6, <1>7, <2>1 DEF Twins
  <2>3. g \in Live(H) /\ h \in Live(H) /\ g.inc # 0
    BY Zenon, <1>6, <2>2
  <2>4. g.slug \in Slug
    BY Zenon, <1>7, <2>3, TwinsAreHandlers
  <2> QED
    BY Zenon, <1>7, <2>3, <2>4 DEF RouterInv
<1>8. \A x \in Slug : handlers'[x] # NoHandler => handlers'[x].slug = x
  BY Zenon, <1>2 DEF RouterInv
<1>9. ASSUME NEW h \in H PROVE h \in Handler /\ h.slug \in Slug /\ h.inc # 0
  BY Zenon, HandlerFields DEF RouterInv
<1>10. CASE DropFile(s)
  <2>1. dropping = {} /\ dropping' = dropping
    BY Zenon, <1>10 DEF DropFile, RouterInv
  <2>2. CASE physical' = [physical EXCEPT ![s] = 0] /\ torn' = torn
    <3>1. 0 \in 0..MaxOpened /\ 0 <= opened
      BY OpenedIsBounded DEF RouterInv
    <3>2. /\ physical' \in [Slug -> 0..MaxOpened] /\ physical'[s] = 0
          /\ \A x \in Slug : x # s => physical'[x] = physical[x]
      BY Zenon, <2>2, <3>1 DEF RouterInv
    <3>3. \A x \in Slug : physical'[x] <= opened'
      BY Zenon, <1>1, <3>1, <3>2 DEF RouterInv
    <3>4. ASSUME NEW g \in Live(H)', NEW h \in Live(H)', Twins(g, h) PROVE g.slug \in torn'
      BY Zenon, <1>7, <2>1, <2>2, <3>4
    <3>5. ASSUME NEW h \in H, h.inc = physical'[h.slug]
          PROVE  h.slug \in torn' \cup dropping' \/ handlers'[h.slug] = h
      <4>1. h.slug # s /\ h.slug \in Slug
        BY Zenon, <1>9, <3>2, <3>5
      <4>2. h.inc = physical[h.slug]
        BY Zenon, <3>2, <3>5, <4>1
      <4> QED
        BY Zenon, <1>2, <2>1, <2>2, <4>1, <4>2 DEF RouterInv
    <3> QED
      BY Zenon, <1>1, <1>2, <1>5, <1>8, <2>1, <3>2, <3>3, <3>4, <3>5 DEF RouterInv
  <2>3. CASE torn' = torn \cup {s} /\ physical' = physical
    <3>1. ASSUME NEW g \in Live(H)', NEW h \in Live(H)', Twins(g, h) PROVE g.slug \in torn'
      BY Zenon, <1>7, <2>1, <2>3, <3>1
    <3>2. ASSUME NEW h \in H, h.inc = physical'[h.slug]
          PROVE  h.slug \in torn' \cup dropping' \/ handlers'[h.slug] = h
      BY Zenon, <1>2, <1>9, <2>1, <2>3, <3>2 DEF RouterInv
    <3> QED
      BY Zenon, <1>1, <1>2, <1>5, <1>8, <2>1, <2>3, <3>1, <3>2 DEF RouterInv
  <2> QED
    BY Zenon, <1>10, <2>2, <2>3 DEF DropFile
<1>11. CASE ForgetHandler(s)
  <2>1. /\ backend' = {"postgres"} /\ dropping' = dropping \cup {s}
        /\ physical' = physical /\ torn' = torn
    BY Zenon, <1>11 DEF ForgetHandler
  <2>2. "sqlite" \notin backend'
    BY <2>1
  <2>3. ASSUME NEW g \in Live(H)', NEW h \in Live(H)', Twins(g, h)
        PROVE  g.slug \in torn' \/ (g.slug \in dropping' /\ g.inc = physical'[g.slug])
    BY Zenon, <1>7, <2>1, <2>3
  <2>4. ASSUME NEW h \in H, h.inc = physical'[h.slug]
        PROVE  h.slug \in torn' \cup dropping' \/ handlers'[h.slug] = h
    BY Zenon, <1>2, <1>9, <2>1, <2>4 DEF RouterInv
  <2> QED
    BY Zenon, <1>1, <1>2, <1>5, <1>8, <2>1, <2>2, <2>3, <2>4 DEF RouterInv
<1> QED
  BY Zenon, <1>10, <1>11 DEF drop_database

(* PostgreSQL drops the database, or refuses because somebody is connected.   *)
LEMMA RouterDrops ==
    ASSUME NEW H, RouterInv(H), NEW s \in Slug, deprovision_postgres_database(s, H)
    PROVE  RouterInv(H)'
<1>1. /\ dropping' = dropping \ {s} /\ backend' = backend /\ handlers' = handlers /\ opened' = opened
  BY Zenon DEF deprovision_postgres_database
<1>2. Live(H)' = Live(H)
  BY Zenon, <1>1 DEF Live
<1>3. ASSUME NEW h \in H PROVE h \in Handler /\ h.slug \in Slug /\ h.inc # 0
  BY Zenon, HandlerFields DEF RouterInv
<1>4. CASE torn' = torn \cup {s} /\ physical' = physical
  <2>1. ASSUME NEW g \in Live(H), NEW h \in Live(H), Twins(g, h)
        PROVE  g.slug \in torn' \/ (g.slug \in dropping' /\ g.inc = physical'[g.slug])
    BY Zenon, <1>1, <1>4, <2>1 DEF RouterInv
  <2>2. ASSUME NEW h \in H, h.inc = physical'[h.slug]
        PROVE  h.slug \in torn' \cup dropping' \/ handlers'[h.slug] = h
    BY Zenon, <1>1, <1>4, <2>2 DEF RouterInv
  <2> QED
    BY Zenon, <1>1, <1>2, <1>4, <2>1, <2>2 DEF RouterInv
<1>5. CASE /\ ~ \E h \in H \cup {handlers[s]} : h.slug = s /\ h.inc = physical[s]
           /\ physical' = [physical EXCEPT ![s] = 0] /\ torn' = torn
  <2>1. 0 \in 0..MaxOpened /\ 0 <= opened
    BY OpenedIsBounded DEF RouterInv
  <2>2. /\ physical' \in [Slug -> 0..MaxOpened] /\ physical'[s] = 0
        /\ \A x \in Slug : x # s => physical'[x] = physical[x]
    BY Zenon, <1>5, <2>1 DEF RouterInv
  <2>3. \A x \in Slug : physical'[x] <= opened'
    BY Zenon, <1>1, <2>1, <2>2 DEF RouterInv
  <2>4. ASSUME NEW g \in Live(H), NEW h \in Live(H), Twins(g, h)
        PROVE  g.slug \in torn' \/ (g.slug \in dropping' /\ g.inc = physical'[g.slug])
    <3>1. \/ g.slug \in torn
          \/ g.slug \in dropping /\ g.inc = physical[g.slug]
      BY Zenon, <2>4 DEF RouterInv
    <3>2. ASSUME g.slug = s, g.inc = physical[g.slug] PROVE FALSE
      <4>1. g \notin H \cup {handlers[s]} /\ h \notin H \cup {handlers[s]}
        BY Zenon, <1>5, <2>4, <3>2 DEF Twins
      <4> QED
        BY Zenon, <2>4, <3>2, <4>1, TwinsAreHandlers
    <3>3. CASE g.slug \in dropping /\ g.inc = physical[g.slug]
      <4>1. g.slug # s
        BY Zenon, <3>2, <3>3
      <4>2. g.slug \in Slug
        BY Zenon, <2>4, TwinsAreHandlers
      <4> QED
        BY Zenon, <1>1, <2>2, <3>3, <4>1, <4>2
    <3> QED
      BY Zenon, <1>5, <3>1, <3>3
  <2>5. ASSUME NEW h \in H, h.inc = physical'[h.slug]
        PROVE  h.slug \in torn' \cup dropping' \/ handlers'[h.slug] = h
    <3>1. h.slug # s /\ h.slug \in Slug
      BY Zenon, <1>3, <2>2, <2>5
    <3>2. h.inc = physical[h.slug]
      BY Zenon, <2>2, <2>5, <3>1
    <3> QED
      BY Zenon, <1>1, <1>5, <3>1, <3>2 DEF RouterInv
  <2> QED
    BY ZenonT(60), <1>1, <1>2, <1>5, <2>2, <2>3, <2>4, <2>5 DEF RouterInv
<1> QED
  BY Zenon, <1>4, <1>5 DEF deprovision_postgres_database

----------------------------------------------------------------------------
(* The stores and the requests *)

Cause == {"revoked", "suspended", "deleted"}
Unverified == {"revocation", "remember", "user", "member"}
Past == {"verified", "create", "check", "admitted"}

Begun == [phase : Unverified \cup {"verified", "create"}, j : Jti, t : Tenant,
          op : {"Read", "Write"}, now : {0}, handler : {0}, dead : SUBSET Cause]
Queued == [phase : {"check"}, j : Jti, t : Tenant, op : {"Write"}, now : 0..MaxClock,
           handler : Handler, dead : SUBSET Cause]
Admitted == [phase : {"admitted"}, t : Tenant, dead : SUBSET Cause, handler : Handler]

MembersOK(m) == m \in [Tenant -> [User -> GivenRole \cup {"admin", Nobody}]]

(* Only tenants have members, and a deleted tenant is not one; every token,   *)
(* issued or about to be, is a user's.                                        *)
StoresInv ==
    /\ tenants \cap gone = {}
    /\ MembersOK(members)
    /\ \A t \in Tenant, u \in User : members[t][u] # Nobody => t \in tenants
    /\ \A j \in DOMAIN jwts : jwts[j].sub \in User
    /\ issuing = Idle \/ issuing \in [phase : {"caller", "track"}, t : Tenant, u : User, grants : Asked]

(* What stood against the credential of a request that is still being         *)
(* verified still stands, or a deletion has wiped it; and each lookup it has  *)
(* passed has cleared one of them.  The instant of a queued write is past.    *)
RequestInv(q) ==
    /\ q \in {Idle} \cup Begun \cup Queued \cup Admitted
    /\ q.phase = "check" => q.now <= clock
    /\ q.phase \in Unverified =>
          /\ q.j \in DOMAIN jwts
          /\ "revoked" \in q.dead => q.j \in revocations \/ jwts[q.j].aud \in wiped
          /\ "suspended" \in q.dead => jwts[q.j].sub \in suspended
          /\ "deleted" \in q.dead => q.t \in gone
    /\ q.phase \in {"user", "member"} => ("revoked" \in q.dead => q.t \in wiped)
    /\ q.phase = "member" => "suspended" \notin q.dead
    /\ q.phase \in Past =>
          /\ "suspended" \notin q.dead /\ "deleted" \notin q.dead
          /\ "revoked" \in q.dead => q.t \in wiped

RequestsInv ==
    /\ reqs = [r \in Request |-> reqs[r]]
    /\ \A r \in Request : RequestInv(reqs[r])

(* The stores never take back a suspension, a deletion or a token; only a     *)
(* deletion takes back revocations.                                           *)
Grow ==
    /\ \A j \in DOMAIN jwts : j \in DOMAIN jwts' /\ jwts'[j] = jwts[j]
    /\ suspended \subseteq suspended' /\ gone \subseteq gone' /\ wiped \subseteq wiped'
    /\ \A j \in revocations : j \in revocations' \/ jwts[j].aud \in wiped'

(* A request's kind follows from its phase.                                   *)
LEMMA Kinds ==
    ASSUME NEW q \in {Idle} \cup Begun \cup Queued \cup Admitted
    PROVE  /\ q.phase \in Unverified \cup {"verified", "create"} => q \in Begun
           /\ q.phase = "check" => q \in Queued
           /\ q.phase = "admitted" => q \in Admitted
           /\ q.phase \in {"idle"} \cup Unverified \cup Past
<1>1. CASE q = Idle
  BY <1>1 DEF Idle, Unverified, Past
<1>2. CASE q \in Begun
  BY <1>2 DEF Begun, Unverified, Past
<1>3. CASE q \in Queued
  BY <1>3 DEF Queued, Unverified, Past
<1>4. CASE q \in Admitted
  BY <1>4 DEF Admitted, Unverified, Past
<1> QED
  BY <1>1, <1>2, <1>3, <1>4

(* The control plane's steps only let the stores grow, in that sense, and     *)
(* other steps leave them alone.                                              *)
LEMMA RequestsCarried ==
    ASSUME RequestsInv, Grow, reqs' = reqs, clock \in Nat, clock' \in Nat, clock <= clock'
    PROVE  RequestsInv'
<1>1. ASSUME NEW r \in Request PROVE RequestInv(reqs[r])'
  <2>1. PICK q : q = reqs[r]
    BY Zenon
  <2>2. RequestInv(q) /\ reqs'[r] = q
    BY Zenon, <2>1 DEF RequestsInv
  <2>3. q \in {Idle} \cup Begun \cup Queued \cup Admitted
    BY Zenon, <2>2 DEF RequestInv
  <2>4. q.phase = "check" => q.now <= clock'
    <3>1. ASSUME q.phase = "check" PROVE q.now \in Nat
      <4>1. q \in Queued
        BY Zenon, <2>3, <3>1, Kinds
      <4> QED
        BY <4>1, ClockIsBounded DEF Queued
    <3>2. ASSUME q.phase = "check" PROVE q.now <= clock
      BY Zenon, <2>2, <3>2 DEF RequestInv
    <3> QED
      BY <3>1, <3>2
  <2>5. ASSUME q.phase \in Unverified
        PROVE  /\ q.j \in DOMAIN jwts'
               /\ "revoked" \in q.dead => q.j \in revocations' \/ jwts'[q.j].aud \in wiped'
               /\ "suspended" \in q.dead => jwts'[q.j].sub \in suspended'
               /\ "deleted" \in q.dead => q.t \in gone'
    BY Zenon, <2>2, <2>5 DEF RequestInv, Grow
  <2>6. /\ q.phase \in {"user", "member"} => ("revoked" \in q.dead => q.t \in wiped')
        /\ q.phase = "member" => "suspended" \notin q.dead
        /\ q.phase \in Past =>
              /\ "suspended" \notin q.dead /\ "deleted" \notin q.dead
              /\ "revoked" \in q.dead => q.t \in wiped'
    BY Zenon, <2>2 DEF RequestInv, Grow
  <2> QED
    BY Zenon, <2>2, <2>3, <2>4, <2>5, <2>6 DEF RequestInv
<1> QED
  BY Zenon, <1>1 DEF RequestsInv

(* One request moves on.                                                      *)
LEMMA Replaced ==
    ASSUME RequestsInv, NEW r \in Request, NEW z, reqs' = [reqs EXCEPT ![r] = z],
           RequestInv(z), UNCHANGED <<stores, clock>>
    PROVE  /\ RequestsInv'
           /\ Held' \subseteq Held \cup (IF z.phase \in {"check", "admitted"} THEN {z.handler} ELSE {})
<1>1. /\ reqs' = [x \in Request |-> reqs'[x]] /\ reqs'[r] = z
      /\ \A x \in Request : x # r => reqs'[x] = reqs[x]
  BY DEF RequestsInv
<1>2. jwts' = jwts /\ revocations' = revocations /\ wiped' = wiped /\ suspended' = suspended
      /\ gone' = gone /\ clock' = clock
  BY Zenon DEF stores
<1>3. ASSUME NEW q, RequestInv(q) PROVE RequestInv(q)'
  BY Zenon, <1>2, <1>3 DEF RequestInv
<1>4. ASSUME NEW x \in Request PROVE RequestInv(reqs[x])'
  <2>1. PICK q : q = reqs'[x]
    BY Zenon
  <2>2. RequestInv(q)
    BY Zenon, <1>1, <2>1 DEF RequestsInv
  <2>3. RequestInv(q)'
    BY Zenon, <1>3, <2>2
  <2> QED
    BY Zenon, <2>1, <2>3 DEF RequestInv
<1>5. RequestsInv'
  BY Zenon, <1>1, <1>4 DEF RequestsInv
<1>6. ASSUME NEW h \in Held'
      PROVE  h \in Held \cup (IF z.phase \in {"check", "admitted"} THEN {z.handler} ELSE {})
  <2>1. PICK x \in Request : reqs'[x].phase \in {"check", "admitted"} /\ h = reqs'[x].handler
    BY Zenon DEF Held, Holding
  <2>2. CASE x = r
    BY Zenon, <1>1, <2>1, <2>2
  <2>3. CASE x # r
    BY Zenon, <1>1, <2>1, <2>3 DEF Held, Holding
  <2> QED
    BY <2>2, <2>3
<1> QED
  BY Zenon, <1>5, <1>6

(* The invariant of the way in.                                               *)
AdmissionInv == LimitInv /\ StoresInv /\ RequestsInv /\ RouterInv(Held)

(* Steps that leave a part alone: the limiter.                                *)
LEMMA LimitCarried ==
    ASSUME LimitInv, UNCHANGED <<clock, limitVars>>
    PROVE  LimitInv'
<1>1. clock' = clock /\ windows' = windows /\ passed' = passed
  BY Zenon DEF limitVars
<1>2. \A a \in Actor : Recent(a)' = Recent(a)
  BY Zenon, <1>1 DEF Recent
<1> QED
  BY Zenon, <1>1, <1>2 DEF LimitInv

(* The stores.                                                                *)
LEMMA StoresCarried ==
    ASSUME StoresInv, UNCHANGED <<stores, issuing>>
    PROVE  StoresInv'
  BY Zenon DEF StoresInv, stores

(* The router.                                                                *)
LEMMA RouterCarried ==
    ASSUME NEW H, RouterInv(H), UNCHANGED routerVars
    PROVE  RouterInv(H)'
<1>1. backend' = backend /\ handlers' = handlers /\ physical' = physical /\ opened' = opened
      /\ dropping' = dropping /\ torn' = torn
  BY Zenon DEF routerVars
<1>2. Live(H)' = Live(H)
  BY Zenon, <1>1 DEF Live
<1> QED
  BY Zenon, <1>1, <1>2 DEF RouterInv

(* The router's invariant for the handlers in use after a step.               *)
LEMMA RouterNow ==
    ASSUME NEW H, RouterInv(H)', Held' \subseteq H
    PROVE  RouterInv(Held)'
<1>1. PICK G : G = Held'
  BY Zenon
<1>2. Live(G)' \subseteq Live(H)'
  BY Zenon, <1>1 DEF Live
<1>3. RouterInv(G)'
  BY Zenon, <1>1, <1>2 DEF RouterInv
<1> QED
  BY Zenon, <1>1, <1>3 DEF RouterInv, Live

(* A request moves on without a handler, and nothing else happens but what    *)
(* the invariant does not depend on.                                          *)
LEMMA Unheld ==
    ASSUME AdmissionInv, NEW r \in Request, NEW z, reqs' = [reqs EXCEPT ![r] = z],
           RequestInv(z), z.phase \notin {"check", "admitted"},
           UNCHANGED <<stores, issuing, clock, routerVars, limitVars>>
    PROVE  AdmissionInv'
<1>1. UNCHANGED stores /\ UNCHANGED issuing /\ clock' = clock /\ UNCHANGED routerVars /\ UNCHANGED limitVars
  OBVIOUS
<1>2. LimitInv'
  BY Zenon, <1>1, LimitCarried DEF AdmissionInv
<1>3. StoresInv'
  BY Zenon, <1>1, StoresCarried DEF AdmissionInv
<1>4. RequestsInv' /\ Held' \subseteq Held
  BY Zenon, <1>1, Replaced DEF AdmissionInv
<1>5. PICK H : H = Held
  BY Zenon
<1>6. RouterInv(H)'
  BY Zenon, <1>1, <1>5, RouterCarried DEF AdmissionInv
<1>7. RouterInv(Held)'
  BY Zenon, <1>4, <1>5, <1>6, RouterNow
<1> QED
  BY Zenon, <1>2, <1>3, <1>4, <1>7 DEF AdmissionInv

----------------------------------------------------------------------------
(* The steps of a request *)

(* Records of requests: one that ended.                                       *)
LEMMA IdleIs == RequestInv(Idle) /\ Idle.phase = "idle"
<1>1. Idle.phase = "idle"
  BY DEF Idle
<1>2. "idle" \notin Unverified /\ "idle" \notin Past /\ "idle" \notin {"user", "member"}
      /\ "idle" # "member" /\ "idle" # "check"
  BY DEF Unverified, Past
<1> QED
  BY Zenon, <1>1, <1>2 DEF RequestInv

(* One that begins.                                                           *)
LEMMA BeginsWith ==
    ASSUME NEW j \in Jti, NEW t \in Tenant, NEW op \in {"Read", "Write"}, NEW d \in SUBSET Cause,
           NEW z, z = [phase |-> "revocation", j |-> j, t |-> t, op |-> op, now |-> 0,
                       handler |-> 0, dead |-> d]
    PROVE  z \in Begun /\ z.phase = "revocation" /\ z.j = j /\ z.t = t /\ z.dead = d
  BY DEF Begun, Unverified

(* The next phase.                                                            *)
LEMMA ProceedsTo ==
    ASSUME NEW q \in Begun, NEW p \in Unverified \cup {"verified", "create"},
           NEW z, z = [q EXCEPT !.phase = p]
    PROVE  z \in Begun /\ z.phase = p /\ z.j = q.j /\ z.t = q.t /\ z.dead = q.dead
  BY DEF Begun

(* One in the limiter's queue.                                                *)
InQueue(q, h, c) == [q EXCEPT !.phase = "check", !.handler = h, !.now = c]

(* It keeps what the verification found.                                      *)
LEMMA QueuesAs ==
    ASSUME NEW q \in Begun, q.op = "Write", NEW h \in Handler, NEW c \in 0..MaxClock,
           NEW z, z = InQueue(q, h, c)
    PROVE  /\ z \in Queued /\ z.phase = "check" /\ z.handler = h /\ z.now = c
           /\ z.t = q.t /\ z.dead = q.dead
  BY Zenon DEF Begun, Queued, InQueue

(* One that is in.                                                            *)
LEMMA AdmitsAs ==
    ASSUME NEW t \in Tenant, NEW d \in SUBSET Cause, NEW h \in Handler,
           NEW z, z = [phase |-> "admitted", t |-> t, dead |-> d, handler |-> h]
    PROVE  z \in Admitted /\ z.phase = "admitted" /\ z.handler = h /\ z.t = t /\ z.dead = d
  BY DEF Admitted

(* A request that is past the verification keeps what the verification found. *)
LEMMA StaysPast ==
    ASSUME NEW q, NEW z, RequestInv(q), q.phase \in Past, z \in Begun \cup Queued \cup Admitted,
           z.phase \in Past, z.t = q.t, z.dead = q.dead, z.phase = "check" => z.now <= clock
    PROVE  RequestInv(z)
<1>1. z.phase \notin Unverified /\ z.phase \notin {"user", "member"} /\ z.phase # "member"
  BY DEF Unverified, Past
<1> QED
  BY Zenon, <1>1 DEF RequestInv

(* verify_request_inner up to the cache: the request remembers what stood     *)
(* against its credential.                                                    *)
LEMMA VerifyBegins ==
    ASSUME AdmissionInv, NEW r \in Request, NEW j \in Jti, NEW t \in Tenant,
           NEW op \in {"Read", "Write"}, verify_request_inner(r, j, t, op),
           UNCHANGED <<routerVars, limitVars>>
    PROVE  AdmissionInv'
<1>1. PICK d : d = (IF j \in revocations THEN {"revoked"} ELSE {})
                   \cup (IF jwts[j].sub \in suspended THEN {"suspended"} ELSE {})
                   \cup (IF t \in gone THEN {"deleted"} ELSE {})
  BY Zenon
<1>2. /\ d \in SUBSET Cause
      /\ "revoked" \in d => j \in revocations
      /\ "suspended" \in d => jwts[j].sub \in suspended
      /\ "deleted" \in d => t \in gone
  BY <1>1 DEF Cause
<1>3. PICK z : z = [phase |-> "revocation", j |-> j, t |-> t, op |-> op, now |-> 0,
                    handler |-> 0, dead |-> d]
  BY Zenon
<1>4. z \in Begun /\ z.phase = "revocation" /\ z.j = j /\ z.t = t /\ z.dead = d
  BY <1>2, <1>3, BeginsWith
<1>5. reqs' = [reqs EXCEPT ![r] = z] /\ j \in DOMAIN jwts
      /\ UNCHANGED <<stores, issuing, clock, routerVars, limitVars>>
  BY Zenon, <1>1, <1>3 DEF verify_request_inner, handlers_
<1>6. "revocation" \notin Past /\ "revocation" # "check" /\ "revocation" \notin {"user", "member"}
      /\ "revocation" # "member" /\ "revocation" \notin {"check", "admitted"}
  BY DEF Past
<1>7. RequestInv(z)
  BY Zenon, <1>2, <1>4, <1>5, <1>6 DEF RequestInv
<1> QED
  BY Zenon, <1>4, <1>5, <1>6, <1>7, Unheld

(* A refused request, or one whose operation is done.                         *)
LEMMA Refused ==
    ASSUME AdmissionInv, NEW r \in Request, Refuse(r),
           UNCHANGED <<stores, issuing, clock, routerVars, limitVars>>
    PROVE  AdmissionInv'
<1>1. reqs' = [reqs EXCEPT ![r] = Idle]
  BY Zenon DEF Refuse
<1>2. Idle.phase \notin {"check", "admitted"}
  BY IdleIs
<1> QED
  BY Zenon, <1>1, <1>2, IdleIs, Unheld

(* A lookup of the verification that lets the request go on.                  *)
LEMMA Proceeds ==
    ASSUME AdmissionInv, NEW r \in Request, NEW p \in Unverified \cup {"verified", "create"},
           Proceed(r, p), reqs[r].phase \in Unverified \cup {"verified", "create"},
           UNCHANGED <<stores, issuing, clock, routerVars, limitVars>>,
           \A z \in Begun : /\ z.phase = p /\ z.j = reqs[r].j
                            /\ z.t = reqs[r].t /\ z.dead = reqs[r].dead
                            => RequestInv(z)
    PROVE  AdmissionInv'
<1>1. PICK q, z : q = reqs[r] /\ z = [q EXCEPT !.phase = p]
  BY Zenon
<1>2. q \in Begun
  BY Zenon, <1>1, Kinds DEF AdmissionInv, RequestsInv, RequestInv
<1>3. z \in Begun /\ z.phase = p /\ z.j = q.j /\ z.t = q.t /\ z.dead = q.dead
  BY <1>1, <1>2, ProceedsTo
<1>4. reqs' = [reqs EXCEPT ![r] = z]
  <2>1. reqs' = [reqs EXCEPT ![r] = [reqs[r] EXCEPT !.phase = p]]
    BY DEF Proceed
  <2> QED
    BY Zenon, <1>1, <2>1
<1>5. p \notin {"check", "admitted"}
  BY DEF Unverified
<1>6. RequestInv(z)
  BY Zenon, <1>1, <1>3
<1> QED
  BY Zenon, <1>3, <1>4, <1>5, <1>6, Unheld

(* verify_request_inner, every lookup.                                        *)
LEMMA VerifyStep ==
    ASSUME AdmissionInv, NEW r \in Request, Verify(r), UNCHANGED <<routerVars, limitVars>>
    PROVE  AdmissionInv'
<1>1. PICK q : q = reqs[r]
  BY Zenon
<1>2. RequestInv(q)
  BY Zenon, <1>1 DEF AdmissionInv, RequestsInv
<1>3. \A p \in {"revocation", "remember", "user", "member"} : p \in Unverified
  BY DEF Unverified
<1>4. CASE CheckRevocation(r)
  <2>1. q.phase = "revocation" /\ UNCHANGED <<stores, issuing, clock, routerVars, limitVars>>
    BY Zenon, <1>1, <1>4 DEF CheckRevocation, handlers_
  <2>2. CASE Proceed(r, "remember")
    <3>1. ASSUME NEW z \in Begun, z.phase = "remember", z.j = q.j, z.t = q.t, z.dead = q.dead
          PROVE  RequestInv(z)
      <4>1. "remember" \notin Past /\ "remember" # "check" /\ "remember" \notin {"user", "member"}
            /\ "remember" # "member"
        BY DEF Past
      <4> QED
        BY Zenon, <1>2, <1>3, <2>1, <3>1, <4>1 DEF RequestInv
    <3> QED
      BY Zenon, <1>1, <1>3, <2>1, <2>2, <3>1, Proceeds
  <2>3. CASE Proceed(r, "user") /\ q.j \notin revocations /\ q.t = jwts[q.j].aud
    <3>1. ASSUME NEW z \in Begun, z.phase = "user", z.j = q.j, z.t = q.t, z.dead = q.dead
          PROVE  RequestInv(z)
      <4>1. "user" \notin Past /\ "user" # "check" /\ "user" # "member"
        BY DEF Past
      <4>2. "revoked" \in q.dead => q.t \in wiped
        BY Zenon, <1>2, <1>3, <2>1, <2>3 DEF RequestInv
      <4> QED
        BY Zenon, <1>2, <1>3, <2>1, <3>1, <4>1, <4>2 DEF RequestInv
    <3> QED
      BY Zenon, <1>1, <1>3, <2>1, <2>3, <3>1, Proceeds
  <2>4. CASE Refuse(r)
    BY Zenon, <2>1, <2>4, Refused
  <2> QED
    BY Zenon, <1>1, <1>4, <2>2, <2>3, <2>4 DEF CheckRevocation
<1>5. CASE RememberRevocation(r)
  BY Zenon, <1>5, Refused DEF RememberRevocation, handlers_
<1>6. CASE CheckUser(r)
  <2>1. q.phase = "user" /\ UNCHANGED <<stores, issuing, clock, routerVars, limitVars>>
    BY Zenon, <1>1, <1>6 DEF CheckUser, handlers_
  <2>2. CASE Proceed(r, "member") /\ jwts[q.j].sub \notin suspended
    <3>1. ASSUME NEW z \in Begun, z.phase = "member", z.j = q.j, z.t = q.t, z.dead = q.dead
          PROVE  RequestInv(z)
      <4>1. "member" \notin Past /\ "member" # "check" /\ "user" \in {"user", "member"}
        BY DEF Past
      <4>2. "suspended" \notin q.dead
        BY Zenon, <1>2, <1>3, <2>1, <2>2 DEF RequestInv
      <4> QED
        BY Zenon, <1>2, <1>3, <2>1, <3>1, <4>1, <4>2 DEF RequestInv
    <3> QED
      BY Zenon, <1>1, <1>3, <2>1, <2>2, <3>1, Proceeds
  <2>3. CASE Refuse(r)
    BY Zenon, <2>1, <2>3, Refused
  <2> QED
    BY Zenon, <1>1, <1>6, <2>2, <2>3 DEF CheckUser
<1>7. CASE CheckMember(r)
  <2>1. q.phase = "member" /\ UNCHANGED <<stores, issuing, clock, routerVars, limitVars>>
    BY Zenon, <1>1, <1>7 DEF CheckMember, handlers_
  <2>2. CASE Proceed(r, "verified") /\ members[q.t][jwts[q.j].sub] # Nobody
    <3>1. ASSUME NEW z \in Begun, z.phase = "verified", z.j = q.j, z.t = q.t, z.dead = q.dead
          PROVE  RequestInv(z)
      <4>1. "verified" \notin Unverified /\ "verified" # "check" /\ "verified" # "member"
            /\ "verified" \notin {"user", "member"} /\ "member" \in {"user", "member"}
        BY DEF Unverified
      <4>2. q \in Begun /\ q.t \in Tenant
        BY <1>2, <1>3, <2>1, Kinds DEF RequestInv, Begun
      <4>3. jwts[q.j].sub \in User
        BY Zenon, <1>2, <1>3, <2>1 DEF RequestInv, AdmissionInv, StoresInv
      <4>4. q.t \in tenants
        BY Zenon, <2>2, <4>2, <4>3 DEF AdmissionInv, StoresInv
      <4>5. q.t \notin gone
        BY Zenon, <4>4 DEF AdmissionInv, StoresInv
      <4>6. "deleted" \notin q.dead /\ "suspended" \notin q.dead /\ ("revoked" \in q.dead => q.t \in wiped)
        BY Zenon, <1>2, <1>3, <2>1, <4>1, <4>5 DEF RequestInv
      <4> QED
        BY Zenon, <3>1, <4>1, <4>6 DEF RequestInv
    <3>2. /\ "verified" \in Unverified \cup {"verified", "create"}
          /\ reqs[r].phase \in Unverified \cup {"verified", "create"}
      BY Zenon, <1>1, <1>3, <2>1
    <3> QED
      BY Zenon, <1>1, <2>1, <2>2, <3>1, <3>2, Proceeds
  <2>3. CASE Refuse(r)
    BY Zenon, <2>1, <2>3, Refused
  <2> QED
    BY Zenon, <1>1, <1>7, <2>2, <2>3 DEF CheckMember
<1>8. CASE \E j \in Jti, t \in Tenant, op \in {"Read", "Write"} : verify_request_inner(r, j, t, op)
  BY Zenon, <1>8, VerifyBegins
<1> QED
  BY Zenon, <1>4, <1>5, <1>6, <1>7, <1>8 DEF Verify

(* A request takes a handler: it is in, or in the limiter's queue.            *)
LEMMA Enters ==
    ASSUME RequestsInv, LimitInv, NEW r \in Request, NEW h \in Handler,
           reqs[r].phase \in {"verified", "create"}, Enter(r, h), UNCHANGED <<stores, clock>>
    PROVE  RequestsInv' /\ Held' \subseteq Held \cup {h}
<1>1. PICK q, c : q = reqs[r] /\ c = clock
  BY Zenon
<1>2. RequestInv(q) /\ q.phase \in Past /\ q \in Begun
  <2>1. RequestInv(q)
    BY Zenon, <1>1 DEF RequestsInv
  <2>2. q.phase \in Past
    BY <1>1 DEF Past
  <2>3. q \in {Idle} \cup Begun \cup Queued \cup Admitted
    BY Zenon, <2>1 DEF RequestInv
  <2> QED
    BY Zenon, <1>1, <2>1, <2>2, <2>3, Kinds
<1>3. c \in 0..MaxClock /\ c <= c /\ q.t \in Tenant /\ q.dead \in SUBSET Cause
  <2>1. c \in 0..MaxClock
    BY Zenon, <1>1 DEF LimitInv
  <2>2. q.t \in Tenant /\ q.dead \in SUBSET Cause
    BY <1>2 DEF Begun
  <2> QED
    BY <2>1, <2>2, ClockIsBounded
<1>4. "check" \in Past /\ "admitted" \in Past /\ "admitted" # "check"
      /\ "check" \in {"check", "admitted"} /\ "admitted" \in {"check", "admitted"}
  BY DEF Past
<1>5. CASE q.op = "Write"
  <2>1. PICK z : z = InQueue(reqs[r], h, clock)
    BY Zenon
  <2>2. reqs' = [reqs EXCEPT ![r] = z]
    <3>1. reqs[r].op = "Write"
      BY Zenon, <1>1, <1>5
    <3>2. reqs' = [reqs EXCEPT ![r] = InQueue(reqs[r], h, clock)]
      BY Zenon, <3>1 DEF Enter, InQueue
    <3> QED
      BY Zenon, <2>1, <3>2
  <2>3. z \in Queued /\ z.phase = "check" /\ z.handler = h /\ z.now = c /\ z.t = q.t /\ z.dead = q.dead
    <3>1. z = InQueue(q, h, c) /\ q \in Begun /\ c \in 0..MaxClock
      BY Zenon, <1>1, <1>2, <1>3, <2>1
    <3> QED
      BY <1>5, <3>1, QueuesAs
  <2>4. RequestInv(z)
    BY Zenon, <1>1, <1>2, <1>3, <1>4, <2>3, StaysPast
  <2> QED
    BY Zenon, <1>4, <2>2, <2>3, <2>4, Replaced
<1>6. CASE q.op # "Write"
  <2>1. PICK z : z = [phase |-> "admitted", t |-> q.t, dead |-> q.dead, handler |-> h]
    BY Zenon
  <2>2. reqs' = [reqs EXCEPT ![r] = z]
    BY Zenon, <1>1, <1>6, <2>1 DEF Enter
  <2>3. z \in Admitted /\ z.phase = "admitted" /\ z.handler = h /\ z.t = q.t /\ z.dead = q.dead
    BY <1>3, <2>1, AdmitsAs
  <2>4. RequestInv(z)
    BY Zenon, <1>2, <1>4, <2>3, StaysPast
  <2> QED
    BY Zenon, <1>4, <2>2, <2>3, <2>4, Replaced
<1> QED
  BY <1>5, <1>6

(* The tenant a request addresses has a slug.                                 *)
LEMMA TenantOf ==
    ASSUME RequestsInv, NEW r \in Request, reqs[r].phase \in {"verified", "create"}
    PROVE  reqs[r].t \in Slug /\ reqs[r].phase \in Unverified \cup {"verified", "create"}
<1>1. PICK q : q = reqs[r]
  BY Zenon
<1>2. q \in {Idle} \cup Begun \cup Queued \cup Admitted /\ q.phase \in {"verified", "create"}
  BY Zenon, <1>1 DEF RequestsInv, RequestInv
<1>3. q \in Begun
  BY Zenon, <1>2, Kinds
<1>4. q.t \in Tenant
  BY <1>3 DEF Begun
<1> QED
  BY Zenon, <1>1, <1>2, <1>4, SlugPerTenant

(* The fast path of the router.                                               *)
LEMMA ResolveStep ==
    ASSUME AdmissionInv, NEW r \in Request, resolve_tenant_handler(r)
    PROVE  AdmissionInv'
<1>1. PICK q, s, h : q = reqs[r] /\ s = q.t /\ h = handlers[s]
  BY Zenon
<1>2. /\ UNCHANGED stores /\ UNCHANGED issuing /\ clock' = clock /\ UNCHANGED routerVars
      /\ UNCHANGED limitVars /\ q.phase = "verified"
  BY Zenon, <1>1 DEF resolve_tenant_handler, handlers_
<1>3. s \in Slug /\ q.phase \in Unverified \cup {"verified", "create"}
  BY Zenon, <1>1, <1>2, TenantOf DEF AdmissionInv
<1>4. CASE h # NoHandler
  <2>1. Enter(r, h) /\ h \in Handler
    BY Zenon, <1>1, <1>3, <1>4 DEF resolve_tenant_handler, AdmissionInv, RouterInv
  <2>2. RequestsInv' /\ Held' \subseteq Held \cup {h}
    BY Zenon, <1>1, <1>2, <2>1, Enters DEF AdmissionInv
  <2>3. PICK H : H = Held
    BY Zenon
  <2>4. RouterInv(H)' /\ h = handlers'[s]
    BY Zenon, <1>1, <1>2, <2>3, RouterCarried DEF AdmissionInv, routerVars
  <2>5. RouterInv(H \cup {h})'
    BY Zenon, <1>3, <1>4, <2>4, RouterTakes
  <2>6. RouterInv(Held)'
    BY Zenon, <2>2, <2>3, <2>5, RouterNow
  <2> QED
    BY Zenon, <1>2, <2>2, <2>6, LimitCarried, StoresCarried DEF AdmissionInv
<1>5. CASE h = NoHandler
  <2>1. Proceed(r, "create")
    BY Zenon, <1>1, <1>5 DEF resolve_tenant_handler
  <2>2. "create" \in Past /\ "verified" \in Past /\ "create" # "check"
    BY DEF Past
  <2>3. RequestInv(q)
    BY Zenon, <1>1 DEF AdmissionInv, RequestsInv
  <2>4. ASSUME NEW z \in Begun, z.phase = "create", z.j = q.j, z.t = q.t, z.dead = q.dead
        PROVE  RequestInv(z)
    BY Zenon, <1>2, <2>2, <2>3, <2>4, StaysPast
  <2> QED
    BY Zenon, <1>1, <1>2, <1>3, <2>1, <2>4, Proceeds
<1> QED
  BY <1>4, <1>5

(* The slow path: the cached handler, a new one, or an error.                 *)
LEMMA CreateStep ==
    ASSUME AdmissionInv, NEW r \in Request, CreateHandler(r)
    PROVE  AdmissionInv'
<1>1. PICK q, s, H, h : q = reqs[r] /\ s = q.t /\ H = Held /\ h = handlers'[s]
  BY Zenon
<1>2. /\ UNCHANGED stores /\ UNCHANGED issuing /\ clock' = clock /\ UNCHANGED limitVars
      /\ q.phase = "create"
  BY Zenon, <1>1 DEF CreateHandler, handlers_
<1>3. s \in Slug /\ RouterInv(H)
  BY Zenon, <1>1, <1>2, TenantOf DEF AdmissionInv
<1>4. CASE get_or_create(s) /\ Enter(r, h)
  <2>1. RouterInv(H)' /\ h # NoHandler
    <3>1. CASE handlers[s] # NoHandler /\ UNCHANGED routerVars
      BY Zenon, <1>1, <1>3, <3>1, RouterCarried DEF routerVars
    <3>2. CASE handlers[s] = NoHandler /\ Open(s)
      BY Zenon, <1>1, <1>3, <3>2, RouterOpens
    <3> QED
      BY Zenon, <1>4, <3>1, <3>2 DEF get_or_create
  <2>2. h \in Handler
    BY ZenonT(60), <1>1, <1>3, <2>1 DEF RouterInv
  <2>3. RequestsInv' /\ Held' \subseteq H \cup {h}
    BY Zenon, <1>1, <1>2, <1>4, <2>2, Enters DEF AdmissionInv
  <2>4. RouterInv(H \cup {h})'
    BY Zenon, <1>1, <1>3, <2>1, RouterTakes
  <2>5. RouterInv(Held)'
    BY Zenon, <2>3, <2>4, RouterNow
  <2> QED
    BY Zenon, <1>2, <2>3, <2>5, LimitCarried, StoresCarried DEF AdmissionInv
<1>5. CASE Refuse(r) /\ UNCHANGED routerVars
  BY Zenon, <1>2, <1>5, Refused
<1> QED
  BY Zenon, <1>1, <1>4, <1>5 DEF CreateHandler

(* The limiter lets a write through or turns it away.                         *)
LEMMA CheckStep ==
    ASSUME AdmissionInv, NEW r \in Request, check(r)
    PROVE  AdmissionInv'
<1>1. PICK q, a : q = reqs[r] /\ a = ActorOf[r]
  BY Zenon
<1>2. /\ UNCHANGED stores /\ UNCHANGED issuing /\ clock' = clock /\ UNCHANGED routerVars
      /\ q.phase = "check" /\ check_at(a, q.now)
  BY Zenon, <1>1 DEF check, handlers_
<1>3. RequestInv(q) /\ q \in Queued /\ q.now <= clock
  <2>1. RequestInv(q)
    BY Zenon, <1>1 DEF AdmissionInv, RequestsInv
  <2> QED
    BY Zenon, <1>2, <2>1, Kinds DEF RequestInv
<1>4. q.now \in 0..MaxClock /\ q.t \in Tenant /\ q.dead \in SUBSET Cause /\ q.handler \in Handler
  BY <1>3 DEF Queued
<1>5. a \in Actor
  BY Zenon, <1>1, OneActorEach
<1>6. LimitInv'
  BY Zenon, <1>2, <1>3, <1>4, <1>5, CheckLimit DEF AdmissionInv
<1>7. StoresInv'
  BY Zenon, <1>2, StoresCarried DEF AdmissionInv
<1>8. RequestsInv' /\ Held' \subseteq Held
  <2>1. CASE Refuse(r)
    <3>1. reqs' = [reqs EXCEPT ![r] = Idle]
      BY Zenon, <2>1 DEF Refuse
    <3>2. Idle.phase \notin {"check", "admitted"}
      BY IdleIs
    <3> QED
      BY Zenon, <1>2, <3>1, <3>2, IdleIs, Replaced DEF AdmissionInv
  <2>2. CASE reqs' = [reqs EXCEPT ![r] = [phase |-> "admitted", t |-> @.t, dead |-> @.dead,
                                          handler |-> @.handler]]
    <3>1. PICK z : z = [phase |-> "admitted", t |-> q.t, dead |-> q.dead, handler |-> q.handler]
      BY Zenon
    <3>2. reqs' = [reqs EXCEPT ![r] = z]
      BY Zenon, <1>1, <2>2, <3>1
    <3>3. z \in Admitted /\ z.phase = "admitted" /\ z.handler = q.handler /\ z.t = q.t /\ z.dead = q.dead
      BY <1>4, <3>1, AdmitsAs
    <3>4. "check" \in Past /\ "admitted" \in Past /\ "admitted" # "check"
      BY DEF Past
    <3>5. RequestInv(z)
      BY Zenon, <1>2, <1>3, <3>3, <3>4, StaysPast
    <3>6. q.handler \in Held
      BY Zenon, <1>1, <1>2 DEF Held, Holding
    <3> QED
      BY Zenon, <1>2, <3>2, <3>3, <3>5, <3>6, Replaced DEF AdmissionInv
  <2> QED
    BY Zenon, <2>1, <2>2 DEF check
<1>9. PICK H : H = Held
  BY Zenon
<1>10. RouterInv(H)'
  BY Zenon, <1>2, <1>9, RouterCarried DEF AdmissionInv
<1>11. RouterInv(Held)'
  BY Zenon, <1>8, <1>9, <1>10, RouterNow
<1> QED
  BY Zenon, <1>6, <1>7, <1>8, <1>11 DEF AdmissionInv

----------------------------------------------------------------------------
(* Everything else *)

(* Nothing happens to the stores.                                             *)
LEMMA StoresStill ==
    ASSUME UNCHANGED stores
    PROVE  Grow
  BY Zenon DEF stores, Grow

(* A database is dropped.                                                     *)
LEMMA DropStep ==
    ASSUME AdmissionInv, NEW s \in Slug, Drop(s)
    PROVE  AdmissionInv'
<1>1. PICK H : H = Held
  BY Zenon
<1>2. /\ UNCHANGED stores /\ UNCHANGED issuing /\ clock' = clock /\ reqs' = reqs
      /\ UNCHANGED limitVars /\ (drop_database(s) \/ deprovision_postgres_database(s, H))
  BY Zenon, <1>1 DEF Drop, handlers_
<1>3. RouterInv(H)'
  BY Zenon, <1>1, <1>2, RouterForgets, RouterDrops DEF AdmissionInv
<1>4. Held' \subseteq H
  BY Zenon, <1>1, <1>2 DEF Held, Holding
<1>5. RouterInv(Held)'
  BY Zenon, <1>3, <1>4, RouterNow
<1>6. clock \in Nat /\ clock' \in Nat /\ clock <= clock'
  BY <1>2, ClockIsBounded DEF AdmissionInv, LimitInv
<1>7. RequestsInv'
  BY Zenon, <1>2, <1>6, StoresStill, RequestsCarried DEF AdmissionInv
<1> QED
  BY Zenon, <1>2, <1>5, <1>7, LimitCarried, StoresCarried DEF AdmissionInv

(* Time passes.                                                               *)
LEMMA TickStep ==
    ASSUME AdmissionInv, Tick, Forget(clock + 1), UNCHANGED routerVars
    PROVE  AdmissionInv'
<1>1. PICK H : H = Held
  BY Zenon
<1>2. UNCHANGED stores /\ UNCHANGED issuing /\ clock < MaxClock /\ clock' = clock + 1 /\ reqs' = reqs
  BY Zenon DEF Tick, handlers_
<1>3. LimitInv'
  BY Zenon, <1>2, TickLimit DEF AdmissionInv
<1>4. clock \in Nat /\ clock' \in Nat /\ clock <= clock'
  BY <1>2, ClockIsBounded DEF AdmissionInv, LimitInv
<1>5. RequestsInv'
  BY Zenon, <1>2, <1>4, StoresStill, RequestsCarried DEF AdmissionInv
<1>6. RouterInv(H)' /\ Held' \subseteq H
  BY Zenon, <1>1, <1>2, RouterCarried DEF AdmissionInv, Held, Holding
<1>7. RouterInv(Held)'
  BY Zenon, <1>6, RouterNow
<1> QED
  BY Zenon, <1>2, <1>3, <1>5, <1>7, StoresCarried DEF AdmissionInv

(* With empty deques and no request, only the stores and the databases        *)
(* matter: at first, and after a restart.                                     *)
FreshProcess ==
    /\ clock \in 0..MaxClock
    /\ windows = [a \in Actor |-> <<>>]
    /\ passed = [a \in Actor |-> [t \in 0..MaxClock |-> 0]]
    /\ reqs = [r \in Request |-> Idle]

(* What such a process satisfies.                                             *)
LEMMA Fresh == FreshProcess => LimitInv /\ RequestsInv /\ Held = {}
<1> SUFFICES ASSUME FreshProcess PROVE LimitInv /\ RequestsInv /\ Held = {}
  OBVIOUS
<1>1. /\ windows \in [Actor -> Seq(Nat)]
      /\ \A a \in Actor : windows[a] = <<>> /\ Len(windows[a]) <= MaxWrites
  BY LimitAssumption DEF FreshProcess
<1>2. 0 \in Nat /\ 1..0 = {}
  OBVIOUS
<1>3. passed \in [Actor -> [0..MaxClock -> Nat]] /\ \A a \in Actor, t \in 0..MaxClock : passed[a][t] = 0
  BY Zenon, <1>2 DEF FreshProcess
<1>4. ASSUME NEW a \in Actor PROVE Covers(windows[a], Recent(a))
  <2>1. Recent(a) = {}
    <3>1. ASSUME NEW p \in Writes(passed[a], clock) PROVE FALSE
      <4>1. PICK t \in 0..clock : \E i \in 1..passed[a][t] : p = <<t, i>>
        BY <3>1, WritesOut
      <4>2. t \in 0..MaxClock
        BY ClockIsBounded DEF FreshProcess
      <4> QED
        BY Zenon, <1>2, <1>3, <4>1, <4>2
    <3> QED
      BY Zenon, <3>1 DEF Recent, Writes
  <2>2. PICK f : f = [p \in {} |-> p]
    BY Zenon
  <2>3. f \in [{} -> 1..Len(windows[a])]
    BY Zenon, <2>2
  <2> QED
    BY Zenon, <2>1, <2>3 DEF Covers
<1>5. LimitInv
  BY Zenon, <1>1, <1>3, <1>4 DEF LimitInv, FreshProcess
<1>6. \A r \in Request : reqs[r] = Idle
  BY Zenon DEF FreshProcess
<1>7. RequestsInv
  BY Zenon, <1>6, IdleIs DEF RequestsInv, FreshProcess
<1>8. \A r \in Request : reqs[r].phase \notin {"check", "admitted"}
  BY <1>6, IdleIs
<1> QED
  BY Zenon, <1>5, <1>7, <1>8 DEF Held, Holding

(* A router without cached handlers, and nothing in use.                      *)
EmptyRouter ==
    /\ handlers = [s \in Slug |-> NoHandler]
    /\ physical \in [Slug -> 0..MaxOpened]
    /\ opened \in 0..MaxOpened
    /\ \A s \in Slug : physical[s] <= opened
    /\ dropping = {}

(* It has the router's invariant.                                             *)
LEMMA FreshRouter == EmptyRouter => RouterInv({})
<1> SUFFICES ASSUME EmptyRouter PROVE RouterInv({})
  OBVIOUS
<1> USE DEF EmptyRouter
<1>1. \A h \in Live({}) : h = NoHandler
  BY Zenon DEF Live
<1>2. NoHandler.inc <= opened
  BY OpenedIsBounded DEF NoHandler
<1>3. \A s \in Slug : handlers[s] = NoHandler
  BY Zenon
<1> QED
  BY Zenon, <1>1, <1>2, <1>3 DEF RouterInv, Twins

(* A restart.                                                                 *)
LEMMA RestartStep ==
    ASSUME AdmissionInv, Restart
    PROVE  AdmissionInv'
<1>1. /\ UNCHANGED stores /\ issuing' = Idle /\ clock' = clock /\ physical' = physical /\ opened' = opened
      /\ reqs' = [r \in Request |-> Idle] /\ handlers' = [s \in Slug |-> NoHandler]
      /\ windows' = [a \in Actor |-> <<>>] /\ dropping' = {}
      /\ passed' = [a \in Actor |-> [t \in 0..MaxClock |-> 0]]
  BY Zenon DEF Restart
<1>2. FreshProcess' /\ EmptyRouter'
  BY Zenon, <1>1 DEF AdmissionInv, LimitInv, RouterInv, FreshProcess, EmptyRouter
<1>3. LimitInv' /\ RequestsInv' /\ (Held = {})'
  BY <1>2, Fresh, PTL
<1>4. RouterInv({})'
  BY <1>2, FreshRouter, PTL
<1>5. RouterInv(Held)'
  BY Zenon, <1>3, <1>4, RouterNow
<1>6. StoresInv'
  BY Zenon, <1>1 DEF AdmissionInv, StoresInv, stores
<1> QED
  BY Zenon, <1>3, <1>5, <1>6 DEF AdmissionInv

(* One member's role is set.                                                  *)
RoleSet(m, t, u, role) == [m EXCEPT ![t] = [m[t] EXCEPT ![u] = role]]

(* The rest stays as it was.                                                  *)
LEMMA MemberSet ==
    ASSUME NEW m, MembersOK(m), NEW t \in Tenant, NEW u \in User,
           NEW role \in GivenRole \cup {"admin", Nobody},
           NEW n, n = RoleSet(m, t, u, role)
    PROVE  MembersOK(n) /\ \A x \in Tenant : x # t => n[x] = m[x]
<1>1. PICK row : row = [m[t] EXCEPT ![u] = role]
  BY Zenon
<1>2. row \in [User -> GivenRole \cup {"admin", Nobody}]
  BY Zenon, <1>1 DEF MembersOK
<1> QED
  BY Zenon, <1>1, <1>2 DEF MembersOK, RoleSet

(* The control plane: the stores keep their invariant and only grow.          *)
LEMMA AdministerStores ==
    ASSUME StoresInv, Administer
    PROVE  StoresInv' /\ Grow /\ reqs' = reqs /\ clock' = clock
<1>1. CASE \E t \in Tenant : create_tenant(t)
  <2>1. PICK t \in Tenant : create_tenant(t)
    BY Zenon, <1>1
  <2>2. /\ tenants' = tenants \cup {t} /\ t \notin gone
        /\ UNCHANGED <<gone, members, suspended, jwts, issuances, revocations, wiped,
                       issuing, reqs, clock>>
    BY Zenon, <2>1 DEF create_tenant, handlers_
  <2> QED
    BY Zenon, <2>2 DEF StoresInv, Grow
<1>2. CASE \E t \in Tenant : delete_tenant(t)
  <2>1. PICK t \in Tenant : delete_tenant(t)
    BY Zenon, <1>2
  <2>2. /\ revocations' = revocations \ {j \in issuances : jwts[j].aud = t} /\ wiped' = wiped \cup {t}
        /\ UNCHANGED <<tenants, gone, members, suspended, jwts, issuances, issuing, reqs, clock>>
    BY Zenon, <2>1 DEF delete_tenant, IssuedBy
  <2> QED
    BY Zenon, <2>2 DEF StoresInv, Grow
<1>3. CASE \E t \in Tenant, u \in User, role \in GivenRole : upsert_tenant_member(t, u, role)
  <2>1. PICK t \in Tenant, u \in User, role \in GivenRole : upsert_tenant_member(t, u, role)
    BY Zenon, <1>3
  <2>2. /\ t \in tenants /\ members' = RoleSet(members, t, u, role)
        /\ UNCHANGED <<tenants, gone, suspended, jwts, issuances, revocations, wiped,
                       issuing, reqs, clock>>
    BY Zenon, <2>1 DEF upsert_tenant_member, handlers_, RoleSet
  <2>3. MembersOK(members') /\ \A x \in Tenant : members'[x] = members[x] \/ x \in tenants
    <3>1. MembersOK(members) /\ role \in GivenRole \cup {"admin", Nobody}
      BY Zenon DEF StoresInv
    <3>2. MembersOK(members') /\ \A x \in Tenant : x # t => members'[x] = members[x]
      BY <2>2, <3>1, MemberSet
    <3> QED
      BY Zenon, <2>2, <3>2
  <2> QED
    BY Zenon, <2>2, <2>3 DEF StoresInv, Grow, MembersOK
<1>4. CASE \E t \in Tenant, u \in User : remove_tenant_member(t, u)
  <2>1. PICK t \in Tenant, u \in User : remove_tenant_member(t, u)
    BY Zenon, <1>4
  <2>2. /\ members[t][u] # Nobody
        /\ members' = RoleSet(members, t, u, Nobody)
        /\ UNCHANGED <<tenants, gone, suspended, jwts, issuances, revocations, wiped,
                       issuing, reqs, clock>>
    BY Zenon, <2>1 DEF remove_tenant_member, handlers_, RoleSet
  <2>3. t \in tenants
    BY Zenon, <2>2 DEF StoresInv
  <2>4. MembersOK(members') /\ \A x \in Tenant : members'[x] = members[x] \/ x \in tenants
    <3>1. MembersOK(members) /\ Nobody \in GivenRole \cup {"admin", Nobody}
      BY Zenon DEF StoresInv
    <3>2. MembersOK(members') /\ \A x \in Tenant : x # t => members'[x] = members[x]
      BY <2>2, <3>1, MemberSet
    <3> QED
      BY Zenon, <2>3, <3>2
  <2> QED
    BY Zenon, <2>2, <2>4 DEF StoresInv, Grow, MembersOK
<1>5. CASE \E t \in Tenant, u \in User, grants \in Asked, self \in BOOLEAN :
              issue_credential(t, u, grants, self)
  <2>1. PICK t \in Tenant, u \in User, grants \in Asked, self \in BOOLEAN :
              issue_credential(t, u, grants, self)
    BY Zenon, <1>5
  <2>2. /\ issuing' = [phase |-> IF self THEN "caller" ELSE "track", t |-> t, u |-> u, grants |-> grants]
        /\ UNCHANGED stores /\ reqs' = reqs /\ clock' = clock
    BY Zenon, <2>1 DEF issue_credential
  <2>3. issuing' \in [phase : {"caller", "track"}, t : Tenant, u : User, grants : Asked]
    BY <2>2
  <2> QED
    BY Zenon, <2>2, <2>3, StoresStill DEF StoresInv, stores
<1>6. CASE \E u \in User : suspend_user(u)
  <2>1. PICK u \in User : suspend_user(u)
    BY Zenon, <1>6
  <2>2. /\ suspended' = suspended \cup {u}
        /\ UNCHANGED <<tenants, gone, members, jwts, issuances, revocations, wiped,
                       issuing, reqs, clock>>
    BY Zenon, <2>1 DEF suspend_user, handlers_
  <2> QED
    BY Zenon, <2>2 DEF StoresInv, Grow
<1>7. CASE \/ \E t \in Tenant, j \in Jti : FindCredential(t, j)
           \/ DeleteFails
  <2>1. UNCHANGED stores /\ UNCHANGED issuing /\ reqs' = reqs /\ clock' = clock
    BY Zenon, <1>7 DEF FindCredential, DeleteFails
  <2> QED
    BY Zenon, <2>1, StoresStill, StoresCarried
<1>8. CASE IssueToSelf
  <2>1. /\ issuing' = Idle \/ issuing' = [issuing EXCEPT !.phase = "track"]
        /\ issuing.phase = "caller" /\ UNCHANGED stores /\ reqs' = reqs /\ clock' = clock
    BY Zenon, <1>8 DEF IssueToSelf
  <2>2. issuing # Idle
    BY <2>1 DEF Idle
  <2>3. issuing' = Idle \/ issuing' \in [phase : {"caller", "track"}, t : Tenant, u : User, grants : Asked]
    BY <2>1, <2>2 DEF StoresInv
  <2> QED
    BY Zenon, <2>1, <2>3, StoresStill DEF StoresInv, stores
<1>9. CASE \E j \in Jti, ttl \in Ttl : IssueTracked(j, ttl)
  <2>1. PICK j \in Jti, ttl \in Ttl : IssueTracked(j, ttl)
    BY Zenon, <1>9
  <2>2. PICK tok : tok = Sign(j, ttl)
    BY Zenon
  <2>3. /\ issuing.phase = "track" /\ j \notin DOMAIN jwts /\ issuing' = Idle
        /\ \/ jwts' = [k \in DOMAIN jwts \cup {j} |-> IF k = j THEN tok ELSE jwts[k]]
           \/ jwts' = jwts
        /\ UNCHANGED <<tenants, gone, members, suspended, revocations, wiped, reqs, clock>>
    BY Zenon, <2>1, <2>2 DEF IssueTracked
  <2>4. tok.sub \in User
    <3>1. issuing # Idle
      BY <2>3 DEF Idle
    <3>2. issuing.u \in User
      BY <3>1 DEF StoresInv
    <3>3. tok.sub = issuing.u
      BY <2>2 DEF Sign
    <3> QED
      BY Zenon, <3>2, <3>3
  <2>5. /\ \A k \in DOMAIN jwts : k \in DOMAIN jwts' /\ jwts'[k] = jwts[k]
        /\ \A k \in DOMAIN jwts' : jwts'[k].sub \in User
    BY Zenon, <2>3, <2>4 DEF StoresInv
  <2> QED
    BY Zenon, <2>3, <2>5 DEF StoresInv, Grow
<1>10. CASE revoke_credential
  <2>1. /\ revocations \subseteq revocations'
        /\ UNCHANGED <<tenants, gone, members, suspended, jwts, issuances, wiped,
                       issuing, reqs, clock>>
    BY Zenon, <1>10 DEF revoke_credential
  <2> QED
    BY Zenon, <2>1 DEF StoresInv, Grow
<1>11. CASE DeleteIssuances
  <2>1. UNCHANGED <<tenants, gone, members, suspended, jwts, revocations, wiped, issuing, reqs, clock>>
    BY Zenon, <1>11 DEF DeleteIssuances
  <2> QED
    BY Zenon, <2>1 DEF StoresInv, Grow
<1>12. CASE DeleteMembers
  <2>1. /\ members' = [members EXCEPT ![deleting.t] = [u \in User |-> Nobody]]
        /\ UNCHANGED <<tenants, gone, suspended, jwts, issuances, revocations, wiped,
                       issuing, reqs, clock>>
    BY Zenon, <1>12 DEF DeleteMembers
  <2>2. /\ MembersOK(members')
        /\ \A x \in Tenant : members'[x] = members[x] \/ \A u \in User : members'[x][u] = Nobody
    BY Zenon, <2>1 DEF StoresInv, MembersOK
  <2> QED
    BY Zenon, <2>1, <2>2 DEF StoresInv, Grow, MembersOK
<1>13. CASE DeleteRow
  <2>1. /\ \A u \in User : members[deleting.t][u] = Nobody
        /\ tenants' = tenants \ {deleting.t} /\ gone' = gone \cup {deleting.t}
        /\ UNCHANGED <<members, suspended, jwts, issuances, revocations, wiped,
                       issuing, reqs, clock>>
    BY Zenon, <1>13 DEF DeleteRow
  <2> QED
    BY Zenon, <2>1 DEF StoresInv, Grow
<1> QED
  BY ZenonT(60), <1>1, <1>2, <1>3, <1>4, <1>5, <1>6, <1>7, <1>8, <1>9, <1>10, <1>11, <1>12, <1>13
     DEF Administer, Begin, Continue

(* The control plane leaves the router and the limiter alone.                 *)
LEMMA AdministerStep ==
    ASSUME AdmissionInv, Administer, UNCHANGED <<routerVars, limitVars>>
    PROVE  AdmissionInv'
<1>1. PICK H : H = Held
  BY Zenon
<1>2. StoresInv' /\ Grow /\ reqs' = reqs /\ clock' = clock
  BY Zenon, AdministerStores DEF AdmissionInv
<1>3. clock \in Nat /\ clock' \in Nat /\ clock <= clock'
  BY <1>2, ClockIsBounded DEF AdmissionInv, LimitInv
<1>4. RequestsInv'
  BY Zenon, <1>2, <1>3, RequestsCarried DEF AdmissionInv
<1>5. LimitInv'
  BY Zenon, <1>2, LimitCarried DEF AdmissionInv
<1>6. RouterInv(H)' /\ Held' \subseteq H
  BY Zenon, <1>1, <1>2, RouterCarried DEF AdmissionInv, Held, Holding
<1>7. RouterInv(Held)'
  BY Zenon, <1>6, RouterNow
<1> QED
  BY Zenon, <1>2, <1>4, <1>5, <1>7 DEF AdmissionInv

(* Nothing happens.                                                           *)
LEMMA StutterStep ==
    ASSUME AdmissionInv, UNCHANGED vars
    PROVE  AdmissionInv'
<1>1. PICK H : H = Held
  BY Zenon
<1>2. /\ UNCHANGED stores /\ UNCHANGED issuing /\ reqs' = reqs /\ clock' = clock
      /\ UNCHANGED routerVars /\ UNCHANGED limitVars
  BY Zenon DEF vars, credentialVars, handlers_
<1>3. clock \in Nat /\ clock' \in Nat /\ clock <= clock'
  BY <1>2, ClockIsBounded DEF AdmissionInv, LimitInv
<1>4. RequestsInv'
  BY Zenon, <1>2, <1>3, StoresStill, RequestsCarried DEF AdmissionInv
<1>5. LimitInv' /\ StoresInv'
  BY Zenon, <1>2, LimitCarried, StoresCarried DEF AdmissionInv
<1>6. RouterInv(H)' /\ Held' \subseteq H
  BY Zenon, <1>1, <1>2, RouterCarried DEF AdmissionInv, Held, Holding
<1>7. RouterInv(Held)'
  BY Zenon, <1>6, RouterNow
<1> QED
  BY Zenon, <1>4, <1>5, <1>7 DEF AdmissionInv

(* A fresh deployment.                                                        *)
LEMMA AdmissionStart == Init => AdmissionInv
<1> SUFFICES ASSUME Init PROVE AdmissionInv
  OBVIOUS
<1>1. 0 \in 0..MaxClock /\ 0 \in 0..MaxOpened /\ 0 <= 0
  BY ClockIsBounded, OpenedIsBounded
<1>2. FreshProcess
  BY Zenon, <1>1 DEF Init, CredentialsInit, LimitInit, FreshProcess
<1>3. EmptyRouter
  BY Zenon, <1>1 DEF Init, RouterInit, EmptyRouter
<1>4. LimitInv /\ RequestsInv /\ RouterInv(Held)
  BY Zenon, <1>2, <1>3, Fresh, FreshRouter
<1>5. StoresInv
  <2>1. PICK caller \in User :
          members = [t \in Tenant |-> [u \in User |->
                       IF t = Default /\ u = caller THEN "admin" ELSE Nobody]]
    BY Zenon DEF Init, CredentialsInit, ensure_default_tenant
  <2>2. MembersOK(members)
    BY Zenon, <2>1 DEF MembersOK
  <2>3. \A t \in Tenant, u \in User : members[t][u] # Nobody => t = Default
    BY Zenon, <2>1
  <2>4. tenants = {Default} /\ gone = {} /\ jwts = [j \in {} |-> {}] /\ issuing = Idle
    BY Zenon DEF Init, CredentialsInit, ensure_default_tenant
  <2> QED
    BY Zenon, <2>2, <2>3, <2>4 DEF StoresInv
<1> QED
  BY Zenon, <1>4, <1>5 DEF AdmissionInv

(* Every step of the way in keeps its invariant.                              *)
LEMMA AdmissionStep == AdmissionInv /\ [Next]_vars => AdmissionInv'
<1> SUFFICES ASSUME AdmissionInv, [Next]_vars PROVE AdmissionInv'
  OBVIOUS
<1>1. CASE Administer /\ UNCHANGED <<routerVars, limitVars>>
  BY Zenon, <1>1, AdministerStep
<1>2. CASE Tick /\ Forget(clock + 1) /\ UNCHANGED <<changes, routerVars>>
  BY Zenon, <1>2, TickStep
<1>3. ASSUME NEW r \in Request, Verify(r), UNCHANGED <<changes, routerVars, limitVars>>
      PROVE  AdmissionInv'
  BY Zenon, <1>3, VerifyStep
<1>4. ASSUME NEW r \in Request, resolve_tenant_handler(r) PROVE AdmissionInv'
  BY Zenon, <1>4, ResolveStep
<1>5. ASSUME NEW r \in Request, CreateHandler(r) PROVE AdmissionInv'
  BY Zenon, <1>5, CreateStep
<1>6. ASSUME NEW r \in Request, check(r) PROVE AdmissionInv'
  BY Zenon, <1>6, CheckStep
<1>7. ASSUME NEW r \in Request, Finish(r) PROVE AdmissionInv'
  BY Zenon, <1>7, Refused DEF Finish, handlers_
<1>8. ASSUME NEW s \in Slug, Drop(s) PROVE AdmissionInv'
  BY Zenon, <1>8, DropStep
<1>9. CASE Restart
  BY Zenon, <1>9, RestartStep
<1>10. CASE UNCHANGED vars
  BY Zenon, <1>10, StutterStep
<1> QED
  BY ZenonT(60), <1>1, <1>2, <1>3, <1>4, <1>5, <1>6, <1>7, <1>8, <1>9, <1>10 DEF Next

(* The invariant holds throughout.                                            *)
THEOREM Invariant == Spec => []AdmissionInv
  BY AdmissionStart, AdmissionStep, PTL DEF Spec

(* However many callers write and however late their checks get the limiter's *)
(* lock, the writes of one caller let through with an instant of the last     *)
(* window never outnumber max_writes: a deque pruned only from its front      *)
(* keeps an entry for each of them.                                           *)
THEOREM LimiterBound == Spec => []WindowBound
<1>1. AdmissionInv => WindowBound
  <2> SUFFICES ASSUME AdmissionInv, NEW a \in Actor PROVE Cardinality(Recent(a)) <= MaxWrites
    BY Zenon DEF WindowBound
  <2>1. windows[a] \in Seq(Nat) /\ Len(windows[a]) <= MaxWrites /\ Covers(windows[a], Recent(a))
    BY Zenon DEF AdmissionInv, LimitInv
  <2>2. Cardinality(Recent(a)) <= Len(windows[a]) /\ Cardinality(Recent(a)) \in Nat
    BY Zenon, <2>1, CoversBound
  <2>3. Len(windows[a]) \in Nat
    BY <2>1
  <2> QED
    BY <2>1, <2>2, <2>3, LimitAssumption
<1> QED
  BY <1>1, Invariant, PTL

(* The router never has two handlers over one database in use or cached,      *)
(* except while a drop of it is under way or after one failed: get_or_create  *)
(* looks again under the write lock.                                          *)
THEOREM HandlersAreUnique == Spec => []OneHandlerPerDatabase
<1>1. AdmissionInv => OneHandlerPerDatabase
  BY Zenon DEF AdmissionInv, RouterInv, Live, Twins, OneHandlerPerDatabase
<1> QED
  BY <1>1, Invariant, PTL

(* A request that begins after its credential was revoked, its user suspended *)
(* or its tenant deleted is refused by one of the lookups that follow,        *)
(* whatever the control plane does between them; only a deletion of the       *)
(* credential's tenant can lift a revocation.                                 *)
THEOREM LateRequests == Spec => []LateRequestsRefused
<1>1. AdmissionInv => LateRequestsRefused
  <2> SUFFICES ASSUME AdmissionInv, NEW r \in Verified
               PROVE  /\ reqs[r].dead \cap {"suspended", "deleted"} = {}
                      /\ "revoked" \in reqs[r].dead => reqs[r].t \in wiped
    BY Zenon DEF LateRequestsRefused
  <2>1. RequestInv(reqs[r]) /\ reqs[r].phase \in Past
    BY Zenon DEF Verified, Past, AdmissionInv, RequestsInv
  <2> QED
    BY Zenon, <2>1 DEF RequestInv
<1> QED
  BY <1>1, Invariant, PTL

=============================================================================
