---------------------------- MODULE IntentProofs ----------------------------
(* The life of a mutation intent, for any number of intents, entities,       *)
(* collections and calls in flight.  Each request moves each intent in one   *)
(* of a few ways (Moves), and the invariants are about one intent at a time. *)
EXTENDS MutationIntent, FiniteSetTheorems, TLAPS

\* A leaf that names no prover goes to SMT, then to Zenon, then to SMT for longer.
USE SMT, Zenon, SMTT(60)

Count(s, event) == Cardinality({n \in DOMAIN s : s[n] = event})

----------------------------------------------------------------------------
(* Counting the entries of a trail                                           *)

(* The elements of two sequences, one after the other.                       *)
LEMMA Concatenation ==
    ASSUME NEW S, NEW s \in Seq(S), NEW t \in Seq(S)
    PROVE  /\ s \o t \in Seq(S) /\ Len(s \o t) = Len(s) + Len(t)
           /\ \A n \in 1..(Len(s) + Len(t)) :
                  (s \o t)[n] = IF n <= Len(s) THEN s[n] ELSE t[n - Len(s)]
OBVIOUS

(* A trail has a natural number of entries of each kind.                     *)
LEMMA CountIsNat ==
    ASSUME NEW s \in Seq(Event), NEW w
    PROVE  IsFiniteSet({n \in DOMAIN s : s[n] = w}) /\ Count(s, w) \in Nat
<1>1. DOMAIN s = 1..Len(s) /\ Len(s) \in Nat
    OBVIOUS
<1>2. IsFiniteSet(1..Len(s))
    BY <1>1, FS_Interval
<1>3. {n \in DOMAIN s : s[n] = w} \subseteq 1..Len(s)
    BY <1>1
<1>4. IsFiniteSet({n \in DOMAIN s : s[n] = w})
    BY <1>2, <1>3, FS_Subset
<1> QED
    BY <1>4, FS_CardinalityType DEF Count

(* Appending copies of one event adds them to the count of that event, and   *)
(* leaves the others.                                                        *)
LEMMA CountConcat ==
    ASSUME NEW s \in Seq(Event), NEW v \in Event, NEW k \in Nat, NEW w \in Event
    PROVE  /\ s \o [n \in 1..k |-> v] \in Seq(Event)
           /\ Count(s \o [n \in 1..k |-> v], w) = Count(s, w) + (IF w = v THEN k ELSE 0)
<1> DEFINE more == [n \in 1..k |-> v]
           t == s \o more
           old == {n \in DOMAIN s : s[n] = w}
           new == IF w = v THEN (Len(s) + 1)..(Len(s) + k) ELSE {}
<1>1. more \in Seq(Event) /\ Len(more) = k
    OBVIOUS
<1>2. /\ t \in Seq(Event)
      /\ Len(t) = Len(s) + k
      /\ \A n \in 1..Len(t) : t[n] = IF n <= Len(s) THEN s[n] ELSE more[n - Len(s)]
    BY <1>1, Concatenation
<1>3. DOMAIN s = 1..Len(s) /\ DOMAIN t = 1..Len(t) /\ Len(s) \in Nat
    BY <1>2
<1> HIDE DEF t
<1>4. {n \in DOMAIN t : t[n] = w} = old \cup new
    BY <1>2, <1>3
<1>5. IsFiniteSet(old) /\ Cardinality(old) = Count(s, w) /\ Count(s, w) \in Nat
    BY Zenon, CountIsNat DEF Count
<1>6. IsFiniteSet(new) /\ Cardinality(new) = IF w = v THEN k ELSE 0
  <2>1. CASE w = v
    <3> DEFINE a == Len(s) + 1
               b == Len(s) + k
    <3>1. a \in Int /\ b \in Int /\ (a > b <=> k = 0) /\ b - a + 1 = k
      BY <1>3
    <3>2. new = a..b
      BY <2>1
    <3> HIDE DEF a, b
    <3>3. IsFiniteSet(a..b) /\ Cardinality(a..b) = IF a > b THEN 0 ELSE b - a + 1
      BY <3>1, FS_Interval
    <3> HIDE DEF new
    <3> QED
      BY <2>1, <3>1, <3>2, <3>3
  <2>2. CASE w # v
    BY <2>2, FS_EmptySet
  <2> QED
    BY <2>1, <2>2
<1>7. old \cap new = {}
    BY <1>3
<1> HIDE DEF old, new
<1>8. Cardinality(old \cup new) = Cardinality(old) + Cardinality(new)
  <2>1. Cardinality(old \cup new) = Cardinality(old) + Cardinality(new) - Cardinality(old \cap new)
    BY <1>5, <1>6, FS_Union
  <2>2. Cardinality(old \cap new) = 0
    BY Zenon, <1>7, FS_EmptySet
  <2>3. Cardinality(old) \in Nat /\ Cardinality(new) \in Nat
    BY <1>5, <1>6
  <2> QED
    BY <2>1, <2>2, <2>3
<1>9. Count(t, w) = Cardinality(old \cup new)
    BY Zenon, <1>4 DEF Count
<1>10. Count(t, w) = Count(s, w) + (IF w = v THEN k ELSE 0)
    BY <1>5, <1>6, <1>8, <1>9
<1> QED
    BY <1>2, <1>10 DEF t

(* The same for a single event.                                              *)
LEMMA CountAppend ==
    ASSUME NEW s \in Seq(Event), NEW v \in Event, NEW w \in Event
    PROVE  Count(Append(s, v), w) = Count(s, w) + (IF w = v THEN 1 ELSE 0)
<1>1. Append(s, v) = s \o <<v>>
    OBVIOUS
<1>2. <<v>> = [n \in 1..1 |-> v]
    OBVIOUS
<1>3. 1 \in Nat
    OBVIOUS
<1>4. Count(s \o [n \in 1..1 |-> v], w) = Count(s, w) + (IF w = v THEN 1 ELSE 0)
    BY <1>3, CountConcat, ZenonT(60)
<1> QED
    BY <1>1, <1>2, <1>4

----------------------------------------------------------------------------
(* Schema versions                                                           *)

(* A bounded set of naturals has a greatest element, which Max finds.        *)
LEMMA MaxExists ==
    ASSUME NEW S \in SUBSET Nat, NEW bound \in Nat, S # {}, \A x \in S : x <= bound
    PROVE  Max(S) \in S /\ \A y \in S : Max(S) >= y
<1> DEFINE T == {n \in Nat : bound - n \in S}
<1>1. T \subseteq Nat /\ T # {}
  <2>1. PICK x \in S : TRUE
    BY Zenon
  <2>2. bound - x \in Nat /\ bound - (bound - x) = x
    BY <2>1
  <2> QED
    BY <2>1, <2>2
<1>2. IsWellFoundedOn({ss \in Nat \X Nat : ss[1] < ss[2]}, Nat)
    BY NatLessThanWellFounded DEF OpToRel
<1> DEFINE R == {ss \in Nat \X Nat : ss[1] < ss[2]}
<1>3. PICK m \in T : \A n \in T : ~(<<n, m>> \in R)
  <2> HIDE DEF R, T
  <2> QED
    BY Zenon, <1>1, <1>2, WFMin DEF R
<1>4. \A n \in T : m <= n
  <2> TAKE n \in T
  <2>1. n \in Nat /\ m \in Nat
    OBVIOUS
  <2>2. n < m => <<n, m>> \in R
    BY <2>1
  <2>3. ~(<<n, m>> \in R)
    BY <1>3
  <2> HIDE DEF R, T
  <2> QED
    BY <2>1, <2>2, <2>3
<1>5. bound - m \in S
    BY <1>3
<1>6. \A y \in S : bound - m >= y
  <2> TAKE y \in S
  <2>1. bound - y \in T
    BY DEF T
  <2> QED
    BY <1>1, <1>4, <2>1
<1> QED
    BY Zenon, <1>5, <1>6 DEF Max

\* The schema versions of the collections an operation touches.
Touched(versions, op) == {versions[CollectionOf[e]] : e \in DOMAIN op}

\* Versions start at one and are raised up to the bound.
SchemaBound == \A c \in Collection : schema[c] <= MaxSchema + 1

(* The version an operation is bound to is that of one of its collections,   *)
(* and no other of them has a newer one.                                     *)
LEMMA NewestVersion ==
    ASSUME NEW versions \in [Collection -> Nat], NEW op \in Operation,
           \A c \in Collection : versions[c] <= MaxSchema + 1
    PROVE  /\ Max(Touched(versions, op)) \in Nat
           /\ Max(Touched(versions, op)) \in Touched(versions, op)
           /\ \A e \in DOMAIN op : versions[CollectionOf[e]] <= Max(Touched(versions, op))
<1> DEFINE S == Touched(versions, op)
<1>1. /\ S \in SUBSET Nat /\ S # {}
      /\ \A x \in S : x <= MaxSchema + 1
      /\ \A e \in DOMAIN op : versions[CollectionOf[e]] \in S
  <2>1. DOMAIN op # {} /\ \A e \in DOMAIN op : CollectionOf[e] \in Collection
    BY Zenon, IntentAssumption
  <2> QED
    BY <2>1 DEF Touched
<1>2. MaxSchema + 1 \in Nat
    BY IntentAssumption
<1>3. Max(S) \in S /\ \A y \in S : Max(S) >= y
    BY Zenon, <1>1, <1>2, MaxExists
<1> HIDE DEF S
<1>4. Max(S) \in Nat /\ \A e \in DOMAIN op : versions[CollectionOf[e]] <= Max(S)
    BY Zenon, <1>1, <1>3
<1> QED
    BY <1>3, <1>4 DEF S

----------------------------------------------------------------------------
(* Types                                                                     *)

\* Approvals, rejections and commits name an intent.
CallsNameIntents ==
    \A r \in Request : req[r].call \in {"approve", "reject", "commit"} => req[r].intent \in Intent

Typed == TypeOK /\ CallsNameIntents /\ SchemaBound

(* Expiry changes the state of the intents that are due, and nothing else.   *)
LEMMA ExpiryTyped ==
    ASSUME TypeOK, NEW t
    PROVE  /\ AfterExpiry(t) \in [Intent -> MutationIntent \cup {None}]
           /\ TrailAfterExpiry(t) \in [Intent -> Seq(Event)]
           /\ \A i \in Intent : i \notin Due(t) =>
                  AfterExpiry(t)[i] = intents[i] /\ TrailAfterExpiry(t)[i] = trail[i]
           /\ \A i \in Due(t) :
                  /\ AfterExpiry(t)[i] = [intents[i] EXCEPT !.state = "expired"]
                  /\ TrailAfterExpiry(t)[i] = Append(trail[i], "expire")
<1>1. \A i \in Due(t) : i \in Intent /\ intents[i] \in MutationIntent
    BY DEF Due, TypeOK
<1>2. \A i \in Due(t) : [intents[i] EXCEPT !.state = "expired"] \in MutationIntent
    BY <1>1 DEF MutationIntent, ApprovalState
<1>3. \A i \in Due(t) : Append(trail[i], "expire") \in Seq(Event)
    BY <1>1 DEF TypeOK, Event
<1>4. AfterExpiry(t) \in [Intent -> MutationIntent \cup {None}]
    BY <1>2 DEF AfterExpiry, TypeOK
<1>5. TrailAfterExpiry(t) \in [Intent -> Seq(Event)]
    BY <1>3 DEF TrailAfterExpiry, TypeOK
<1> QED
    BY <1>1, <1>4, <1>5 DEF AfterExpiry, TrailAfterExpiry

(* An intent that is reviewed was not due: it would have expired first.      *)
LEMMA ReviewNotDue ==
    ASSUME TypeOK, CallsNameIntents, NEW r \in Request, Review(r)
    PROVE  /\ req[r].intent \in Intent
           /\ AfterExpiry(req[r].at)[req[r].intent] = intents[req[r].intent]
           /\ TrailAfterExpiry(req[r].at)[req[r].intent] = trail[req[r].intent]
<1> DEFINE i == req[r].intent
<1>1. i \in Intent
    BY Zenon DEF Review, CallsNameIntents
<1>2. AfterExpiry(req[r].at)[i].state = "pending" /\ intents[i] # None
    BY DEF Review
<1>3. ASSUME i \in Due(req[r].at) PROVE FALSE
  <2>1. intents[i] \in MutationIntent
    BY <1>1, <1>2 DEF TypeOK
  <2>2. [intents[i] EXCEPT !.state = "expired"].state = "expired"
    BY <2>1 DEF MutationIntent
  <2>3. AfterExpiry(req[r].at)[i] = [intents[i] EXCEPT !.state = "expired"]
    BY <1>3, ExpiryTyped
  <2> QED
    BY <1>2, <2>2, <2>3
<1> QED
    BY <1>1, <1>3, ExpiryTyped

(* A commit that gets past the token and the state is not due either.        *)
LEMMA ResolvesNotDue ==
    ASSUME TypeOK, CallsNameIntents, NEW r \in Request, Resolves(r)
    PROVE  /\ req[r].intent \in Intent /\ intents[req[r].intent] \in MutationIntent
           /\ AfterExpiry(req[r].at)[req[r].intent] = intents[req[r].intent]
           /\ TrailAfterExpiry(req[r].at)[req[r].intent] = trail[req[r].intent]
<1> DEFINE i == req[r].intent
<1>1. i \in Intent /\ intents[i] \in MutationIntent /\ intents[i].expires > req[r].at
    BY DEF Resolves, CommitStateOK, CallsNameIntents, TypeOK
<1>2. intents[i].expires \in Nat /\ req[r].at \in Nat
    BY <1>1 DEF MutationIntent, TypeOK
<1>3. i \notin Due(req[r].at)
    BY <1>1, <1>2 DEF Due
<1> QED
    BY <1>1, <1>3, ExpiryTyped

(* What a write leaves is a row.                                             *)
LEMMA WrittenTyped ==
    ASSUME TypeOK, NEW e \in Entity, NEW kind \in Kind
    PROVE  Written(e, kind, stamp + 1) \in Row
BY DEF Written, Row, Absent, TypeOK, Kind

(* A call that has been answered leaves the other calls as they are.         *)
LEMMA AnsweredTyped ==
    ASSUME TypeOK, CallsNameIntents, NEW r \in Request, Answered(r)
    PROVE  /\ req' \in [Request -> [call : Call \cup {"idle"}, intent : Intent \cup {None}, at : Nat]]
           /\ CallsNameIntents'
BY DEF Answered, TypeOK, CallsNameIntents, Idle, Call

(* Every request keeps the types.                                            *)
LEMMA TypedStep ==
    ASSUME Typed, [Next]_vars
    PROVE  Typed'
<1> USE DEF Typed
<1>1. CASE UNCHANGED vars
    BY <1>1 DEF vars, TypeOK, CallsNameIntents, SchemaBound
<1>2. ASSUME NEW e \in Entity, NEW kind \in Kind, WriteEntity(e, kind)
      PROVE  Typed'
  <2>1. row' \in [Entity -> Row] /\ stamp' \in Nat
    BY <1>2, WrittenTyped DEF WriteEntity, TypeOK
  <2> QED
    BY <1>2, <2>1 DEF WriteEntity, TypeOK, CallsNameIntents, SchemaBound
<1>3. ASSUME NEW c \in Collection, PutSchema(c)
      PROVE  Typed'
  <2>1. schema' \in [Collection -> Nat] /\ SchemaBound'
    BY <1>3, IntentAssumption DEF PutSchema, TypeOK, SchemaBound
  <2> QED
    BY <1>3, <2>1 DEF PutSchema, TypeOK, CallsNameIntents
<1>4. CASE Tick
    BY <1>4 DEF Tick, TypeOK, CallsNameIntents, SchemaBound
<1>5. ASSUME NEW r \in Request, NEW call \in Call, NEW i \in Intent \cup {None}, Arrive(r, call, i)
      PROVE  Typed'
  <2>1. req' = [req EXCEPT ![r] = [call |-> call, intent |-> i, at |-> now]]
    BY <1>5 DEF Arrive
  <2>2. call \in {"approve", "reject", "commit"} => i \in Intent
    BY <1>5 DEF Arrive
  <2>3. TypeOK'
    BY <1>5, <2>1 DEF Arrive, TypeOK
  <2>4. CallsNameIntents'
    BY Zenon, <2>1, <2>2 DEF CallsNameIntents, TypeOK
  <2> QED
    BY <1>5, <2>3, <2>4 DEF Arrive, SchemaBound
<1>6. ASSUME NEW r \in Request, NEW i \in Intent, NEW op \in Operation, NEW d \in Decision,
             NEW life \in Lifetime, Preview(r, i, op, d, life)
      PROVE  Typed'
  <2>1. SchemaVersion(op) \in Nat
    BY Zenon, NewestVersion DEF SchemaVersion, Touched, TypeOK, SchemaBound
  <2>2. req[r].at + life \in Nat
    BY IntentAssumption DEF TypeOK
  <2>3. intents' \in [Intent -> MutationIntent \cup {None}]
    BY Zenon, <1>6, <2>1, <2>2 DEF Preview, TypeOK, MutationIntent, PreviewState, ApprovalState
  <2>4. trail' \in [Intent -> Seq(Event)]
    BY <1>6 DEF Preview, TypeOK, Event
  <2> QED
    BY <1>6, <2>3, <2>4, AnsweredTyped DEF Preview, TypeOK, SchemaBound
<1>7. ASSUME NEW r \in Request, Refuse(r)
      PROVE  Typed'
    BY Zenon, <1>7, AnsweredTyped, ExpiryTyped DEF Refuse, TypeOK, SchemaBound
<1>8. ASSUME NEW r \in Request, RefuseEarly(r)
      PROVE  Typed'
    BY Zenon, <1>8, AnsweredTyped DEF RefuseEarly, TypeOK, SchemaBound
<1>9. ASSUME NEW r \in Request, Review(r)
      PROVE  Typed'
  <2> DEFINE i == req[r].intent
             verdict == IF req[r].call = "approve" THEN "approved" ELSE "rejected"
  <2>1. i \in Intent /\ req[r].call \in Event
    BY Zenon, <1>9 DEF Review, CallsNameIntents, Event
  <2>2. /\ intents' = [AfterExpiry(req[r].at) EXCEPT ![i].state = verdict]
        /\ trail' = [TrailAfterExpiry(req[r].at) EXCEPT ![i] = Append(@, req[r].call)]
        /\ intents[i] # None
    BY Zenon, <1>9 DEF Review
  <2>3. AfterExpiry(req[r].at)[i] \in MutationIntent
    BY <1>9, <2>1, <2>2, ReviewNotDue DEF TypeOK
  <2>4. intents' \in [Intent -> MutationIntent \cup {None}]
    BY Zenon, <2>1, <2>2, <2>3, ExpiryTyped DEF MutationIntent, ApprovalState
  <2>5. trail' \in [Intent -> Seq(Event)]
    BY <2>1, <2>2, ExpiryTyped
  <2> QED
    BY Zenon, <1>9, <2>4, <2>5, AnsweredTyped DEF Review, TypeOK, SchemaBound
<1>10. ASSUME NEW r \in Request, NEW mismatch \in BOOLEAN, CommitInvalid(r, mismatch)
       PROVE  Typed'
  <2>1. req[r].intent \in Intent
    BY <1>10 DEF CommitInvalid, Resolves, CallsNameIntents
  <2>2. trail' \in [Intent -> Seq(Event)]
    BY <1>10, <2>1, ExpiryTyped DEF CommitInvalid, Event
  <2> QED
    BY Zenon, <1>10, <2>2, AnsweredTyped, ExpiryTyped DEF CommitInvalid, TypeOK, SchemaBound
<1>11. ASSUME NEW r \in Request, Commit(r)
       PROVE  Typed'
  <2> DEFINE i == req[r].intent
             op == intents[i].op
             k == Cardinality(DOMAIN op)
  <2>1. /\ i \in Intent /\ intents[i] \in MutationIntent
        /\ AfterExpiry(req[r].at)[i] = intents[i] /\ TrailAfterExpiry(req[r].at)[i] = trail[i]
    BY Zenon, <1>11, ResolvesNotDue DEF Commit, CommitOK
  <2>2. op \in Operation /\ k \in Nat /\ \A e \in DOMAIN op : op[e] \in Kind
    BY Zenon, <2>1, IntentAssumption, FS_CardinalityType DEF MutationIntent
  <2>3. row' \in [Entity -> Row] /\ stamp' \in Nat
    <3>1. stamp' = stamp + 1 /\ stamp \in Nat /\ row \in [Entity -> Row]
      BY Zenon, <1>11 DEF Commit, TypeOK
    <3>2. \A e \in Entity : e \in DOMAIN op => Written(e, op[e], stamp + 1) \in Row
      BY Zenon, <2>2, WrittenTyped
    <3>3. row' = [e \in Entity |-> IF e \in DOMAIN op THEN Written(e, op[e], stamp + 1) ELSE row[e]]
      BY Zenon, <1>11 DEF Commit
    <3>4. stamp + 1 \in Nat
      BY <3>1
    <3> QED
      BY Zenon, <3>1, <3>2, <3>3, <3>4
  <2>4. intents' \in [Intent -> MutationIntent \cup {None}]
    BY Zenon, <1>11, <2>1, ExpiryTyped DEF Commit, MutationIntent, ApprovalState
  <2>5. trail[i] \o [n \in 1..k |-> "write"] \in Seq(Event)
    BY Zenon, <2>1, <2>2, CountConcat DEF Event, TypeOK
  <2>6. trail' \in [Intent -> Seq(Event)]
    BY Zenon, <1>11, <2>1, <2>5, ExpiryTyped DEF Commit
  <2> QED
    BY Zenon, <1>11, <2>3, <2>4, <2>6, AnsweredTyped DEF Commit, TypeOK, SchemaBound
<1>12. CASE Crash
    BY <1>12 DEF Crash, TypeOK, CallsNameIntents, SchemaBound, Idle
<1> QED
    BY Zenon, <1>1, <1>2, <1>3, <1>4, <1>5, <1>6, <1>7, <1>8, <1>9, <1>10, <1>11, <1>12 DEF Next, Serve

----------------------------------------------------------------------------
(* What a step does to one intent                                            *)

Writes(n) == [m \in 1..n |-> "write"]

Stays(i) == intents'[i] = intents[i] /\ trail'[i] = trail[i]

Previewed(i) ==
    /\ intents[i] = None
    /\ intents'[i] \in MutationIntent
    /\ intents'[i].state \in {"none", "pending"}
    /\ trail'[i] = Append(trail[i], "preview")
    /\ intents'[i].reviewed = [row |-> row, schema |-> schema]
    /\ intents'[i].schemaVersion = Max(Touched(schema, intents'[i].op))
    /\ \A e \in Bound(intents'[i].op) : row[e].version > 0
    /\ UNCHANGED <<row, stamp, schema>>

\* The intent goes from one of some states to another, and an entry says so.
Goes(i, from, to, event) ==
    /\ intents[i] \in MutationIntent
    /\ intents[i].state \in from
    /\ intents'[i] = [intents[i] EXCEPT !.state = to]
    /\ trail'[i] = Append(trail[i], event)

Failed(i) ==
    /\ intents[i] \in MutationIntent
    /\ intents'[i] = intents[i]
    /\ trail'[i] = Append(trail[i], "commit_failed")

Committed(i) ==
    /\ intents[i] \in MutationIntent
    /\ intents[i].state \notin {"expired", "rejected", "committed"}
    /\ intents[i].decision # "deny"
    /\ intents[i].decision = "needs_approval" => intents[i].state = "approved"
    /\ intents'[i] = [intents[i] EXCEPT !.state = "committed"]
    /\ trail'[i] = trail[i] \o Writes(Cardinality(DOMAIN intents[i].op))

Moves(i) ==
    \/ Stays(i)
    \/ Previewed(i)
    \/ Goes(i, Expirable, "expired", "expire")
    \/ Goes(i, {"pending"}, "approved", "approve")
    \/ Goes(i, {"pending"}, "rejected", "reject")
    \/ Failed(i)
    \/ Committed(i)

(* An intent that the call at hand is not about stays or expires.            *)
LEMMA OthersMove ==
    ASSUME TypeOK, NEW t, NEW i \in Intent,
           intents'[i] = AfterExpiry(t)[i], trail'[i] = TrailAfterExpiry(t)[i]
    PROVE  Stays(i) \/ Goes(i, Expirable, "expired", "expire")
<1>1. CASE i \in Due(t)
  <2>1. intents[i] \in MutationIntent /\ intents[i].state \in Expirable
    BY <1>1 DEF Due, TypeOK
  <2> QED
    BY ZenonT(60), <1>1, <2>1, ExpiryTyped DEF Goes
<1>2. CASE i \notin Due(t)
    BY <1>2, ExpiryTyped DEF Stays
<1> QED
    BY <1>1, <1>2

(* Every step moves every intent in one of these ways.                       *)
LEMMA StepMoves ==
    ASSUME Typed, [Next]_vars, NEW j \in Intent
    PROVE  Moves(j)
<1> USE DEF Typed
<1>1. CASE UNCHANGED <<intents, trail>>
    BY <1>1 DEF Moves, Stays
<1>2. ASSUME NEW r \in Request, NEW i \in Intent, NEW op \in Operation, NEW d \in Decision,
             NEW life \in Lifetime, Preview(r, i, op, d, life)
      PROVE  Moves(j)
  <2>1. CASE j = i
    <3>1. intents[j] = None /\ trail'[j] = Append(trail[j], "preview")
      BY Zenon, <1>2, <2>1 DEF Preview, TypeOK
    <3>2. /\ intents'[j].state \in {"none", "pending"} /\ intents'[j] # None
          /\ intents'[j].reviewed = [row |-> row, schema |-> schema]
          /\ intents'[j].schemaVersion = Max(Touched(schema, op))
          /\ intents'[j].op = op
      <4> DEFINE x == [op |-> op, decision |-> d, state |-> PreviewState(d), expires |-> req[r].at + life,
                       schemaVersion |-> SchemaVersion(op), reviewed |-> [row |-> row, schema |-> schema]]
      <4>1. intents'[j] = x
        BY <1>2, <2>1 DEF Preview, TypeOK
      <4>2. SchemaVersion(op) \in Nat
        BY Zenon, NewestVersion DEF SchemaVersion, Touched, TypeOK, SchemaBound
      <4>3. x \in MutationIntent
        <5>1. PreviewState(d) \in ApprovalState
          BY DEF PreviewState, ApprovalState
        <5>2. req[r].at + life \in Nat
          BY IntentAssumption DEF TypeOK
        <5> QED
          BY Zenon, <4>2, <5>1, <5>2 DEF TypeOK, MutationIntent
      <4>4. /\ x.state \in {"none", "pending"} /\ x.op = op
            /\ x.reviewed = [row |-> row, schema |-> schema]
            /\ x.schemaVersion = Max(Touched(schema, op))
        BY DEF PreviewState, SchemaVersion, Touched
      <4> HIDE DEF x
      <4> QED
        BY Zenon, <4>1, <4>3, <4>4, NoneAssumption
    <3>3. intents'[j] \in MutationIntent
      BY Zenon, <3>2, TypedStep DEF TypeOK
    <3>4. (\A e \in Bound(op) : row[e].version > 0) /\ UNCHANGED <<row, stamp, schema>>
      <4>1. \A e \in DOMAIN op : e \in Entity /\ row[e].version \in Nat
        BY Zenon, IntentAssumption DEF TypeOK, Row
      <4> QED
        BY <1>2, <4>1 DEF Preview, Bound
    <3> QED
      BY Zenon, <3>1, <3>2, <3>3, <3>4 DEF Moves, Previewed
  <2>2. CASE j # i
    BY Zenon, <1>2, <2>2 DEF Preview, Moves, Stays, TypeOK
  <2> QED
    BY Zenon, <2>1, <2>2
<1>3. ASSUME NEW r \in Request, Refuse(r)
      PROVE  Moves(j)
    BY <1>3, OthersMove DEF Refuse, Moves
<1>4. ASSUME NEW r \in Request, Review(r)
      PROVE  Moves(j)
  <2> DEFINE i == req[r].intent
             verdict == IF req[r].call = "approve" THEN "approved" ELSE "rejected"
             after == AfterExpiry(req[r].at)
             left == TrailAfterExpiry(req[r].at)
  <2>1. i \in Intent /\ after[i] = intents[i] /\ left[i] = trail[i]
    BY ZenonT(60), <1>4, ReviewNotDue
  <2>2. /\ intents' = [after EXCEPT ![i].state = verdict]
        /\ trail' = [left EXCEPT ![i] = Append(@, req[r].call)]
        /\ req[r].call \in {"approve", "reject"}
        /\ after[i].state = "pending" /\ intents[i] # None
    BY <1>4 DEF Review
  <2>3. DOMAIN after = Intent /\ DOMAIN left = Intent
    BY DEF AfterExpiry, TrailAfterExpiry
  <2> HIDE DEF after, left
  <2>4. CASE j = i
    <3>1. /\ intents'[j] = [intents[j] EXCEPT !.state = verdict]
          /\ trail'[j] = Append(trail[j], req[r].call)
          /\ intents[j].state = "pending" /\ intents[j] \in MutationIntent
      BY Zenon, <2>1, <2>2, <2>3, <2>4 DEF TypeOK
    <3> QED
      BY Zenon, <2>2, <3>1 DEF Moves, Goes
  <2>5. CASE j # i
    <3>1. intents'[j] = after[j] /\ trail'[j] = left[j]
      BY <2>2, <2>3, <2>5
    <3> QED
      BY <3>1, OthersMove DEF Moves, after, left
  <2> QED
    BY <2>4, <2>5
<1>5. ASSUME NEW r \in Request, CommitInvalid(r, TRUE) \/ CommitInvalid(r, FALSE)
      PROVE  Moves(j)
  <2> DEFINE i == req[r].intent
             after == AfterExpiry(req[r].at)
             left == TrailAfterExpiry(req[r].at)
  <2>1. /\ intents' = after
        /\ trail' = [left EXCEPT ![i] = Append(@, "commit_failed")]
        /\ Resolves(r)
    BY Zenon, <1>5 DEF CommitInvalid
  <2>2. /\ i \in Intent /\ intents[i] \in MutationIntent
        /\ after[i] = intents[i] /\ left[i] = trail[i]
    BY <2>1, ResolvesNotDue
  <2>3. DOMAIN left = Intent
    BY ZenonT(60) DEF TrailAfterExpiry
  <2> HIDE DEF after, left
  <2>4. CASE j = i
    BY <2>1, <2>2, <2>3, <2>4 DEF Moves, Failed
  <2>5. CASE j # i
    <3>1. intents'[j] = after[j] /\ trail'[j] = left[j]
      BY <2>1, <2>3, <2>5
    <3> QED
      BY Zenon, <3>1, OthersMove DEF Moves, after, left
  <2> QED
    BY <2>4, <2>5
<1>6. ASSUME NEW r \in Request, Commit(r)
      PROVE  Moves(j)
  <2> DEFINE i == req[r].intent
             after == AfterExpiry(req[r].at)
             left == TrailAfterExpiry(req[r].at)
  <2>1. /\ intents' = [after EXCEPT ![i].state = "committed"]
        /\ trail' = [left EXCEPT ![i] = @ \o Writes(Cardinality(DOMAIN intents[i].op))]
        /\ Resolves(r)
    BY ZenonT(60), <1>6 DEF Commit, CommitOK, Writes
  <2>2. /\ i \in Intent /\ intents[i] \in MutationIntent
        /\ after[i] = intents[i] /\ left[i] = trail[i]
    BY <2>1, ResolvesNotDue
  <2>3. DOMAIN left = Intent /\ DOMAIN after = Intent
    BY DEF TrailAfterExpiry, AfterExpiry
  <2> HIDE DEF after, left
  <2>4. CASE j = i
    <3>1. /\ intents'[j] = [intents[j] EXCEPT !.state = "committed"]
          /\ trail'[j] = trail[j] \o Writes(Cardinality(DOMAIN intents[j].op))
      BY Zenon, <2>1, <2>2, <2>3, <2>4
    <3>2. CommitStateOK(intents[j], req[r].at)
      BY Zenon, <2>1, <2>4 DEF Resolves
    <3> QED
      BY Zenon, <2>2, <2>4, <3>1, <3>2 DEF Moves, Committed, CommitStateOK
  <2>5. CASE j # i
    <3>1. intents'[j] = after[j] /\ trail'[j] = left[j]
      BY <2>1, <2>3, <2>5
    <3> QED
      BY ZenonT(60), <3>1, OthersMove DEF Moves, after, left
  <2> QED
    BY <2>4, <2>5
<1>7. \/ UNCHANGED <<intents, trail>>
      \/ \E r \in Request :
            \/ \E i \in Intent, op \in Operation, d \in Decision, life \in Lifetime :
                  Preview(r, i, op, d, life)
            \/ Refuse(r) \/ Review(r) \/ Commit(r)
            \/ CommitInvalid(r, TRUE) \/ CommitInvalid(r, FALSE)
    BY Zenon DEF Next, vars, WriteEntity, PutSchema, Tick, Arrive, Serve, RefuseEarly, Crash
<1> QED
    BY Zenon, <1>1, <1>2, <1>3, <1>4, <1>5, <1>6, <1>7

----------------------------------------------------------------------------
(* The trail of an intent                                                    *)

\* The entries are those of the state, each write comes after its approval,
\* and an approved intent has the approval that a commit will rest on.
TrailInv(i) ==
    LET x == intents[i]
        s == trail[i]
    IN  IF x = None THEN s = <<>>
        ELSE /\ Count(s, "preview") = 1
             /\ Count(s, "reject") = IF x.state = "rejected" THEN 1 ELSE 0
             /\ Count(s, "expire") = IF x.state = "expired" THEN 1 ELSE 0
             /\ x.state = "approved" => Count(s, "approve") = 1
             /\ x.state \in {"none", "pending"} => Count(s, "approve") = 0
             /\ Count(s, "write") = IF x.state = "committed" THEN Cardinality(DOMAIN x.op) ELSE 0
             /\ x.state = "approved" => \E m \in DOMAIN s : s[m] = "approve"
             /\ \A n \in DOMAIN s : s[n] = "write" =>
                  /\ x.state = "committed" /\ x.decision # "deny"
                  /\ x.decision = "needs_approval" => \E m \in 1..(n - 1) : s[m] = "approve"

(* An empty trail has no entries.                                            *)
LEMMA CountEmpty == \A w : Count(<<>>, w) = 0
<1> TAKE w
<1>1. {n \in DOMAIN <<>> : <<>>[n] = w} = {}
    OBVIOUS
<1> QED
    BY <1>1, FS_EmptySet DEF Count

(* Appending an event that is not a write keeps the order of what was there. *)
LEMMA AppendOrder ==
    ASSUME NEW s \in Seq(Event), NEW v \in Event
    PROVE  /\ DOMAIN s = 1..Len(s) /\ Len(s) \in Nat
           /\ DOMAIN Append(s, v) = 1..(Len(s) + 1)
           /\ Append(s, v)[Len(s) + 1] = v
           /\ \A n \in 1..Len(s) : Append(s, v)[n] = s[n]
OBVIOUS

(* The invariant of a trail survives every move.                             *)
LEMMA TrailStep ==
    ASSUME TypeOK, TypeOK', NEW i \in Intent, TrailInv(i), Moves(i)
    PROVE  TrailInv(i)'
<1> DEFINE s == trail[i]
           x == intents[i]
<1>1. s \in Seq(Event) /\ None \notin MutationIntent
    BY NoneAssumption DEF TypeOK
<1>2. Event = {"preview", "approve", "reject", "expire", "commit_failed", "write"}
    BY DEF Event
<1>3. \A w \in Event : Count(s, w) \in Nat
    BY Zenon, <1>1, CountIsNat
<1>4. CASE Stays(i)
    BY ZenonT(60), <1>4 DEF Stays, TrailInv
<1>5. CASE Previewed(i)
  <2>1. x = None /\ trail'[i] = Append(s, "preview")
    BY <1>5 DEF Previewed
  <2>2. s = <<>>
    BY <2>1 DEF TrailInv
  <2>3. ASSUME NEW w \in Event PROVE Count(trail'[i], w) = IF w = "preview" THEN 1 ELSE 0
    <3>1. Count(s, w) = 0
      BY <2>2, CountEmpty, Zenon
    <3>2. "preview" \in Event
      BY <1>2
    <3>3. Count(Append(s, "preview"), w) = Count(s, w) + (IF w = "preview" THEN 1 ELSE 0)
      BY <1>1, <3>2, CountAppend
    <3> QED
      BY <2>1, <3>1, <3>3
  <2>4. \A n \in DOMAIN trail'[i] : trail'[i][n] # "write"
    BY <2>1, <2>2
  <2>5. intents'[i] # None /\ intents'[i].state \in {"none", "pending"}
    BY ZenonT(60), <1>1, <1>5 DEF Previewed
  <2> QED
    BY Zenon, <1>2, <2>3, <2>4, <2>5 DEF TrailInv
<1>6. ASSUME NEW from, NEW to, NEW v, Goes(i, from, to, v),
             \/ from = Expirable /\ to = "expired" /\ v = "expire"
             \/ from = {"pending"} /\ to = "approved" /\ v = "approve"
             \/ from = {"pending"} /\ to = "rejected" /\ v = "reject"
      PROVE  TrailInv(i)'
  <2>1. /\ x \in MutationIntent /\ x # None /\ x.state \in Expirable
        /\ v # "expire" => x.state = "pending"
        /\ trail'[i] = Append(s, v) /\ v \in Event /\ v # "write" /\ v # "preview"
    BY <1>1, <1>2, <1>6 DEF Goes, Expirable
  <2>2. /\ intents'[i].state = to /\ intents'[i] # None
        /\ intents'[i].op = x.op /\ intents'[i].decision = x.decision
    BY ZenonT(60), <1>1, <1>6, <2>1 DEF Goes, MutationIntent, TypeOK, ApprovalState
  <2>3. \A w \in Event : Count(trail'[i], w) = Count(s, w) + (IF w = v THEN 1 ELSE 0)
    BY <1>1, <2>1, CountAppend
  <2>4. /\ DOMAIN s = 1..Len(s) /\ Len(s) \in Nat
        /\ DOMAIN trail'[i] = 1..(Len(s) + 1)
        /\ trail'[i][Len(s) + 1] = v
        /\ \A n \in 1..Len(s) : trail'[i][n] = s[n]
    BY <1>1, <2>1, AppendOrder
  <2>5. \A n \in DOMAIN s : s[n] # "write"
    BY Zenon, <2>1 DEF TrailInv, Expirable
  <2>6. \A n \in DOMAIN trail'[i] : trail'[i][n] # "write"
    BY <2>1, <2>4, <2>5
  <2>7. to = "approved" => \E m \in DOMAIN trail'[i] : trail'[i][m] = "approve"
    BY <1>6, <2>4
  <2>8. /\ Count(s, "preview") = 1 /\ Count(s, "reject") = 0 /\ Count(s, "expire") = 0
        /\ x.state = "pending" => Count(s, "approve") = 0
        /\ Count(s, "write") = 0
    BY Zenon, <2>1 DEF TrailInv, Expirable
  <2> QED
    BY <1>2, <1>6, <2>2, <2>3, <2>6, <2>7, <2>8, <2>1 DEF TrailInv
<1>7. CASE Failed(i)
  <2>1. /\ x # None /\ intents'[i] = x
        /\ trail'[i] = Append(s, "commit_failed") /\ "commit_failed" \in Event
    BY Zenon, <1>1, <1>2, <1>7 DEF Failed
  <2>2. \A w \in Event : Count(trail'[i], w) = Count(s, w) + (IF w = "commit_failed" THEN 1 ELSE 0)
    BY <1>1, <2>1, CountAppend
  <2>3. /\ DOMAIN s = 1..Len(s) /\ Len(s) \in Nat
        /\ DOMAIN trail'[i] = 1..(Len(s) + 1)
        /\ trail'[i][Len(s) + 1] = "commit_failed"
        /\ \A n \in 1..Len(s) : trail'[i][n] = s[n]
    BY <1>1, <2>1, AppendOrder
  <2>4. \A w \in Event : w # "commit_failed" => Count(trail'[i], w) = Count(s, w)
    BY <1>3, <2>2
  <2>5. x.state = "approved" => \E m \in DOMAIN trail'[i] : trail'[i][m] = "approve"
    BY <2>1, <2>3 DEF TrailInv
  <2>6. \A n \in DOMAIN trail'[i] : trail'[i][n] = "write" =>
            /\ x.state = "committed" /\ x.decision # "deny"
            /\ x.decision = "needs_approval" => \E m \in 1..(n - 1) : trail'[i][m] = "approve"
    BY <2>1, <2>3 DEF TrailInv
  <2> QED
    BY Zenon, <1>2, <2>1, <2>4, <2>5, <2>6 DEF TrailInv
<1>8. CASE Committed(i)
  <2> DEFINE k == Cardinality(DOMAIN x.op)
  <2>1. x \in MutationIntent /\ x # None /\ k \in Nat
    BY Zenon, <1>1, <1>8, IntentAssumption, FS_CardinalityType DEF Committed, MutationIntent
  <2>2. /\ intents'[i].state = "committed" /\ intents'[i] # None
        /\ intents'[i].op = x.op /\ intents'[i].decision = x.decision
    BY ZenonT(60), <1>1, <1>8, <2>1 DEF Committed, MutationIntent, TypeOK, ApprovalState
  <2>3. trail'[i] = s \o [m \in 1..k |-> "write"] /\ "write" \in Event
    BY <1>2, <1>8 DEF Committed, Writes
  <2>4. ASSUME NEW w \in Event
        PROVE  Count(trail'[i], w) = Count(s, w) + (IF w = "write" THEN k ELSE 0)
    <3> HIDE DEF k
    <3>1. k \in Nat /\ s \in Seq(Event) /\ "write" \in Event
      BY Zenon, <1>1, <2>1, <2>3
    <3>2. Count(s \o [m \in 1..k |-> "write"], w) = Count(s, w) + (IF w = "write" THEN k ELSE 0)
      <4> HIDE DEF s
      <4> QED
        BY ZenonT(60), <3>1, CountConcat
    <3> QED
      BY Zenon, <2>3, <3>2
  <2>5. /\ DOMAIN s = 1..Len(s) /\ Len(s) \in Nat
        /\ \A n \in 1..Len(s) : trail'[i][n] = s[n]
        /\ DOMAIN trail'[i] = 1..(Len(s) + k)
    <3>1. [m \in 1..k |-> "write"] \in Seq(Event) /\ Len([m \in 1..k |-> "write"]) = k
      BY <2>1, <2>3
    <3> QED
      BY <1>1, <2>1, <2>3, <3>1, Concatenation
  <2>6. /\ Count(s, "preview") = 1 /\ Count(s, "reject") = 0 /\ Count(s, "expire") = 0
        /\ Count(s, "write") = 0 /\ \A n \in DOMAIN s : s[n] # "write"
        /\ x.decision # "deny"
        /\ x.decision = "needs_approval" => \E m \in DOMAIN s : s[m] = "approve"
    BY Zenon, <1>8, <2>1 DEF Committed, TrailInv
  <2>7. \A n \in DOMAIN trail'[i] : trail'[i][n] = "write" =>
            (x.decision = "needs_approval" => \E m \in 1..(n - 1) : trail'[i][m] = "approve")
    <3> SUFFICES ASSUME NEW n \in DOMAIN trail'[i], trail'[i][n] = "write",
                        x.decision = "needs_approval"
                 PROVE  \E m \in 1..(n - 1) : trail'[i][m] = "approve"
      BY Zenon
    <3>1. n \in Nat /\ n > Len(s)
      BY <2>1, <2>5, <2>6
    <3>2. PICK m \in 1..Len(s) : s[m] = "approve"
      BY Zenon, <2>5, <2>6
    <3>3. m \in 1..(n - 1) /\ trail'[i][m] = "approve"
      BY <2>5, <3>1, <3>2
    <3> QED
      BY Zenon, <3>3
  <2> HIDE DEF k
  <2>8. /\ Count(trail'[i], "preview") = 1 /\ Count(trail'[i], "reject") = 0
        /\ Count(trail'[i], "expire") = 0 /\ Count(trail'[i], "write") = k
    BY <1>2, <2>1, <2>4, <2>6
  <2> QED
    BY Zenon, <2>2, <2>6, <2>7, <2>8 DEF TrailInv, k
<1> QED
    BY Zenon, <1>4, <1>5, <1>6, <1>7, <1>8 DEF Moves

----------------------------------------------------------------------------
(* What was reviewed                                                         *)

\* A row carries the number of the write that created it.
RowsInv ==
    \A e \in Entity : row[e].born <= stamp /\ (row[e].version > 0 => row[e].born > 0)

\* Since a row was read as w, and s writes were made, it is r: created anew,
\* or unchanged, or with a higher version.
Follows(w, r, s) ==
    /\ w.born <= s
    /\ w.version > 0 => w.born > 0
    /\ w.born > 0 /\ r.born = w.born =>
          r.version >= w.version /\ (r.version = w.version => r = w)

\* Every row follows the one the preview read; schema versions did not fall.
ReviewInv(i) ==
    LET x == intents[i]
        was == x.reviewed
    IN  x # None =>
        /\ \A e \in Entity : Follows(was.row[e], row[e], stamp)
        /\ \A e \in Bound(x.op) : was.row[e].version > 0
        /\ \A c \in Collection : was.schema[c] <= schema[c]
        /\ x.schemaVersion = Max(Touched(was.schema, x.op))

(* A row follows itself.                                                     *)
LEMMA FollowsItself ==
    ASSUME NEW r \in Row, NEW s \in Nat, r.born <= s, r.version > 0 => r.born > 0
    PROVE  Follows(r, r, s)
BY DEF Follows, Row

(* What follows a row still does after a write of that row or of another.    *)
LEMMA FollowsWrite ==
    ASSUME NEW w \in Row, NEW r \in Row, NEW q \in Row, NEW s \in Nat, Follows(w, r, s),
           \/ q = r
           \/ q.born = s + 1
           \/ q.born = 0
           \/ q.born = r.born /\ q.version = r.version + 1
    PROVE  Follows(w, q, s + 1)
BY DEF Follows, Row

(* The same version of the same birth is the same row.                       *)
LEMMA FollowsSame ==
    ASSUME NEW w \in Row, NEW r \in Row, NEW s \in Nat, Follows(w, r, s),
           w.version > 0, r.born = w.born, r.version = w.version
    PROVE  r = w
BY DEF Follows, Row

(* Instants are ordered: transitivity.                                        *)
LEMMA AtMostTransitive ==
    \A a, b, c \in Nat : a <= b /\ b <= c => a <= c
OBVIOUS

(* And reflexivity.                                                           *)
LEMMA AtMostReflexive ==
    \A a \in Nat : a <= a
OBVIOUS

Rewritten(e) ==
    \E kind \in Kind :
        /\ kind # "create" => row[e].version > 0
        /\ row'[e] = Written(e, kind, stamp + 1)

(* Rows only change by writes, which are numbered, and schema versions only  *)
(* grow.                                                                     *)
LEMMA StepWrites ==
    ASSUME Typed, [Next]_vars
    PROVE  /\ \A c \in Collection : schema[c] <= schema'[c]
           /\ \/ UNCHANGED <<row, stamp>>
              \/ stamp' = stamp + 1 /\ \A e \in Entity : row'[e] = row[e] \/ Rewritten(e)
<1> USE DEF Typed
<1>1. CASE UNCHANGED <<row, stamp, schema>>
    BY <1>1 DEF TypeOK
<1>2. ASSUME NEW e \in Entity, NEW kind \in Kind, WriteEntity(e, kind)
      PROVE  /\ UNCHANGED schema /\ stamp' = stamp + 1
             /\ \A f \in Entity : row'[f] = row[f] \/ Rewritten(f)
    BY Zenon, <1>2 DEF WriteEntity, TypeOK, Rewritten
<1>3. ASSUME NEW c \in Collection, PutSchema(c)
      PROVE  UNCHANGED <<row, stamp>> /\ \A d \in Collection : schema[d] <= schema'[d]
    BY <1>3 DEF PutSchema, TypeOK
<1>4. ASSUME NEW r \in Request, Commit(r)
      PROVE  /\ UNCHANGED schema /\ stamp' = stamp + 1
             /\ \A e \in Entity : row'[e] = row[e] \/ Rewritten(e)
  <2> DEFINE op == intents[req[r].intent].op
  <2>1. op \in Operation
    BY ZenonT(30), <1>4, ResolvesNotDue DEF Commit, CommitOK, MutationIntent
  <2>2. \A e \in DOMAIN op : op[e] \in Kind /\ (op[e] # "create" => row[e].version > 0)
    BY Zenon, <1>4, <2>1, IntentAssumption DEF Commit, CommitOK, Stages, Bound
  <2>3. /\ UNCHANGED schema /\ stamp' = stamp + 1
        /\ row' = [e \in Entity |-> IF e \in DOMAIN op THEN Written(e, op[e], stamp + 1) ELSE row[e]]
    BY Zenon, <1>4 DEF Commit
  <2> QED
    BY <2>2, <2>3 DEF Rewritten
<1>5. \A c \in Collection : schema[c] <= schema[c]
    BY DEF TypeOK
<1>6. \/ UNCHANGED <<row, stamp, schema>>
      \/ \E e \in Entity, kind \in Kind : WriteEntity(e, kind)
      \/ \E c \in Collection : PutSchema(c)
      \/ \E r \in Request : Commit(r)
  <2>1. ASSUME NEW r \in Request, Serve(r) PROVE Commit(r) \/ UNCHANGED <<row, stamp, schema>>
    <3>1. Review(r) => UNCHANGED <<row, stamp, schema>>
      BY Zenon DEF Review
    <3>2. \A mismatch \in BOOLEAN : CommitInvalid(r, mismatch) => UNCHANGED <<row, stamp, schema>>
      BY Zenon DEF CommitInvalid
    <3>3. \A i \in Intent, op \in Operation, d \in Decision, life \in Lifetime :
             Preview(r, i, op, d, life) => UNCHANGED <<row, stamp, schema>>
      BY DEF Preview
    <3> QED
      BY Zenon, <2>1, <3>1, <3>2, <3>3 DEF Serve, Refuse, RefuseEarly
  <2> QED
    BY Zenon, <2>1 DEF Next, vars, Tick, Arrive, Crash
<1> QED
    BY Zenon, <1>1, <1>2, <1>3, <1>4, <1>5, <1>6

(* A rewritten row is created anew, or gone, or has a higher version.        *)
LEMMA RewrittenRow ==
    ASSUME TypeOK, RowsInv, NEW e \in Entity, Rewritten(e)
    PROVE  /\ row'[e].born <= stamp + 1
           /\ row'[e].version > 0 => row'[e].born > 0
           /\ \/ row'[e].born = stamp + 1
              \/ row'[e].born = 0
              \/ row'[e].born = row[e].born /\ row'[e].version = row[e].version + 1
<1>1. PICK kind \in Kind : (kind # "create" => row[e].version > 0) /\ row'[e] = Written(e, kind, stamp + 1)
    BY DEF Rewritten
<1>2. row[e] \in Row /\ stamp \in Nat /\ row[e].born <= stamp /\ (row[e].version > 0 => row[e].born > 0)
    BY DEF TypeOK, RowsInv
<1> QED
    BY <1>1, <1>2 DEF Written, Kind, Row, Absent

(* The invariants of the rows and of the reviews survive every step.         *)
LEMMA ReviewStep ==
    ASSUME Typed, Typed', [Next]_vars, RowsInv, NEW i \in Intent, ReviewInv(i)
    PROVE  RowsInv' /\ ReviewInv(i)'
<1> USE DEF Typed
<1>1. /\ \A c \in Collection : schema[c] <= schema'[c] /\ schema[c] \in Nat /\ schema'[c] \in Nat
      /\ \/ UNCHANGED <<row, stamp>>
         \/ stamp' = stamp + 1 /\ \A e \in Entity : row'[e] = row[e] \/ Rewritten(e)
    BY Zenon, StepWrites DEF TypeOK
<1>2. stamp \in Nat /\ \A e \in Entity : row[e] \in Row /\ row'[e] \in Row
    BY Zenon DEF TypeOK
<1>3. RowsInv'
    BY <1>1, <1>2, RewrittenRow DEF RowsInv, Row
<1>4. ASSUME intents'[i] # None, Previewed(i) PROVE ReviewInv(i)'
  <2>1. /\ intents'[i].reviewed.row = row /\ intents'[i].reviewed.schema = schema
        /\ intents'[i].schemaVersion = Max(Touched(schema, intents'[i].op))
        /\ \A e \in Bound(intents'[i].op) : row[e].version > 0
        /\ row' = row /\ stamp' = stamp /\ schema' = schema
    BY <1>4 DEF Previewed
  <2>2. \A e \in Entity : Follows(row[e], row[e], stamp)
    BY Zenon, <1>2, FollowsItself DEF RowsInv
  <2>3. \A c \in Collection : schema[c] <= schema[c]
    BY Zenon, <1>1, AtMostReflexive
  <2> QED
    BY Zenon, <2>1, <2>2, <2>3 DEF ReviewInv, Touched, Bound
<1>5. ASSUME intents[i] # None,
             /\ intents'[i].op = intents[i].op /\ intents'[i].reviewed = intents[i].reviewed
             /\ intents'[i].schemaVersion = intents[i].schemaVersion
      PROVE  ReviewInv(i)'
  <2> DEFINE was == intents[i].reviewed
  <2>1. was.row \in [Entity -> Row] /\ was.schema \in [Collection -> Nat]
    BY Zenon, <1>5 DEF TypeOK, MutationIntent
  <2>2. ASSUME NEW e \in Entity PROVE Follows(was.row[e], row'[e], stamp')
    <3>1. Follows(was.row[e], row[e], stamp)
      BY Zenon, <1>5 DEF ReviewInv
    <3>2. was.row[e] \in Row /\ row[e] \in Row /\ row'[e] \in Row /\ stamp \in Nat
      BY Zenon, <1>2, <2>1
    <3>3. CASE row' = row /\ stamp' = stamp
      BY Zenon, <3>1, <3>3
    <3>4. CASE stamp' = stamp + 1 /\ (row'[e] = row[e] \/ Rewritten(e))
      <4>1. \/ row'[e] = row[e]
            \/ row'[e].born = stamp + 1
            \/ row'[e].born = 0
            \/ row'[e].born = row[e].born /\ row'[e].version = row[e].version + 1
        BY Zenon, <3>4, RewrittenRow
      <4> QED
        BY Zenon, <3>1, <3>2, <3>4, <4>1, FollowsWrite
    <3> QED
      BY ZenonT(30), <1>1, <3>3, <3>4
  <2>3. \A c \in Collection : was.schema[c] <= schema'[c]
    BY Zenon, <1>1, <1>5, <2>1, AtMostTransitive DEF ReviewInv
  <2> QED
    BY ZenonT(30), <1>5, <2>2, <2>3 DEF ReviewInv, Touched, Bound
<1>6. ReviewInv(i)'
  <2>1. CASE intents'[i] = None
    BY <2>1 DEF ReviewInv
  <2>2. CASE intents'[i] # None /\ ~Previewed(i)
    <3>1. Moves(i)
      BY StepMoves
    <3>2. /\ intents[i] # None
          /\ \/ intents'[i] = intents[i]
             \/ intents[i] \in MutationIntent /\ \E to : intents'[i] = [intents[i] EXCEPT !.state = to]
      BY Zenon, <2>2, <3>1, NoneAssumption DEF Moves, Stays, Goes, Failed, Committed
    <3>3. /\ intents'[i].op = intents[i].op /\ intents'[i].reviewed = intents[i].reviewed
          /\ intents'[i].schemaVersion = intents[i].schemaVersion
      BY Zenon, <3>2 DEF MutationIntent
    <3> QED
      BY Zenon, <1>5, <3>2, <3>3
  <2> QED
    BY Zenon, <1>4, <2>1, <2>2
<1> QED
    BY Zenon, <1>3, <1>6

----------------------------------------------------------------------------
(* Theorems                                                                  *)

IInv == Typed /\ RowsInv /\ \A i \in Intent : TrailInv(i) /\ ReviewInv(i)

(* There are no intents, no rows and no calls at first.                      *)
LEMMA InvInit == Init => IInv
<1> SUFFICES ASSUME Init PROVE IInv
    BY Zenon
<1>1. TypeOK
    BY DEF Init, TypeOK, Row, Absent, Idle
<1>2. CallsNameIntents /\ SchemaBound /\ RowsInv
    BY IntentAssumption DEF Init, CallsNameIntents, SchemaBound, RowsInv, Idle, Absent
<1>3. \A i \in Intent : TrailInv(i) /\ ReviewInv(i)
    BY DEF Init, TrailInv, ReviewInv
<1> QED
    BY <1>1, <1>2, <1>3 DEF IInv, Typed

(* Every step keeps the invariant.                                           *)
LEMMA InvStep == IInv /\ [Next]_vars => IInv'
<1> SUFFICES ASSUME IInv, [Next]_vars PROVE IInv'
    OBVIOUS
<1>1. Typed /\ Typed'
    BY TypedStep DEF IInv
<1>2. ASSUME NEW i \in Intent PROVE TrailInv(i)'
    BY ZenonT(60), <1>1, StepMoves, TrailStep DEF IInv, Typed
<1>3. RowsInv'
  <2>1. stamp \in Nat /\ stamp' \in Nat /\ \A e \in Entity : row[e] \in Row /\ row'[e] \in Row
    BY <1>1 DEF Typed, TypeOK
  <2> QED
    BY <1>1, <2>1, StepWrites, RewrittenRow DEF IInv, Typed, RowsInv, Row
<1>4. ASSUME NEW i \in Intent PROVE ReviewInv(i)'
    BY <1>1, ReviewStep DEF IInv
<1> QED
    BY Zenon, <1>1, <1>2, <1>3, <1>4 DEF IInv

(* The invariant holds of every reachable state.                             *)
LEMMA Invariant == Spec => []IInv
BY InvInit, InvStep, PTL DEF Spec

(* What an intent has become is what its audit entries say (WrittenOnce and  *)
(* TrailTellsState), and nothing is written before its approval was recorded *)
(* (CommitsWereApproved).                                                    *)
LEMMA TrailConsequences ==
    ASSUME IInv
    PROVE  WrittenOnce /\ TrailTellsState /\ CommitsWereApproved
<1> SUFFICES ASSUME NEW i \in Intent
             PROVE  /\ LET done == intents[i] # None /\ intents[i].state = "committed"
                       IN  Occurrences(i, "write") = IF done THEN Cardinality(DOMAIN intents[i].op) ELSE 0
                    /\ IF intents[i] = None THEN trail[i] = <<>>
                       ELSE /\ Occurrences(i, "preview") = 1
                            /\ Occurrences(i, "reject") = IF intents[i].state = "rejected" THEN 1 ELSE 0
                            /\ Occurrences(i, "expire") = IF intents[i].state = "expired" THEN 1 ELSE 0
                            /\ intents[i].state = "approved" => Occurrences(i, "approve") = 1
                            /\ intents[i].state = "pending" => Occurrences(i, "approve") = 0
                    /\ \A n \in DOMAIN trail[i] : trail[i][n] = "write" =>
                          /\ intents[i].decision # "deny"
                          /\ intents[i].decision = "needs_approval" =>
                                \E m \in 1..(n - 1) : trail[i][m] = "approve"
    BY DEF WrittenOnce, TrailTellsState, CommitsWereApproved
<1>1. TrailInv(i)
    BY DEF IInv
<1>2. \A w : Occurrences(i, w) = Count(trail[i], w)
    BY Zenon DEF Occurrences, Count
<1>3. CASE intents[i] = None
  <2>1. trail[i] = <<>>
    BY <1>1, <1>3 DEF TrailInv
  <2>2. Count(trail[i], "write") = 0
    BY <2>1, CountEmpty, Zenon
  <2> QED
    BY <1>2, <1>3, <2>1, <2>2
<1>4. CASE intents[i] # None
    BY <1>1, <1>2, <1>4 DEF TrailInv
<1> QED
    BY <1>3, <1>4

(* A commit finds what was reviewed, unless it was created anew, and the     *)
(* newest of the schemas it was reviewed under.                              *)
LEMMA ReviewConsequences ==
    ASSUME IInv
    PROVE  ReviewedIsCommitted /\ NewestPolicyHolds
<1> SUFFICES ASSUME NEW r \in Request, CommitOK(r)
             PROVE  LET x == intents[req[r].intent]
                        before(e) == x.reviewed.schema[CollectionOf[e]]
                    IN  /\ \A e \in Bound(x.op) :
                              row[e].born = x.reviewed.row[e].born => row[e] = x.reviewed.row[e]
                        /\ \A e \in DOMAIN x.op :
                              (\A f \in DOMAIN x.op : before(f) <= before(e)) =>
                                  schema[CollectionOf[e]] = before(e)
    BY ZenonT(30) DEF ReviewedIsCommitted, NewestPolicyHolds
<1> DEFINE i == req[r].intent
           x == intents[i]
           was == x.reviewed
<1>1. i \in Intent /\ x \in MutationIntent /\ x # None /\ ~Stale(x)
    BY Zenon, ResolvesNotDue, NoneAssumption DEF CommitOK, IInv, Typed
<1>2. /\ x.op \in Operation /\ DOMAIN x.op \subseteq Entity
      /\ was.row \in [Entity -> Row] /\ was.schema \in [Collection -> Nat]
      /\ row \in [Entity -> Row] /\ schema \in [Collection -> Nat]
    BY Zenon, <1>1, IntentAssumption DEF MutationIntent, IInv, Typed, TypeOK
<1>3. ReviewInv(i)
    BY <1>1 DEF IInv
<1>4. ASSUME NEW e \in Bound(x.op), row[e].born = was.row[e].born
      PROVE  row[e] = was.row[e]
  <2>1. e \in Entity /\ row[e].version = was.row[e].version /\ was.row[e].version > 0
    BY ZenonT(30), <1>1, <1>2, <1>3 DEF Stale, Bound, ReviewInv
  <2> QED
    <3>1. Follows(was.row[e], row[e], stamp)
      BY Zenon, <1>1, <1>3, <2>1 DEF ReviewInv
    <3>2. was.row[e] \in Row /\ row[e] \in Row /\ stamp \in Nat
      BY Zenon, <1>2, <2>1 DEF IInv, Typed, TypeOK
    <3> QED
      BY Zenon, <1>4, <2>1, <3>1, <3>2, FollowsSame
<1>5. Max(Touched(was.schema, x.op)) = Max(Touched(schema, x.op))
    BY ZenonT(30), <1>1, <1>3 DEF Stale, SchemaVersion, Touched, ReviewInv
<1>6. \A c \in Collection : was.schema[c] <= schema[c] /\ schema[c] <= MaxSchema + 1
    BY ZenonT(60), <1>1, <1>3 DEF ReviewInv, IInv, Typed, SchemaBound
<1>7. ASSUME NEW e \in DOMAIN x.op,
             \A f \in DOMAIN x.op : was.schema[CollectionOf[f]] <= was.schema[CollectionOf[e]]
      PROVE  schema[CollectionOf[e]] = was.schema[CollectionOf[e]]
  <2>1. CollectionOf[e] \in Collection
    BY ZenonT(60), <1>2, IntentAssumption
  <2>2. \A c \in Collection : was.schema[c] <= MaxSchema + 1
    <3> DEFINE old == was.schema
    <3>1. /\ old \in [Collection -> Nat] /\ schema \in [Collection -> Nat] /\ MaxSchema \in Nat
          /\ \A c \in Collection : old[c] <= schema[c] /\ schema[c] <= MaxSchema + 1
      BY Zenon, <1>2, <1>6, IntentAssumption
    <3> HIDE DEF old
    <3>2. \A c \in Collection : old[c] <= MaxSchema + 1
      BY <3>1
    <3> QED
      BY <3>2 DEF old
  <2>3. /\ Max(Touched(was.schema, x.op)) \in Touched(was.schema, x.op)
        /\ Max(Touched(was.schema, x.op)) \in Nat
        /\ was.schema[CollectionOf[e]] <= Max(Touched(was.schema, x.op))
    BY ZenonT(30), <1>2, <2>2, NewestVersion
  <2>4. schema[CollectionOf[e]] <= Max(Touched(schema, x.op))
    BY Zenon, <1>2, <1>6, NewestVersion
  <2>5. Max(Touched(was.schema, x.op)) <= was.schema[CollectionOf[e]]
    BY Zenon, <1>7, <2>3 DEF Touched
  <2> HIDE DEF x, was
  <2> QED
    BY <1>2, <1>5, <1>6, <2>1, <2>3, <2>4, <2>5
<1> QED
    BY ZenonT(30), <1>4, <1>7

(* Single use, and no partial commit: an intent is written exactly when it   *)
(* is committed, once, one entry for each entity of its operation.           *)
THEOREM SingleUse == Spec => []WrittenOnce
BY Invariant, TrailConsequences, PTL

(* The audit entries of an intent tell its state.                            *)
THEOREM TrailIsTrue == Spec => []TrailTellsState
BY Invariant, TrailConsequences, PTL

(* Nothing is written for a denied intent, nor before a needed approval.     *)
THEOREM ApprovedFirst == Spec => []CommitsWereApproved
BY Invariant, TrailConsequences, PTL

(* What a commit is about to overwrite is what was reviewed, unless the      *)
(* entity was created anew since.                                            *)
THEOREM ReviewHolds == Spec => []ReviewedIsCommitted
BY Invariant, ReviewConsequences, PTL

(* A collection whose schema was the newest at the preview still has it.     *)
THEOREM PolicyHolds == Spec => []NewestPolicyHolds
BY Invariant, ReviewConsequences, PTL
=============================================================================
