------------------------- MODULE IdempotencyProofs -------------------------
(* At-most-once application of keyed gateway transactions, for any number of *)
(* requests and keys, any lifetime and any patience below it.                *)
EXTENDS Idempotency, TLAPS

\* A leaf that names no prover goes to SMT, then to Zenon, then to SMT for longer.
USE SMT, Zenon, SMTT(60)

Http(r) == req[r].surface = "http"

\* A request that is not idle has a surface, a key and an admissible age.
Shape ==
    \A r \in Request :
        /\ req[r].phase = "idle" => req[r] = Idle
        /\ req[r].phase # "idle" =>
              req[r].surface \in Surface /\ req[r].key \in Key /\ req[r].age <= Patience

\* The entry of an executing request's key is its own reservation.
Reserved ==
    \A r \in Request : Http(r) =>
        /\ req[r].phase # "idle"
        /\ entries[req[r].key].status = "pending"
        /\ entries[req[r].key].left = TTL - req[r].age

Alone ==
    \A r, q \in Request : Http(r) /\ Http(q) /\ req[r].key = req[q].key => r = q

\* A request that has committed and not yet answered is what the key's
\* history ends with.
JustApplied ==
    \A r \in Request : Http(r) /\ req[r].phase = "ok" =>
        applied["http"][req[r].key] = [count |-> 1, by |-> r, left |-> TTL]

\* An applied transaction is remembered: cached, or about to be.
Remembered(k) ==
    LET a == applied["http"][k]
    IN  \/ /\ a.count = 0 /\ a.left = 0
           /\ ~(entries[k].status = "ok" /\ entries[k].left > 0)
        \/ /\ a.count = 1 /\ a.left > 0
           /\ entries[k] = [status |-> "ok", by |-> a.by, left |-> a.left]
        \/ \E r \in Request : Http(r) /\ req[r].phase = "ok" /\ req[r].key = k

IInv ==
    /\ TypeOK
    /\ Shape
    /\ Reserved
    /\ Alone
    /\ "http" \in Surface => JustApplied /\ \A k \in Key : Remembered(k)

USE IdempotencyAssumption, PatienceAssumption

(* The stores start empty.                                                   *)
LEMMA InvInit == Init => IInv
<1> SUFFICES ASSUME Init PROVE IInv
    OBVIOUS
<1>1. TypeOK
    BY DEF Init, TypeOK, Entry, Absent, Idle, Phase
<1>2. \A r \in Request : req[r] = Idle
    BY DEF Init
<1>3. Shape /\ Reserved /\ Alone
    BY <1>2 DEF Shape, Reserved, Alone, Http, Idle
<1>4. "http" \in Surface => JustApplied /\ \A k \in Key : Remembered(k)
    BY <1>2 DEF JustApplied, Remembered, Http, Idle, Init, Absent
<1> QED
    BY <1>1, <1>3, <1>4 DEF IInv

(* Forgetting what has expired keeps what matters of the entries: every      *)
(* entry with time left, and the type.                                       *)
LEMMA EvictKeeps ==
    ASSUME NEW es \in [Key -> Entry]
    PROVE  /\ Evict(es) \in [Key -> Entry]
           /\ \A k \in Key : Evict(es)[k] = IF es[k].left > 0 THEN es[k] ELSE Absent
BY DEF Evict, Entry, Absent

History == [count : Nat, by : Request \cup {None}, left : Nat]
Record == [phase : Phase, surface : {"http", "graphql", "none"}, key : Key \cup {None}, age : Nat]

(* A reservation is only made for a key without a live entry.                *)
LEMMA ReserveStep ==
    ASSUME IInv, NEW r \in Request, NEW k \in Key, "http" \in Surface, TryReserve(r, k)
    PROVE  IInv'
<1> DEFINE es == Evict(entries)
           mine == [status |-> "pending", by |-> None, left |-> TTL]
<1>1. /\ es \in [Key -> Entry]
      /\ \A c \in Key : es[c] = IF entries[c].left > 0 THEN entries[c] ELSE Absent
    BY EvictKeeps DEF IInv, TypeOK
<1>2. req[r] = Idle /\ req \in [Request -> Record]
    BY DEF TryReserve, IInv, TypeOK, Record
<1>3. CASE es[k].status = "absent"
  <2>1. /\ entries' = [es EXCEPT ![k] = mine]
        /\ req' = [req EXCEPT ![r] = [phase |-> "running", surface |-> "http", key |-> k, age |-> 0]]
        /\ UNCHANGED <<cache, applied>>
    BY <1>3 DEF TryReserve, Starts
  <2> HIDE DEF es
  <2>2. TypeOK'
    BY <1>1, <1>2, <2>1 DEF IInv, TypeOK, Entry, Phase, Record
  <2>3. Shape'
    BY <1>2, <2>1 DEF IInv, Shape, Record, Idle
  <2>4. \A q \in Request : Http(q) => req[q].key # k /\ req[q].key \in Key /\ entries[req[q].key].left > 0
    BY <1>1, <1>3, <1>2 DEF IInv, Shape, Reserved, Http, TypeOK, Entry, Absent, Record
  <2>5. Reserved'
    BY <1>1, <1>2, <2>1, <2>4 DEF IInv, Reserved, Http, Record, Idle
  <2>6. Alone'
    BY <1>2, <2>1, <2>4 DEF IInv, Alone, Http, Record, Idle
  <2>7. JustApplied'
    BY <1>2, <2>1 DEF IInv, JustApplied, Http, Record, Idle
  <2>8. ASSUME NEW c \in Key PROVE Remembered(c)'
    <3>1. Remembered(c)
      BY DEF IInv
    <3>2. CASE c = k
      BY <1>1, <1>2, <1>3, <2>1, <2>4, <3>1, <3>2 DEF Remembered, Http, Record, Idle, Absent
    <3>3. CASE c # k
      BY <1>1, <1>2, <2>1, <3>1, <3>3 DEF Remembered, Http, Record, Idle, Absent
    <3> QED
      BY <3>2, <3>3
  <2> QED
    BY <2>2, <2>3, <2>5, <2>6, <2>7, <2>8 DEF IInv
<1>4. CASE es[k].status # "absent"
  <2>1. entries' = es /\ UNCHANGED <<req, cache, applied>>
    BY <1>4 DEF TryReserve
  <2> HIDE DEF es
  <2>2. TypeOK'
    BY <1>1, <2>1 DEF IInv, TypeOK
  <2>3. Shape' /\ Alone' /\ JustApplied'
    BY <2>1 DEF IInv, Shape, Alone, JustApplied, Http
  <2>4. Reserved'
    BY <1>1, <1>2, <2>1 DEF IInv, Shape, Reserved, Http, Record
  <2>5. ASSUME NEW c \in Key PROVE Remembered(c)'
    <3>1. Remembered(c)
      BY DEF IInv
    <3> QED
      BY <1>1, <2>1, <3>1 DEF Remembered, Http, Absent
  <2> QED
    BY <2>2, <2>3, <2>4, <2>5 DEF IInv
<1> QED
    BY <1>3, <1>4

(* A GraphQL request touches neither the store nor another request.          *)
LEMMA LookUpStep ==
    ASSUME IInv, NEW r \in Request, NEW k \in Key, "graphql" \in Surface, LookUp(r, k)
    PROVE  IInv'
<1>1. Evict(cache) \in [Key -> Entry] /\ req \in [Request -> Record] /\ req[r] = Idle
    BY EvictKeeps DEF IInv, TypeOK, LookUp, Record
<1>2. /\ cache' = Evict(cache)
      /\ UNCHANGED <<entries, applied>>
      /\ \/ UNCHANGED req
         \/ req' = [req EXCEPT ![r] = [phase |-> "running", surface |-> "graphql", key |-> k, age |-> 0]]
    BY DEF LookUp, Starts
<1>3. TypeOK'
    BY <1>1, <1>2 DEF IInv, TypeOK, Record, Phase
<1>4. Shape'
    BY <1>1, <1>2 DEF IInv, Shape, Record
<1>5. Reserved' /\ Alone' /\ ("http" \in Surface => JustApplied')
    BY <1>1, <1>2 DEF IInv, Reserved, Alone, JustApplied, Http, Record, Idle
<1>6. ASSUME NEW c \in Key, Remembered(c) PROVE Remembered(c)'
    BY <1>1, <1>2, <1>6 DEF Remembered, Http, Record, Idle
<1> QED
    BY <1>3, <1>4, <1>5, <1>6 DEF IInv

(* Committing: the key was remembered by nobody, for its entry is pending    *)
(* and its only request has not committed.                                   *)
LEMMA CommitStep ==
    ASSUME IInv, NEW r \in Request, Commit(r)
    PROVE  IInv'
<1> DEFINE s == req[r].surface
           k == req[r].key
<1>1. /\ req \in [Request -> Record]
      /\ req[r].phase = "running" /\ s \in Surface /\ k \in Key
    BY DEF Commit, IInv, TypeOK, Shape, Record
<1>2. /\ req' = [req EXCEPT ![r].phase = "ok"]
      /\ applied' = [applied EXCEPT ![s][k] = [count |-> @.count + 1, by |-> r, left |-> TTL]]
      /\ UNCHANGED <<entries, cache>>
    BY DEF Commit, Concludes
<1>3. applied \in [Surface -> [Key -> History]]
    BY DEF IInv, TypeOK, History
<1>4. TypeOK'
  <2>1. applied' \in [Surface -> [Key -> History]]
    <3>0. applied[s][k] \in History
      BY ZenonT(60), <1>1, <1>3
    <3>1. applied[s][k].count + 1 \in Nat
      BY <3>0 DEF History
    <3>2. [count |-> applied[s][k].count + 1, by |-> r, left |-> TTL] \in History
      BY <3>1 DEF History
    <3> QED
      BY <1>1, <1>2, <1>3, <3>2
  <2>2. req' \in [Request -> Record]
    BY <1>1, <1>2 DEF Record, Phase
  <2> QED
    BY <1>2, <2>1, <2>2 DEF IInv, TypeOK, Record, History
<1>5. Shape' /\ Reserved' /\ Alone'
    BY <1>1, <1>2 DEF IInv, Shape, Reserved, Alone, Http, Record, Idle
<1>6. CASE s # "http"
  <2>1. "http" \in Surface => applied'["http"] = applied["http"]
    BY <1>1, <1>2, <1>3, <1>6
  <2>2. "http" \in Surface => JustApplied'
    BY <1>1, <1>2, <1>6, <2>1 DEF IInv, JustApplied, Http, Record
  <2>3. ASSUME "http" \in Surface, NEW c \in Key, Remembered(c) PROVE Remembered(c)'
    BY <1>1, <1>2, <1>6, <2>1, <2>3 DEF Remembered, Http, Record
  <2> QED
    BY <1>4, <1>5, <2>2, <2>3 DEF IInv
<1>7. CASE s = "http"
  <2>1. "http" \in Surface /\ entries[k].status = "pending"
    BY <1>1, <1>7 DEF IInv, Reserved, Http
  <2>2. \A q \in Request : Http(q) /\ req[q].phase = "ok" => req[q].key # k
    BY <1>1, <1>7 DEF IInv, Alone, Http
  <2>3. Remembered(k)
    BY <1>1, <2>1 DEF IInv
  <2>4. applied["http"][k].count = 0
    BY <2>1, <2>2, <2>3 DEF Remembered
  <2>5. /\ applied'["http"][k] = [count |-> 1, by |-> r, left |-> TTL]
        /\ \A c \in Key \ {k} : applied'["http"][c] = applied["http"][c]
    BY <1>1, <1>2, <1>3, <1>7, <2>4
  <2>6. JustApplied'
    <3> SUFFICES ASSUME NEW q \in Request, Http(q)', req'[q].phase = "ok"
                 PROVE  applied'["http"][req'[q].key] = [count |-> 1, by |-> q, left |-> TTL]
      BY Zenon DEF JustApplied, Http
    <3>1. CASE q = r
      <4>1. req'[q].key = k
        BY <1>1, <1>2, <3>1 DEF Record
      <4> QED
        BY Zenon, <2>5, <3>1, <4>1
    <3>2. CASE q # r
      <4>1. req'[q] = req[q]
        BY Zenon, <1>1, <1>2, <3>2
      <4>2. Http(q) /\ req[q].phase = "ok" /\ req[q].phase # "idle"
        <5>1. "ok" # "idle"
          OBVIOUS
        <5> QED
          BY Zenon, <4>1, <5>1 DEF Http
      <4>3. req[q].key \in Key \ {k} /\ applied["http"][req[q].key] = [count |-> 1, by |-> q, left |-> TTL]
        <5>1. req[q].key \in Key /\ req[q].key # k
          BY Zenon, <2>2, <4>2 DEF IInv, Shape
        <5>2. applied["http"][req[q].key] = [count |-> 1, by |-> q, left |-> TTL]
          BY Zenon, <2>1, <4>2 DEF IInv, JustApplied
        <5> QED
          BY Zenon, <5>1, <5>2
      <4> QED
        BY Zenon, <2>5, <4>1, <4>3
    <3> QED
      BY Zenon, <3>1, <3>2
  <2>7. ASSUME NEW c \in Key PROVE Remembered(c)'
    <3>1. CASE c = k
      BY <1>1, <1>2, <1>7, <3>1 DEF Remembered, Http, Record
    <3>2. CASE c # k
      <4>1. Remembered(c)
        BY <2>1 DEF IInv
      <4> QED
        BY <1>1, <1>2, <2>5, <3>2, <4>1 DEF Remembered, Http, Record
    <3> QED
      BY <3>1, <3>2
  <2> QED
    BY <1>4, <1>5, <2>6, <2>7 DEF IInv
<1> QED
    BY <1>6, <1>7

(* A refused transaction changes only what its request will answer.          *)
LEMMA RefusedStep ==
    ASSUME IInv, NEW r \in Request, Deny(r) \/ Fail(r)
    PROVE  IInv'
<1>1. /\ req \in [Request -> Record]
      /\ req[r].phase = "running"
    BY DEF Deny, Fail, IInv, TypeOK, Record
<1>2. PICK p \in {"forbidden", "failed"} : req' = [req EXCEPT ![r].phase = p]
    BY DEF Deny, Fail, Concludes
<1>3. UNCHANGED <<entries, cache, applied>>
    BY DEF Deny, Fail
<1>4. TypeOK'
  <2>1. req' \in [Request -> Record]
    BY <1>1, <1>2 DEF Record, Phase
  <2> QED
    BY <1>3, <2>1 DEF IInv, TypeOK, Record
<1>5. Shape' /\ Reserved' /\ Alone'
    BY <1>1, <1>2, <1>3 DEF IInv, Shape, Reserved, Alone, Http, Record, Idle
<1>6. "http" \in Surface => JustApplied'
    BY <1>1, <1>2, <1>3 DEF IInv, JustApplied, Http, Record
<1>7. ASSUME NEW c \in Key, Remembered(c) PROVE Remembered(c)'
    BY <1>1, <1>2, <1>3, <1>7 DEF Remembered, Http, Record
<1> QED
    BY <1>4, <1>5, <1>6, <1>7 DEF IInv

(* A dropped request leaves its reservation, which belongs to nobody then.   *)
LEMMA CancelStep ==
    ASSUME IInv, NEW r \in Request, Cancel(r)
    PROVE  IInv'
<1>1. /\ req \in [Request -> Record]
      /\ req[r].phase = "running"
      /\ req' = [req EXCEPT ![r] = Idle]
      /\ UNCHANGED <<entries, cache, applied>>
    BY DEF Cancel, IInv, TypeOK, Record
<1>2. TypeOK'
  <2>1. Idle \in Record
    BY DEF Record, Phase, Idle
  <2>2. req' \in [Request -> Record]
    BY <1>1, <2>1
  <2> QED
    BY <1>1, <2>2 DEF IInv, TypeOK, Record
<1>3. Shape' /\ Reserved' /\ Alone'
    BY <1>1 DEF IInv, Shape, Reserved, Alone, Http, Record, Idle
<1>4. "http" \in Surface => JustApplied'
    BY <1>1 DEF IInv, JustApplied, Http, Record, Idle
<1>5. ASSUME NEW c \in Key, Remembered(c) PROVE Remembered(c)'
    BY <1>1, <1>5 DEF Remembered, Http, Record, Idle
<1> QED
    BY <1>2, <1>3, <1>4, <1>5 DEF IInv

(* An answer turns the request's own reservation into its response, or       *)
(* removes it; no other request's entry is touched.                          *)
LEMMA AnswerStep ==
    ASSUME IInv, NEW r \in Request, Answer(r)
    PROVE  IInv'
<1> DEFINE k == req[r].key
           response == [status |-> req[r].phase, by |-> r, left |-> TTL]
<1>1. /\ req \in [Request -> Record]
      /\ req[r].phase \in {"ok", "forbidden", "failed"} /\ k \in Key
      /\ req' = [req EXCEPT ![r] = Idle]
      /\ UNCHANGED applied
    BY DEF Answer, IInv, TypeOK, Shape, Record
<1>2. entries \in [Key -> Entry] /\ cache \in [Key -> Entry]
    BY DEF IInv, TypeOK
<1>3. /\ cache' = IF req[r].surface = "graphql" /\ req[r].phase = "ok"
                  THEN [cache EXCEPT ![k] = response] ELSE cache
      /\ req[r].surface # "http" => UNCHANGED entries
      /\ Http(r) /\ req[r].phase # "failed" => entries' = [entries EXCEPT ![k] = response]
      /\ Http(r) /\ req[r].phase = "failed" => entries' = [entries EXCEPT ![k] = Absent]
    BY DEF Answer, IInv, Reserved, Http
<1>4. response \in Entry \/ req[r].phase = "failed"
    BY <1>1 DEF Entry
<1>5. TypeOK'
  <2>1. entries' \in [Key -> Entry] /\ cache' \in [Key -> Entry]
    BY <1>1, <1>2, <1>3, <1>4 DEF Http, Entry, Absent
  <2> QED
    BY <1>1, <2>1 DEF IInv, TypeOK, Record, Phase, Idle
<1>6. Shape'
    BY <1>1 DEF IInv, Shape, Record, Idle
<1>7. \A q \in Request \ {r} : Http(q) /\ Http(r) => req[q].key # k
    BY DEF IInv, Alone
<1>8. Reserved' /\ Alone'
  <2>1. \A q \in Request : Http(q)' => q # r /\ Http(q) /\ req'[q] = req[q]
    BY <1>1 DEF Http, Record, Idle
  <2>2. \A q \in Request : Http(q)' => entries'[req[q].key] = entries[req[q].key]
    BY <1>1, <1>2, <1>3, <1>7, <2>1 DEF IInv, Shape, Reserved, Http, Record
  <2> QED
    BY <2>1, <2>2 DEF IInv, Reserved, Alone, Http
<1>9. "http" \in Surface => JustApplied'
    BY <1>1 DEF IInv, JustApplied, Http, Record, Idle
<1>10. ASSUME "http" \in Surface, NEW c \in Key PROVE Remembered(c)'
  <2>1. Remembered(c) /\ JustApplied
    BY <1>10 DEF IInv
  <2>2. CASE ~Http(r) \/ c # k
    BY <1>1, <1>2, <1>3, <2>1, <2>2 DEF Remembered, Http, Record, Idle
  <2>3. CASE Http(r) /\ c = k
    <3>1. entries'[c] = IF req[r].phase = "failed" THEN Absent ELSE response
      BY <1>1, <1>2, <1>3, <2>3
    <3>2. CASE req[r].phase = "ok"
      <4>1. applied["http"][c] = [count |-> 1, by |-> r, left |-> TTL]
        BY <2>1, <2>3, <3>2 DEF JustApplied
      <4>2. entries'[c] = [status |-> "ok", by |-> r, left |-> TTL]
        BY <3>1, <3>2
      <4> QED
        BY <1>1, <4>1, <4>2 DEF Remembered
    <3>3. CASE req[r].phase # "ok"
      <4>1. entries[c].status = "pending"
        BY <2>3 DEF IInv, Reserved
      <4>2. ~ \E q \in Request : Http(q) /\ req[q].phase = "ok" /\ req[q].key = c
        BY <1>7, <2>3, <3>3
      <4>3. applied["http"][c].count = 0 /\ applied["http"][c].left = 0
        BY <2>1, <4>1, <4>2 DEF Remembered
      <4> QED
        BY <1>1, <3>1, <3>3, <4>3 DEF Remembered, Absent
    <3> QED
      BY <3>2, <3>3
  <2> QED
    BY <2>2, <2>3
<1> QED
    BY <1>5, <1>6, <1>8, <1>9, <1>10 DEF IInv

(* What a unit of time does to a request, an entry and a history.            *)
LEMMA Aging ==
    /\ \A q \in Record : LET p == [q EXCEPT !.age = @ + 1]
                         IN  /\ p \in Record /\ p.age = q.age + 1 /\ p.phase = q.phase
                             /\ p.surface = q.surface /\ p.key = q.key
    /\ \A e \in Entry : LET f == [e EXCEPT !.left = Less(@)]
                        IN  /\ f \in Entry /\ f.left = Less(e.left)
                            /\ f.status = e.status /\ f.by = e.by
    /\ \A a \in History : a.left > 1 =>
          LET b == [a EXCEPT !.left = @ - 1]
          IN  b \in History /\ b.left = a.left - 1 /\ b.count = a.count /\ b.by = a.by
<1>1. ASSUME NEW q \in Record PROVE LET p == [q EXCEPT !.age = @ + 1]
                         IN  /\ p \in Record /\ p.age = q.age + 1 /\ p.phase = q.phase
                             /\ p.surface = q.surface /\ p.key = q.key
    BY DEF Record
<1>2. ASSUME NEW e \in Entry PROVE LET f == [e EXCEPT !.left = Less(@)]
                        IN  /\ f \in Entry /\ f.left = Less(e.left)
                            /\ f.status = e.status /\ f.by = e.by
    BY DEF Entry, Less
<1>3. ASSUME NEW a \in History, a.left > 1 PROVE
          LET b == [a EXCEPT !.left = @ - 1]
          IN  b \in History /\ b.left = a.left - 1 /\ b.count = a.count /\ b.by = a.by
    BY <1>3 DEF History
<1> QED
    BY <1>1, <1>2, <1>3

(* A tick takes the same from a response and from its history; nobody holds  *)
(* the handler, and reservations outlast their requests' patience.           *)
LEMMA TickStep ==
    ASSUME IInv, Tick
    PROVE  IInv'
<1>1. /\ req \in [Request -> Record]
      /\ entries \in [Key -> Entry] /\ cache \in [Key -> Entry]
      /\ applied \in [Surface -> [Key -> History]]
      /\ Idle \in Record
    BY DEF IInv, TypeOK, Record, History, Idle, Phase
<1>2. /\ \A r \in Request : req'[r] = IF req[r] = Idle THEN Idle ELSE [req[r] EXCEPT !.age = @ + 1]
      /\ \A k \in Key : entries'[k] = [entries[k] EXCEPT !.left = Less(@)]
      /\ \A r \in Request : req[r] # Idle => req[r].age < Patience
    BY DEF Tick
<1>a. ASSUME NEW r \in Request
      PROVE  /\ req'[r] \in Record
             /\ req'[r].phase = req[r].phase /\ req'[r].key = req[r].key
             /\ req'[r].surface = req[r].surface
             /\ req[r] = Idle => req'[r] = Idle
             /\ req[r] # Idle => req'[r].age = req[r].age + 1
  <2>1. req[r] \in Record
    BY <1>1
  <2>2. CASE req[r] = Idle
    BY Zenon, <1>1, <1>2, <2>2
  <2>3. CASE req[r] # Idle
    <3>1. req'[r] = [req[r] EXCEPT !.age = @ + 1]
      BY <1>2, <2>3
    <3> QED
      BY <2>1, <2>3, <3>1, Aging
  <2> QED
    BY <2>2, <2>3
<1>3. TypeOK'
  <2>1. req' \in [Request -> Record]
    BY <1>a DEF Tick
  <2>2. entries' \in [Key -> Entry] /\ cache' \in [Key -> Entry]
    <3>1. \A k \in Key : [entries[k] EXCEPT !.left = Less(@)] \in Entry /\ [cache[k] EXCEPT !.left = Less(@)] \in Entry
      BY <1>1, Aging
    <3> QED
      BY Zenon, <3>1 DEF Tick
  <2>3. applied' \in [Surface -> [Key -> History]]
    <3>1. \A s \in Surface, k \in Key :
              (IF applied[s][k].left > 1 THEN [applied[s][k] EXCEPT !.left = @ - 1]
               ELSE [count |-> 0, by |-> None, left |-> 0]) \in History
      <4>1. [count |-> 0, by |-> None, left |-> 0] \in History
        BY DEF History
      <4>2. ASSUME NEW s \in Surface, NEW k \in Key PROVE applied[s][k] \in History
        BY <1>1
      <4> QED
        BY <4>1, <4>2, Aging
    <3> QED
      BY <3>1 DEF Tick
  <2> QED
    BY <2>1, <2>2, <2>3 DEF TypeOK, Record, History
<1>4. \A r \in Request : /\ req'[r].phase = req[r].phase /\ req'[r].key = req[r].key
                         /\ req'[r].surface = req[r].surface
                         /\ req[r] = Idle => req'[r] = Idle
                         /\ req[r] # Idle => req'[r].age = req[r].age + 1
    BY <1>a
<1>5. Shape'
  <2> SUFFICES ASSUME NEW r \in Request
               PROVE  /\ req'[r].phase = "idle" => req'[r] = Idle
                      /\ req'[r].phase # "idle" =>
                            req'[r].surface \in Surface /\ req'[r].key \in Key /\ req'[r].age <= Patience
    BY DEF Shape
  <2>1. req[r].phase = "idle" <=> req[r] = Idle
    BY DEF IInv, Shape, Idle
  <2>2. req[r].age \in Nat
    BY <1>1 DEF Record
  <2>3. req[r] # Idle => req[r].surface \in Surface /\ req[r].key \in Key /\ req[r].age < Patience
    BY <1>2, <2>1 DEF IInv, Shape
  <2> QED
    BY <1>4, <2>1, <2>2, <2>3
<1>6. Reserved'
  <2> SUFFICES ASSUME NEW r \in Request, Http(r)
               PROVE  /\ req'[r].phase # "idle"
                      /\ entries'[req'[r].key].status = "pending"
                      /\ entries'[req'[r].key].left = TTL - req'[r].age
    BY <1>4 DEF Reserved, Http
  <2>1. /\ req[r].phase # "idle" /\ req[r].key \in Key /\ req[r] # Idle
        /\ entries[req[r].key].status = "pending"
        /\ entries[req[r].key].left = TTL - req[r].age
        /\ req[r].age < Patience /\ req[r].age \in Nat
    BY <1>1, <1>2 DEF IInv, Shape, Reserved, Record, Idle, Http
  <2>2. req'[r].age = req[r].age + 1
    BY <1>4, <2>1
  <2>3. entries[req[r].key].left > 0
    BY <2>1
  <2>4. /\ entries'[req[r].key].status = "pending"
        /\ entries'[req[r].key].left = entries[req[r].key].left - 1
    BY ZenonT(60), <1>1, <1>2, <2>1, <2>3, Aging DEF Less
  <2> QED
    BY <1>4, <2>1, <2>2, <2>4
<1>7. Alone'
    BY <1>4 DEF IInv, Alone, Http
<1>8. \A r \in Request : Http(r) => req[r].phase # "ok"
    BY DEF Tick, LockFree, Http
<1>9. JustApplied'
    BY <1>4, <1>8 DEF JustApplied, Http
<1>10. ASSUME "http" \in Surface, NEW c \in Key PROVE Remembered(c)'
  <2>1. Remembered(c)
    BY <1>10 DEF IInv
  <2>2. applied'["http"][c] = IF applied["http"][c].left > 1
                              THEN [applied["http"][c] EXCEPT !.left = @ - 1]
                              ELSE [count |-> 0, by |-> None, left |-> 0]
    BY <1>10 DEF Tick
  <2>3. applied["http"][c] \in History /\ entries[c] \in Entry
    BY <1>1, <1>10
  <2>4. entries'[c] = [entries[c] EXCEPT !.left = Less(@)]
    BY <1>2
  <2>5. CASE /\ applied["http"][c].count = 0 /\ applied["http"][c].left = 0
             /\ ~(entries[c].status = "ok" /\ entries[c].left > 0)
    BY <2>2, <2>3, <2>4, <2>5, Aging DEF Remembered, Less, Entry, History
  <2>6. CASE /\ applied["http"][c].count = 1 /\ applied["http"][c].left > 0
             /\ entries[c] = [status |-> "ok", by |-> applied["http"][c].by, left |-> applied["http"][c].left]
    BY <2>2, <2>3, <2>4, <2>6, Aging DEF Remembered, Less, Entry, History
  <2> QED
    BY <1>8, <2>1, <2>5, <2>6 DEF Remembered
<1> QED
    BY <1>3, <1>5, <1>6, <1>7, <1>9, <1>10 DEF IInv

(* A restart forgets everything.                                             *)
LEMMA CrashStep ==
    ASSUME Crash PROVE IInv'
<1>1. /\ entries' = [k \in Key |-> Absent] /\ cache' = [k \in Key |-> Absent]
      /\ req' = [r \in Request |-> Idle]
      /\ applied' = [s \in Surface |-> [k \in Key |-> [count |-> 0, by |-> None, left |-> 0]]]
    BY DEF Crash
<1>2. TypeOK'
    BY <1>1 DEF TypeOK, Entry, Absent, Idle, Phase
<1>3. \A r \in Request : req'[r] = Idle
    BY <1>1
<1>4. Shape' /\ Reserved' /\ Alone' /\ JustApplied'
    BY <1>3 DEF Shape, Reserved, Alone, JustApplied, Http, Idle
<1>5. "http" \in Surface => \A k \in Key : Remembered(k)'
    BY <1>1 DEF Remembered, Absent
<1> QED
    BY <1>2, <1>4, <1>5 DEF IInv

(* The inductive invariant of the keyed transactions.                        *)
LEMMA Inductive == Spec => []IInv
<1>1. IInv /\ [Next]_vars => IInv'
  <2> SUFFICES ASSUME IInv, [Next]_vars PROVE IInv'
    OBVIOUS
  <2>1. ASSUME NEW r \in Request, NEW s \in Surface, NEW k \in Key, Submit(r, s, k) PROVE IInv'
    BY <2>1, ReserveStep, LookUpStep DEF Submit
  <2>2. ASSUME NEW r \in Request, Serve(r) PROVE IInv'
    BY <2>2, CommitStep, RefusedStep, AnswerStep DEF Serve
  <2>3. ASSUME NEW r \in Request, Cancel(r) PROVE IInv'
    BY <2>3, CancelStep
  <2>4. CASE UNCHANGED vars
    BY <2>4 DEF vars, IInv, TypeOK, Shape, Reserved, Alone, JustApplied, Remembered, Http
  <2> QED
    BY <2>1, <2>2, <2>3, <2>4, TickStep, CrashStep DEF Next
<1> QED
    BY <1>1, InvInit, PTL DEF Spec

(* TXN-09 for the gateway, for every number of requests and keys: within the *)
(* lifetime of its response a keyed transaction is applied at most once.     *)
THEOREM AtMostOnce == Spec => []HttpAppliedOnce
<1>1. IInv => HttpAppliedOnce
  <2> SUFFICES ASSUME IInv, "http" \in Surface, NEW k \in Key
               PROVE  applied["http"][k].count <= 1
    BY DEF HttpAppliedOnce
  <2>1. Remembered(k) /\ JustApplied
    BY DEF IInv
  <2>2. CASE \E r \in Request : Http(r) /\ req[r].phase = "ok" /\ req[r].key = k
    <3>1. PICK r \in Request : Http(r) /\ req[r].phase = "ok" /\ req[r].key = k
      BY <2>2
    <3>2. applied["http"][k] = [count |-> 1, by |-> r, left |-> TTL]
      BY <2>1, <3>1 DEF JustApplied
    <3> QED
      BY <3>2
  <2>3. CASE applied["http"][k].count = 0 \/ applied["http"][k].count = 1
    BY <2>3
  <2> QED
    BY <2>1, <2>2, <2>3 DEF Remembered
<1> QED
    BY <1>1, Inductive, PTL

(* Every executing gateway request holds a live reservation that is its own, *)
(* so what it stores or releases never is another request's.                 *)
THEOREM Exclusive == Spec => []OneInFlight
<1>1. IInv => OneInFlight
    BY DEF IInv, OneInFlight, Reserved, Alone, Shape, Http, TypeOK
<1> QED
    BY <1>1, Inductive, PTL

(* A replay returns the response of the transaction that was applied, for    *)
(* exactly its lifetime.                                                     *)
THEOREM ReplayIsOriginal == Spec => []CachedIsApplied
<1>1. IInv => CachedIsApplied
  <2> SUFFICES ASSUME IInv, "http" \in Surface, NEW k \in Key,
                      entries[k].status = "ok", entries[k].left > 0
               PROVE  /\ applied["http"][k].count > 0
                      /\ applied["http"][k].by = entries[k].by
                      /\ applied["http"][k].left = entries[k].left
    BY DEF CachedIsApplied
  <2>1. ~ \E r \in Request : Http(r) /\ req[r].phase = "ok" /\ req[r].key = k
    BY DEF IInv, Reserved
  <2>2. Remembered(k)
    BY DEF IInv
  <2> QED
    BY <2>1, <2>2 DEF Remembered
<1> QED
    BY <1>1, Inductive, PTL
=============================================================================
