--------------------------- MODULE ChangeCapture ---------------------------
(* Change data capture: a producer replays the audit log from a durable      *)
(* cursor into a sink, and a local replica is bootstrapped from a paginated  *)
(* snapshot and then applies what the sink holds.  The producer's loop and   *)
(* the replica's driver are outside the repository; they are modelled by     *)
(* what replay_from_cursor, CdcCursorStore, CdcSink and LocalReplica ask of  *)
(* their caller.                                                             *)
EXTENDS AuditFeed

CONSTANTS
    PageLimit,  \* entries per replay page, and entities per snapshot page
    MaxFaults   \* bound: failed sends, failed cursor writes, restarts, disconnects

ASSUME LimitIsPositive == PageLimit \in Nat \ {0} /\ MaxFaults \in Nat

VARIABLES
    cursor,   \* the sink's stored cursor; 0 when there is none
    page,     \* the replay page in hand: [busy, todo, next], `todo' the ids not yet sent
    topic,    \* what reached the sink: [id, tomb]
    replica,  \* [phase, token, first, last, from, pos, store]
    faults    \* faults so far

captureVars == <<cursor, page, topic, replica, faults>>

Idle == [busy |-> FALSE, todo |-> {}, next |-> 0]
Message(id, tomb) == [id |-> id, tomb |-> tomb]

\* `phase': "new" | "paging" | "tail".  `token': the last entity of the page
\* before.  `first', `last': the audit cursors of the first and of the latest
\* snapshot page.  `from': events up to this id are not asked for.  `pos':
\* messages read.
NewReplica ==
    [phase |-> "new", token |-> 0, first |-> 0, last |-> 0, from |-> 0, pos |-> 0,
     store |-> [k \in Key |-> Nil]]

CaptureTypeOK ==
    /\ cursor \in 0..Len(log)
    /\ page \in [busy : BOOLEAN, todo : SUBSET (1..Len(log)), next : 0..Len(log)]
    /\ topic \in Seq([id : 1..Len(log), tomb : BOOLEAN])
    /\ replica \in [phase : {"new", "paging", "tail"}, token : Entity \cup {0},
                    first : 0..Len(log), last : 0..Len(log), from : 0..Len(log),
                    pos : 0..Len(topic), store : Rows]
    /\ faults \in 0..MaxFaults

CaptureInit ==
    /\ cursor = 0
    /\ page = Idle
    /\ topic = <<>>
    /\ replica = NewReplica
    /\ faults = 0

----------------------------------------------------------------------------
\* Replay

\* The id of the last entry of the page after `after'.
PageEnd(after) == IF after + PageLimit < Len(log) THEN after + PageLimit ELSE Len(log)

\* Entity and link entries have an envelope; the others have none.
from_audit_entry(id) == log[id].kind \in {"create", "update", "delete"}

\* query_paginated's next_cursor, here 0 when the log has no more.
replay_from_cursor ==
    LET end == PageEnd(cursor) IN
    /\ ~page.busy /\ cursor < Len(log)
    /\ page' = [busy |-> TRUE,
                todo |-> {id \in (cursor + 1)..end : from_audit_entry(id)},
                next |-> IF end < Len(log) THEN end ELSE 0]
    /\ UNCHANGED <<cursor, topic, replica, faults>>

Fault == faults < MaxFaults /\ faults' = faults + 1

\* Mutant: a delete is not followed by a tombstone.
MessagesWithoutTombstone(id) == <<Message(id, FALSE)>>

\* What a send of this envelope leaves in the topic: a delete is followed by a
\* tombstone.
Messages(id) ==
    IF log[id].kind = "delete" THEN <<Message(id, FALSE), Message(id, TRUE)>>
                               ELSE <<Message(id, FALSE)>>

\* Envelopes are sent in the order of their ids.
IsNext(id) == page.busy /\ id \in page.todo /\ \A j \in page.todo : id <= j

Emitted(id) ==
    /\ IsNext(id)
    /\ topic' = topic \o Messages(id)
    /\ page' = [page EXCEPT !.todo = @ \ {id}]

\* The envelope is sent, and then its id stored as the cursor.
emit(id) ==
    /\ Emitted(id)
    /\ cursor' = id
    /\ UNCHANGED <<replica, faults>>

\* The send fails, of a delete perhaps only the tombstone's: the page is given
\* up, and the cursor stays.
EmitFails(id) ==
    /\ IsNext(id) /\ Fault
    /\ \/ topic' = topic
       \/ log[id].kind = "delete" /\ topic' = Append(topic, Message(id, FALSE))
    /\ page' = Idle
    /\ UNCHANGED <<cursor, replica>>

\* The envelope is sent, and storing the cursor fails with a warning only.
CursorNotStored(id) == Emitted(id) /\ Fault /\ UNCHANGED <<cursor, replica>>

\* Mutant: the cursor only ever takes the ids of sent envelopes.
PageDoneIdsOnly ==
    /\ page.busy /\ page.todo = {}
    /\ page' = Idle
    /\ UNCHANGED <<cursor, topic, replica, faults>>

\* A page is done: the cursor moves past entries that had no envelope.
PageDone ==
    /\ page.busy /\ page.todo = {}
    /\ page' = Idle
    /\ cursor' = IF page.next > cursor THEN page.next ELSE cursor
    /\ UNCHANGED <<topic, replica, faults>>

ProducerRestarts ==
    /\ page.busy /\ Fault
    /\ page' = Idle
    /\ UNCHANGED <<cursor, topic, replica>>

----------------------------------------------------------------------------
\* The replica

Stored(after) == {e \in Entity : Exists(e) /\ e > after}

\* The first PageLimit entities after the token, in the order of their ids.
PageOf(after) ==
    {e \in Stored(after) : Cardinality({f \in Stored(after) : f <= e}) <= PageLimit}

\* Mutant: the cursor is taken from the latest page.
BoundaryLatest(r) == Len(log)

\* The tail begins where the log ended when the first page was read.
Boundary(r) == IF r.phase = "new" THEN Len(log) ELSE r.first

\* One snapshot page, read under the lock with the log's last id; its entities
\* are applied as they are read.
snapshot_entities ==
    LET got == PageOf(replica.token)
        more == Cardinality(Stored(replica.token)) > PageLimit
    IN  /\ replica.phase # "tail"
        /\ replica.token # 0 => Exists(replica.token)
        /\ replica' = [replica EXCEPT
                         !.phase = IF more THEN "paging" ELSE "tail",
                         !.token = IF more THEN CHOOSE e \in got : \A f \in got : f <= e ELSE @,
                         !.first = Boundary(replica),
                         !.from = Boundary(replica),
                         !.last = Len(log),
                         !.store = [k \in Key |-> IF k \in got THEN rows[k] ELSE @[k]]]
        /\ UNCHANGED <<cursor, page, topic, faults>>

\* The entity the page token names is gone: the request is refused, and the
\* driver begins again with a new replica.
SnapshotRefused ==
    /\ replica.phase = "paging" /\ ~Exists(replica.token)
    /\ replica' = NewReplica
    /\ UNCHANGED <<cursor, page, topic, faults>>

\* The next message of the sink.  The replica's `apply' upserts the document or
\* removes the record, whatever it held before.
apply ==
    LET m == topic[replica.pos + 1] IN
    /\ replica.phase = "tail" /\ replica.pos < Len(topic)
    /\ replica' = IF m.tomb \/ m.id <= replica.from
                  THEN [replica EXCEPT !.pos = @ + 1]
                  ELSE [replica EXCEPT !.pos = @ + 1,
                                       !.store[log[m.id].key] = After(m.id)]
    /\ UNCHANGED <<cursor, page, topic, faults>>

\* The id of the last event applied, which a client resumes from.
LatestCursor ==
    LET done == {n \in 1..replica.pos : ~topic[n].tomb /\ topic[n].id > replica.from}
    IN  IF done = {} THEN replica.from
        ELSE topic[CHOOSE n \in done : \A m \in done : m <= n].id

\* The connection is lost: the client resumes from its cursor, and is sent
\* again whatever the sink holds after it.
Reconnect ==
    /\ replica.phase = "tail" /\ Fault
    /\ replica' = [replica EXCEPT !.from = LatestCursor, !.pos = 0]
    /\ UNCHANGED <<cursor, page, topic>>

ProducerStep ==
    \/ replay_from_cursor
    \/ \E id \in page.todo : emit(id)
    \/ PageDone

ProducerFault ==
    \/ \E id \in page.todo : EmitFails(id) \/ CursorNotStored(id)
    \/ ProducerRestarts

ReplicaStep == snapshot_entities \/ SnapshotRefused \/ apply

CaptureNext == ProducerStep \/ ProducerFault \/ ReplicaStep \/ Reconnect
=============================================================================
