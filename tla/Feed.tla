-------------------------------- MODULE Feed --------------------------------
(* The audit log and those who follow it.  Followers change neither the rows *)
(* nor the log, nor one another, so a behaviour has one of them.             *)
EXTENDS Subscriptions, ChangeCapture

CONSTANT Role  \* the followers to consider

VARIABLE role

vars == <<feedVars, receivers, subVars, captureVars, role>>

Init == FeedInit /\ SubsInit /\ CaptureInit /\ role \in Role

Writer == FeedNext /\ UNCHANGED <<subVars, captureVars, role>>

Watcher ==
    /\ role = "watch"
    /\ subscribe_changes \/ PollChanges \/ Unsubscribe
    /\ UNCHANGED <<feedVars, captureVars, role>>

Polls ==
    /\ role = "live"
    /\ PollLive \/ Reevaluate
    /\ UNCHANGED <<feedVars, captureVars, role>>

Viewer ==
    /\ role = "live"
    /\ EvaluateFirst \/ OpenReceiver \/ PollLive \/ Reevaluate \/ Unsubscribe
    /\ UNCHANGED <<feedVars, captureVars, role>>

Capture(step) == role = "capture" /\ step /\ UNCHANGED <<feedVars, receivers, subVars, role>>

Next ==
    \/ Writer
    \/ Watcher
    \/ Viewer
    \/ Capture(CaptureNext)

Spec == Init /\ [][Next]_vars

(* The runtime polls a subscription's stream while events wait, a producer   *)
(* replays while there is something to replay, and a replica reads on.       *)
FairSpec ==
    /\ Spec
    /\ WF_vars(Polls)
    /\ WF_vars(Capture(ProducerStep))
    /\ WF_vars(Capture(ReplicaStep))

----------------------------------------------------------------------------
\* Every variable has its type, whoever follows the log.
TypeOK == FeedTypeOK /\ SubsTypeOK /\ CaptureTypeOK /\ role \in Role

(* The audit ids a change stream delivers never go back, whatever was lost   *)
(* in between: events are published under the handler's lock, in the order   *)
(* of the log, so the id of the last one is a cursor to resume from          *)
(* (broadcast_entity_change, commit_transaction in the gateway).             *)
WatchInOrder == \A m, n \in DOMAIN watch.got : m < n => watch.got[m] <= watch.got[n]

ChangesRows(id) == log[id].kind # "other"

(* A live query with no event waiting has been evaluated since every change  *)
(* published after its receiver was opened, even when the channel overflowed *)
(* and events were dropped; and if nothing else changed since, its last      *)
(* result is what is stored (build_named_query_subscription_field).          *)
LiveCatchesUp ==
    live.on = "yes" /\ live.pos = Len(sent) =>
        /\ \A n \in (live.start + 1)..Len(sent) : sent[n] <= live.at
        /\ (\A id \in (live.at + 1)..Len(log) : ~ChangesRows(id)) => live.shown = rows

(* No entry at or below the stored cursor is missing from the sink, whatever *)
(* sends and cursor writes failed and whenever the producer restarted        *)
(* (CdcSink::emit, StorageCursorStore::set).                                 *)
CursorCovers ==
    \A id \in 1..cursor :
        from_audit_entry(id) => \E n \in DOMAIN topic : topic[n] = Message(id, FALSE)

Captured ==
    /\ \A id \in DOMAIN log : from_audit_entry(id) => id <= cursor
    /\ page.todo = {}

\* The entity went with its collection, which no envelope tells.
Dropped(k) ==
    \E i \in DOMAIN log :
        log[i].kind = "drop" /\ \A j \in i..Len(log) : log[j].key # k

LastAbout(k) ==
    LET about == {n \in DOMAIN topic : log[topic[n].id].key = k}
    IN  CHOOSE n \in about : \A m \in about : m <= n

(* Once the producer has caught up, the last message about each key is the   *)
(* current one - its document, or the tombstone of a key that is gone - so a *)
(* topic that is compacted to it still holds the database, although messages *)
(* were sent again, or only half of them, after failures                     *)
(* (KafkaCdcSink::emit).  Entities dropped with their collection are the     *)
(* exception.                                                                *)
CompactionKeepsState ==
    role = "capture" /\ Captured =>
        \A k \in Key : ~Dropped(k) =>
            IF \E n \in DOMAIN topic : log[topic[n].id].key = k
            THEN /\ topic[LastAbout(k)].tomb <=> ~Exists(k)
                 /\ After(topic[LastAbout(k)].id) = rows[k]
            ELSE ~Exists(k)

(* A replica built from snapshot pages that were read while others wrote,    *)
(* and from the sink with its repetitions, equals the stored entities once   *)
(* it and the producer have caught up, across reconnections.  It keeps       *)
(* entities that were dropped with their collection.                         *)
ReplicaConverges ==
    replica.phase = "tail" /\ replica.pos = Len(topic) /\ Captured =>
        \A e \in Entity : ~Dropped(e) => replica.store[e] = rows[e]

(* An open live query is, again and again, evaluated since every change that *)
(* was published to it: a burst that overflows its channel delays it, and    *)
(* does not silence it.                                                      *)
PublishedIsShown ==
    []<>(LiveIsOpen => \A n \in (live.start + 1)..Len(sent) : sent[n] <= live.at)

(* The producer catches up with the log and the replica with the producer,   *)
(* also when a page holds only entries that have no envelope.                *)
CaptureCatchesUp ==
    []<>(role = "capture" => Captured /\ replica.phase = "tail" /\ replica.pos = Len(topic))

----------------------------------------------------------------------------
(* What the documents say of the program, and the program does not do        *)

(* QRY-12 (FEAT-009): subscribers of a named query receive updates whenever  *)
(* an underlying entity or link change affects the result set.               *)
LiveShowsCurrent ==
    live.on = "yes" /\ live.pos = Len(sent) => live.shown = rows

(* SnapshotResponse: all pages of a paginated snapshot share the audit       *)
(* cursor that was captured on the first page.                               *)
PagesShareCursor == replica.phase # "new" => replica.last = replica.first
=============================================================================
