--------------------------- MODULE Subscriptions ---------------------------
(* GraphQL subscriptions on the broadcast channel: a stream of change events *)
(* (entityChanged and its per-collection forms) and a live named query,      *)
(* which is evaluated again whenever a relevant event arrives.               *)
EXTENDS AuditFeed

CONSTANT Capacity  \* events the channel keeps for a receiver that is behind

ASSUME CapacityIsPositive == Capacity \in Nat \ {0}

VARIABLES
    watch,  \* a change stream: [on, pos, got]
    live    \* a live query: [on, start, pos, shown, at]

\* `on': "no" | "evaluated" (the initial result is there, the receiver is not)
\* | "yes" | "woken" (an event was taken, the handler's lock was not).
\* `start': events published before the receiver.  `pos': events passed.
\* `got': audit ids delivered to the client.  `shown': the last result
\* delivered; `at': entries it takes into account.
subVars == <<watch, live>>

SubsTypeOK ==
    /\ watch \in [on : {"no", "yes"}, pos : 0..Len(sent), got : Seq(1..Len(log))]
    /\ live \in [on : {"no", "evaluated", "yes", "woken"}, start : 0..Len(sent),
                 pos : 0..Len(sent), shown : Rows, at : 0..Len(log)]

NoQuery == [on |-> "no", start |-> 0, pos |-> 0, shown |-> [k \in Key |-> Nil], at |-> 0]
NoWatch == [on |-> "no", pos |-> 0, got |-> <<>>]

SubsInit == watch = NoWatch /\ live = NoQuery

----------------------------------------------------------------------------
\* tokio's broadcast receiver: a receiver more than Capacity behind is told so
\* once and goes on with the oldest event still kept.
Lagged(pos) == Len(sent) - pos > Capacity
Oldest == Len(sent) - Capacity

\* Mutant: a receiver that lags stays where it is.
NextPosStays(pos) == IF Lagged(pos) THEN pos ELSE pos + 1

NextPos(pos) == IF Lagged(pos) THEN Oldest ELSE pos + 1

----------------------------------------------------------------------------
subscribe_changes ==
    /\ watch.on = "no"
    /\ watch' = [watch EXCEPT !.on = "yes", !.pos = Len(sent)]
    /\ receivers' = receivers + 1
    /\ UNCHANGED live

\* Every event of the collection is handed on; the notice that some were lost
\* is not.
PollChanges ==
    /\ watch.on = "yes" /\ watch.pos < Len(sent)
    /\ watch' = [watch EXCEPT
                   !.pos = NextPos(@),
                   !.got = IF Lagged(watch.pos) THEN @ ELSE Append(@, sent[watch.pos + 1])]
    /\ UNCHANGED <<live, receivers>>

----------------------------------------------------------------------------
\* The initial result is computed under the lock, which is then let go.
EvaluateFirst ==
    /\ live.on = "no"
    /\ live' = [live EXCEPT !.on = "evaluated", !.shown = rows, !.at = Len(log)]
    /\ UNCHANGED <<watch, receivers>>

OpenReceiver ==
    /\ live.on = "evaluated"
    /\ live' = [live EXCEPT !.on = "yes", !.start = Len(sent), !.pos = Len(sent)]
    /\ receivers' = receivers + 1
    /\ UNCHANGED watch

\* Mutant: only created entities count.
RelevantCreates(id) == log[id].kind = "create"

\* Entities of the watched collection; a link event would be relevant too, if
\* one were ever published.
named_query_event_is_relevant(id) == log[id].key \in Key

\* One event: a notice of loss and an irrelevant event are skipped, and any
\* other one makes the stream ask for the lock.
PollLive ==
    LET skip == \/ Lagged(live.pos)
                \/ ~named_query_event_is_relevant(sent[live.pos + 1])
    IN  /\ live.on = "yes" /\ live.pos < Len(sent)
        /\ live' = [live EXCEPT !.pos = NextPos(@), !.on = IF skip THEN "yes" ELSE "woken"]
        /\ UNCHANGED <<watch, receivers>>

\* The query runs again, on what is stored when the lock is taken.
Reevaluate ==
    /\ live.on = "woken"
    /\ live' = [live EXCEPT !.on = "yes", !.shown = rows, !.at = Len(log)]
    /\ UNCHANGED <<watch, receivers>>

LiveIsOpen == live.on \in {"yes", "woken"}

\* The client goes away, or the server restarts: the receiver is dropped.
Unsubscribe ==
    /\ watch.on = "yes" \/ LiveIsOpen
    /\ watch' = NoWatch /\ live' = NoQuery
    /\ receivers' = receivers - 1
=============================================================================
