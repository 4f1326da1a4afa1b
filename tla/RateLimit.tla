----------------------------- MODULE RateLimit -----------------------------
(* WriteRateLimiter: per actor, the instants of the writes let through in   *)
(* the last window.  The instant of a check is read before the lock is      *)
(* taken, so instants may arrive out of order.                              *)
EXTENDS Integers, Sequences

CONSTANTS Actor, MaxWrites, Window

ASSUME LimitAssumption == MaxWrites \in Nat /\ Window \in Nat

VARIABLES windows,   \* the deques
          passed     \* how many writes were let through with each instant (history)

limitVars == <<windows, passed>>

LimitInit(Instants) ==
    /\ windows = [a \in Actor |-> <<>>]
    /\ passed = [a \in Actor |-> [t \in Instants |-> 0]]

\* Slip: an entry exactly one window old is popped too.
PrunedAtEdge(window, now) ==
    LET kept == {i \in DOMAIN window : window[i] > now - Window}
        first == CHOOSE i \in kept : \A j \in kept : i <= j
    IN  IF kept = {} THEN <<>> ELSE SubSeq(window, first, Len(window))

\* Entries are popped while the front one is older than the window.
Pruned(window, now) ==
    LET kept == {i \in DOMAIN window : window[i] >= now - Window}
        first == CHOOSE i \in kept : \A j \in kept : i <= j
    IN  IF kept = {} THEN <<>> ELSE SubSeq(window, first, Len(window))

Limited(a, now) == Len(Pruned(windows[a], now)) >= MaxWrites

check_at(a, now) ==
    IF Limited(a, now)
    THEN /\ windows' = [windows EXCEPT ![a] = Pruned(@, now)]
         /\ UNCHANGED passed
    ELSE /\ windows' = [windows EXCEPT ![a] = Append(Pruned(@, now), now)]
         /\ passed' = [passed EXCEPT ![a][now] = @ + 1]

\* Instants that have left the window are no longer counted.
Forget(now) ==
    /\ passed' = [a \in Actor |-> [t \in DOMAIN passed[a] |->
                    IF t < now - Window THEN 0 ELSE passed[a][t]]]
    /\ UNCHANGED windows
============================================================================
