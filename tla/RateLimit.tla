------------------------------ MODULE RateLimit ------------------------------
(***************************************************************************)
(* The limiter of error reports (common/src/sentry_rate_limit.rs).         *)
(* before_send runs on whichever thread captured the event: it takes the   *)
(* event's key, reads the clock, and only then locks the map.  How far an  *)
(* event is behind the clock when it gets the lock is bounded by MaxDelay. *)
(***************************************************************************)
EXTENDS Integers, Sequences

CONSTANTS Threads, Culprits, Loggers,
          Window, PruneAfter,
          MaxDelay,    \* assumption: between the clock's reading and the lock
          MaxClock,    \* bound
          MaxEvents    \* bound: events captured

ASSUME LimitAssumption ==
    /\ Window \in Nat \ {0} /\ PruneAfter \in Nat /\ MaxDelay \in Nat
    /\ Window + MaxDelay <= PruneAfter

VARIABLES
    clock,     \* Instant
    lastSeen,  \* LAST_SEEN: key -> reading, a partial function
    events,    \* a thread's event and reading, between the clock and the lock
    verdicts   \* history: [key, at, sent], in the order of the lock

limitVars == <<clock, lastSeen, events, verdicts>>

NoReport == [key |-> <<>>, at |-> 0]

LimitInit ==
    /\ clock = 0
    /\ lastSeen = <<>>
    /\ events = [t \in Threads |-> NoReport]
    /\ verdicts = <<>>

(* An event: where it was raised, if known; who logged it; the type of its *)
(* first exception, if any.  Its message plays a part without both.        *)
Event == [culprit : Culprits \cup {"none"}, logger : Loggers, type : {"io", "none"}]

EventKey(e) ==
    IF e.culprit # "none" THEN <<"culprit", e.culprit>>
    ELSE IF e.type # "none" THEN <<"exc", e.logger, e.type>>
    ELSE <<"msg", e.logger>>

(* before_send up to Instant::now(). *)
ReadClock(t, e) ==
    /\ events[t] = NoReport
    /\ Len(verdicts) < MaxEvents
    /\ events' = [events EXCEPT ![t] = [key |-> EventKey(e), at |-> clock]]
    /\ UNCHANGED <<clock, lastSeen, verdicts>>

(* saturating_duration_since *)
Since(now, last) == IF now > last THEN now - last ELSE 0

PrunedEarly(now) ==
    [k \in {j \in DOMAIN lastSeen : Since(now, lastSeen[j]) < Window - 1} |-> lastSeen[k]]

Pruned(now) ==
    [k \in {j \in DOMAIN lastSeen : Since(now, lastSeen[j]) < PruneAfter} |-> lastSeen[k]]

ShouldSendRefreshes(t) ==
    /\ events[t] # NoReport
    /\ LET key == events[t].key
           now == events[t].at
           kept == Pruned(now)
           sent == ~(key \in DOMAIN kept /\ Since(now, kept[key]) < Window)
       IN  /\ lastSeen' = [k \in DOMAIN kept \cup {key} |-> IF k = key THEN now ELSE kept[k]]
           /\ verdicts' = Append(verdicts, [key |-> key, at |-> now, sent |-> sent])
    /\ events' = [events EXCEPT ![t] = NoReport]
    /\ UNCHANGED clock

(* should_send_inner, under the lock: prune, look up, and insert only when *)
(* the event is let through.                                               *)
ShouldSend(t) ==
    /\ events[t] # NoReport
    /\ LET key == events[t].key
           now == events[t].at
           kept == Pruned(now)
           sent == ~(key \in DOMAIN kept /\ Since(now, kept[key]) < Window)
       IN  /\ lastSeen' = IF sent THEN [k \in DOMAIN kept \cup {key} |-> IF k = key THEN now ELSE kept[k]]
                          ELSE kept
           /\ verdicts' = Append(verdicts, [key |-> key, at |-> now, sent |-> sent])
    /\ events' = [events EXCEPT ![t] = NoReport]
    /\ UNCHANGED clock

LimitTick ==
    /\ clock < MaxClock
    /\ \A t \in Threads : events[t] # NoReport => clock - events[t].at < MaxDelay
    /\ clock' = clock + 1
    /\ UNCHANGED <<lastSeen, events, verdicts>>

LimitNext ==
    \/ \E t \in Threads : ShouldSend(t) \/ \E e \in Event : ReadClock(t, e)
    \/ LimitTick

LimitSpec == LimitInit /\ [][LimitNext]_limitVars

-----------------------------------------------------------------------------
(* Whatever the threads' order at the lock, two reports of one key are a   *)
(* window apart by the clock they read: no entry is pruned that a late     *)
(* event still needs (sentry_rate_limit.rs 10-11, 52, 55).                 *)
ReportsAreSpaced ==
    \A i, j \in 1..Len(verdicts) :
        (i < j /\ verdicts[i].sent /\ verdicts[j].sent /\ verdicts[i].key = verdicts[j].key)
            => verdicts[j].at >= verdicts[i].at + Window

(* A report is dropped only for one of its key that was sent less than a   *)
(* window before it or after it: a failure that keeps recurring is         *)
(* reported again and again, not silenced by its own dropped reports.      *)
DroppedForASentOne ==
    \A j \in 1..Len(verdicts) : ~verdicts[j].sent =>
        \E i \in 1..(j - 1) : /\ verdicts[i].sent /\ verdicts[i].key = verdicts[j].key
                              /\ verdicts[j].at < verdicts[i].at + Window

(* With threads racing for the lock, exactly the repeated reports are      *)
(* dropped: sent ones are a window apart and a dropped one has a sent one  *)
(* within a window (sentry_rate_limit.rs 36-60).                           *)
ReportsAreLimited == ReportsAreSpaced /\ DroppedForASentOne
=============================================================================
