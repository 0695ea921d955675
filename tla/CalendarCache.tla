--------------------------- MODULE CalendarCache ---------------------------
(***************************************************************************)
(* The calendar feeds read in mid-call (ics.go Calendar): a cache in front *)
(* of slow ICS hosts, filled by background fetches that are shared through *)
(* an in-flight map.                                                       *)
(*                                                                         *)
(* A feed's parsed events are its version; the code never compares two.    *)
(* Only whether an entry has outlived its ttl is kept of its age.  The     *)
(* fetch looks at no HTTP status: a page that says the host is in trouble  *)
(* parses to a calendar without events, and is cached like any other.      *)
(***************************************************************************)
EXTENDS Naturals, FiniteSets

CONSTANTS
    Urls,       \* calendar feeds
    Callers,    \* goroutines in Today or Warm
    Fetches,    \* identities for fetch goroutines
    MaxVersion  \* bound: how often a feed changes

ASSUME CalendarAssumption == MaxVersion \in Nat \ {0}

None == 0                \* no entry; a feed's versions are 1..MaxVersion
Blank == MaxVersion + 1  \* what an error page parses to: no events

VARIABLES
    feed,      \* per url: the version its host serves
    cache,     \* per url: the version cached, Blank, or None
    fresh,     \* urls whose entry is within its ttl
    inflight,  \* Calendar.inflight
    fetch,     \* per fetch goroutine: what it is doing
    caller,    \* per caller: where it stands
    shown      \* history, per url: the true copy cached last, or None

vars == <<feed, cache, fresh, inflight, fetch, caller, shown>>

NoFetch == [pc |-> "unused", url |-> "none", got |-> None]
NoCall == [pc |-> "idle", url |-> "none"]

FetchState ==
    {NoFetch} \cup [pc : {"asking", "parsed"}, url : Urls, got : 0..Blank]
CallerState ==
    {NoCall} \cup [pc : {"cold", "served", "reread"}, url : Urls]
        \cup [pc : {"waiting"}, url : Urls, on : Fetches]

TypeOK ==
    /\ feed \in [Urls -> 1..MaxVersion]
    /\ cache \in [Urls -> 0..Blank]
    /\ fresh \in SUBSET Urls
    /\ inflight \in SUBSET Urls
    /\ fetch \in [Fetches -> FetchState]
    /\ caller \in [Callers -> CallerState]
    /\ shown \in [Urls -> 0..MaxVersion]

Init ==
    /\ feed = [u \in Urls |-> 1]
    /\ cache = [u \in Urls |-> None]
    /\ fresh = {}
    /\ inflight = {}
    /\ fetch = [f \in Fetches |-> NoFetch]
    /\ caller = [p \in Callers |-> NoCall]
    /\ shown = [u \in Urls |-> None]

----------------------------------------------------------------------------
(* Callers.                                                                *)

\* Today's first look: a fresh entry is answered from under the lock and leaves
\* no trace; otherwise what was there is remembered past the unlock, for whoever
\* has a copy, however stale, does not wait for the fetch.
TodayLooks(p, u) ==
    /\ caller[p].pc = "idle"
    /\ u \notin fresh
    /\ caller' = [caller EXCEPT ![p] =
                    [pc |-> IF cache[u] = None THEN "cold" ELSE "served", url |-> u]]
    /\ UNCHANGED <<feed, cache, fresh, inflight, fetch, shown>>

\* Warm looks too, and has nothing to wait for.
WarmLooks(p, u) ==
    /\ caller[p].pc = "idle"
    /\ u \notin fresh
    /\ caller' = [caller EXCEPT ![p] = [pc |-> "served", url |-> u]]
    /\ UNCHANGED <<feed, cache, fresh, inflight, fetch, shown>>

\* Where a caller goes once refresh has returned channel `done`.
Proceeds(p, next) ==
    caller' = [caller EXCEPT ![p] = IF @.pc = "cold" THEN next ELSE NoCall]

StartsUnguarded(p, f) ==
    LET u == caller[p].url IN
    /\ caller[p].pc \in {"cold", "served"}
    /\ fetch[f].pc = "unused"
    /\ inflight' = inflight \cup {u}
    /\ fetch' = [fetch EXCEPT ![f] = [pc |-> "asking", url |-> u, got |-> None]]
    /\ Proceeds(p, [pc |-> "waiting", url |-> u, on |-> f])
    /\ UNCHANGED <<feed, cache, fresh, shown>>

\* refresh with nothing in flight: a fetch starts, and a cold caller waits for
\* it to be done.
Starts(p, f) ==
    LET u == caller[p].url IN
    /\ caller[p].pc \in {"cold", "served"}
    /\ u \notin inflight
    /\ fetch[f].pc = "unused"
    /\ inflight' = inflight \cup {u}
    /\ fetch' = [fetch EXCEPT ![f] = [pc |-> "asking", url |-> u, got |-> None]]
    /\ Proceeds(p, [pc |-> "waiting", url |-> u, on |-> f])
    /\ UNCHANGED <<feed, cache, fresh, shown>>

\* refresh with a fetch in flight: the channel returned is already closed, so
\* that not even a cold caller waits for the fetch it shares.
Joins(p) ==
    /\ caller[p].pc \in {"cold", "served"}
    /\ caller[p].url \in inflight
    /\ Proceeds(p, [pc |-> "reread", url |-> caller[p].url])
    /\ UNCHANGED <<feed, cache, fresh, inflight, fetch, shown>>

\* maxBlock has passed: the caller answers without calendar.
GivesUp(p) ==
    /\ caller[p].pc = "waiting"
    /\ caller' = [caller EXCEPT ![p] = NoCall]
    /\ UNCHANGED <<feed, cache, fresh, inflight, fetch, shown>>

\* The channel was closed: whatever the cache holds is the answer.
Rereads(p) ==
    /\ caller[p].pc = "reread"
    /\ caller' = [caller EXCEPT ![p] = NoCall]
    /\ UNCHANGED <<feed, cache, fresh, inflight, fetch, shown>>

----------------------------------------------------------------------------
(* The fetch goroutine.                                                    *)

\* The host serves the calendar, or a page that is none: no status is checked.
HostAnswers(f) ==
    /\ fetch[f].pc = "asking"
    /\ \E page \in {feed[fetch[f].url], Blank} :
         fetch' = [fetch EXCEPT ![f].pc = "parsed", ![f].got = page]
    /\ UNCHANGED <<feed, cache, fresh, inflight, caller, shown>>

ClosesForgotten(f) ==
    /\ fetch' = [fetch EXCEPT ![f] = NoFetch]
    /\ caller' = [p \in Callers |->
                    IF caller[p].pc = "waiting" /\ caller[p].on = f
                    THEN [pc |-> "reread", url |-> fetch'[f].url] ELSE caller[p]]

\* The deferred close of the fetch's channel wakes whoever still waits.
Closes(f) ==
    /\ caller' = [p \in Callers |->
                    IF caller[p].pc = "waiting" /\ caller[p].on = f
                    THEN [pc |-> "reread", url |-> caller[p].url] ELSE caller[p]]
    /\ fetch' = [fetch EXCEPT ![f] = NoFetch]

FailsMarked(f) ==
    /\ fetch[f].pc = "asking"
    /\ Closes(f)
    /\ UNCHANGED <<feed, cache, fresh, inflight, shown>>

\* No answer, or not in the client's time: only the in-flight mark is undone.
Fails(f) ==
    /\ fetch[f].pc = "asking"
    /\ inflight' = inflight \ {fetch[f].url}
    /\ Closes(f)
    /\ UNCHANGED <<feed, cache, fresh, shown>>

\* Under one lock: the fetch is no longer in flight, and its events are cached.
Lands(f) ==
    LET u == fetch[f].url IN
    /\ fetch[f].pc = "parsed"
    /\ inflight' = inflight \ {u}
    /\ cache' = [cache EXCEPT ![u] = fetch[f].got]
    /\ fresh' = fresh \cup {u}
    /\ shown' = IF fetch[f].got = Blank THEN shown
                ELSE [shown EXCEPT ![u] = fetch[f].got]
    /\ Closes(f)
    /\ UNCHANGED feed

----------------------------------------------------------------------------
(* The environment.                                                        *)

FeedChanges(u) ==
    /\ feed[u] < MaxVersion
    /\ feed' = [feed EXCEPT ![u] = @ + 1]
    /\ UNCHANGED <<cache, fresh, inflight, fetch, caller, shown>>

EntryExpires(u) ==
    /\ u \in fresh
    /\ fresh' = fresh \ {u}
    /\ UNCHANGED <<feed, cache, inflight, fetch, caller, shown>>

CallerStep(p) ==
    \/ \E f \in Fetches : Starts(p, f)
    \/ Joins(p) \/ GivesUp(p) \/ Rereads(p)

FetchStep(f) == HostAnswers(f) \/ Fails(f) \/ Lands(f)

Next ==
    \/ \E p \in Callers, u \in Urls : TodayLooks(p, u) \/ WarmLooks(p, u)
    \/ \E p \in Callers : CallerStep(p)
    \/ \E f \in Fetches : FetchStep(f)
    \/ \E u \in Urls : FeedChanges(u) \/ EntryExpires(u)

\* A fetch runs to its end: the host answers or the http client times out.
\* Nobody is obliged to read a calendar, nor a feed to change or expire.
Fairness == \A f \in Fetches : WF_vars(FetchStep(f))

Spec == Init /\ [][Next]_vars /\ Fairness

----------------------------------------------------------------------------
(* Properties.                                                             *)

Running(f) == fetch[f].pc # "unused"

\* "refresh starts one background fetch per url": two never run at once for one
\* feed, and none runs that the in-flight map has forgotten.
OneFetchPerUrl ==
    /\ \A f \in Fetches : Running(f) => fetch[f].url \in inflight
    /\ \A f, g \in Fetches :
         Running(f) /\ Running(g) /\ fetch[f].url = fetch[g].url => f = g

\* However slow the fetch that brings it, a true copy of a calendar is never put
\* in place of a later one, nor is one older than any shown before it brought
\* back after an error page has taken the later one's place.
NeverOlder ==
    [][\A u \in Urls : cache'[u] # cache[u] /\ cache'[u] # Blank =>
         cache'[u] >= shown[u]]_vars

\* What makes NeverOlder hold: whatever was shown when a fetch is under way was
\* shown before it began, so it is no newer than what the fetch will bring.
CacheInv ==
    /\ OneFetchPerUrl
    /\ \A u \in Urls : shown[u] <= feed[u]
    /\ \A f \in Fetches : fetch[f].pc = "parsed" /\ fetch[f].got # Blank =>
         shown[fetch[f].url] <= fetch[f].got /\ fetch[f].got <= feed[fetch[f].url]

\* A feed whose fetch failed can be fetched again: the in-flight mark is always
\* taken back.
FeedsStayFetchable == \A u \in Urls : u \in inflight ~> u \notin inflight
=============================================================================
