------------------------- MODULE Background_proofs -------------------------
(***************************************************************************)
(* Proofs about what runs beside the requests: CalendarCache, for any      *)
(* number of feeds, callers, fetches and versions, and CheckIns, for any   *)
(* people, handlers and hours.                                             *)
(***************************************************************************)
EXTENDS CalendarCache, CheckIns, TLAPS

----------------------------------------------------------------------------
(* The calendar cache.                                                     *)

\* Every variable keeps its type.
THEOREM TypeCorrect == Spec => []TypeOK
<1> USE CalendarAssumption DEF None, Blank
<1>1. Init => TypeOK
  BY DEF Init, TypeOK, NoFetch, NoCall, FetchState, CallerState
<1>2. TypeOK /\ [Next]_vars => TypeOK'
  <2> SUFFICES ASSUME TypeOK, [Next]_vars PROVE TypeOK'
    OBVIOUS
  <2> USE DEF TypeOK
  <2>1. ASSUME NEW p \in Callers, NEW u \in Urls, TodayLooks(p, u) PROVE TypeOK'
    BY <2>1 DEF TodayLooks, CallerState
  <2>2. ASSUME NEW p \in Callers, NEW u \in Urls, WarmLooks(p, u) PROVE TypeOK'
    BY <2>2 DEF WarmLooks, CallerState
  <2>3. ASSUME NEW p \in Callers, NEW f \in Fetches, Starts(p, f) PROVE TypeOK'
    <3>1. caller[p].url \in Urls
      BY <2>3 DEF Starts, CallerState, NoCall
    <3>2. fetch' \in [Fetches -> FetchState]
      BY <2>3, <3>1 DEF Starts, FetchState
    <3>3. caller' \in [Callers -> CallerState]
      BY <2>3, <3>1 DEF Starts, Proceeds, CallerState
    <3> QED BY <2>3, <3>1, <3>2, <3>3 DEF Starts
  <2>4. ASSUME NEW p \in Callers, Joins(p) PROVE TypeOK'
    <3>1. caller[p].url \in Urls
      BY <2>4 DEF Joins, CallerState, NoCall
    <3> QED BY <2>4, <3>1 DEF Joins, Proceeds, CallerState
  <2>5. ASSUME NEW p \in Callers, GivesUp(p) \/ Rereads(p) PROVE TypeOK'
    BY <2>5 DEF GivesUp, Rereads, CallerState
  <2>6. ASSUME NEW f \in Fetches, HostAnswers(f) PROVE TypeOK'
    <3>1. /\ fetch[f].url \in Urls
          /\ fetch[f] \in [pc : {"asking", "parsed"}, url : Urls, got : 0..Blank]
      BY <2>6 DEF HostAnswers, FetchState, NoFetch
    <3>2. feed[fetch[f].url] \in 0..Blank /\ Blank \in 0..Blank
      BY <3>1
    <3>3. PICK page \in 0..Blank :
             fetch' = [fetch EXCEPT ![f].pc = "parsed", ![f].got = page]
      BY <2>6, <3>2 DEF HostAnswers
    <3>4. fetch' \in [Fetches -> FetchState]
      BY <3>1, <3>3 DEF FetchState
    <3> QED BY <2>6, <3>4 DEF HostAnswers
  <2>7. ASSUME NEW f \in Fetches, Fails(f) \/ Lands(f) PROVE TypeOK'
    <3>1. /\ fetch[f].url \in Urls
          /\ fetch[f].got \in 0..Blank
          /\ fetch[f].got # Blank => fetch[f].got \in 0..MaxVersion
      BY <2>7 DEF Fails, Lands, FetchState, NoFetch
    <3>2. fetch' \in [Fetches -> FetchState]
      BY <2>7 DEF Fails, Lands, Closes, FetchState
    <3>3. ASSUME NEW p \in Callers, caller[p].pc = "waiting" PROVE caller[p].url \in Urls
      BY <3>3 DEF CallerState, NoCall
    <3>4. caller' \in [Callers -> CallerState]
      BY <2>7, <3>3 DEF Fails, Lands, Closes, CallerState
    <3> QED BY <2>7, <3>1, <3>2, <3>4 DEF Fails, Lands
  <2>8. ASSUME NEW u \in Urls, FeedChanges(u) \/ EntryExpires(u) PROVE TypeOK'
    BY <2>8 DEF FeedChanges, EntryExpires
  <2>9. CASE UNCHANGED vars
    BY <2>9 DEF vars
  <2> QED BY <2>1, <2>2, <2>3, <2>4, <2>5, <2>6, <2>7, <2>8, <2>9
         DEF Next, CallerStep, FetchStep
<1> QED BY <1>1, <1>2, PTL DEF Spec

\* What a running fetch holds.
LEMMA RunningHasUrl ==
    ASSUME TypeOK, NEW f \in Fetches, Running(f)
    PROVE  fetch[f].url \in Urls /\ fetch[f].got \in 0..Blank
BY DEF TypeOK, FetchState, NoFetch, Running

\* refresh runs at most one fetch per feed, and what was shown is no newer than
\* what a fetch under way will bring: both are inductive together.
LEMMA CacheInvHolds == Spec => []CacheInv
<1> USE CalendarAssumption DEF None, Blank
<1>1. Init => CacheInv
  BY DEF Init, CacheInv, OneFetchPerUrl, Running, NoFetch
<1>2. TypeOK /\ CacheInv /\ [Next]_vars => CacheInv'
  <2> SUFFICES ASSUME TypeOK, CacheInv, [Next]_vars PROVE CacheInv'
    OBVIOUS
  <2> USE DEF CacheInv, OneFetchPerUrl, Running
  <2>1. ASSUME UNCHANGED <<feed, shown, inflight, fetch>> PROVE CacheInv'
    BY <2>1
  <2>2. ASSUME NEW p \in Callers, NEW f \in Fetches, Starts(p, f) PROVE CacheInv'
    BY <2>2 DEF Starts, TypeOK
  <2>3. ASSUME NEW f \in Fetches, HostAnswers(f) PROVE CacheInv'
    <3>1. fetch[f].url \in Urls
      BY <2>3, RunningHasUrl DEF HostAnswers
    <3> QED BY <2>3, <3>1 DEF HostAnswers, TypeOK, FetchState, NoFetch
  <2>4. ASSUME NEW f \in Fetches, Fails(f) PROVE CacheInv'
    BY <2>4 DEF Fails, Closes, NoFetch, TypeOK
  <2>5. ASSUME NEW f \in Fetches, Lands(f) PROVE CacheInv'
    <3>1. fetch[f].url \in Urls /\ fetch[f].got \in 0..Blank
      BY <2>5, RunningHasUrl DEF Lands
    <3>2. \A g \in Fetches : g # f /\ Running(g) =>
             fetch'[g] = fetch[g] /\ fetch[g].url # fetch[f].url
      BY <2>5 DEF Lands, Closes, TypeOK
    <3>3. fetch'[f] = NoFetch
      BY <2>5 DEF Lands, Closes, TypeOK
    <3>4. \A g \in Fetches : Running(g)' => g # f /\ Running(g)
      BY <2>5, <3>3 DEF Lands, Closes, NoFetch, TypeOK
    <3>5. OneFetchPerUrl'
      BY <2>5, <3>2, <3>4 DEF Lands
    <3>6. \A u \in Urls : shown'[u] <= feed'[u]
      BY <2>5, <3>1 DEF Lands, TypeOK
    <3>7. \A g \in Fetches : fetch'[g].pc = "parsed" /\ fetch'[g].got # Blank =>
            shown'[fetch'[g].url] <= fetch'[g].got /\ fetch'[g].got <= feed'[fetch'[g].url]
      BY <2>5, <3>1, <3>2, <3>4, RunningHasUrl DEF Lands, TypeOK
    <3> QED BY <3>5, <3>6, <3>7
  <2>6. ASSUME NEW u \in Urls, FeedChanges(u) PROVE CacheInv'
    BY <2>6, RunningHasUrl DEF FeedChanges, TypeOK
  <2>7. CASE UNCHANGED vars
    BY <2>1, <2>7 DEF vars
  <2> QED BY <2>1, <2>2, <2>3, <2>4, <2>5, <2>6, <2>7
         DEF Next, CallerStep, FetchStep, TodayLooks, WarmLooks, Joins, GivesUp,
             Rereads, EntryExpires
<1> QED BY <1>1, <1>2, TypeCorrect, PTL DEF Spec

\* At most one fetch of a feed runs at a time, and the in-flight map knows it.
THEOREM FetchesAreShared == Spec => []OneFetchPerUrl
<1>1. CacheInv => OneFetchPerUrl
  BY DEF CacheInv
<1> QED BY <1>1, CacheInvHolds, PTL

\* The cache never goes back to an older copy of a calendar, not even by way of
\* an error page: only that page can take a copy's place.
THEOREM CacheNeverGoesBack == Spec => NeverOlder
<1> DEFINE Kept == \A u \in Urls : cache'[u] # cache[u] /\ cache'[u] # Blank =>
                     cache'[u] >= shown[u]
<1>1. TypeOK /\ CacheInv /\ [Next]_vars => [Kept]_vars
  <2> SUFFICES ASSUME TypeOK, CacheInv, Next PROVE Kept
    OBVIOUS
  <2>1. ASSUME NEW f \in Fetches, Lands(f) PROVE Kept
    <3>1. fetch[f].url \in Urls /\ fetch[f].got \in 0..Blank
      BY <2>1, RunningHasUrl DEF Lands, Running
    <3>2. fetch[f].got # Blank => shown[fetch[f].url] <= fetch[f].got
      BY <2>1 DEF Lands, CacheInv
    <3> QED BY <2>1, <3>1, <3>2 DEF Lands, TypeOK
  <2>2. ASSUME UNCHANGED cache PROVE Kept
    BY <2>2 DEF TypeOK
  <2> QED BY <2>1, <2>2
         DEF Next, CallerStep, FetchStep, TodayLooks, WarmLooks, Starts, Joins,
             GivesUp, Rereads, HostAnswers, Fails, FeedChanges, EntryExpires
<1>2. Spec => [][Next]_vars
  BY PTL DEF Spec
<1> QED BY <1>1, <1>2, TypeCorrect, CacheInvHolds, PTL DEF NeverOlder

----------------------------------------------------------------------------
(* Check-ins.                                                              *)

\* Hours and what lies between them alternate.
LEMMA Parity == ASSUME NEW p \in Nat PROVE IsHour(p + 1) <=> ~IsHour(p)
BY DEF IsHour

\* There is a period at least.
LEMMA EndIsNat == End \in Nat \ {0}
<1>1. Len(Hours) \in Nat
  BY CheckInsAssumption
<1> QED BY <1>1 DEF End

\* A pass that leaves some of those who are due is a pass or none.
LEMMA PassTypes ==
    ASSUME pass \in [now : Periods \cup {0}, due : SUBSET Users], passed \in BOOLEAN,
           NEW left \in SUBSET Users, GoesOn(left)
    PROVE  pass' \in [now : Periods \cup {0}, due : SUBSET Users] /\ passed' \in BOOLEAN
<1>1. passed' \in BOOLEAN
  BY DEF GoesOn
<1>2. CASE left = {}
  BY <1>1, <1>2 DEF GoesOn, NoPass
<1>3. CASE left # {}
  BY <1>1, <1>3 DEF GoesOn
<1> QED BY <1>2, <1>3

\* The same of the opener that is done.
LEMMA DoneTypes ==
    ASSUME CITypeOK, NEW o \in Openers, Done(o)
    PROVE  /\ job' \in [Openers -> Job]
           /\ pass' \in [now : Periods \cup {0}, due : SUBSET Users]
           /\ passed' \in BOOLEAN
<1>1. job' \in [Openers -> Job]
  BY DEF CITypeOK, Done, NoJob, Job
<1>2. CASE o = Scheduler
  <2>1. pass.due \ {job[o].user} \in SUBSET Users
    BY DEF CITypeOK
  <2> QED BY <1>1, <1>2, <2>1, PassTypes DEF CITypeOK, Done
<1>3. CASE o # Scheduler
  BY <1>1, <1>3 DEF CITypeOK, Done
<1> QED BY <1>2, <1>3

\* Every variable of the check-ins keeps its type.
THEOREM CITypeCorrect == CISpec => []CITypeOK
<1> USE CheckInsAssumption DEF Never
<1>1. CIInit => CITypeOK
  <2> SUFFICES ASSUME CIInit PROVE CITypeOK
    OBVIOUS
  <2>1. clock \in Periods
    BY EndIsNat DEF CIInit, Periods
  <2>2. job \in [Openers -> Job]
    BY DEF CIInit, NoJob, Job
  <2>3. pass \in [now : Periods \cup {0}, due : SUBSET Users]
    BY DEF CIInit, NoPass
  <2>4. asked \in 0..MaxAsked /\ changes \in 0..MaxChanges
    BY DEF CIInit
  <2> QED BY <2>1, <2>2, <2>3, <2>4 DEF CIInit, CITypeOK
<1>2. CITypeOK /\ [CINext]_ciVars => CITypeOK'
  <2> SUFFICES ASSUME CITypeOK, [CINext]_ciVars PROVE CITypeOK'
    OBVIOUS
  <2> USE DEF db, history
  <2>1. CASE PassBegins
    <3>1. {u \in users : DueNow(u, clock)} \in SUBSET Users
      BY DEF CITypeOK
    <3> DEFINE due == {u \in users : DueNow(u, clock)}
    <3>2. CASE due = {}
      BY <2>1, <3>2 DEF PassBegins, CITypeOK
    <3>3. CASE due # {}
      <4>1. pass' = [now |-> clock, due |-> due] /\ UNCHANGED passed
        BY <2>1, <3>3 DEF PassBegins
      <4> HIDE DEF due
      <4> QED BY <2>1, <3>1, <4>1 DEF PassBegins, CITypeOK, due
    <3> QED BY <3>2, <3>3
  <2>2. ASSUME NEW u \in Users, SettledStatus(u) PROVE CITypeOK'
    <3>1. pass.due \ {u} \in SUBSET Users
      BY DEF CITypeOK
    <3>2. pass' \in [now : Periods \cup {0}, due : SUBSET Users] /\ passed' \in BOOLEAN
      BY <2>2, <3>1, PassTypes DEF SettledStatus, CITypeOK
    <3>3. job' \in [Openers -> Job]
      BY <2>2 DEF SettledStatus, CITypeOK, Job
    <3> QED BY <2>2, <3>2, <3>3 DEF SettledStatus, CITypeOK
  <2>3. ASSUME NEW w \in Workers, NEW u \in Users, NEW kind \in {"trigger", "now"},
               Asks(w, u, kind)
        PROVE  CITypeOK'
    <3>1. job' \in [Openers -> Job]
      BY <2>3 DEF Asks, CITypeOK, Job, Openers
    <3>2. asked' \in 0..MaxAsked
      BY <2>3 DEF Asks, CITypeOK
    <3> QED BY <2>3, <3>1, <3>2 DEF Asks, CITypeOK
  <2>4. ASSUME NEW o \in Openers, NEW reached \in BOOLEAN, NEW ok \in BOOLEAN,
               Opens(o, reached, ok)
        PROVE  CITypeOK'
    <3>1. owed' \subseteq Users
      BY <2>4 DEF Opens, CITypeOK
    <3>2. opened' \in [Users -> Nat]
      <4>1. CASE reached /\ o = Scheduler
        <5>1. opened' = [opened EXCEPT ![job[o].user] = @ + 1]
          BY <2>4, <4>1 DEF Opens
        <5>2. opened \in [Users -> Nat]
          BY DEF CITypeOK
        <5>3. \A u \in Users : opened[u] + 1 \in Nat
          BY <5>2
        <5> QED BY <5>1, <5>2, <5>3
      <4>2. CASE ~(reached /\ o = Scheduler)
        BY <2>4, <4>2 DEF Opens, CITypeOK
      <4> QED BY <4>1, <4>2
    <3>3. CASE MarksAfter(job[o].kind, ok)
      <4>1. job[o] \in Job
        BY DEF CITypeOK
      <4>2. [job[o] EXCEPT !.pc = "stamp", !.kind = "due"] \in Job
        BY <4>1 DEF Job
      <4>3. job' = [job EXCEPT ![o] = [job[o] EXCEPT !.pc = "stamp", !.kind = "due"]]
        BY <2>4, <3>3 DEF Opens, CITypeOK
      <4>4. job' \in [Openers -> Job]
        BY <4>2, <4>3 DEF CITypeOK
      <4> QED BY <2>4, <3>1, <3>2, <3>3, <4>4 DEF Opens, CITypeOK
    <3>4. CASE ~MarksAfter(job[o].kind, ok)
      <4>1. Done(o)
        BY <2>4, <3>4 DEF Opens
      <4> QED BY <2>4, <3>1, <3>2, <4>1, DoneTypes DEF Opens, CITypeOK
    <3> QED BY <3>3, <3>4
  <2>5. ASSUME NEW o \in Openers, Stamps(o) PROVE CITypeOK'
    <3>1. job[o] \in Job /\ clock \in Periods
      BY DEF CITypeOK
    <3>2. [job[o] EXCEPT !.pc = "mark", !.at = clock] \in Job
      BY <3>1 DEF Job
    <3>3. job' = [job EXCEPT ![o] = [job[o] EXCEPT !.pc = "mark", !.at = clock]]
      BY <2>5 DEF Stamps, CITypeOK
    <3>4. job' \in [Openers -> Job]
      BY <3>2, <3>3 DEF CITypeOK
    <3> QED BY <2>5, <3>4 DEF Stamps, CITypeOK
  <2>6. ASSUME NEW o \in Openers, MarkTriggered(o) PROVE CITypeOK'
    <3>1. job[o] \in Job
      BY DEF CITypeOK
    <3>2. last' \in [Users -> Periods \cup {0}]
      BY <2>6, <3>1 DEF MarkTriggered, CITypeOK, Job
    <3>3. unmarked' \in [Users -> Nat]
      BY <2>6 DEF MarkTriggered, Unmark, CITypeOK
    <3>4. Done(o) /\ owed' \subseteq Users
      BY <2>6 DEF MarkTriggered, CITypeOK
    <3> QED BY <2>6, <3>2, <3>3, <3>4, DoneTypes DEF MarkTriggered, CITypeOK
  <2>7. ASSUME NEW u \in Users, Introduced(u) \/ Settles(u) \/ ForgetUser(u) PROVE CITypeOK'
    <3>1. changes' \in 0..MaxChanges
      BY <2>7 DEF Introduced, Settles, ForgetUser, Changes, CITypeOK
    <3>2. CASE Introduced(u)
      BY <3>1, <3>2 DEF Introduced, CITypeOK
    <3>3. CASE Settles(u)
      BY <3>1, <3>3 DEF Settles, CITypeOK
    <3>4. CASE ForgetUser(u)
      BY <3>1, <3>4 DEF ForgetUser, CITypeOK
    <3> QED BY <2>7, <3>2, <3>3, <3>4
  <2>8. ASSUME NEW u \in Users, NEW f \in Frequencies, SetFrequency(u, f) PROVE CITypeOK'
    BY <2>8 DEF SetFrequency, Changes, CITypeOK
  <2>9. CASE Crash
    <3>1. job' \in [Openers -> Job]
      BY <2>9 DEF Crash, NoJob, Job
    <3>2. unmarked' \in [Users -> Nat]
      BY <2>9 DEF Crash, Unmark, CITypeOK
    <3> QED BY <2>9, <3>1, <3>2 DEF Crash, CITypeOK, NoPass
  <2>10. CASE Passes
    <3>1. clock' \in Periods
      BY <2>10, EndIsNat DEF Passes, CITypeOK, Periods
    <3>2. opened' \in [Users -> Nat] /\ unmarked' \in [Users -> Nat]
      <4>1. CASE IsHour(clock + 1)
        BY <2>10, <4>1 DEF Passes
      <4>2. CASE ~IsHour(clock + 1)
        BY <2>10, <4>2 DEF Passes, CITypeOK
      <4> QED BY <4>1, <4>2
    <3>3. owed' \subseteq Users
      BY <2>10 DEF Passes, CITypeOK
    <3> QED BY <2>10, <3>1, <3>2, <3>3 DEF Passes, CITypeOK
  <2>11. CASE UNCHANGED ciVars
    BY <2>11 DEF ciVars, CITypeOK
  <2> QED BY <2>1, <2>2, <2>3, <2>4, <2>5, <2>6, <2>7, <2>8, <2>9, <2>10, <2>11
          DEF CINext, OpenerStep
<1> QED BY <1>1, <1>2, PTL DEF CISpec

\* The latest slot is an hour that has begun, or 0 before the first.
LEMMA LatestBegan ==
    ASSUME clock \in Nat \ {0}
    PROVE  Latest \in Nat /\ Latest <= clock /\ clock - 1 <= Latest
BY DEF Latest

\* Going on, a pass is left with `left` and is of the same hour or over.
LEMMA PassNarrows ==
    ASSUME CITypeOK, NEW left \in SUBSET pass.due, GoesOn(left)
    PROVE  pass'.due = left /\ (pass' # NoPass => pass'.now = pass.now /\ pass # NoPass)
<1>1. CASE left = {}
  BY <1>1 DEF GoesOn, NoPass
<1>2. CASE left # {}
  <2>1. pass' = [pass EXCEPT !.due = left]
    BY <1>2 DEF GoesOn
  <2>2. pass'.due = left /\ pass'.now = pass.now
    BY <2>1 DEF CITypeOK
  <2>3. pass # NoPass
    BY <1>2 DEF NoPass
  <2> QED BY <2>2, <2>3
<1> QED BY <1>1, <1>2

\* What a lost mark does to the count of them.
LEMMA Unmarks ==
    ASSUME CITypeOK, NEW u, NEW from, NEW to, Unmark(u, from, to)
    PROVE  \A v \in Users :
             /\ unmarked'[v] \in Nat /\ unmarked'[v] >= unmarked[v]
             /\ v = u /\ from < Latest /\ Latest <= to => unmarked'[v] = unmarked[v] + 1
<1>1. CASE from < Latest /\ Latest <= to
  BY <1>1 DEF Unmark, CITypeOK
<1>2. CASE ~(from < Latest /\ Latest <= to)
  BY <1>2 DEF Unmark, CITypeOK
<1> QED BY <1>1, <1>2

\* A step that leaves the slot, its counts, the marks and the scheduler alone
\* keeps SlotInv, whoever is forgotten by it.
LEMMA SlotKept ==
    ASSUME SlotInv, Latest' = Latest, users' \subseteq users,
           UNCHANGED <<last, pass, job[Scheduler], opened, unmarked>>
    PROVE  SlotInv'
BY DEF SlotInv, OncePerSlot, Pending

\* The strengthening of OncePerSlot is inductive.
LEMMA SlotInvHolds == CISpec => []SlotInv
<1> USE CheckInsAssumption DEF Never
<1>1. CIInit => SlotInv
  <2> SUFFICES ASSUME CIInit PROVE SlotInv
    OBVIOUS
  <2>1. job[Scheduler] = NoJob /\ pass = NoPass
    BY DEF CIInit, Openers
  <2>2. \A u \in Users : opened[u] = 0 /\ unmarked[u] = 0
    BY DEF CIInit
  <2> QED BY <2>1, <2>2 DEF SlotInv, OncePerSlot, NoJob, NoPass, CIInit
<1>2. CITypeOK /\ SlotInv /\ [CINext]_ciVars => SlotInv'
  <2> SUFFICES ASSUME CITypeOK, SlotInv, [CINext]_ciVars PROVE SlotInv'
    OBVIOUS
  <2> USE DEF db, history
  <2>0. /\ clock \in Nat \ {0} /\ Latest \in Nat /\ Latest <= clock /\ clock - 1 <= Latest
        /\ Scheduler \in Openers
    BY LatestBegan, EndIsNat DEF CITypeOK, Periods, Openers
  <2>1. CASE PassBegins
    <3> DEFINE due == {u \in users : DueNow(u, clock)}
    <3>1. clock' = clock /\ UNCHANGED <<users, last, job, opened, unmarked>>
      BY <2>1 DEF PassBegins
    <3>2. Latest' = Latest
      BY <3>1 DEF Latest
    <3>3. CASE due = {}
      <4>1. UNCHANGED pass
        BY <2>1, <3>3 DEF PassBegins
      <4> QED BY <3>1, <3>2, <4>1, SlotKept
    <3>4. CASE due # {}
      <4>1. pass' = [now |-> clock, due |-> due]
        BY <2>1, <3>4 DEF PassBegins
      <4>2. IsHour(clock) /\ \A u \in due : last[u] < clock
        BY <3>4 DEF DueNow
      <4>3. Latest = clock
        BY <4>2 DEF Latest
      <4>4. job[Scheduler].pc = "idle"
        BY <2>1 DEF PassBegins
      <4> HIDE DEF due
      <4>5. \A u \in due \cup {v \in users : last[v] < Latest} : opened[u] <= unmarked[u]
        <5>1. \A u \in due : u \in users /\ last[u] < Latest
          BY <4>2, <4>3 DEF due
        <5>2. \A u : ~Pending(u)
          BY <4>4 DEF Pending
        <5> QED BY <5>1, <5>2 DEF SlotInv
      <4>6. pass'.now = clock /\ pass'.due = due
        BY <4>1
      <4> QED BY <2>0, <3>1, <3>2, <4>3, <4>4, <4>5, <4>6 DEF SlotInv, OncePerSlot, Pending
    <3> QED BY <3>3, <3>4
  <2>2. ASSUME NEW u \in Users, SettledStatus(u) PROVE SlotInv'
    <3>1. /\ UNCHANGED <<clock, users, last, opened, unmarked>>
          /\ u \in pass.due /\ job[Scheduler].pc = "idle"
      BY <2>2 DEF SettledStatus
    <3>2. Latest' = Latest
      BY <3>1 DEF Latest
    <3>3. CASE GoesOn(pass.due \ {u}) /\ UNCHANGED job
      <4>1. /\ pass'.due = pass.due \ {u}
            /\ pass' # NoPass => pass'.now = pass.now /\ pass # NoPass
        BY <3>3, PassNarrows DEF CITypeOK
      <4> QED BY <3>1, <3>2, <3>3, <4>1 DEF SlotInv, OncePerSlot, Pending
    <3>4. CASE /\ job' = [job EXCEPT ![Scheduler] =
                    [pc |-> "send", user |-> u, born |-> clock, at |-> 0, kind |-> "due"]]
               /\ UNCHANGED <<pass, passed>>
      <4>1. job'[Scheduler] =
              [pc |-> "send", user |-> u, born |-> clock, at |-> 0, kind |-> "due"]
        BY <2>0, <3>4 DEF CITypeOK
      <4> QED BY <3>1, <3>2, <3>4, <4>1 DEF SlotInv, OncePerSlot, Pending
    <3> QED BY <2>2, <3>3, <3>4 DEF SettledStatus
  <2>3. ASSUME NEW w \in Workers, NEW u \in Users, NEW kind \in {"trigger", "now"},
               Asks(w, u, kind)
        PROVE  SlotInv'
    <3>1. UNCHANGED <<clock, users, last, pass, job[Scheduler], opened, unmarked>>
      BY <2>0, <2>3 DEF Asks, CITypeOK
    <3> QED BY <3>1, SlotKept DEF Latest
  <2>4. ASSUME NEW o \in Openers, o # Scheduler, NEW reached \in BOOLEAN, NEW ok \in BOOLEAN,
               Opens(o, reached, ok) \/ Stamps(o)
        PROVE  SlotInv'
    <3>1. UNCHANGED <<clock, users, last, pass, job[Scheduler], opened, unmarked>>
      BY <2>0, <2>4 DEF Opens, Done, Stamps, CITypeOK
    <3> QED BY <3>1, SlotKept DEF Latest
  <2>5. ASSUME NEW reached \in BOOLEAN, NEW ok \in BOOLEAN, Opens(Scheduler, reached, ok)
        PROVE  SlotInv'
    <3> DEFINE j == job[Scheduler]
    <3>1. j.pc = "send" /\ j.kind = "due" /\ j.user \in pass.due
      BY <2>5 DEF Opens, SlotInv
    <3>2. UNCHANGED <<clock, users, last, unmarked, pass>>
      BY <2>5, <3>1 DEF Opens, MarksAfter
    <3>3. job' = [job EXCEPT ![Scheduler].pc = "stamp", ![Scheduler].kind = "due"]
      BY <2>5, <3>1 DEF Opens, MarksAfter
    <3>4. job[Scheduler] \in Job
      BY <2>0 DEF CITypeOK
    <3>5. job'[Scheduler].pc = "stamp" /\ job'[Scheduler].kind = "due"
          /\ job'[Scheduler].user = j.user
      BY <2>0, <3>3, <3>4 DEF CITypeOK, Job
    <3>6. Latest' = Latest
      BY <3>2 DEF Latest
    <3>7. j.user \in Users
      BY <3>1 DEF CITypeOK
    <3> HIDE DEF j
    <3>8. \A u \in Users : opened'[u] = opened[u] \/ (u = j.user /\ opened'[u] = opened[u] + 1)
      BY <2>5 DEF Opens, CITypeOK, j
    <3>9. opened[j.user] <= unmarked[j.user]
      BY <3>1 DEF SlotInv, Pending, j
    <3>10. \A u \in Users : opened[u] \in Nat /\ unmarked[u] \in Nat
      BY DEF CITypeOK
    <3>11. \A u \in Users : opened'[u] <= 1 + unmarked[u]
      BY <3>7, <3>8, <3>9, <3>10 DEF SlotInv, OncePerSlot
    <3>12. \A u \in Users \ {j.user} : ~Pending(u) /\ opened'[u] = opened[u]
      BY <3>1, <3>8 DEF Pending, j
    <3> QED BY <3>1, <3>2, <3>5, <3>6, <3>11, <3>12 DEF SlotInv, OncePerSlot, Pending, CITypeOK
  <2>6. CASE Stamps(Scheduler)
    <3>1. UNCHANGED <<clock, users, last, pass, opened, unmarked>>
      BY <2>6 DEF Stamps
    <3>2. /\ job[Scheduler].pc = "stamp"
          /\ job' = [job EXCEPT ![Scheduler].pc = "mark", ![Scheduler].at = clock]
      BY <2>6 DEF Stamps
    <3>3. job[Scheduler] \in Job
      BY <2>0 DEF CITypeOK
    <3>4. /\ job'[Scheduler].pc = "mark" /\ job'[Scheduler].at = clock
          /\ job'[Scheduler].user = job[Scheduler].user
          /\ job'[Scheduler].kind = job[Scheduler].kind
      BY <2>0, <3>2, <3>3 DEF CITypeOK, Job
    <3>5. Latest' = Latest
      BY <3>1 DEF Latest
    <3> QED BY <2>0, <3>1, <3>2, <3>4, <3>5 DEF SlotInv, OncePerSlot, Pending
  <2>7. ASSUME NEW o \in Openers, o # Scheduler, MarkTriggered(o) PROVE SlotInv'
    <3> DEFINE j == job[o]
    <3>1. /\ UNCHANGED <<clock, users, opened, pass>>
          /\ job' = [job EXCEPT ![o] = NoJob]
      BY <2>7 DEF MarkTriggered, Done
    <3>2. Latest' = Latest /\ job'[Scheduler] = job[Scheduler]
      BY <2>0, <2>7, <3>1 DEF Latest, CITypeOK
    <3>3. CASE UNCHANGED <<last, unmarked>>
      BY <3>1, <3>2, <3>3, SlotKept
    <3>4. CASE /\ last' = IF j.user \in users THEN [last EXCEPT ![j.user] = j.at] ELSE last
               /\ Unmark(j.user, j.at, last[j.user])
      <4>1. j.at \in Nat
        BY EndIsNat DEF CITypeOK, Job, Periods
      <4> HIDE DEF j
      <4>2. \A v \in Users :
              /\ unmarked'[v] \in Nat /\ unmarked'[v] >= unmarked[v]
              /\ v = j.user /\ j.at < Latest /\ Latest <= last[v] => unmarked'[v] = unmarked[v] + 1
        BY <3>4, Unmarks
      <4>3. \A v \in Users : last'[v] = last[v] \/ (v = j.user /\ last'[v] = j.at)
        BY <3>4 DEF CITypeOK
      <4>4. \A v \in Users : /\ opened[v] \in Nat /\ unmarked[v] \in Nat
                            /\ last[v] \in Nat /\ last'[v] \in Nat
        BY <4>1, <4>3, EndIsNat DEF CITypeOK, Periods
      <4>5. OncePerSlot'
        BY <3>1, <4>2, <4>4 DEF SlotInv, OncePerSlot
      <4>6. ASSUME NEW u \in Users, ~Pending(u),
                   u \in pass.due \/ (u \in users /\ last'[u] < Latest)
            PROVE  opened[u] <= unmarked'[u]
        <5>1. CASE u \in pass.due \/ (u \in users /\ last[u] < Latest)
          <6>1. opened[u] <= unmarked[u]
            BY <4>6, <5>1 DEF SlotInv
          <6> QED BY <4>2, <4>4, <6>1
        <5>2. CASE ~(u \in pass.due \/ (u \in users /\ last[u] < Latest))
          <6>0. last'[u] < Latest /\ ~(last[u] < Latest)
            BY <4>6, <5>2
          <6>1. u = j.user /\ j.at < Latest /\ Latest <= last[u]
            <7>1. u = j.user /\ last'[u] = j.at
              BY <4>3, <6>0
            <7>2. Latest <= last[u]
              BY <2>0, <4>4, <6>0
            <7> QED BY <6>0, <7>1, <7>2
          <6>2. opened[u] <= 1 + unmarked[u]
            BY DEF SlotInv, OncePerSlot
          <6>3. unmarked'[u] = unmarked[u] + 1
            BY <4>2, <6>1
          <6> QED BY <4>4, <6>2, <6>3
        <5> QED BY <5>1, <5>2
      <4> QED BY <3>1, <3>2, <4>5, <4>6 DEF SlotInv, Pending, CITypeOK
    <3> QED BY <2>7, <3>3, <3>4 DEF MarkTriggered
  <2>8. CASE MarkTriggered(Scheduler)
    <3> DEFINE j == job[Scheduler]
    <3>1. /\ j.pc = "mark" /\ UNCHANGED <<clock, users, opened>>
          /\ job' = [job EXCEPT ![Scheduler] = NoJob]
          /\ GoesOn(pass.due \ {j.user})
      BY <2>8 DEF MarkTriggered, Done
    <3>2. /\ j.user \in pass.due /\ j.at >= Latest /\ Pending(j.user)
          /\ \A u \in Users : Pending(u) => u = j.user
      BY <3>1 DEF SlotInv, Pending
    <3>3. j.at \in Nat /\ j.user \in Users
      BY <2>0, <3>2, EndIsNat DEF CITypeOK, Job, Periods
    <3>4. Latest' = Latest /\ job'[Scheduler] = NoJob
      BY <2>0, <3>1 DEF Latest, CITypeOK
    <3>5. /\ pass'.due = pass.due \ {j.user}
          /\ pass' # NoPass => pass'.now = pass.now /\ pass # NoPass
      BY <3>1, PassNarrows DEF CITypeOK
    <3>6. \/ /\ last' = IF j.user \in users THEN [last EXCEPT ![j.user] = j.at] ELSE last
             /\ Unmark(j.user, j.at, last[j.user])
          \/ UNCHANGED last /\ Unmark(j.user, last[j.user], j.at)
      BY <2>8 DEF MarkTriggered
    <3> HIDE DEF j
    <3>7. \A v \in Users :
            /\ opened[v] \in Nat /\ unmarked[v] \in Nat /\ last[v] \in Nat
            /\ unmarked'[v] \in Nat /\ unmarked'[v] >= unmarked[v]
      <4>1. \A v \in Users : opened[v] \in Nat /\ unmarked[v] \in Nat /\ last[v] \in Nat
        BY EndIsNat DEF CITypeOK, Periods
      <4> QED BY <3>6, <4>1, Unmarks
    <3>8. \A v \in Users \ {j.user} : last'[v] = last[v]
      BY <3>6 DEF CITypeOK
    <3>9. \/ j.user \in users => last'[j.user] = j.at
          \/ last' = last /\ (last[j.user] < Latest => unmarked'[j.user] = unmarked[j.user] + 1)
      <4>1. CASE /\ last' = IF j.user \in users THEN [last EXCEPT ![j.user] = j.at] ELSE last
                 /\ Unmark(j.user, j.at, last[j.user])
        BY <3>3, <4>1 DEF CITypeOK
      <4>2. CASE UNCHANGED last /\ Unmark(j.user, last[j.user], j.at)
        BY <2>0, <3>2, <3>3, <4>2, Unmarks
      <4> QED BY <3>6, <4>1, <4>2
    <3>10. OncePerSlot'
      BY <3>1, <3>7 DEF SlotInv, OncePerSlot
    <3>11. ASSUME NEW u \in Users, u \in pass'.due \/ (u \in users /\ last'[u] < Latest)
           PROVE  opened[u] <= unmarked'[u]
      <4>1. CASE u # j.user
        <5>1. ~Pending(u) /\ (u \in pass.due \/ (u \in users /\ last[u] < Latest))
          BY <3>2, <3>5, <3>8, <3>11, <4>1
        <5>2. opened[u] <= unmarked[u]
          BY <5>1 DEF SlotInv
        <5> QED BY <3>7, <5>2
      <4>2. CASE u = j.user
        <5>1. u \in users /\ last'[u] < Latest
          BY <3>5, <3>11, <4>2
        <5>2. last[u] < Latest /\ unmarked'[u] = unmarked[u] + 1
          BY <2>0, <3>2, <3>3, <3>9, <4>2, <5>1
        <5>3. opened[u] <= 1 + unmarked[u]
          BY DEF SlotInv, OncePerSlot
        <5> QED BY <3>7, <5>2, <5>3
      <4> QED BY <4>1, <4>2
    <3>12. pass' # NoPass => pass'.now = Latest /\ pass'.now # 0
      BY <3>5 DEF SlotInv
    <3>13. pass'.due \subseteq Users
      BY <3>5 DEF CITypeOK
    <3>14. \A u \in pass'.due \cup {v \in users : last'[v] < Latest} : opened[u] <= unmarked'[u]
      BY <3>11, <3>13 DEF CITypeOK
    <3>15. job'[Scheduler].pc = "idle"
      BY <3>4 DEF NoJob
    <3> QED BY <3>1, <3>4, <3>10, <3>12, <3>14, <3>15 DEF SlotInv, Pending
  <2>9. ASSUME NEW u \in Users, Introduced(u) \/ Settles(u) \/ ForgetUser(u) PROVE SlotInv'
    <3>1. UNCHANGED <<clock, last, pass, job, opened, unmarked>> /\ users' \subseteq users
      BY <2>9 DEF Introduced, Settles, ForgetUser
    <3> QED BY <3>1, SlotKept DEF Latest
  <2>10. ASSUME NEW u \in Users, NEW f \in Frequencies, SetFrequency(u, f) PROVE SlotInv'
    <3>1. UNCHANGED <<clock, users, last, pass, job, opened, unmarked>>
      BY <2>10 DEF SetFrequency
    <3> QED BY <3>1, SlotKept DEF Latest
  <2>11. CASE Crash
    <3> DEFINE j == job[Scheduler]
    <3>1. /\ UNCHANGED <<clock, users, last, opened>> /\ pass' = NoPass
          /\ job'[Scheduler] = NoJob
      BY <2>0, <2>11 DEF Crash
    <3>2. Latest' = Latest
      BY <3>1 DEF Latest
    <3>3. \A v \in Users :
            /\ opened[v] \in Nat /\ unmarked[v] \in Nat /\ last[v] \in Nat
            /\ unmarked'[v] \in Nat /\ unmarked'[v] >= unmarked[v]
            /\ Pending(v) /\ last[v] < Latest => unmarked'[v] = unmarked[v] + 1
      <4>1. CASE j.pc \in {"stamp", "mark"}
        <5>1. Unmark(j.user, last[j.user], clock)
          BY <2>11, <4>1 DEF Crash
        <5>2. \A v \in Users : opened[v] \in Nat /\ unmarked[v] \in Nat /\ last[v] \in Nat
          BY EndIsNat DEF CITypeOK, Periods
        <5>3. \A v \in Users : Pending(v) => v = j.user
          BY DEF Pending
        <5> HIDE DEF j
        <5> QED BY <2>0, <5>1, <5>2, <5>3, Unmarks
      <4>2. CASE j.pc \notin {"stamp", "mark"}
        BY <2>11, <4>2, EndIsNat DEF Crash, CITypeOK, Periods, Pending
      <4> QED BY <4>1, <4>2
    <3>4. OncePerSlot'
      BY <3>1, <3>3 DEF SlotInv, OncePerSlot
    <3>5. ASSUME NEW u \in users, last[u] < Latest PROVE opened[u] <= unmarked'[u]
      <4>1. u \in Users
        BY DEF CITypeOK
      <4>2. CASE Pending(u)
        <5>1. unmarked'[u] = unmarked[u] + 1
          BY <3>3, <3>5, <4>1, <4>2
        <5>2. opened[u] <= 1 + unmarked[u]
          BY <4>1 DEF SlotInv, OncePerSlot
        <5>3. unmarked[u] \in Nat
          BY <3>3, <4>1
        <5> QED BY <5>1, <5>2, <5>3
      <4>3. CASE ~Pending(u)
        <5>1. opened[u] <= unmarked[u]
          BY <3>5, <4>3 DEF SlotInv
        <5>2. unmarked'[u] >= unmarked[u]
          BY <3>3, <4>1
        <5>3. opened[u] \in Nat /\ unmarked[u] \in Nat /\ unmarked'[u] \in Nat
          BY <3>3, <4>1
        <5> QED BY <5>1, <5>2, <5>3
      <4> QED BY <4>2, <4>3
    <3> QED BY <3>1, <3>2, <3>4, <3>5 DEF SlotInv, NoPass, NoJob
  <2>12. CASE Passes
    <3>1. clock' = clock + 1 /\ UNCHANGED <<users, last, pass, job>>
          /\ pass.now \in {0, clock}
      BY <2>12 DEF Passes
    <3>2. CASE IsHour(clock)
      <4>1. ~IsHour(clock + 1)
        BY <2>0, <3>2, Parity
      <4>2. Latest' = Latest
        BY <2>0, <3>1, <3>2, <4>1 DEF Latest, IsHour
      <4>3. UNCHANGED <<opened, unmarked>>
        BY <2>12, <4>1 DEF Passes
      <4> QED BY <3>1, <4>2, <4>3, SlotKept
    <3>3. CASE ~IsHour(clock)
      <4>1. IsHour(clock + 1)
        BY <2>0, <3>3, Parity
      <4>2. pass = NoPass
        BY <2>0, <3>1, <3>3 DEF SlotInv, Latest
      <4>3. job[Scheduler].pc = "idle"
        BY <4>2 DEF SlotInv, NoPass
      <4>4. \A u \in Users : opened'[u] = 0 /\ unmarked'[u] = 0
        BY <2>12, <4>1 DEF Passes
      <4> QED BY <3>1, <4>2, <4>3, <4>4 DEF SlotInv, OncePerSlot, NoPass, CITypeOK
    <3> QED BY <3>2, <3>3
  <2>13. CASE UNCHANGED ciVars
    BY <2>13, SlotKept DEF ciVars, Latest
  <2> QED BY <2>1, <2>2, <2>3, <2>4, <2>5, <2>6, <2>7, <2>8, <2>9, <2>10, <2>11, <2>12,
             <2>13 DEF CINext, OpenerStep
<1> QED BY <1>1, <1>2, CITypeCorrect, PTL DEF CISpec

\* A person hears from the schedule once in a slot, and once more only for each
\* mark of it that was lost or taken back (tick, TriggerCheckin's deferred
\* MarkTriggered and DueNow's last_triggered_at).
THEOREM OneOpeningPerSlot == CISpec => []OncePerSlot
<1>1. SlotInv => OncePerSlot
  BY DEF SlotInv
<1> QED BY <1>1, SlotInvHolds, PTL

\* Who is due stays due unless forgotten, rescheduled or marked.
LEMMA StillDue ==
    ASSUME UNCHANGED clock, NEW u, DueNow(u, clock), u \in users', onboarded \subseteq onboarded',
           frequency'[u] = frequency[u], last'[u] < clock
    PROVE  DueNow(u, clock)'
BY DEF DueNow

\* A step that leaves the pass and the scheduler alone and takes from those owed a
\* try whoever is no longer due, or no longer willing, keeps OwedInv.
LEMMA OwedKept ==
    ASSUME OwedInv, owed' \subseteq owed, UNCHANGED <<clock, pass, passed, job[Scheduler]>>,
           \A u \in owed' : DueNow(u, clock)' /\ u \notin declined'
    PROVE  OwedInv'
BY DEF OwedInv, Pending

\* A pass that goes on, leaving behind nobody who is owed a try, keeps OwedInv.
LEMMA OwedWhileGoingOn ==
    ASSUME CITypeOK, OwedInv, owed' \subseteq owed, UNCHANGED clock,
           NEW left \in SUBSET pass.due, GoesOn(left), owed' \cap pass.due \subseteq left,
           \A u \in owed' : DueNow(u, clock)' /\ u \notin declined' /\ ~Pending(u)'
    PROVE  OwedInv'
<1>1. clock # 0
  BY EndIsNat DEF CITypeOK, Periods
<1>2. pass'.due = left /\ (pass' # NoPass => pass'.now = pass.now)
  BY PassNarrows
<1>3. pass'.now = clock => pass.now = clock
  BY <1>1, <1>2 DEF NoPass
<1>4. pass'.now = clock => owed' \subseteq pass'.due
  BY <1>2, <1>3 DEF OwedInv
<1>5. passed' => passed \/ (left = {} /\ pass.now = clock)
  BY DEF GoesOn, CITypeOK
<1>6. passed' => owed' = {}
  BY <1>5 DEF OwedInv
<1> QED BY <1>4, <1>6 DEF OwedInv

\* The strengthening of SlotsServed is inductive.
LEMMA OwedInvHolds == CISpec => []OwedInv
<1>1. CIInit => OwedInv
  BY DEF CIInit, OwedInv
<1>2. CITypeOK /\ SlotInv /\ OwedInv /\ [CINext]_ciVars => OwedInv'
  <2> SUFFICES ASSUME CITypeOK, SlotInv, OwedInv, [CINext]_ciVars PROVE OwedInv'
    OBVIOUS
  <2> USE DEF db, history
  <2>0. Scheduler \in Openers /\ \A u \in owed : DueNow(u, clock) /\ u \notin declined /\ ~Pending(u)
    BY DEF Openers, OwedInv
  <2>1. CASE PassBegins
    <3> DEFINE due == {u \in users : DueNow(u, clock)}
    <3>1. UNCHANGED <<clock, users, frequency, onboarded, declined, last, job, owed>>
      BY <2>1 DEF PassBegins
    <3>2. \A u \in owed : DueNow(u, clock)' /\ ~Pending(u)'
      BY <2>0, <3>1 DEF DueNow, Pending
    <3>3. owed \subseteq due
      BY <2>0 DEF DueNow
    <3>4. CASE due = {}
      BY <2>1, <2>0, <3>1, <3>2, <3>3, <3>4 DEF PassBegins, OwedInv
    <3>5. CASE due # {}
      <4>1. pass' = [now |-> clock, due |-> due] /\ UNCHANGED passed
        BY <2>1, <3>5 DEF PassBegins
      <4>2. pass'.due = due
        BY <4>1
      <4> QED BY <2>0, <3>1, <3>2, <3>3, <4>1, <4>2 DEF OwedInv
    <3> QED BY <3>4, <3>5
  <2>2. ASSUME NEW u \in Users, SettledStatus(u) PROVE OwedInv'
    <3>1. /\ UNCHANGED <<clock, users, frequency, onboarded, declined, last, owed>>
          /\ job[Scheduler].pc = "idle"
      BY <2>2 DEF SettledStatus
    <3>2. \A v \in owed : DueNow(v, clock)'
      BY <2>0, <3>1 DEF DueNow
    <3>3. CASE u \in declined /\ GoesOn(pass.due \ {u}) /\ UNCHANGED job
      <4>1. \A v \in owed : ~Pending(v)'
        BY <3>1, <3>3 DEF Pending
      <4>2. u \notin owed /\ pass.due \ {u} \in SUBSET pass.due
        BY <2>0, <3>3
      <4> QED BY <2>0, <3>1, <3>2, <3>3, <4>1, <4>2, OwedWhileGoingOn
    <3>4. CASE /\ job' = [job EXCEPT ![Scheduler] =
                    [pc |-> "send", user |-> u, born |-> clock, at |-> 0, kind |-> "due"]]
               /\ UNCHANGED <<pass, passed>>
      <4>1. job'[Scheduler].pc = "send"
        BY <2>0, <3>4 DEF CITypeOK
      <4> QED BY <2>0, <3>1, <3>2, <3>4, <4>1 DEF OwedInv, Pending
    <3> QED BY <2>2, <3>3, <3>4 DEF SettledStatus
  <2>3. ASSUME NEW w \in Workers, NEW u \in Users, NEW kind \in {"trigger", "now"},
               Asks(w, u, kind)
        PROVE  OwedInv'
    <3>1. /\ UNCHANGED <<clock, users, frequency, onboarded, declined, last, pass, passed, owed>>
          /\ UNCHANGED job[Scheduler]
      BY <2>0, <2>3, CheckInsAssumption DEF Asks, CITypeOK
    <3> QED BY <2>0, <3>1, OwedKept DEF DueNow
  <2>4. ASSUME NEW o \in Openers, NEW reached \in BOOLEAN, NEW ok \in BOOLEAN,
               Opens(o, reached, ok)
        PROVE  OwedInv'
    <3>1. /\ UNCHANGED <<clock, users, frequency, onboarded, declined, last>>
          /\ owed' = owed \ {job[o].user}
      BY <2>4 DEF Opens
    <3>2. \A u \in owed' : DueNow(u, clock)' /\ u \notin declined'
      BY <2>0, <3>1 DEF DueNow
    <3>3. CASE o = Scheduler
      <4>1. UNCHANGED <<pass, passed>>
            /\ job' = [job EXCEPT ![o].pc = "stamp", ![o].kind = "due"]
        BY <2>4, <3>3 DEF Opens, MarksAfter, SlotInv
      <4>2. job'[Scheduler].user = job[o].user
        BY <2>0, <3>3, <4>1 DEF CITypeOK, Job
      <4>3. \A u \in owed' : ~Pending(u)'
        BY <3>1, <4>2 DEF Pending
      <4> QED BY <3>1, <3>2, <4>1, <4>3 DEF OwedInv
    <3>4. CASE o # Scheduler
      <4>1. UNCHANGED <<pass, passed, job[Scheduler]>>
        BY <2>0, <2>4, <3>4 DEF Opens, Done, CITypeOK
      <4> QED BY <3>1, <3>2, <4>1, OwedKept
    <3> QED BY <3>3, <3>4
  <2>5. ASSUME NEW o \in Openers, Stamps(o) PROVE OwedInv'
    <3>1. UNCHANGED <<clock, users, frequency, onboarded, declined, last, pass, passed, owed>>
      BY <2>5 DEF Stamps
    <3>2. \A u \in owed : DueNow(u, clock)'
      BY <2>0, <3>1 DEF DueNow
    <3>3. /\ job'[Scheduler].user = job[Scheduler].user
          /\ job'[Scheduler].pc \in {"stamp", "mark"} <=> job[Scheduler].pc \in {"stamp", "mark"}
      <4>1. /\ job[o].pc = "stamp"
            /\ job' = [job EXCEPT ![o].pc = "mark", ![o].at = clock]
        BY <2>5 DEF Stamps
      <4>2. job[Scheduler] \in Job
        BY <2>0 DEF CITypeOK
      <4> QED BY <2>0, <4>1, <4>2 DEF CITypeOK, Job
    <3> QED BY <2>0, <3>1, <3>2, <3>3 DEF OwedInv, Pending
  <2>6. ASSUME NEW o \in Openers, MarkTriggered(o) PROVE OwedInv'
    <3>1. /\ UNCHANGED <<clock, users, frequency, onboarded, declined>>
          /\ owed' = {u \in owed : last'[u] < clock}
          /\ Done(o)
      BY <2>6 DEF MarkTriggered
    <3>2. \A u \in owed' : DueNow(u, clock)' /\ u \notin declined'
      BY <2>0, <3>1 DEF DueNow
    <3>3. CASE o = Scheduler
      <4>1. /\ job[o].pc = "mark" /\ GoesOn(pass.due \ {job[o].user})
            /\ job'[Scheduler].pc = "idle"
        BY <2>0, <2>6, <3>1, <3>3 DEF MarkTriggered, Done, NoJob, CITypeOK
      <4>2. Pending(job[o].user)
        BY <3>3, <4>1 DEF Pending
      <4>3. job[o].user \notin owed /\ pass.due \ {job[o].user} \in SUBSET pass.due
        BY <2>0, <4>2
      <4>4. \A u \in owed' : ~Pending(u)'
        BY <4>1 DEF Pending
      <4>5. owed' \subseteq owed
        BY <3>1
      <4> QED BY <3>1, <3>2, <4>1, <4>3, <4>4, <4>5, OwedWhileGoingOn
    <3>4. CASE o # Scheduler
      <4>1. UNCHANGED <<pass, passed, job[Scheduler]>>
        BY <2>0, <3>1, <3>4 DEF Done, CITypeOK
      <4> QED BY <3>1, <3>2, <4>1, OwedKept
    <3> QED BY <3>3, <3>4
  <2>7. ASSUME NEW u \in Users, Introduced(u) PROVE OwedInv'
    <3>1. /\ UNCHANGED <<clock, users, frequency, declined, last, pass, passed, job, owed>>
          /\ onboarded' = onboarded \cup {u}
      BY <2>7 DEF Introduced
    <3> QED BY <2>0, <3>1, OwedKept DEF DueNow
  <2>8. ASSUME NEW u \in Users, Settles(u) PROVE OwedInv'
    <3>1. /\ UNCHANGED <<clock, users, frequency, onboarded, last, pass, passed, job>>
          /\ owed' = owed \ {u} /\ declined' \subseteq declined \cup {u}
      BY <2>8 DEF Settles
    <3> QED BY <2>0, <3>1, OwedKept DEF DueNow
  <2>9. ASSUME NEW u \in Users, ForgetUser(u) PROVE OwedInv'
    <3>1. /\ UNCHANGED <<clock, frequency, onboarded, last, pass, passed, job>>
          /\ owed' = owed \ {u} /\ declined' \subseteq declined /\ users' = users \ {u}
      BY <2>9 DEF ForgetUser
    <3> QED BY <2>0, <3>1, OwedKept DEF DueNow
  <2>10. ASSUME NEW u \in Users, NEW f \in Frequencies, SetFrequency(u, f) PROVE OwedInv'
    <3>1. /\ UNCHANGED <<clock, users, onboarded, declined, last, pass, passed, job>>
          /\ owed' = owed \ {u} /\ frequency' = [frequency EXCEPT ![u] = f]
      BY <2>10 DEF SetFrequency
    <3>2. \A v \in owed' : v \in Users /\ frequency'[v] = frequency[v]
      BY <3>1 DEF CITypeOK
    <3> QED BY <2>0, <3>1, <3>2, OwedKept DEF DueNow
  <2>11. CASE Crash
    BY <2>11 DEF Crash, OwedInv, NoPass
  <2>12. CASE Passes
    <3>1. /\ clock' = clock + 1 /\ UNCHANGED <<users, frequency, onboarded, declined, last, pass, job>>
          /\ pass.now \in {0, clock} /\ ~passed'
          /\ owed' = {u \in users \ declined : DueNow(u, clock + 1)}
      BY <2>12 DEF Passes
    <3>2. clock \in Nat \ {0}
      BY EndIsNat DEF CITypeOK, Periods
    <3>3. \A u \in owed' : DueNow(u, clock)' /\ u \notin declined'
      BY <3>1 DEF DueNow
    <3>4. CASE ~IsHour(clock + 1)
      <4>1. owed' = {}
        BY <3>1, <3>4 DEF DueNow
      <4> QED BY <4>1 DEF OwedInv
    <3>5. CASE IsHour(clock + 1)
      <4>1. pass = NoPass
        BY <3>1, <3>2, <3>5, Parity DEF SlotInv, Latest
      <4>2. \A u : ~Pending(u)'
        BY <3>1, <4>1 DEF SlotInv, NoPass, Pending
      <4>3. pass'.now # clock'
        BY <3>1, <3>2, <4>1 DEF NoPass
      <4> QED BY <3>1, <3>3, <4>2, <4>3 DEF OwedInv
    <3> QED BY <3>4, <3>5
  <2>13. CASE UNCHANGED ciVars
    BY <2>0, <2>13, OwedKept DEF ciVars, DueNow
  <2> QED BY <2>1, <2>2, <2>3, <2>4, <2>5, <2>6, <2>7, <2>8, <2>9, <2>10, <2>11, <2>12,
             <2>13 DEF CINext, OpenerStep
<1> QED BY <1>1, <1>2, CITypeCorrect, SlotInvHolds, PTL DEF CISpec

\* When an hour ends, whoever was due all through it was tried in it, however the
\* pass fared with the people before them (tick's `continue`s).
THEOREM EveryoneDueIsTried == CISpec => SlotsServed
<1>1. CITypeOK /\ OwedInv /\ [CINext]_ciVars => [clock' # clock => owed = {}]_ciVars
  <2> SUFFICES ASSUME CITypeOK, OwedInv, CINext, clock' # clock PROVE owed = {}
    BY DEF ciVars
  <2>1. Passes
    <3> USE DEF db, history
    <3>1. \A o \in Openers : OpenerStep(o) => UNCHANGED clock
      BY DEF OpenerStep, Opens, Stamps, MarkTriggered
    <3>2. PassBegins \/ Crash => UNCHANGED clock
      BY DEF PassBegins, Crash
    <3>3. \A w \in Workers, u \in Users, kind \in {"trigger", "now"} :
            Asks(w, u, kind) => UNCHANGED clock
      BY DEF Asks
    <3>4. \A u \in Users :
            SettledStatus(u) \/ Introduced(u) \/ Settles(u) \/ ForgetUser(u) => UNCHANGED clock
      BY DEF SettledStatus, Introduced, Settles, ForgetUser
    <3>5. \A u \in Users, f \in Frequencies : SetFrequency(u, f) => UNCHANGED clock
      BY DEF SetFrequency
    <3> QED BY <3>1, <3>2, <3>3, <3>4, <3>5 DEF CINext
  <2>2. CASE IsHour(clock)
    BY <2>1, <2>2 DEF Passes, OwedInv
  <2>3. CASE ~IsHour(clock)
    BY <2>3 DEF OwedInv, DueNow
  <2> QED BY <2>2, <2>3
<1> QED BY <1>1, CITypeCorrect, OwedInvHolds, PTL DEF CISpec, SlotsServed
=============================================================================
