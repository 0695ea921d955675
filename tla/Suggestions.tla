---------------------------- MODULE Suggestions ----------------------------
(***************************************************************************)
(* The one event a person is offered, and the table it comes from          *)
(* (matching.go, events.go, brain.go SuggestEvent and AcceptSuggestion,    *)
(* db.go CandidateEvents to SeedEvents): what is on file of a person's     *)
(* interests is matched with the events they were not offered yet, the     *)
(* best becomes a suggestion, and a yes accepts the newest one on offer,   *)
(* each in several statements that requests interleave, beside a process   *)
(* that starts and loads its export into the same table.                   *)
(*                                                                         *)
(* Texts are sets of the words they contain, and whether one word contains *)
(* another is a constant relation. An instant counts parts of a day.       *)
(***************************************************************************)
EXTENDS Integers, FiniteSets

CONSTANTS
    Users,      \* people
    Workers,    \* goroutines that serve them
    Words,      \* the vocabulary of interests and events
    Inside,     \* <<v, w>>: the word w contains the word v
    Tags,       \* interestTags: what else stands for an interest
    Audiences,  \* audienceRules: what marks an event, what opts somebody in
    Details,    \* per title: when the event starts, where, and its words
    Exports,    \* the sets of titles an export may list
    Profiles,   \* what may be on file of somebody's interests
    Day,        \* instants in a day
    Soon,       \* days that count as soon (thirty)
    Later,      \* days that count as the next few months (ninety)
    MaxClock,   \* bound: how far time runs
    MaxSeeds,   \* bound: processes started
    MaxOffers,  \* bound: suggestions made
    MaxYeses,   \* bound: yeses a person says
    MaxRetries  \* bound: yeses a provider delivers again

Titles == DOMAIN Details
Interest == [word : Words, no : BOOLEAN]

ASSUME SuggestionsAssumption ==
    /\ Users # {} /\ Titles # {}
    /\ Inside \subseteq Words \X Words /\ \A w \in Words : <<w, w>> \in Inside
    /\ Tags \in [Words -> SUBSET Words]
    /\ Audiences \subseteq [markers : SUBSET Words, optIn : SUBSET Words]
    /\ \A e \in Titles : Details[e].starts \in Nat /\ Details[e].words \subseteq Words
    /\ Exports \subseteq SUBSET Titles
    /\ Profiles \subseteq SUBSET Interest /\ \A I \in Profiles : IsFiniteSet(I)
    /\ Day \in Nat \ {0} /\ Soon \in Nat /\ Later \in Nat
    /\ MaxClock \in Nat /\ MaxSeeds \in Nat \ {0} /\ MaxOffers \in Nat
    /\ MaxYeses \in Nat /\ MaxRetries \in Nat

VARIABLES
    clock,
    events,      \* rows of events: a title, and the seed that inserted it
    seeds,       \* processes started so far
    people,      \* rows of users
    interests,   \* users.interests
    suggestions, \* rows of suggestions
    offered,     \* the last suggestion id given out
    task,        \* what each worker is doing
    yeses,       \* history: yeses each person said
    retried      \* history: yeses delivered again

vars == <<clock, events, seeds, people, interests, suggestions, offered, task, yeses, retried>>

Row == [title : Titles, seed : 1..MaxSeeds]
\* since is history: the newest suggestion when the candidates were read.
Suggestion == [id : 1..MaxOffers, user : Users, event : Row,
               status : {"offered", "accepted"}, since : 0..MaxOffers]

NoRow == [title |-> CHOOSE e \in Titles : TRUE, seed |-> 1]
Idle == [pc |-> "idle", user |-> CHOOSE u \in Users : TRUE, interests |-> {},
         event |-> NoRow, since |-> 0, id |-> 0]
Task == [pc : {"idle", "match", "offer", "open", "accept"}, user : Users,
         interests : Profiles \cup {{}}, event : Row, since : 0..MaxOffers, id : 0..MaxOffers]

TypeOK ==
    /\ clock \in 0..MaxClock
    /\ events \subseteq Row
    /\ seeds \in 0..MaxSeeds
    /\ people \subseteq Users
    /\ interests \in [Users -> Profiles]
    /\ suggestions \subseteq Suggestion
    /\ offered \in 0..MaxOffers
    /\ task \in [Workers -> Task]
    /\ yeses \in [Users -> 0..MaxYeses]
    /\ retried \in [Users -> 0..MaxRetries]

Init ==
    /\ clock = 0
    /\ events = {} /\ seeds = 0
    /\ people = Users
    /\ interests \in [Users -> Profiles]
    /\ suggestions = {} /\ offered = 0
    /\ task = [w \in Workers |-> Idle]
    /\ yeses = [u \in Users |-> 0] /\ retried = [u \in Users |-> 0]

----------------------------------------------------------------------------
(* Which event somebody is offered.                                        *)

\* splitPreferences.
Wanted(I) == {i.word : i \in {j \in I : ~j.no}}
Unwanted(I) == {i.word : i \in {j \in I : j.no}}

\* matchesInterest: the word itself or what stands for it.
MatchesInterest(e, w) == ({w} \cup Tags[w]) \cap Details[e].words # {}

Hits(e, I) == {w \in Wanted(I) : MatchesInterest(e, w)}

Overlap(v, w) == <<v, w>> \in Inside \/ <<w, v>> \in Inside

\* optedIn.
OptedIn(I, rule) == \E w \in Wanted(I), o \in rule.optIn : Overlap(w, o)

Home == {"london", "online"}
MentionsCity(I, city) == \E w \in Wanted(I) : Overlap(w, city)

\* What scoreEvent turns away: an event that has started, one of a kind they do
\* not want, one for an audience they are not part of, one that is nothing they
\* said they like, and one in a city they never mentioned. (One without a link is
\* turned away here too, but never becomes a row of events.)
Eligible(e, I, now) ==
    /\ Details[e].starts > now
    /\ \A w \in Unwanted(I) : ~MatchesInterest(e, w)
    /\ \A rule \in Audiences :
         rule.markers \cap Details[e].words # {} => OptedIn(I, rule)
    /\ Wanted(I) # {} => Hits(e, I) # {}
    /\ Details[e].city \in Home \/ MentionsCity(I, Details[e].city)

Score(e, I, now) ==
    LET days == (Details[e].starts - now) \div Day IN
    (IF Wanted(I) = {} THEN 1 ELSE 3 * Cardinality(Hits(e, I)))
      + (IF Details[e].city = "online" THEN 1 ELSE 2)
      + (IF days <= Soon THEN 2 ELSE IF days <= Later THEN 1 ELSE 0)

\* What is to come and is not on offer to them.
CandidateEventsOpen(u) ==
    {r \in events : Details[r.title].starts >= clock
        /\ \A s \in suggestions : ~(s.user = u /\ s.event = r /\ s.status = "offered")}

\* CandidateEvents: what is to come and was not offered to this person, of which
\* the code reads the first thousand.
CandidateEvents(u) ==
    {r \in events : Details[r.title].starts >= clock
        /\ \A s \in suggestions : ~(s.user = u /\ s.event = r)}

\* Of two that are as good, the later.
MatchEventLatest(C, I) ==
    LET fit == {r \in C : Eligible(r.title, I, clock)}
        Better(r, q) ==
            \/ Score(r.title, I, clock) > Score(q.title, I, clock)
            \/ /\ Score(r.title, I, clock) = Score(q.title, I, clock)
               /\ Details[r.title].starts > Details[q.title].starts
    IN {r \in fit : \A q \in fit : ~Better(q, r)}

\* MatchEvent: the best of them, the earlier where two are as good.
MatchEvent(C, I) ==
    LET fit == {r \in C : Eligible(r.title, I, clock)}
        Better(r, q) ==
            \/ Score(r.title, I, clock) > Score(q.title, I, clock)
            \/ /\ Score(r.title, I, clock) = Score(q.title, I, clock)
               /\ Details[r.title].starts < Details[q.title].starts
    IN {r \in fit : \A q \in fit : ~Better(q, r)}

----------------------------------------------------------------------------
(* Suggesting.                                                             *)

catalogue == <<clock, events, seeds, people, interests>>
Becomes(w, t) == task' = [task EXCEPT ![w] = t]
Ends(w) == Becomes(w, Idle)

\* A text, a call's tool or the introduction's own question: the person's row is
\* loaded first.
Asks(w, u) ==
    /\ task[w].pc = "idle" /\ u \in people
    /\ Becomes(w, [Idle EXCEPT !.pc = "match", !.user = u, !.interests = interests[u]])
    /\ UNCHANGED <<catalogue, suggestions, offered, yeses, retried>>

\* Nothing clears the bar, and so they are told.
NoMatch(w) ==
    /\ task[w].pc = "match"
    /\ MatchEvent(CandidateEvents(task[w].user), task[w].interests) = {}
    /\ Ends(w)
    /\ UNCHANGED <<catalogue, suggestions, offered, yeses, retried>>

Picks(w) ==
    LET t == task[w] IN
    /\ t.pc = "match"
    /\ \E r \in MatchEvent(CandidateEvents(t.user), t.interests) :
         Becomes(w, [t EXCEPT !.pc = "offer", !.event = r, !.interests = {}, !.since = offered])
    /\ UNCHANGED <<catalogue, suggestions, offered, yeses, retried>>

\* AddSuggestion: fails when a row it refers to is gone, or when the database
\* does, and nothing is offered then.
Offered(w) ==
    LET t == task[w] IN
    /\ t.pc = "offer" /\ offered < MaxOffers
    /\ t.event \in events /\ t.user \in people
    /\ offered' = offered + 1
    /\ suggestions' = suggestions \cup
         {[id |-> offered + 1, user |-> t.user, event |-> t.event,
           status |-> "offered", since |-> t.since]}
    /\ Ends(w)
    /\ UNCHANGED <<catalogue, yeses, retried>>

OfferFails(w) ==
    /\ task[w].pc = "offer"
    /\ Ends(w)
    /\ UNCHANGED <<catalogue, suggestions, offered, yeses, retried>>

----------------------------------------------------------------------------
(* Accepting.                                                              *)

OnOffer(u) == {s \in suggestions : s.user = u /\ s.status = "offered"}

\* A yes arrives.
SaysYes(w, u) ==
    /\ task[w].pc = "idle" /\ u \in people
    /\ yeses[u] < MaxYeses /\ yeses' = [yeses EXCEPT ![u] = @ + 1]
    /\ Becomes(w, [Idle EXCEPT !.pc = "open", !.user = u])
    /\ UNCHANGED <<catalogue, suggestions, offered, retried>>

\* It is delivered again by a provider that got no answer: accept_suggestion
\* carries no idempotency key.
YesRetried(w, u) ==
    /\ task[w].pc = "idle" /\ u \in people /\ yeses[u] > 0
    /\ retried[u] < MaxRetries /\ retried' = [retried EXCEPT ![u] = @ + 1]
    /\ Becomes(w, [Idle EXCEPT !.pc = "open", !.user = u])
    /\ UNCHANGED <<catalogue, suggestions, offered, yeses>>

\* OpenSuggestion: the newest on offer, if any.
Opens(w) ==
    LET t == task[w] IN
    /\ t.pc = "open"
    /\ \/ OnOffer(t.user) = {} /\ Ends(w)
       \/ \E s \in OnOffer(t.user) :
            /\ \A q \in OnOffer(t.user) : q.id <= s.id
            /\ Becomes(w, [t EXCEPT !.pc = "accept", !.id = s.id])
    /\ UNCHANGED <<catalogue, suggestions, offered, yeses, retried>>

\* All that is on offer to the person becomes accepted.
AcceptsAll(w) ==
    LET t == task[w] IN
    /\ t.pc = "accept"
    /\ suggestions' = {IF s.user = t.user THEN [s EXCEPT !.status = "accepted"] ELSE s :
                          s \in suggestions}
    /\ Ends(w)
    /\ UNCHANGED <<catalogue, offered, yeses, retried>>

\* The status written is none of the table's.
AcceptsMisspelt(w) ==
    LET t == task[w] IN
    /\ t.pc = "accept"
    /\ suggestions' = {IF s.id = t.id THEN [s EXCEPT !.status = "accept"] ELSE s :
                          s \in suggestions}
    /\ Ends(w)
    /\ UNCHANGED <<catalogue, offered, yeses, retried>>

\* SetSuggestionStatus, of the row by its id and its owner.
Accepts(w) ==
    LET t == task[w] IN
    /\ t.pc = "accept"
    /\ suggestions' = {IF s.id = t.id /\ s.user = t.user
                         THEN [s EXCEPT !.status = "accepted"] ELSE s : s \in suggestions}
    /\ Ends(w)
    /\ UNCHANGED <<catalogue, offered, yeses, retried>>

----------------------------------------------------------------------------
(* The rest of the program.                                                *)

\* Their interests change: an answer, the settings page, or a call's save.
Learns(u, I) ==
    /\ u \in people /\ I # interests[u]
    /\ interests' = [interests EXCEPT ![u] = I]
    /\ UNCHANGED <<clock, events, seeds, people, suggestions, offered, task, yeses, retried>>

\* ForgetUser.
Forgets(u) ==
    /\ people' = people \ {u} /\ u \in people
    /\ suggestions' = {s \in suggestions : s.user # u}
    /\ UNCHANGED <<clock, events, seeds, interests, offered, task, yeses, retried>>

\* What a reseed leaves: whatever somebody may still say yes to.
KeptWhileOpen(force) ==
    IF force THEN {s.event : s \in {q \in suggestions : q.status = "offered"}} ELSE events

\* What a reseed leaves: whatever somebody was offered.
Kept(force) == IF force THEN {s.event : s \in suggestions} ELSE events

\* SeedEvents: a process starts, beside the one it replaces or after it died.
\* As many rows as the export has are taken for the export's.
Seeds(export, force) ==
    LET kept == Kept(force)
        fresh == export \ {r.title : r \in kept}
    IN
    /\ seeds < MaxSeeds /\ seeds' = seeds + 1
    /\ events' = IF Cardinality(events) = Cardinality(export) /\ ~force THEN events
                 ELSE kept \cup [title : fresh, seed : {seeds + 1}]
    /\ UNCHANGED <<clock, people, interests, suggestions, offered, task, yeses, retried>>

Crash ==
    /\ task' = [w \in Workers |-> Idle]
    /\ UNCHANGED <<catalogue, suggestions, offered, yeses, retried>>

Tick ==
    /\ clock < MaxClock /\ clock' = clock + 1
    /\ UNCHANGED <<events, seeds, people, interests, suggestions, offered, task, yeses, retried>>

Next ==
    \/ \E w \in Workers :
         \/ \E u \in Users : Asks(w, u) \/ SaysYes(w, u) \/ YesRetried(w, u)
         \/ NoMatch(w) \/ Picks(w) \/ Offered(w) \/ OfferFails(w)
         \/ Opens(w) \/ Accepts(w)
    \/ \E u \in Users : Forgets(u) \/ \E I \in Profiles : Learns(u, I)
    \/ \E export \in Exports, force \in BOOLEAN : Seeds(export, force)
    \/ Crash
    \/ Tick

Spec == Init /\ [][Next]_vars

----------------------------------------------------------------------------
(* Properties.                                                             *)

SignedUpFor(u) == {s \in suggestions : s.user = u /\ s.status = "accepted"}

\* CandidateEvents returns "events this user has not been offered yet": of two
\* offers of one event to one person, the second was looked for before the first
\* was made.
OfferedAfresh ==
    \A s, t \in suggestions :
        s.user = t.user /\ s.event = t.event /\ s.id < t.id => t.since < s.id

\* What makes OfferedAfresh hold: whoever is about to offer an event that was
\* offered already read the candidates before that.
AfreshInv ==
    /\ \A s \in suggestions : s.id <= offered
    /\ \A w \in Workers, s \in suggestions :
         task[w].pc = "offer" /\ task[w].user = s.user /\ task[w].event = s.event
             => task[w].since < s.id
    /\ \A w \in Workers : task[w].since <= offered
    /\ OfferedAfresh

\* A reseed keeps "any event a user was already offered" (README.md:410), however
\* the process that loads the export and requests still served by the other
\* interleave: nothing refers to an event, or to a person, that is gone.
NothingOrphaned ==
    \A s \in suggestions : s.event \in events /\ s.user \in people

\* The event chosen is one that may be offered, and none that may scores more.
\* What the points come to: an event passed over is at some disadvantage to it, and
\* does not match all that it matches and more, in as good a place and no later.
BestIsOffered ==
    [][\A w \in Workers : task[w].pc = "match" /\ task'[w].pc = "offer" =>
         LET I == task[w].interests
             best == task'[w].event.title
         IN /\ Eligible(best, I, clock)
            /\ \A r \in CandidateEvents(task[w].user) : Eligible(r.title, I, clock) =>
                 /\ Score(r.title, I, clock) <= Score(best, I, clock)
                 /\ /\ Hits(best, I) \subseteq Hits(r.title, I)
                    /\ Details[r.title].city = Details[best].city
                    /\ Details[r.title].starts <= Details[best].starts
                    => /\ Hits(r.title, I) = Hits(best, I)
                       /\ Details[r.title].starts = Details[best].starts]_vars

\* Nobody whose yeses all arrived once is signed up for more events than they
\* said yes to, whatever offers and yeses overlap.
SignedUpOnYes ==
    \A u \in Users : retried[u] = 0 => Cardinality(SignedUpFor(u)) <= yeses[u]

\* Yeses a worker is still acting on.
UnderWay(u) == {w \in Workers : task[w].pc \in {"open", "accept"} /\ task[w].user = u}

\* What makes SignedUpOnYes hold: each yes is an event somebody is signed up for,
\* or still under way, or came to nothing, and an id names one row, so that a
\* yes under way becomes one event at most.
SignUpInv ==
    /\ \A s, t \in suggestions : s.id = t.id => s = t
    /\ \A u \in Users : IsFiniteSet(SignedUpFor(u)) /\ IsFiniteSet(UnderWay(u))
    /\ \A u \in Users : retried[u] = 0 =>
         Cardinality(SignedUpFor(u)) + Cardinality(UnderWay(u)) <= yeses[u]

\* README.md:103, an event "is only acted on after an explicit yes": nobody is
\* signed up for more events than they said yes to.
ActedOnOnlyAfterYes ==
    \A u \in Users : Cardinality(SignedUpFor(u)) <= yeses[u]
=============================================================================
