----------------------------- MODULE Interview -----------------------------
(***************************************************************************)
(* The introduction of one person: a checklist asked one question at a     *)
(* time over text messages and over calls, what earlier sessions settled   *)
(* of it, and the event it offers.                                         *)
(*                                                                         *)
(* A turn is a chain of separate statements against the database           *)
(* (brain.go OnboardingTurn, ingest.go toolNextQuestion, toolSaveAnswer):  *)
(* find or create the session, read the current item, write the answer,    *)
(* act on a yes, ask the next question or finish. Turns of the two         *)
(* channels, and two quick texts on one, interleave between any two of     *)
(* them, and the process may die there. What the person says is abstracted *)
(* to how the code can tell replies apart.                                 *)
(***************************************************************************)
EXTENDS Naturals, Sequences, FiniteSets

CONSTANTS
    Workers,     \* goroutines serving this person's turns
    Template,    \* onboardingTemplate's keys, in order
    Profile,     \* keys whose answer is a column of users (KnownFrom)
    Replies,     \* per key: the kinds of reply this person may give
    MaxTurns,    \* turns this person may take
    MaxSessions, \* sessions this person may open
    MaxOffers,   \* events in the catalogue
    StoreFails   \* whether the database may fail a turn about to finish

Keys == {Template[i] : i \in 1..Len(Template)}
Kept == Keys \ {"event_offer"}  \* the offer alone is PerSession
Channels == {"sms", "call"}

\* What the code can tell apart of a reply: words, words a profile column
\* cannot be made of, a clear yes, a plain no, skip and its like, "no thanks"
\* and its like. A reply that settles nothing is Refused's.
AllReplies == {"words", "unusable", "yes", "no", "skip", "decline"}

ASSUME InterviewAssumption ==
    /\ Template \in Seq(STRING)
    /\ \A i, j \in 1..Len(Template) : Template[i] = Template[j] => i = j
    /\ {"name", "event_offer", "checkin_consent"} \subseteq Keys
    /\ Profile \subseteq Keys \ {"event_offer", "checkin_consent"}
    /\ "name" \in Profile
    /\ Replies \in [Keys -> SUBSET AllReplies]
    /\ \A k \in Keys : "unusable" \in Replies[k] => k \in Profile
    /\ \A k \in Keys : "yes" \in Replies[k] => k = "event_offer"
    /\ MaxTurns \in Nat
    /\ MaxSessions \in Nat
    /\ MaxOffers \in Nat
    /\ StoreFails \in BOOLEAN

VARIABLES
    sessions,   \* onboarding sessions, oldest first
    order,      \* per kept question: <<s, r>>, session s settled it after r did
    known,      \* profile columns that are filled in
    onboarded,  \* onboarded_at is set
    offers,     \* suggestions in the order made, each "offered" or "accepted"
    turn,       \* what each worker is doing
    turns,      \* bound: turns taken so far
    agreed      \* history: how often the person has said yes to an offer

vars == <<sessions, order, known, onboarded, offers, turn, turns, agreed>>

Statuses == {"unanswered", "answered", "skipped", "declined"}

Item == [status : Statuses, asked : BOOLEAN]
Session == [channel : Channels, open : BOOLEAN, items : [Keys -> Item]]

Fresh == [k \in Keys |-> "unanswered"]
Idle == [pc |-> "idle", kind |-> "text", reply |-> "words", session |-> 0,
         key |-> "name", offer |-> 0, carried |-> Fresh, row |-> {}]
Turn == [pc : {"idle", "create", "current", "write", "acknowledge", "accept",
               "next", "mark", "close", "row"},
         kind : {"text", "poll", "save"}, reply : AllReplies,
         session : 0..MaxSessions, key : Keys,
         offer : 0..MaxOffers, carried : [Keys -> Statuses], row : SUBSET Profile]

TypeOK ==
    /\ sessions \in Seq(Session) /\ Len(sessions) <= MaxSessions
    /\ order \in [Kept -> SUBSET ((1..MaxSessions) \X (1..MaxSessions))]
    /\ known \subseteq Profile
    /\ onboarded \in BOOLEAN
    /\ offers \in Seq({"offered", "accepted"}) /\ Len(offers) <= MaxOffers
    /\ turn \in [Workers -> Turn]
    /\ turns \in 0..MaxTurns
    /\ agreed \in Nat

Init ==
    /\ sessions = <<>> /\ order = [k \in Kept |-> {}]
    /\ known \in SUBSET Profile
    /\ onboarded = FALSE
    /\ offers = <<>>
    /\ turn = [w \in Workers |-> Idle] /\ turns = 0
    /\ agreed = 0

----------------------------------------------------------------------------
(* What is on file.                                                        *)

StatusIn(s, k) == sessions[s].items[k].status

NextChecklistItemAny(s) == {k \in Keys : StatusIn(s, k) = "unanswered"}

\* The first item still unanswered, as a set of at most one key.
NextChecklistItem(s) ==
    {Template[i] : i \in {j \in 1..Len(Template) :
        /\ StatusIn(s, Template[j]) = "unanswered"
        /\ \A h \in 1..(j - 1) : StatusIn(s, Template[h]) # "unanswered"}}

\* The newest answer or refusal of a question across sessions, as a set of at
\* most one. A skip is neither: it does not outlive its session.
LastSettled(k) ==
    LET said == {s \in 1..Len(sessions) : StatusIn(s, k) \in {"answered", "declined"}}
    IN {StatusIn(s, k) : s \in {r \in said : \A q \in said : <<q, r>> \notin order[k]}}

\* The order of a question once the session s has settled it last.
SettledLast(k, s) ==
    {p \in order[k] : s \notin {p[1], p[2]}}
      \cup {<<s, r>> : r \in {q \in 1..Len(sessions) : q # s /\ StatusIn(q, k) # "unanswered"}}

\* A question never settled is carried forward with whatever the scan left.
CarryForwardUnchecked(k) ==
    IF k = "event_offer" THEN "unanswered"
    ELSE IF k \in known THEN "answered"
    ELSE IF LastSettled(k) = {} THEN ""
    ELSE CHOOSE status \in LastSettled(k) : TRUE

\* carryForward: what a session opened now starts out knowing of a question.
CarryForward(k) ==
    IF k = "event_offer" THEN "unanswered"
    ELSE IF k \in known THEN "answered"
    ELSE IF LastSettled(k) = {} THEN "unanswered"
    ELSE CHOOSE status \in LastSettled(k) : TRUE

\* The session EnsureSession finds: the newest open one of the channel.
OpenSessions(ch) ==
    {s \in 1..Len(sessions) : sessions[s].open /\ sessions[s].channel = ch}

Newest(S) == {s \in S : \A r \in S : r <= s}

\* classifyReply for a text; over a call the agent reports the status itself
\* and hears a plain no as a refusal.
StatusOf(kind, reply) ==
    CASE reply = "skip" -> "skipped"
      [] reply = "decline" -> "declined"
      [] reply = "no" /\ kind = "save" -> "declined"
      [] OTHER -> "answered"

----------------------------------------------------------------------------
(* A turn.                                                                 *)

Becomes(w, t) == turn' = [turn EXCEPT ![w] = t]
Ends(w) == Becomes(w, Idle)
ChannelOf(kind) == IF kind = "text" THEN "sms" ELSE "call"

\* The handler loads a profile with no onboarded_at and looks for the session.
\* When there is none, what to carry forward is read before the transaction
\* that creates it.
TurnBegins(w, kind) ==
    LET found == OpenSessions(ChannelOf(kind))
        t == [Idle EXCEPT !.kind = kind]
    IN
    /\ turn[w].pc = "idle"
    /\ ~onboarded
    /\ turns < MaxTurns /\ turns' = turns + 1
    /\ \/ \E s \in Newest(found) :
            Becomes(w, [t EXCEPT !.pc = "current", !.session = s])
       \/ /\ found = {} /\ Len(sessions) < MaxSessions
          /\ Becomes(w, [t EXCEPT !.pc = "create",
                         !.carried = [k \in Keys |-> CarryForward(k)]])
    /\ UNCHANGED <<sessions, order, known, onboarded, offers, agreed>>

SessionCreated(w) ==
    LET t == turn[w]
        id == Len(sessions) + 1
    IN
    /\ t.pc = "create" /\ id <= MaxSessions
    /\ sessions' = Append(sessions,
         [channel |-> ChannelOf(t.kind), open |-> TRUE,
          items |-> [k \in Keys |-> [status |-> t.carried[k], asked |-> FALSE]]])
    /\ order' = [k \in Kept |-> IF t.carried[k] = "unanswered" THEN order[k]
                                ELSE SettledLast(k, id)]
    /\ Becomes(w, [t EXCEPT !.pc = "current", !.session = id, !.carried = Fresh])
    /\ UNCHANGED <<known, onboarded, offers, turns, agreed>>

\* The best of the events this person has not been offered becomes a suggestion.
SuggestEvent == Len(offers) < MaxOffers /\ offers' = Append(offers, "offered")

\* askQuestion: the offer is worded now, from a new suggestion when some event
\* matches; any other question keeps its wording.
Ask(s, k) ==
    /\ sessions' = [sessions EXCEPT ![s].items[k].asked = TRUE]
    /\ \/ k = "event_offer" /\ SuggestEvent
       \/ UNCHANGED offers

\* A text finds the checklist settled: there is nothing left but to finish. A
\* poll or a save over a call finds it settled and is turned away.
NothingLeft(w) ==
    LET t == turn[w] IN
    /\ t.pc = "current" /\ NextChecklistItem(t.session) = {}
    /\ IF t.kind = "text" THEN Becomes(w, [t EXCEPT !.pc = "mark"]) ELSE Ends(w)
    /\ UNCHANGED <<sessions, order, known, onboarded, offers, turns, agreed>>

\* A text that meets a question not yet put asks it; a poll always asks.
AsksCurrent(w) ==
    LET t == turn[w] IN
    /\ t.pc = "current"
    /\ \E k \in NextChecklistItem(t.session) :
         /\ \/ t.kind = "poll"
            \/ t.kind = "text" /\ ~sessions[t.session].items[k].asked
         /\ Ask(t.session, k)
    /\ Ends(w)
    /\ UNCHANGED <<order, known, onboarded, turns, agreed>>

\* The reply is taken as an answer to the current question.
TakesReply(w, reply) ==
    LET t == turn[w] IN
    /\ t.pc = "current"
    /\ \E k \in NextChecklistItem(t.session) :
         /\ \/ t.kind = "text" /\ sessions[t.session].items[k].asked
            \/ t.kind = "save"
         /\ reply \in Replies[k]
         /\ Becomes(w, [t EXCEPT !.pc = "write", !.key = k, !.reply = reply])
    /\ UNCHANGED <<sessions, order, known, onboarded, offers, turns, agreed>>

\* The reply settles nothing: it is empty, the agent named another key than the
\* current one, or the question was settled since the turn first read it.
Refused(w) ==
    /\ turn[w].pc = "current" /\ turn[w].kind # "poll"
    /\ Ends(w)
    /\ UNCHANGED <<sessions, order, known, onboarded, offers, turns, agreed>>

\* A clear acceptance; anything ambiguous is not one.
IsYesLoose(reply) == reply \in {"yes", "no"}

IsYes(reply) == reply = "yes"

\* After an answer: a clear yes to the offer is acted on, then what is next.
Resume(t) ==
    [Idle EXCEPT !.kind = t.kind, !.session = t.session,
                 !.pc = IF t.pc = "write" /\ t.key = "event_offer" /\ IsYes(t.reply)
                        THEN "acknowledge" ELSE "next"]

\* The transaction of RecordChecklistAnswer. The item was chosen before it
\* opened and is written whatever has happened to it since; an answer that
\* yields no profile value rolls back.
AnswerWritten(w) ==
    LET t == turn[w]
        status == StatusOf(t.kind, t.reply)
    IN
    /\ t.pc = "write"
    /\ \/ /\ t.reply = "unusable"
          /\ Ends(w)
          /\ UNCHANGED <<sessions, order, known, agreed>>
       \/ /\ t.reply # "unusable"
          /\ sessions' = [sessions EXCEPT ![t.session].items[t.key].status = status]
          /\ order' = [k \in Kept |-> IF k = t.key THEN SettledLast(k, t.session)
                                      ELSE order[k]]
          /\ known' = IF t.key \in Profile /\ status = "answered"
                      THEN known \cup {t.key} ELSE known
          /\ agreed' = IF t.reply = "yes" THEN agreed + 1 ELSE agreed
          /\ Becomes(w, Resume(t))
    /\ UNCHANGED <<onboarded, offers, turns>>

LastOffered ==
    {i \in 1..Len(offers) :
        offers[i] = "offered" /\ \A j \in (i + 1)..Len(offers) : offers[j] # "offered"}

\* acknowledge, after a clear yes to the event offer: the newest suggestion
\* still on offer is looked up, whichever question that was made for.
FindsOffer(w) ==
    LET t == turn[w] IN
    /\ t.pc = "acknowledge"
    /\ \/ \E i \in LastOffered : Becomes(w, [t EXCEPT !.pc = "accept", !.offer = i])
       \/ LastOffered = {} /\ Becomes(w, Resume(t))
    /\ UNCHANGED <<sessions, order, known, onboarded, offers, turns, agreed>>

AcceptsOffer(w) ==
    LET t == turn[w] IN
    /\ t.pc = "accept"
    /\ offers' = [offers EXCEPT ![t.offer] = "accepted"]
    /\ Becomes(w, Resume(t))
    /\ UNCHANGED <<sessions, order, known, onboarded, turns, agreed>>

AsksNext(w) ==
    LET t == turn[w] IN
    /\ t.pc = "next"
    /\ \E k \in NextChecklistItem(t.session) : Ask(t.session, k)
    /\ Ends(w)
    /\ UNCHANGED <<order, known, onboarded, turns, agreed>>

\* Nothing is left to ask, or the read that would tell failed: both callers
\* take a failed read for a finished checklist.
Finishes(w) ==
    /\ turn[w].pc = "next"
    /\ \/ NextChecklistItem(turn[w].session) = {}
       \/ StoreFails
    /\ Becomes(w, [turn[w] EXCEPT !.pc = "mark", !.kind = "text"])
    /\ UNCHANGED <<sessions, order, known, onboarded, offers, turns, agreed>>

\* finishOnboarding: the profile is stamped, then the session closed. A stamp
\* that failed is only logged.
MarkOnboarded(w) ==
    /\ turn[w].pc = "mark"
    /\ \/ onboarded' = TRUE
       \/ StoreFails /\ UNCHANGED onboarded
    /\ Becomes(w, [turn[w] EXCEPT !.pc = "close"])
    /\ UNCHANGED <<sessions, order, known, offers, turns, agreed>>

CloseSession(w) ==
    /\ turn[w].pc = "close"
    /\ sessions' = [sessions EXCEPT ![turn[w].session].open = FALSE]
    /\ Ends(w)
    /\ UNCHANGED <<order, known, onboarded, offers, turns, agreed>>

----------------------------------------------------------------------------
(* The other writers of the same rows.                                     *)

\* toolSaveOnboarding loads the row, merges what the agent learned, and writes
\* every profile column back, stamping the person once none is missing.
RowLoaded(w, learned) ==
    /\ turn[w].pc = "idle"
    /\ turns < MaxTurns /\ turns' = turns + 1
    /\ Becomes(w, [Idle EXCEPT !.pc = "row", !.row = known \cup learned])
    /\ UNCHANGED <<sessions, order, known, onboarded, offers, agreed>>

RowSaved(w) ==
    /\ turn[w].pc = "row"
    /\ known' = turn[w].row
    /\ onboarded' = (onboarded \/ turn[w].row = Profile)
    /\ Ends(w)
    /\ UNCHANGED <<sessions, order, offers, turns, agreed>>

\* The dashboard's SetName settles the name question wherever it is open.
SetName ==
    LET unnamed == {s \in 1..Len(sessions) : StatusIn(s, "name") = "unanswered"} IN
    /\ known' = known \cup {"name"}
    /\ sessions' = [s \in 1..Len(sessions) |->
         IF s \in unnamed THEN [sessions[s] EXCEPT !.items["name"].status = "answered"]
         ELSE sessions[s]]
    /\ order' = [order EXCEPT !["name"] = @ \cup
         {p \in unnamed \X (1..Len(sessions)) : p[2] \in unnamed => p[2] < p[1]}]
    /\ UNCHANGED <<onboarded, offers, turn, turns, agreed>>

\* The process dies between two statements of any number of turns.
Crash ==
    /\ turn' = [w \in Workers |-> Idle]
    /\ UNCHANGED <<sessions, order, known, onboarded, offers, turns, agreed>>

TurnStep(w) ==
    \/ SessionCreated(w) \/ NothingLeft(w) \/ AsksCurrent(w) \/ Refused(w)
    \/ \E reply \in AllReplies : TakesReply(w, reply)
    \/ AnswerWritten(w) \/ FindsOffer(w) \/ AcceptsOffer(w) \/ AsksNext(w)
    \/ Finishes(w) \/ MarkOnboarded(w) \/ CloseSession(w) \/ RowSaved(w)

Next ==
    \/ \E w \in Workers :
         \/ \E kind \in {"text", "poll", "save"} : TurnBegins(w, kind)
         \/ \E learned \in SUBSET Profile : RowLoaded(w, learned)
         \/ TurnStep(w)
    \/ SetName
    \/ Crash

Spec == Init /\ [][Next]_vars

----------------------------------------------------------------------------
(* Properties.                                                             *)

\* NextChecklistItem's promise that question two never appears before question
\* one is settled, in every session, however turns interleave: a question that
\* was put has every earlier one settled.
OneQuestionAtATime ==
    \A s \in 1..Len(sessions) : \A i, j \in 1..Len(Template) :
        i < j /\ sessions[s].items[Template[j]].asked
            => StatusIn(s, Template[i]) # "unanswered"

SignedUp == {i \in 1..Len(offers) : offers[i] = "accepted"}

\* acknowledge's promise that only a yes signs anybody up: never more events
\* accepted than offers said yes to, whatever turns race to accept them.
SignedUpOnlyOnYes == Cardinality(SignedUp) <= agreed

\* Turns still acting on a yes.
Accepting == {w \in Workers : turn[w].pc \in {"acknowledge", "accept"}}

\* What makes SignedUpOnlyOnYes hold: each yes is an event accepted, or a turn
\* still acting on it, or came to nothing.
SignUpInv ==
    /\ IsFiniteSet(Accepting)
    /\ Cardinality(SignedUp) + Cardinality(Accepting) <= agreed
=============================================================================
