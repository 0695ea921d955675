------------------------------- MODULE Texts -------------------------------
(***************************************************************************)
(* The check-in conversation and the deliveries it arrives in (server.go   *)
(* handleSMS, ingest.go toolSaveAnswer, signals.go RememberWebhook,        *)
(* brain.go Reply): texts of somebody already introduced, and answers an   *)
(* agent saves over a call, each delivered again by a provider that got no *)
(* answer, and each to be worked off once and answered alike.              *)
(*                                                                         *)
(* What a reply says is left out: a turn's reply is the number of the      *)
(* turn. Of the model's conversation, only that it is a loop of rounds.    *)
(***************************************************************************)
EXTENDS Integers, Sequences

CONSTANTS
    Messages,      \* texts, by MessageSid, and saves, by idempotency_key
    Saves,         \* those of Messages that are saves over a call
    Handlers,      \* goroutines that serve deliveries
    MaxRounds,     \* rounds of tools in a turn (five)
    TTL,           \* how long an answer about tonight is good for
    MaxClock,      \* bound: how far time runs
    MaxDeliveries, \* bound: deliveries
    MaxFaults      \* bound: statements that fail

ASSUME TextsAssumption ==
    /\ Saves \subseteq Messages
    /\ MaxRounds \in Nat \ {0} /\ TTL \in Nat /\ MaxClock \in Nat
    /\ MaxDeliveries \in Nat /\ MaxFaults \in Nat

Tonight == "evening_availability"
Watch == "notify_watch"
CheckinTemplate == <<Tonight, Watch>>
Keys == {Tonight, Watch}

\* webhook_events.response: no row, a row with nothing in it, or a turn's reply.
NoRow == -1
Blank == 0

\* What a delivery is answered that fails before its key is looked up: a text the
\* fallback, a save an error.
Sorry == -2

VARIABLES
    clock,
    sessions,  \* this person's check-in sessions, oldest first, none ever closed
    response,  \* webhook_events, per message
    handler,   \* what each handler is doing
    sent,      \* bound: deliveries so far
    faults,    \* bound: statements that failed so far
    turns,     \* history: turns taken, per message
    blind,     \* history: messages one of whose lookups failed and was gone on without
    answers    \* history: what a message's deliveries were answered

vars == <<clock, sessions, response, handler, sent, faults, turns, blind, answers>>
log == <<response, sent, turns, blind, answers>>

Unsettled == [status |-> "unanswered", at |-> 0, asked |-> FALSE]
Item == [status : {"unanswered", "settled", "skipped"}, at : 0..MaxClock, asked : BOOLEAN]
Session == [channel : {"sms", "call"}, items : [Keys -> Item]]

Idle == [pc |-> "idle", msg |-> "none", session |-> 0, key |-> Tonight, round |-> 0,
         carried |-> {}]
Pcs == {"idle", "select", "insert", "ensure", "create", "current",
        "write", "next", "model", "store"}
Handler ==
    {t \in [pc : Pcs, msg : Messages \cup {"none"}, session : Nat, key : Keys,
            round : 0..MaxRounds - 1, carried : SUBSET Keys] :
        t.pc # "idle" => t.msg \in Messages}

TypeOK ==
    /\ clock \in 0..MaxClock
    /\ sessions \in Seq(Session)
    /\ response \in [Messages -> {NoRow} \cup Nat]
    /\ handler \in [Handlers -> Handler]
    /\ sent \in 0..MaxDeliveries /\ faults \in 0..MaxFaults
    /\ turns \in [Messages -> Nat]
    /\ blind \subseteq Messages
    /\ answers \in [Messages -> SUBSET ({Sorry} \cup Nat)]

Init ==
    /\ clock = 0
    /\ sessions = <<>>
    /\ response = [m \in Messages |-> NoRow]
    /\ handler = [h \in Handlers |-> Idle]
    /\ sent = 0 /\ faults = 0 /\ turns = [m \in Messages |-> 0]
    /\ blind = {} /\ answers = [m \in Messages |-> {}]

----------------------------------------------------------------------------
(* Deliveries and their keys.                                              *)

Goes(h, pc) == handler' = [handler EXCEPT ![h].pc = pc]

\* The delivery is answered with r.
Answers(h, r) ==
    /\ answers' = [answers EXCEPT ![handler[h].msg] = @ \cup {r}]
    /\ handler' = [handler EXCEPT ![h] = Idle]

\* A statement fails.
Fails == faults < MaxFaults /\ faults' = faults + 1

\* EnsureUser, and then for a text its key, for a save its session. When it
\* fails, the delivery is told so at once; a text whose profile cannot be read
\* again, once its number was marked verified, panics and is told nothing.
Arrives(h, m) ==
    /\ handler[h].pc = "idle"
    /\ sent < MaxDeliveries /\ sent' = sent + 1
    /\ \/ /\ handler' = [handler EXCEPT ![h] =
               [Idle EXCEPT !.msg = m, !.pc = IF m \in Saves THEN "ensure" ELSE "select"]]
          /\ UNCHANGED <<faults, answers>>
       \/ /\ Fails /\ UNCHANGED handler
          /\ \/ answers' = [answers EXCEPT ![m] = @ \cup {Sorry}]
             \/ m \notin Saves /\ UNCHANGED answers
    /\ UNCHANGED <<clock, sessions, response, turns, blind>>

\* The delivery is taken for the message's first: a turn begins.
TurnBegins(h) ==
    /\ turns' = [turns EXCEPT ![handler[h].msg] = @ + 1]
    /\ Goes(h, IF handler[h].msg \in Saves THEN "current" ELSE "ensure")

\* A statement of RememberWebhook fails, and the delivery goes ahead.
LookupFails(h) ==
    /\ Fails /\ handler[h].pc \in {"select", "insert"}
    /\ TurnBegins(h)
    /\ blind' = blind \cup {handler[h].msg}
    /\ UNCHANGED <<clock, sessions, response, sent, answers>>

\* The row found, what it keeps is not read.
KeySelectedUnread(h) ==
    /\ handler[h].pc = "select"
    /\ IF response[handler[h].msg] # NoRow
       THEN Answers(h, Blank) ELSE Goes(h, "insert") /\ UNCHANGED answers
    /\ UNCHANGED <<clock, sessions, response, sent, faults, turns, blind>>

\* Every message is taken for one that is known.
KeySelectedSeen(h) ==
    LET m == handler[h].msg IN
    /\ handler[h].pc = "select"
    /\ Answers(h, IF response[m] = NoRow THEN Blank ELSE response[m])
    /\ UNCHANGED <<clock, sessions, response, sent, faults, turns, blind>>

\* RememberWebhook's SELECT: a message that is known is answered what is kept.
KeySelected(h) ==
    LET m == handler[h].msg IN
    /\ handler[h].pc = "select"
    /\ IF response[m] # NoRow
       THEN Answers(h, response[m]) ELSE Goes(h, "insert") /\ UNCHANGED answers
    /\ UNCHANGED <<clock, sessions, response, sent, faults, turns, blind>>

\* Whether it was inserted or not, the delivery is taken for the first.
KeyInsertedAnyway(h) ==
    LET m == handler[h].msg IN
    /\ handler[h].pc = "insert"
    /\ response' = [response EXCEPT ![m] = IF @ = NoRow THEN Blank ELSE @]
    /\ TurnBegins(h)
    /\ UNCHANGED <<clock, sessions, sent, faults, blind, answers>>

\* Its INSERT: the delivery that loses the race is no first one.
KeyInserted(h) ==
    LET m == handler[h].msg IN
    /\ handler[h].pc = "insert"
    /\ \/ /\ response[m] = NoRow
          /\ response' = [response EXCEPT ![m] = Blank]
          /\ TurnBegins(h) /\ UNCHANGED answers
       \/ /\ response[m] # NoRow
          /\ Answers(h, response[m])
          /\ UNCHANGED <<response, turns>>
    /\ UNCHANGED <<clock, sessions, sent, faults, blind>>

\* StoreWebhookResponse, which may fail unnoticed, and the answer.
ResponseStored(h) ==
    LET m == handler[h].msg IN
    /\ handler[h].pc = "store"
    /\ \/ /\ response' = [response EXCEPT ![m] = IF @ = NoRow THEN @ ELSE turns[m]]
          /\ UNCHANGED faults
       \/ Fails /\ UNCHANGED response
    /\ Answers(h, turns[m])
    /\ UNCHANGED <<clock, sessions, sent, turns, blind>>

----------------------------------------------------------------------------
(* The check-in's checklist.                                               *)

NextChecklistItem(s) ==
    LET open == {i \in 1..2 : sessions[s].items[CheckinTemplate[i]].status = "unanswered"}
    IN {CheckinTemplate[i] : i \in {j \in open : \A n \in open : j <= n}}

\* When a question was last left in one of these states, if it ever was.
SettledAt(k, statuses) ==
    LET at == {sessions[s].items[k].at :
                 s \in {r \in 1..Len(sessions) : sessions[r].items[k].status \in statuses}}
    IN {t \in at : \A u \in at : u <= t}

\* carryForward: an answer or a refusal, but not a skip, starts a new session
\* settled, and one about tonight only while it is fresh.
CarriedForward ==
    {k \in Keys : \E at \in SettledAt(k, {"settled"}) : k = Tonight => clock - at <= TTL}

\* EnsureSession: the newest of the channel's, or what a new one will know. An
\* answer it fails to read is not carried.
Ensures(h) ==
    LET ch == IF handler[h].msg \in Saves THEN "call" ELSE "sms"
        found == {s \in 1..Len(sessions) : sessions[s].channel = ch}
        Creates(known) == handler' = [handler EXCEPT ![h].pc = "create", ![h].carried = known]
    IN
    /\ handler[h].pc = "ensure"
    /\ \/ \E s \in found :
            /\ \A r \in found : r <= s
            /\ handler' = [handler EXCEPT ![h].session = s,
                 ![h].pc = IF ch = "call" THEN "select" ELSE "current"]
            /\ UNCHANGED faults
       \/ /\ found = {}
          /\ \/ Creates(CarriedForward) /\ UNCHANGED faults
             \/ Fails /\ \E k \in CarriedForward : Creates(CarriedForward \ {k})
    /\ UNCHANGED <<clock, sessions, log>>

SessionCreated(h) ==
    LET saves == handler[h].msg \in Saves IN
    /\ handler[h].pc = "create"
    /\ sessions' = Append(sessions, [channel |-> IF saves THEN "call" ELSE "sms",
                                     items |-> [k \in Keys |-> IF k \in handler[h].carried
                         THEN [Unsettled EXCEPT !.status = "settled", !.at = clock]
                         ELSE Unsettled]])
    /\ handler' = [handler EXCEPT ![h].pc = IF saves THEN "select" ELSE "current",
         ![h].session = Len(sessions) + 1, ![h].carried = {}]
    /\ UNCHANGED <<clock, faults, log>>

\* The session can be neither found nor made: a save is refused before its key is
\* looked up, a text goes on to the model.
EnsureFails(h) ==
    LET m == handler[h].msg IN
    /\ Fails /\ handler[h].pc \in {"ensure", "create"}
    /\ IF m \in Saves
       THEN Answers(h, Sorry)
       ELSE /\ handler' = [handler EXCEPT ![h].pc = "model", ![h].carried = {}]
            /\ UNCHANGED answers
    /\ UNCHANGED <<clock, sessions, response, sent, turns, blind>>

MarkAsked(s, k) == sessions' = [sessions EXCEPT ![s].items[k].asked = TRUE]

\* The current question is taken as answered: RecordChecklistAnswer's own look
\* at it has found it current.
Takes(h, k) == handler' = [handler EXCEPT ![h].pc = "write", ![h].key = k]

\* interviewReply: a question not yet put is put, whether or not that can be
\* marked; to one that was, the text is the answer. With none left, or a read
\* that fails, the model takes the text.
Interviews(h) ==
    LET s == handler[h].session IN
    /\ handler[h].pc = "current" /\ handler[h].msg \notin Saves
    /\ \/ \E k \in NextChecklistItem(s) :
            IF sessions[s].items[k].asked
            THEN Takes(h, k) /\ UNCHANGED <<sessions, faults>>
            ELSE /\ \/ MarkAsked(s, k) /\ UNCHANGED faults
                    \/ Fails /\ UNCHANGED sessions
                 /\ Goes(h, "store")
       \/ /\ \/ NextChecklistItem(s) = {} /\ UNCHANGED faults
             \/ Fails
          /\ Goes(h, "model") /\ UNCHANGED sessions
    /\ UNCHANGED <<clock, log>>

\* The text says nothing, or the question was settled since it was looked up:
\* the same question is put again.
AsksAgain(h) ==
    LET s == handler[h].session IN
    /\ handler[h].pc = "current" /\ handler[h].msg \notin Saves
    /\ \E k \in NextChecklistItem(s) : sessions[s].items[k].asked
    /\ Goes(h, "store")
    /\ UNCHANGED <<clock, sessions, faults, log>>

\* toolSaveAnswer: a save that names the current question is recorded. Any other
\* is refused, and nothing is kept of that.
Saved(h, k) ==
    LET m == handler[h].msg IN
    /\ handler[h].pc = "current" /\ m \in Saves
    /\ IF k \in NextChecklistItem(handler[h].session)
       THEN Takes(h, k) /\ UNCHANGED answers
       ELSE Answers(h, turns[m])
    /\ UNCHANGED <<clock, sessions, response, sent, faults, turns, blind>>

\* Its transaction, which writes the item whatever has become of it since.
AnswerWritten(h, status) ==
    LET t == handler[h] IN
    /\ t.pc = "write"
    /\ sessions' = [sessions EXCEPT ![t.session].items[t.key] =
                      [@ EXCEPT !.status = status, !.at = clock]]
    /\ Goes(h, "next")
    /\ UNCHANGED <<clock, faults, log>>

\* It fails: the text is told the question again, the save that it was refused.
WriteFails(h) ==
    LET m == handler[h].msg IN
    /\ Fails /\ handler[h].pc = "write"
    /\ IF m \in Saves THEN Answers(h, turns[m]) ELSE Goes(h, "store") /\ UNCHANGED answers
    /\ UNCHANGED <<clock, sessions, response, sent, turns, blind>>

AsksNext(h) ==
    LET s == handler[h].session IN
    /\ handler[h].pc = "next"
    /\ \/ /\ \E k \in NextChecklistItem(s) : MarkAsked(s, k)
          /\ UNCHANGED faults
       \/ /\ \/ NextChecklistItem(s) = {} /\ UNCHANGED faults
             \/ Fails
          /\ UNCHANGED sessions
    /\ Goes(h, "store")
    /\ UNCHANGED <<clock, log>>

----------------------------------------------------------------------------
(* The model.                                                              *)

\* It answers, cannot be reached, or runs out of the forty seconds.
ModelAnswers(h) ==
    /\ handler[h].pc = "model"
    /\ handler' = [handler EXCEPT ![h].pc = "store", ![h].round = 0]
    /\ UNCHANGED <<clock, sessions, faults, log>>

\* The rounds are counted from one.
RunsToolsOneMore(h) ==
    LET r == handler[h].round + 1 IN
    /\ handler[h].pc = "model"
    /\ handler' = [handler EXCEPT
         ![h].pc = IF r <= MaxRounds THEN "model" ELSE "store",
         ![h].round = IF r <= MaxRounds THEN r ELSE 0]
    /\ UNCHANGED <<clock, sessions, faults, log>>

\* The rounds are not counted.
RunsToolsUnbounded(h) ==
    /\ handler[h].pc = "model"
    /\ handler' = [handler EXCEPT ![h].round = (@ + 1) % MaxRounds]
    /\ UNCHANGED <<clock, sessions, faults, log>>

\* It asks for tools instead, and the last round gives up on it.
RunsTools(h) ==
    LET r == handler[h].round + 1 IN
    /\ handler[h].pc = "model"
    /\ handler' = [handler EXCEPT
         ![h].pc = IF r < MaxRounds THEN "model" ELSE "store",
         ![h].round = IF r < MaxRounds THEN r ELSE 0]
    /\ UNCHANGED <<clock, sessions, faults, log>>

----------------------------------------------------------------------------
(* The process dies with every turn under way; hours pass.                 *)

Crash ==
    /\ handler' = [h \in Handlers |-> Idle]
    /\ UNCHANGED <<clock, sessions, faults, log>>

Tick ==
    /\ \A h \in Handlers : handler[h] = Idle
    /\ clock < MaxClock /\ clock' = clock + 1
    /\ UNCHANGED <<sessions, handler, faults, log>>

Step(h) ==
    \/ LookupFails(h) \/ KeySelected(h) \/ KeyInserted(h) \/ ResponseStored(h)
    \/ Ensures(h) \/ SessionCreated(h) \/ EnsureFails(h) \/ Interviews(h)
    \/ AsksAgain(h) \/ AsksNext(h)
    \/ \E k \in Keys : Saved(h, k)
    \/ \E status \in {"settled", "skipped"} : AnswerWritten(h, status)
    \/ WriteFails(h) \/ ModelAnswers(h) \/ RunsTools(h)

Next ==
    \/ \E h \in Handlers : Step(h) \/ \E m \in Messages : Arrives(h, m)
    \/ Crash
    \/ Tick

\* A handler that has begun goes on: every statement and every call of the model
\* returns, with an error at the latest when its time is up.
Fairness == \A h \in Handlers : WF_vars(Step(h))

Spec == Init /\ [][Next]_vars /\ Fairness

----------------------------------------------------------------------------
(* Properties.                                                             *)

\* RememberWebhook's "a retry must not write a second check-in or advance the
\* checklist twice", for deliveries that overlap, follow a crash or follow an
\* answer nobody got: a message takes one turn, unless a lookup of its key failed.
OneTurnPerMessage ==
    \A m \in Messages : turns[m] > 1 => m \in blind

\* handleSMS's "replay the same answer": once a turn's reply is kept, no delivery
\* of the message is answered anything else, unless a statement fails before its
\* key is looked up, for which it is told so.
RepliesReplayed ==
    [][\A m \in Messages \ blind : response[m] > Blank =>
         answers'[m] \ answers[m] \subseteq
           {response[m]} \cup IF faults' = faults THEN {} ELSE {Sorry}]_vars

\* Between them, with what a delivery is told while the reply is not there, or that
\* never reaches its key: of the messages no lookup of which failed the code keeps
\* the promises of Inbox, through crashes and failing statements (RememberWebhook,
\* StoreWebhookResponse, checklistUser).
Served == INSTANCE Inbox WITH
    work <- [m \in Messages |-> IF m \in blind THEN 0 ELSE turns[m]],
    kept <- {m \in Messages \ blind : response[m] > Blank},
    told <- [m \in Messages |-> IF m \in blind THEN {} ELSE answers[m]],
    exempt <- blind

ImplementsInbox == Served!Spec

\* handleSMS "always answers with TwiML": a handler is done with its delivery
\* whatever the model goes on asking for, or the process dies.
EveryDeliveryAnswered ==
    \A h \in Handlers : handler[h].pc # "idle" ~> handler[h].pc = "idle"

\* checklist.go's reason for the TTL, "last week's yes proves nothing and the
\* question comes back": nobody is past the checklist on an answer about an
\* evening gone by.
QuestionComesBack ==
    [][\A h \in Handlers : handler[h].pc # "model" /\ handler'[h].pc = "model" =>
         \E at \in SettledAt(Tonight, {"settled", "skipped"}) : clock - at <= TTL]_vars

\* A turn of this delivery's message has begun.
InTurn(h) ==
    \/ handler[h].pc \in {"current", "write", "next", "model", "store"}
    \/ handler[h].pc \in {"ensure", "create"} /\ handler[h].msg \notin Saves

\* What the promises rest on, beside the rows being in step with the turns: a row
\* and a handler past its lookup speak of a turn that has begun.
BegunInv ==
    \A m \in Messages \ blind :
        (response[m] # NoRow \/ \E h \in Handlers : handler[h].msg = m /\ InTurn(h))
          => turns[m] > 0
=============================================================================
