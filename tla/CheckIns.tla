------------------------------ MODULE CheckIns ------------------------------
(***************************************************************************)
(* Check-ins on a schedule and on demand (scheduler.go; server.go          *)
(* TriggerCheckin, checkinOn, handleCall; account.go handleCheckinNow):    *)
(* who is due, the opening sent to them, and last_triggered_at, which is   *)
(* written only afterwards and is all that keeps a slot from firing twice. *)
(*                                                                         *)
(* Time is a count of periods. The even ones are the hours a schedule can  *)
(* name, in order; the odd ones are what lies between them. DueNow         *)
(* compares instants with the start of an hour and nothing finer, so that  *)
(* an instant is the period it falls in.                                   *)
(***************************************************************************)
EXTENDS Naturals, Sequences

CONSTANTS
    Users,       \* people, by id: a pass visits them in this order
    Workers,     \* HTTP handlers at work on a check-in
    Hours,       \* the hours to come: "weekday9", "weekday20", "weekend9", "weekend20"
    Frequencies, \* those people choose between
    MaxAsked,    \* bound: check-ins begun by a handler
    MaxChanges,  \* bound: changes to anybody's profile or consent
    MaxLost,     \* bound: scheduled marks lost to a failure, per person and slot
    StoreFails   \* whether statements may fail

Scheduler == "scheduler"  \* the goroutine of Run

ASSUME CheckInsAssumption ==
    /\ Users \subseteq Nat
    /\ Hours \in Seq({"weekday9", "weekday20", "weekend9", "weekend20"})
    /\ Frequencies \subseteq {"daily", "twice-daily", "weekdays"}
    /\ MaxAsked \in Nat /\ MaxChanges \in Nat /\ MaxLost \in Nat
    /\ StoreFails \in BOOLEAN
    /\ Scheduler \notin Workers

Openers == Workers \cup {Scheduler}
End == 2 * Len(Hours) + 1
Periods == 1..End
IsHour(p) == p % 2 = 0
HourOf(p) == Hours[p \div 2]

Never == 0  \* last_triggered_at is NULL

VARIABLES
    clock,      \* the period it is now
    users,      \* profiles that exist
    frequency,  \* users.frequency
    onboarded,  \* people with an onboarded_at
    last,       \* the period of last_triggered_at
    declined,   \* people who last settled checkin_consent by declining it
    pass,       \* the pass Run is in: when it read the clock, and who is left
    job,        \* per opener: the check-in it is opening
    asked,      \* bound: check-ins begun by handlers so far
    changes,    \* bound: changes to profiles so far
    opened,     \* history: openings for the latest slot that reached each person
    unmarked,   \* history: times the latest slot's mark was lost or taken back
    owed,       \* history: people due in all of this hour so far, and not tried in it
    passed      \* a pass has run to its end, or the process died, in this hour

db == <<users, frequency, onboarded, declined, changes>>
history == <<opened, unmarked, owed>>
ciVars == <<clock, db, last, pass, job, asked, history, passed>>

NoPass == [now |-> 0, due |-> {}]
NoJob == [pc |-> "idle", user |-> 0, born |-> 0, at |-> 0, kind |-> "due"]
Job == [pc : {"idle", "send", "stamp", "mark"}, user : Users \cup {0},
        born : Periods \cup {0}, at : Periods \cup {0}, kind : {"due", "trigger", "now"}]

CITypeOK ==
    /\ clock \in Periods
    /\ users \subseteq Users
    /\ frequency \in [Users -> Frequencies]
    /\ onboarded \subseteq Users
    /\ last \in [Users -> Periods \cup {Never}]
    /\ declined \subseteq Users
    /\ pass \in [now : Periods \cup {0}, due : SUBSET Users]
    /\ job \in [Openers -> Job]
    /\ asked \in 0..MaxAsked /\ changes \in 0..MaxChanges
    /\ opened \in [Users -> Nat] /\ unmarked \in [Users -> Nat]
    /\ owed \subseteq Users
    /\ passed \in BOOLEAN

CIInit ==
    /\ clock = 1
    /\ users = Users
    /\ frequency \in [Users -> Frequencies]
    /\ onboarded \in SUBSET Users
    /\ last = [u \in Users |-> Never]
    /\ declined = {}
    /\ pass = NoPass
    /\ job = [o \in Openers |-> NoJob]
    /\ asked = 0 /\ changes = 0
    /\ opened = [u \in Users |-> 0] /\ unmarked = [u \in Users |-> 0]
    /\ owed = {} /\ passed = FALSE

----------------------------------------------------------------------------
(* Who is due.                                                             *)

\* slotHours, with the days a frequency leaves out.
SlotHours(f) ==
    CASE f = "twice-daily" -> {"weekday9", "weekday20", "weekend9", "weekend20"}
      [] f = "weekdays" -> {"weekday9"}
      [] OTHER -> {"weekday9", "weekend9"}

\* DueNow: introduced, in one of their hours, and not triggered since it began.
DueNow(u, now) ==
    /\ u \in users \cap onboarded
    /\ IsHour(now) /\ HourOf(now) \in SlotHours(frequency[u])
    /\ last[u] < now

----------------------------------------------------------------------------
(* A pass of the scheduler. It reads the clock and the users once, so that *)
(* whoever is due is settled when it begins.                               *)

PassBegins ==
    LET due == {u \in users : DueNow(u, clock)} IN
    /\ pass = NoPass /\ job[Scheduler].pc = "idle"
    /\ IF due = {}
       THEN IsHour(clock) /\ ~passed /\ passed' = TRUE /\ UNCHANGED pass
       ELSE pass' = [now |-> clock, due |-> due] /\ UNCHANGED passed
    /\ UNCHANGED <<clock, db, last, job, asked, history>>

\* One failure or refusal ends the pass.
EndsThePass(left) ==
    /\ pass' = NoPass
    /\ passed' = (passed \/ pass.now = clock)

\* The pass leaves the people in `left` and, with nobody else to visit, ends.
GoesOn(left) ==
    /\ pass' = IF left = {} THEN NoPass ELSE [pass EXCEPT !.due = left]
    /\ passed' = (passed \/ (left = {} /\ pass.now = clock))

\* The next of the people who are due is looked up for a refusal, which is
\* honoured. A read that fails, like a question never settled and a person who
\* is gone, is no refusal.
SettledStatus(u) ==
    /\ u \in pass.due /\ (\A v \in pass.due : u <= v)
    /\ job[Scheduler].pc = "idle"
    /\ \/ u \in declined /\ GoesOn(pass.due \ {u}) /\ UNCHANGED job
       \/ /\ u \notin declined \/ StoreFails
          /\ job' = [job EXCEPT ![Scheduler] =
               [pc |-> "send", user |-> u, born |-> clock, at |-> 0, kind |-> "due"]]
          /\ UNCHANGED <<pass, passed>>
    /\ UNCHANGED <<clock, db, last, asked, history>>

----------------------------------------------------------------------------
(* A check-in on demand, over the dashboard, /call or /trigger.            *)

Asks(w, u, kind) ==
    /\ job[w].pc = "idle" /\ u \in users
    /\ asked < MaxAsked /\ asked' = asked + 1
    /\ job' = [job EXCEPT ![w] =
                 [pc |-> "send", user |-> u, born |-> clock, at |-> 0, kind |-> kind]]
    /\ UNCHANGED <<clock, db, last, pass, history, passed>>

----------------------------------------------------------------------------
(* Opening a check-in, for all of them.                                    *)

\* Opener o is done with its check-in; the scheduler moves on to the next person.
Done(o) ==
    /\ job' = [job EXCEPT ![o] = NoJob]
    /\ IF o = Scheduler THEN GoesOn(pass.due \ {job[o].user})
                        ELSE UNCHANGED <<pass, passed>>

\* Only an opening that succeeded is marked.
MarksSuccessOnly(kind, ok) == ok

\* The deferred mark of TriggerCheckin, or the one of what succeeded.
MarksAfter(kind, ok) == ok \/ kind \in {"due", "trigger"}

\* checkinOn: a text or a call that reaches the person or not, and an answer
\* that says so or not: the provider refuses, a call is up already, the answer
\* is lost after the phone rang, or the message is not recorded. TriggerCheckin
\* defers the mark, so that a failed opening takes the slot too; handleCall and
\* handleCheckinNow mark what succeeded.
Opens(o, reached, ok) ==
    LET j == job[o] IN
    /\ j.pc = "send"
    /\ ok => reached
    /\ ok => j.user \in users
    /\ opened' = IF reached /\ o = Scheduler
                 THEN [opened EXCEPT ![j.user] = @ + 1] ELSE opened
    /\ owed' = owed \ {j.user}
    /\ IF MarksAfter(j.kind, ok)
       THEN job' = [job EXCEPT ![o].pc = "stamp", ![o].kind = "due"] /\ UNCHANGED <<pass, passed>>
       ELSE Done(o)
    /\ UNCHANGED <<clock, db, last, asked, unmarked>>

\* A mark dated at the end of the period it is made in.
StampsRoundedUp(o) ==
    /\ job[o].pc = "stamp"
    /\ job' = [job EXCEPT ![o].pc = "mark", ![o].at = clock + 1]
    /\ UNCHANGED <<clock, db, last, pass, asked, history, passed>>

\* time.Now() for the mark.
Stamps(o) ==
    /\ job[o].pc = "stamp"
    /\ job' = [job EXCEPT ![o].pc = "mark", ![o].at = clock]
    /\ UNCHANGED <<clock, db, last, pass, asked, history, passed>>

\* The slot whose hour it is, or was last.
Latest == IF IsHour(clock) THEN clock ELSE clock - 1

\* The latest slot was covered by a mark of period `to` and now is not, or will
\* not be, by one of period `from`.
Unmark(u, from, to) ==
    unmarked' = IF from < Latest /\ Latest <= to
                THEN [unmarked EXCEPT ![u] = @ + 1] ELSE unmarked

MayLose(u) == unmarked[u] < MaxLost

\* MarkTriggered, whose error nobody looks at, and which takes a mark back when
\* its own time was read before that mark's.
MarkTriggered(o) ==
    LET j == job[o] IN
    /\ j.pc = "mark"
    /\ \/ /\ last' = IF j.user \in users THEN [last EXCEPT ![j.user] = j.at] ELSE last
          /\ Unmark(j.user, j.at, last[j.user])
       \/ /\ StoreFails /\ UNCHANGED last
          /\ IF o = Scheduler THEN MayLose(j.user) /\ Unmark(j.user, last[j.user], j.at)
                              ELSE UNCHANGED unmarked
    /\ owed' = {u \in owed : last'[u] < clock}
    /\ Done(o)
    /\ UNCHANGED <<clock, db, asked, opened>>

----------------------------------------------------------------------------
(* Everything else.                                                        *)

Changes(u) == u \in users /\ changes < MaxChanges /\ changes' = changes + 1

\* An introduction ends: MarkOnboarded.
Introduced(u) ==
    /\ Changes(u) /\ u \notin onboarded
    /\ onboarded' = onboarded \cup {u}
    /\ UNCHANGED <<clock, users, frequency, declined, last, pass, job, asked, history, passed>>

SetFrequency(u, f) ==
    /\ Changes(u) /\ f # frequency[u]
    /\ frequency' = [frequency EXCEPT ![u] = f]
    /\ owed' = owed \ {u}
    /\ UNCHANGED <<clock, users, onboarded, declined, last, pass, job, asked,
                   opened, unmarked, passed>>

\* The consent question is settled again, by a later conversation.
Settles(u) ==
    /\ Changes(u)
    /\ declined' = IF u \in declined THEN declined \ {u} ELSE declined \cup {u}
    /\ owed' = owed \ {u}
    /\ UNCHANGED <<clock, users, frequency, onboarded, last, pass, job, asked,
                   opened, unmarked, passed>>

ForgetUser(u) ==
    /\ Changes(u)
    /\ users' = users \ {u}
    /\ declined' = declined \ {u}
    /\ owed' = owed \ {u}
    /\ UNCHANGED <<clock, frequency, onboarded, last, pass, job, asked,
                   opened, unmarked, passed>>

\* The process dies. The mark of an opening that was made is lost, and the hour
\* may have no pass that ran to its end.
Crash ==
    LET j == job[Scheduler] IN
    /\ IF j.pc \in {"stamp", "mark"}
       THEN MayLose(j.user) /\ Unmark(j.user, last[j.user], clock)
       ELSE UNCHANGED unmarked
    /\ job' = [o \in Openers |-> NoJob]
    /\ pass' = NoPass
    /\ passed' = TRUE /\ owed' = {}
    /\ UNCHANGED <<clock, db, last, asked, opened>>

\* The period ends. What is at work began in it, the providers being timed out
\* within seconds, and of the sixty passes of an hour one at least has ended in
\* it; the last may work on into the next period.
Passes ==
    /\ clock < End
    /\ IsHour(clock) => passed
    /\ pass.now \in {0, clock}
    /\ \A o \in Openers : job[o].pc # "idle" => job[o].born = clock
    /\ clock' = clock + 1
    /\ owed' = {u \in users \ declined : DueNow(u, clock + 1)}
    /\ passed' = FALSE
    /\ IF IsHour(clock + 1)
       THEN opened' = [u \in Users |-> 0] /\ unmarked' = [u \in Users |-> 0]
       ELSE UNCHANGED <<opened, unmarked>>
    /\ UNCHANGED <<db, last, pass, job, asked>>

OpenerStep(o) ==
    \/ \E reached, ok \in BOOLEAN : Opens(o, reached, ok)
    \/ Stamps(o)
    \/ MarkTriggered(o)

CINext ==
    \/ PassBegins
    \/ \E o \in Openers : OpenerStep(o)
    \/ \E w \in Workers, u \in Users, kind \in {"trigger", "now"} : Asks(w, u, kind)
    \/ \E u \in Users :
         \/ SettledStatus(u) \/ Introduced(u) \/ Settles(u) \/ ForgetUser(u)
         \/ \E f \in Frequencies : SetFrequency(u, f)
    \/ Crash
    \/ Passes

CISpec == CIInit /\ [][CINext]_ciVars

----------------------------------------------------------------------------
(* Properties.                                                             *)

\* sms_test.go's "should not double-fire inside the same slot", for
\* passes, handlers and restarts in any order: a person hears from the schedule
\* once in a slot, and once more only for each mark of that slot that was lost,
\* or taken back by a handler's late one.
OncePerSlot ==
    \A u \in Users : opened[u] <= 1 + unmarked[u]

\* The opening made to u for the latest slot is still to be marked.
Pending(u) == job[Scheduler].pc \in {"stamp", "mark"} /\ job[Scheduler].user = u

\* What OncePerSlot rests on: a pass is of the latest slot and its scheduler at
\* work on somebody that pass has yet to leave, a mark it is about to make covers
\* that slot, and whoever may still be opened has heard no more than was unmarked.
SlotInv ==
    /\ pass # NoPass => pass.now = Latest /\ pass.now # 0
    /\ LET j == job[Scheduler] IN
       /\ j.pc # "idle" => j.user \in pass.due /\ j.kind = "due"
       /\ j.pc = "mark" => j.at >= Latest
    /\ OncePerSlot
    /\ \A u \in pass.due \cup {v \in users : last[v] < Latest} :
         ~Pending(u) => opened[u] <= unmarked[u]

\* README.md's "fires each user's check-in for their frequency": whoever is due
\* all through an hour, nobody having marked them as triggered in it, is tried in
\* it by a process that stays up and gets through one pass. One person's failed
\* opening or refusal keeps nobody else from theirs.
SlotsServed ==
    [][clock' # clock => owed = {}]_ciVars

\* What SlotsServed rests on: whoever is owed a try is due now and willing, still
\* ahead of the pass of this hour, and not the one just opened; and once a pass has
\* run to its end nobody is owed one.
OwedInv ==
    /\ \A u \in owed : DueNow(u, clock) /\ u \notin declined /\ ~Pending(u)
    /\ pass.now = clock => owed \subseteq pass.due
    /\ passed => owed = {}
=============================================================================
