------------------------------ MODULE CallSlot ------------------------------
(***************************************************************************)
(* The live-call slot: who may ring a person, and when the service believes *)
(* the call is over.                                                       *)
(*                                                                         *)
(* users.call_started_at is the lock. placeCall (server.go) claims it with *)
(* a conditional UPDATE before the voice provider is asked to ring; four   *)
(* unrelated pieces of code release it with an unconditional UPDATE: a     *)
(* failed request, the hang-up timer armed when an introduction is saved,  *)
(* the post-call webhook, and the periodic transcript sync. None of the    *)
(* last three says which call it speaks for.                               *)
(*                                                                         *)
(* A tick is one syncInterval. A claim's age is all that the code reads of *)
(* call_started_at, so the age is what is kept; Clear stands for NULL, and *)
(* ages past callMaxDuration are one age, Stale. Nothing ends a call after *)
(* callMaxDuration: the code only stops believing in it. Any statement may *)
(* fail, and all that these handlers do about it is to log it.             *)
(***************************************************************************)
EXTENDS Naturals, FiniteSets

CONSTANTS
    Users,      \* people with a row in users
    Calls,      \* requests to ring somebody; a placed one is also its call SID
    UserOf,     \* whom each request rings
    CallMax,    \* callMaxDuration, in ticks
    SyncReach,  \* how old a conversation a routine sync pass still lists
    None        \* the empty last_call_sid

ASSUME CallSlotAssumption ==
    /\ UserOf \in [Calls -> Users]
    /\ CallMax \in Nat \ {0}
    /\ SyncReach \in Nat
    /\ SyncReach >= CallMax
    /\ None \notin Calls

VARIABLES
    slotAge,    \* per user: ticks since call_started_at, or Clear
    sid,        \* per user: last_call_sid
    introduced, \* users with onboarded_at set
    pc,         \* per call: where its placeCall stands
    line,       \* per call: what the provider is doing about it
    callAge,    \* per call: ticks since its claim, as long as it is active
    lineAge,    \* per call: ticks since the conversation began
    timers,     \* hang-up timers pending in this process
    hooks,      \* webhook transcripts accepted, their goroutine still to run
    delivered,  \* calls whose webhook was delivered
    queue,      \* conversations the running sync pass has yet to file
    pass,       \* the sync loop: before its boot backfill, due, or waiting
    abandoned   \* history: users whose slot was released within a call's term

slotVars == <<slotAge, abandoned>>
vars == <<slotAge, sid, introduced, pc, line, callAge, lineAge, timers, hooks,
          delivered, queue, pass, abandoned>>

Stale == CallMax + 1
Clear == CallMax + 2
AgeCap == SyncReach + 1
CallsOf(u) == {c \in Calls : UserOf[c] = u}

Timer == [sid : Calls, by : Calls, hung : BOOLEAN]

TypeOK ==
    /\ slotAge \in [Users -> 0..Clear]
    /\ sid \in [Users -> Calls \cup {None}]
    /\ introduced \in SUBSET Users
    /\ pc \in [Calls -> {"idle", "claimed", "placed", "done"}]
    /\ line \in [Calls -> {"none", "asked", "live", "over"}]
    /\ callAge \in [Calls -> 0..Stale]
    /\ lineAge \in [Calls -> 0..AgeCap]
    /\ timers \in SUBSET Timer
    /\ hooks \in SUBSET Calls
    /\ delivered \in SUBSET Calls
    /\ queue \in SUBSET Calls
    /\ pass \in {"boot", "due", "wait"}
    /\ abandoned \in SUBSET Users

Init ==
    /\ slotAge = [u \in Users |-> Clear]
    /\ sid = [u \in Users |-> None]
    /\ introduced \in SUBSET Users
    /\ pc = [c \in Calls |-> "idle"]
    /\ line = [c \in Calls |-> "none"]
    /\ callAge = [c \in Calls |-> 0]
    /\ lineAge = [c \in Calls |-> 0]
    /\ timers = {} /\ hooks = {} /\ delivered = {} /\ queue = {}
    /\ pass = "boot"
    /\ abandoned = {}

----------------------------------------------------------------------------
(* The slot's own operations.                                              *)

\* A call on the line, or one the provider may still ring: it has been asked to,
\* whatever became of its answer.
Active(c) == line[c] \in {"asked", "live"}

\* An active call that has not outlasted the claim made for it.
InTerm(c) == Active(c) /\ callAge[c] <= CallMax

CallInProgressOneShort(u) == slotAge[u] + 1 < CallMax

CallInProgress(u) == slotAge[u] < CallMax

MayClaimNeverExpires(u) == slotAge[u] = Clear
MayClaimOneEarly(u) == slotAge[u] >= CallMax

\* The WHERE clause of StartCall: no claim, or one strictly older than the
\* longest call.
MayClaim(u) == slotAge[u] = Clear \/ slotAge[u] > CallMax

\* EndCall: unconditional, unless the statement fails. The caller has already
\* said what becomes of the lines, so the history variable sees whether a call
\* outlives its slot.
EndCall(u) ==
    \/ UNCHANGED slotVars
    \/ /\ slotAge' = [slotAge EXCEPT ![u] = Clear]
       /\ abandoned' = IF \E c \in CallsOf(u) : InTerm(c)'
                       THEN abandoned \cup {u} ELSE abandoned

----------------------------------------------------------------------------
(* placeCall, reached from the dashboard, the signup wizard, /trigger and  *)
(* the scheduler, each on a goroutine of its own.                          *)

StartCallUnconditional(c) ==
    /\ pc[c] = "idle"
    /\ slotAge' = [slotAge EXCEPT ![UserOf[c]] = 0]
    /\ pc' = [pc EXCEPT ![c] = "claimed"]
    /\ line' = [line EXCEPT ![c] = "asked"]
    /\ UNCHANGED <<sid, introduced, callAge, lineAge, timers, hooks, delivered,
                   queue, pass, abandoned>>

StartCall(c) ==
    /\ pc[c] = "idle"
    /\ MayClaim(UserOf[c])
    /\ slotAge' = [slotAge EXCEPT ![UserOf[c]] = 0]
    /\ pc' = [pc EXCEPT ![c] = "claimed"]
    /\ line' = [line EXCEPT ![c] = "asked"]
    /\ UNCHANGED <<sid, introduced, callAge, lineAge, timers, hooks, delivered,
                   queue, pass, abandoned>>

\* The UPDATE matched no row, or failed.
RefuseCall(c) ==
    /\ pc[c] = "idle"
    /\ pc' = [pc EXCEPT ![c] = "done"]
    /\ UNCHANGED <<slotVars, sid, introduced, line, callAge, lineAge, timers,
                   hooks, delivered, queue, pass>>

\* The phone rings, before the provider's answer is back, after it, or after
\* nobody waits for it any more.
ProviderRings(c) ==
    /\ line[c] = "asked"
    /\ line' = [line EXCEPT ![c] = "live"]
    /\ UNCHANGED <<slotVars, sid, introduced, pc, callAge, lineAge, timers,
                   hooks, delivered, queue, pass>>

\* Nothing comes of the request: it was refused or lost on the way and leaves no
\* trace, or nobody picked up and the provider has a failed conversation.
ProviderDrops(c) ==
    /\ line[c] = "asked"
    /\ \E end \in {"none", "over"} : line' = [line EXCEPT ![c] = end]
    /\ UNCHANGED <<slotVars, sid, introduced, pc, callAge, lineAge, timers,
                   hooks, delivered, queue, pass>>

\* An answer with a good status is taken for a call, whatever it says.
CallPlaced(c) ==
    /\ pc[c] = "claimed"
    /\ pc' = [pc EXCEPT ![c] = "placed"]
    /\ UNCHANGED <<slotVars, sid, introduced, line, callAge, lineAge, timers,
                   hooks, delivered, queue, pass>>

SetCallSIDSwapped(c) ==
    /\ pc[c] = "placed"
    /\ pc' = [pc EXCEPT ![c] = "done"]
    /\ sid' = [sid EXCEPT ![UserOf[c]] = UserOf[c]]
    /\ UNCHANGED <<slotVars, introduced, line, callAge, lineAge, timers, hooks,
                   delivered, queue, pass>>

\* The SID the answer carried, or none, is remembered, or the statement fails and
\* the row keeps the SID of an earlier call.
SetCallSID(c) ==
    /\ pc[c] = "placed"
    /\ pc' = [pc EXCEPT ![c] = "done"]
    /\ \/ \E answered \in {c, None} : sid' = [sid EXCEPT ![UserOf[c]] = answered]
       \/ UNCHANGED sid
    /\ UNCHANGED <<slotVars, introduced, line, callAge, lineAge, timers, hooks,
                   delivered, queue, pass>>

\* The request failed: refused by the provider, or timed out, in which case
\* the provider may have rung the phone all the same, or ring it yet.
CallFailed(c) ==
    /\ pc[c] = "claimed"
    /\ pc' = [pc EXCEPT ![c] = "done"]
    /\ UNCHANGED <<sid, introduced, line, callAge, lineAge, timers, hooks,
                   delivered, queue, pass>>
    /\ EndCall(UserOf[c])

\* Either party, or the agent's end_call tool, puts the phone down, however late.
LineCloses(c) ==
    /\ line[c] = "live"
    /\ line' = [line EXCEPT ![c] = "over"]
    /\ UNCHANGED <<slotVars, sid, introduced, pc, callAge, lineAge, timers,
                   hooks, delivered, queue, pass>>

----------------------------------------------------------------------------
(* The hang-up backstop.                                                   *)

\* toolSaveOnboarding completes an introduction over call c. endCall captures
\* the SID on the row and arms a timer; with no SID there is nothing to arm.
SaveOnboarding(c) ==
    LET u == UserOf[c] IN
    /\ line[c] = "live"
    /\ u \notin introduced
    /\ introduced' = introduced \cup {u}
    /\ timers' = IF sid[u] = None THEN timers
                 ELSE timers \cup {[sid |-> sid[u], by |-> c, hung |-> FALSE]}
    /\ UNCHANGED <<slotVars, sid, pc, line, callAge, lineAge, hooks, delivered,
                   queue, pass>>

\* The grace period is over: Twilio is asked to complete the captured call.
\* A refusal is only logged.
TimerHangsUp(t) ==
    /\ ~t.hung
    /\ timers' = (timers \ {t}) \cup {[t EXCEPT !.hung = TRUE]}
    /\ \/ line' = [line EXCEPT ![t.sid] = IF @ = "live" THEN "over" ELSE @]
       \/ UNCHANGED line
    /\ UNCHANGED <<slotVars, sid, introduced, pc, callAge, lineAge, hooks,
                   delivered, queue, pass>>

TimerReleases(t) ==
    LET u == UserOf[t.by] IN
    /\ t.hung
    /\ timers' = timers \ {t}
    /\ sid' \in {sid, [sid EXCEPT ![u] = None]}
    /\ UNCHANGED <<introduced, pc, line, callAge, lineAge, hooks, delivered,
                   queue, pass>>
    /\ EndCall(u)

----------------------------------------------------------------------------
(* Transcripts: the provider's word that a call is over.                   *)

\* handleElevenLabsWebhook answers at once and files on a goroutine. The
\* provider does not retry.
WebhookArrives(c) ==
    /\ line[c] = "over" /\ c \notin delivered
    /\ delivered' = delivered \cup {c}
    /\ hooks' = hooks \cup {c}
    /\ UNCHANGED <<slotVars, sid, introduced, pc, line, callAge, lineAge,
                   timers, queue, pass>>

\* storeConversation, common to both sources: the call's owner has their slot
\* cleared, whichever call it was claimed for.
StoreConversation(c) ==
    /\ UNCHANGED <<sid, introduced, pc, line, callAge, lineAge, timers, delivered>>
    /\ EndCall(UserOf[c])

WebhookFiles(c) ==
    /\ c \in hooks
    /\ hooks' = hooks \ {c}
    /\ UNCHANGED <<queue, pass>>
    /\ StoreConversation(c)

\* What the provider lists: any conversation it has begun, live ones too. The
\* first pass after a boot reaches back over the whole retention window.
Listed ==
    {c \in Calls : line[c] \in {"live", "over"} /\ (pass = "boot" \/ lineAge[c] <= SyncReach)}

\* A pass lists; an error part-way leaves a partial list, still worked through.
SyncLists ==
    /\ queue = {} /\ pass # "wait"
    /\ \E part \in SUBSET Listed : queue' = part
    /\ pass' = "wait"
    /\ UNCHANGED <<slotVars, sid, introduced, pc, line, callAge, lineAge,
                   timers, hooks, delivered>>

SyncFiles(c) ==
    /\ c \in queue
    /\ queue' = queue \ {c}
    /\ UNCHANGED <<hooks, pass>>
    /\ StoreConversation(c)

\* Fetching one conversation failed: it is skipped until the next pass.
SyncSkips(c) ==
    /\ c \in queue
    /\ queue' = queue \ {c}
    /\ UNCHANGED <<slotVars, sid, introduced, pc, line, callAge, lineAge,
                   timers, hooks, delivered, pass>>

----------------------------------------------------------------------------
(* The environment.                                                        *)

\* A syncInterval passes. The HTTP clients' timeouts and the 8s grace period end
\* within a tick; a call need not.
Tick ==
    /\ \A c \in Calls : pc[c] \notin {"claimed", "placed"}
    /\ timers = {}
    /\ slotAge' = [u \in Users |-> IF slotAge[u] < Stale THEN slotAge[u] + 1
                                   ELSE slotAge[u]]
    /\ callAge' = [c \in Calls |-> IF ~Active(c) THEN 0
                                   ELSE IF callAge[c] < Stale THEN callAge[c] + 1
                                   ELSE callAge[c]]
    /\ lineAge' = [c \in Calls |->
                     IF line[c] \in {"live", "over"} /\ lineAge[c] < AgeCap
                     THEN lineAge[c] + 1 ELSE lineAge[c]]
    /\ pass' = IF pass = "wait" THEN "due" ELSE pass
    /\ UNCHANGED <<sid, introduced, pc, line, timers, hooks, delivered, queue,
                   abandoned>>

\* The process dies and is restarted. Timers, goroutines and requests go with
\* it; what the provider was asked to do it may do all the same.
Restart ==
    /\ pc' = [c \in Calls |-> IF pc[c] \in {"claimed", "placed"} THEN "done" ELSE pc[c]]
    /\ timers' = {} /\ hooks' = {} /\ queue' = {}
    /\ pass' = "boot"
    /\ UNCHANGED <<slotVars, sid, introduced, line, callAge, lineAge, delivered>>

----------------------------------------------------------------------------
CallStep(c) ==
    \/ StartCall(c) \/ RefuseCall(c) \/ ProviderRings(c) \/ ProviderDrops(c)
    \/ CallPlaced(c) \/ SetCallSID(c) \/ CallFailed(c) \/ LineCloses(c) \/ SaveOnboarding(c)
    \/ WebhookArrives(c) \/ WebhookFiles(c) \/ SyncFiles(c) \/ SyncSkips(c)

Next ==
    \/ \E c \in Calls : CallStep(c)
    \/ \E t \in timers : TimerHangsUp(t) \/ TimerReleases(t)
    \/ SyncLists
    \/ Tick
    \/ Restart

\* Time passes; a request is answered or times out, and its answer recorded; an
\* armed timer fires. Nobody is obliged to ring, to answer, to hang up, to deliver
\* a transcript, to sync, or to crash.
Fairness ==
    /\ WF_vars(Tick)
    /\ \A c \in Calls : WF_vars(CallPlaced(c) \/ CallFailed(c)) /\ WF_vars(SetCallSID(c))
    /\ WF_vars(\E t \in timers : TimerHangsUp(t) \/ TimerReleases(t))

Spec == Init /\ [][Next]_vars /\ Fairness

----------------------------------------------------------------------------
(* Properties.                                                             *)

\* A person whose slot was never released within a call's term has at most one
\* call in its term: StartCall's conditional UPDATE is a lock for as long as the
\* claim is believed, whatever races, crashes, fails, rings late or is replayed.
OneCallPerPerson ==
    \A u \in Users \ abandoned : \A c, d \in CallsOf(u) :
        InTerm(c) /\ InTerm(d) => c = d

\* The dashboard's "a call is in progress" is true of every active call that
\* has not used up callMaxDuration, so the button is never live over one.
ActiveCallShows ==
    \A u \in Users \ abandoned : \A c \in CallsOf(u) :
        Active(c) /\ callAge[c] < CallMax => CallInProgress(u)

\* The backstop armed by one introduction never hangs up another call of the
\* same person, although it captured whichever SID was on the row, as long as
\* neither call has outlasted callMaxDuration.
HangUpTargetsOwnCall ==
    \A t \in timers :
        /\ ~t.hung /\ UserOf[t.by] \notin abandoned
        /\ line[t.sid] = "live" /\ InTerm(t.sid) /\ callAge[t.by] <= CallMax
        => t.sid = t.by

\* What makes the conditional UPDATE a lock: until its slot is released, a call
\* in its term is as old as its claim, and so too young to be claimed over.
LockInv ==
    /\ \A c \in Calls : pc[c] = "idle" => line[c] = "none" /\ callAge[c] = 0
    /\ \A u \in Users \ abandoned : \A c \in CallsOf(u) :
         InTerm(c) => slotAge[u] = callAge[c]
    /\ OneCallPerPerson

\* What a pending timer may have captured: a call of the same person, placed
\* before the one whose introduction armed it or that one itself.
BackstopInv ==
    /\ \A u \in Users : sid[u] # None => UserOf[sid[u]] = u /\ pc[sid[u]] # "idle"
    /\ \A c \in Calls : pc[c] = "idle" => line[c] = "none"
    /\ \A t \in timers : UserOf[t.sid] = UserOf[t.by] /\ pc[t.sid] # "idle"
    /\ \A t \in timers :
         /\ ~t.hung /\ UserOf[t.by] \notin abandoned
         /\ InTerm(t.sid) /\ callAge[t.by] <= CallMax
         => t.sid = t.by

\* The slot as a lease of callMaxDuration: its users are the calls in their term,
\* and a claim nobody may take over has the age the row gives it.
Using == [u \in Users |-> {c \in CallsOf(u) : InTerm(c) /\ u \notin abandoned}]
LeaseAge ==
    [u \in Users |-> IF u \in abandoned \/ MayClaim(u) THEN Stale ELSE slotAge[u]]

Slot == INSTANCE Lease WITH
    Keys <- Users, Requests <- Calls, Term <- CallMax,
    using <- Using, age <- LeaseAge, broken <- abandoned

\* Timers, webhooks, sync passes, failures, time-outs and restarts are, to the
\* slot, claims, ends and releases of a lease, or the passing of its term.
ImplementsLease == Slot!Spec

\* No lost hang-up, crash, failed release or missing transcript disables the call
\* button for ever: every claim ends (callMaxDuration), though the call may not.
SlotReopens == \A u \in Users : ~MayClaim(u) ~> MayClaim(u)
=============================================================================
