# Running Hackathon: specification, model checking and proofs

A verification development for the Go service in `src/`: a companion that
interviews people over texts and phone calls, offers them events, checks in on a
schedule, and keeps transcripts and observations about them under consent. The
modules are TLA+; TLC checks them on small instances and TLAPS proves their
safety properties for every instance. Line references are to `src/`.

1. [The system](#1-the-system): components, state, operations, interactions
2. [The hard behaviours](#2-the-hard-behaviours)
3. [The modules](#3-the-modules): what each models and how it maps to the code
4. [The runs](#4-the-runs): what is checked, on which bounds
5. [Fairness](#5-fairness)
6. [The proofs](#6-the-proofs)
7. [Disagreements found](#7-disagreements-found)
8. [What is not modelled](#8-what-is-not-modelled)
9. [Plan](#9-plan)

## 1. The system

One process, one SQL database (SQLite or Postgres), and several external
services: a voice provider that places calls and keeps transcripts, an SMS
provider, ICS calendar hosts, and a language model. The process serves HTTP on
many goroutines and runs four loops (scheduler, transcript sync, transcript
purge, retention sweep). No handler holds a lock across two database statements,
so any two handlers interleave between any two of their statements; transactions
are few and small.

| Component | State | Operations | Correct when |
|---|---|---|---|
| Call slot and hang-up (`db.go` StartCall/EndCall, `server.go` placeCall/endCall) | `users.call_started_at`, `last_call_sid`; hang-up timers in memory | claim, place, record SID, release on failure / timer / transcript | one call per person; the dashboard is right about it; the backstop ends its own call; the slot always reopens |
| Introduction interview (`checklist.go`, `brain.go`, `ingest.go`) | checklist sessions and items, profile columns, `onboarded_at`, suggestions | text turn, `next_question`, `save_answer`, `save_onboarding`, `/name` | questions in order; nobody signed up without a yes; nothing given is lost; what a person is told comes true |
| Scheduler (`scheduler.go`, `server.go` TriggerCheckin) | `last_triggered_at` | a pass a minute over everybody, on-demand check-ins | one check-in per slot and person, and nobody forgotten in it |
| Calendar cache (`ics.go`) | cache and in-flight map, under one mutex | Today, Warm, background refresh | fetches shared; no older copy after a newer one; a feed stays fetchable |
| Transcript store and sync (`transcripts.go`, `transcript_sync.go`) | `transcripts`; the sync's last window | webhook, sync pass, adopt on verification, delete, forget, purge | a call belongs to whoever holds its number; retention; erasure |
| Sign-in codes (`auth.go`, `auth_http.go`) | `login_codes`, two in-memory limiters, `phone_verified_at`, sessions | request, text, discard, verify, sweep | one live code; a rate that holds; an outage that locks nobody out |
| Signals, consent, ingestion (`signals.go`, `ingest.go`) | `consents`, `signals`, `webhook_events` | SetConsent, `/ingest`, LatestSignal, Forget, sweep | no duplicate; revocation immediate; a fresh reading is found |
| Webhook idempotency (`signals.go` RememberWebhook) | `webhook_events` and stored responses | register a key, store and replay a response | a retry does nothing twice and is answered alike |
| Matching and suggestions (`matching.go`, `brain.go`, `db.go`) | `suggestions` | score, suggest, accept | only eligible events, best first, each once, accepted on a yes |
| Event catalogue (`events.go`, `db.go` SeedEvents) | `events` | seed at start, `-reseed` | no event dropped that somebody was offered |
| Check-in conversation (`brain.go`, `checklist.go`, `server.go` handleSMS) | check-in sessions and items, messages, check-ins | a text's turn, a save over a call, the model's tool loop | every delivery answered; the question about tonight comes back |
| Caller context (`voice_context.go`), store and migrations (`store_sql.go`), telephony clients (`twilio.go`, `voice.go`), web pages (`server.go`, `account.go`), process (`main.go`, `config.go`) | none of their own, or one column | rendering, loading, plumbing | - |

How they interact:

- `placeCall` is reached from the dashboard and the signup wizard (`handleCall`),
  and through `checkinOn` from "check in now", `/trigger` and the scheduler. It
  takes the slot that four other pieces of code release: itself when the
  provider refuses, the timer that `save_onboarding` arms (`endCall`), the
  post-call webhook and the transcript sync (both through `storeConversation`).
- `storeConversation` looks up who owns a number, writes the transcript and
  releases that person's slot. Sign-in verification adopts a number's unowned
  transcripts; `/forget` deletes the profile that all of them refer to.
- The interview's answers are read by the scheduler (consent), by the profile
  (name, interests) and by the next session (carry-forward).
- `/ingest` shares `RememberWebhook` with the SMS webhook and `save_answer`.
- The scheduler and two handlers open check-ins through the same code and write
  the same `last_triggered_at`, which is all that keeps a slot from firing twice.
- Texts, calls and the introduction's own question all suggest and accept events
  of a table that a starting process loads and prunes.

## 2. The hard behaviours

`PROJECT.json` lists each hazard at its line, with the properties that cover it
or why none does. The kinds that matter here:

- *Check then act across statements.* Who owns a number, which question is
  current, which row a profile had, whether a scope is open: all are read in one
  statement and acted on in a later one.
- *Releases that do not say whom they speak for.* EndCall clears a person's slot,
  DiscardLoginCode a number's codes, SetConsent's UPDATE a scope's times; each
  may arrive after the thing it was meant for is gone.
- *Restarts.* Limiters, timers, in-flight marks and half-run webhooks live in
  memory only. The tables do not.
- *Retries.* Both providers deliver again what got no answer, while the first
  delivery still runs, after it died, or after its answer was lost.
- *Answers that say little.* A request that timed out may have been carried out, or
  be carried out yet; an answer with a good status is taken for a call, and an answer
  with a bad one for a calendar.
- *Failing statements.* Most errors are logged, or dropped, and the handler goes on.
- *Two ways in.* Texts and calls serve the same interview; webhook and sync file
  the same call; the source of observations retries.
- *Time.* Two comparisons with `callMaxDuration` meet at one instant; a code's
  lifetime, its window and a cooldown interleave; an observation may be stamped
  in the future.

## 3. The modules

Nine state machines, each a component with the pieces of others it interacts with,
and two abstract ones that two of them implement.
`X.tla` is the model with its properties, `X_proofs.tla` its theorems, `MCX.tla`
and `MCX*.cfg` its instances for TLC. `Background_proofs.tla` holds the theorems of
both CalendarCache and CheckIns, what runs beside the requests; the specification of
CheckIns has the prefix CI in its names (`CIInit`, `CINext`, `CISpec`, `CITypeOK`)
so that one module can extend the two. An action is one atomic step of the code,
a single statement or a critical section, together with the local computation
around it. A handler is a chain of actions; its program counter and what it has
read so far are part of the state, so that everything else may happen between
two of its steps. `PROJECT.json` maps every definition to its lines.

Two definitions of some operators stand side by side, a correct one and one
with a plausible mistake (`MayClaim` and `MayClaimOneEarly`). Only the first is
used; the second is what the `mutants` of `PROJECT.json` put in its place to show
that a property can fail.

### CallSlot

| Model | Code |
|---|---|
| `slotAge[u]` | age of `users.call_started_at`; `Clear` is NULL, `Stale` any age past `callMaxDuration` |
| `sid[u]` | `last_call_sid` |
| `line[c]` | the provider's side: asked to ring, live, over, or nothing |
| `StartCall`, `RefuseCall` | the conditional UPDATE (db.go:326) and placeCall's refusal |
| `ProviderRings`, `ProviderDrops` | what becomes of the request: the phone rings, however late, or nothing comes of it |
| `CallPlaced`, `SetCallSID`, `CallFailed` | the answer or the loss of it, and placeCall's two ends; an answer with a good status is a call, and may carry no SID |
| `EndCall` | the release; like `SetCallSID` it may fail, which is only logged |
| `LineCloses` | either party hangs up, however late |
| `SaveOnboarding`, `TimerHangsUp`, `TimerReleases` | endCall: a timer with the SID on the row, its HTTP request, its EndCall |
| `WebhookArrives`, `WebhookFiles` | the webhook is answered, then filed on a goroutine |
| `SyncLists`, `SyncFiles`, `SyncSkips` | a sync pass; the first after a boot lists everything |
| `Restart` | timers, goroutines and half-placed calls are gone; the slot is not |

A tick is `syncInterval`, ten minutes. Nothing ends a call after `callMaxDuration`:
neither the request (voice.go:199-225) nor a timer here does, and db.go:31-35 only
assumes that a call is no longer than that. A call goes on for as long as it likes,
and one that has outlasted its claim may be claimed and rung over. What the code
can promise, and the properties say, is about calls *in their term* (`InTerm`):
active, and no older than `callMaxDuration`. `abandoned` is history: whose slot was
released while one of their calls was in its term. It happens (a provider timeout
before the phone rings or after, a late filing, see [7](#7-disagreements-found)), and
the properties are about everybody else. The provider's webhook retries are disabled
in its configuration, so that a call is delivered at most once by it; that the
sync files it too is modelled.

### Interview

| Model | Code |
|---|---|
| `sessions` | `checklist_sessions` with `checklist_items`: status, and whether it was asked |
| `order[k]` | which session settled `k` after which, by `answered_at`: pairs of a later and an earlier one |
| `known`, `onboarded` | profile columns, `onboarded_at` |
| `TurnBegins` ... `AsksNext` | OnboardingTurn (a `"text"`), toolNextQuestion (a `"poll"`), toolSaveAnswer (a `"save"`) |
| `FindsOffer`, `AcceptsOffer` | acknowledge: the newest suggestion is looked up, then accepted |
| `Finishes`, `MarkOnboarded`, `CloseSession` | finishOnboarding, its three effects apart |
| `RowLoaded`, `RowSaved` | toolSaveOnboarding: a row read, every column written back |
| `SetName`, `Crash` | the dashboard's name form, a restart |

Replies are kept apart as far as the code tells them apart: words, words no
profile column can be made of, yes, no, skip, decline, and what settles nothing.
Merged: the statements of `askQuestion`; reading the next question and asking it
(statuses only move forward, and no other step depends on the gap); the handler's
first read and RecordChecklistAnswer's own. The check-in checklist is in
[Texts](#texts).

### CalendarCache

The mutex's critical sections are the actions: `TodayLooks` and `WarmLooks` read
the cache, `Starts` or `Joins` is `refresh`, `HostAnswers`, `Fails` and `Lands`
are the goroutine, whose deferred unmark is part of the last two. `GivesUp` is
Today's wait running out, `Rereads` its second look. A feed's events are its
version. A fetch looks at no HTTP status, so that an error page parses to a calendar
without events, `Blank`, which is cached as any other and takes a good copy's place;
`Fails` is only what the client reports as an error. `shown` is history: the true
copy cached last, which `NeverOlder` compares with across error pages. As in the
code, a caller that joins a fetch does not wait for it.

### Transcripts

`LooksUp` is the owner lookup and `SaveTranscript` the upsert, for webhook and
sync alike; between them a profile may sign up, be verified (`Verify`, then
`AdoptTranscripts` in a later statement), or be forgotten (`ForgetUser`). The
foreign key makes the upsert of a forgotten owner fail (`ProfileExists`), and the
COALESCE in it keeps an owner that is there (`OwnerAfter`). A lookup that fails is
taken for one that finds nobody. A tick is a day.
`erased` is history: calls deleted by, or with, their owner.

### SignIn

One number. A request is handleSignupStart's, which makes the profile, or
handleAuthRequest's, which needs one. `Asks` passes the cooldown and the in-memory
budget, `Counts` the table's, `Mints` consumes the previous codes and inserts in one
transaction and has the text asked for. `Texted` is the provider's word that it has
the text; `Discards` is any other end, a refusal or no answer within the client's
15 s, whether or not the text arrives: the code on its way is deleted either way.
So a text that was delivered may carry a code that no longer works. A typed code is
read (`Types`), judged on what was read (`TooLate`, `Wrong`, `Right`) and burnt
(`Burns`) before `SignsIn`. `ForgetUser` deletes the codes with the profile, which
also resets the table's count, and not the budget's. A tick is the SMS client's
timeout; statements take less. `asked` is history: the texts this process asked the
provider for in the window. Left out: the per-client limiter and sessions after
sign-in.

### Signals

`IngestArrives`, `Selects`, `Registers` / `GoesUnregistered`, `Permits` or `Refuses`,
`IngestSignal`, `Answers` are one `/ingest` request, with RememberWebhook's SELECT and
INSERT apart. `Decides`, `ConsentInserts` and `ConsentUpdates` are SetConsent: the
time is taken, then two statements; `ConsentFails` ends it at either. `ForgetUser`
cascades. `Sweep` deletes what has outlived its kind's retention and may leave any
kinds, as a failing statement makes it. Ages are hours, chosen where the row that
carries them is inserted, and may be negative (a source's clock runs ahead); consent
times are stamps of a finer clock and two may tie. Reading (`Known`, from
LatestSignal) is one step. No hour passes while a request is in flight.

`closed` and `barred` are history. Decisions count in the order of their times: a
scope is closed once a revocation has been written that no grant was decided after
(`Settles`), with neither a grant of the scope nor a revocation that a grant has
overtaken still to be written. Without that last condition the statement is false,
see [7](#7-disagreements-found).

### CheckIns

| Model | Code |
|---|---|
| `clock` | periods: the even ones are hours a schedule can name, the odd ones what lies between |
| `last`, `onboarded`, `frequency` | the columns of `users` that DueNow reads |
| `PassBegins`, `SettledStatus` | Scheduler.tick: the clock and the users read once, then a person at a time by id, with a look for a refusal |
| `Asks` | `/trigger` (`"trigger"`), and the handlers that mark only what succeeded (`"now"`: handleCall, handleCheckinNow) |
| `Opens` | checkinOn: whether it reached the person, and whether the answer said so, are separate |
| `Stamps`, `MarkTriggered` | time.Now() for the mark, and the UPDATE that writes it whatever is there by then |
| `Introduced`, `SetFrequency`, `Settles`, `ForgetUser` | what changes who is due |
| `Passes` | the period ends; of the sixty passes of an hour, one has run to its end in it |
| `Crash` | the pass and every opening under way are gone, a mark not yet written included |

DueNow compares instants with the start of an hour and nothing finer, so that a
period stands for all instants in it. `opened` counts the scheduled openings of
the latest slot that reached a person, `unmarked` how often that slot's mark was
lost or taken back: `OncePerSlot` says that the first is at most one more than the
second. `owed` are the people due in all of this hour so far, nobody having marked,
refused, forgotten or rescheduled them in it, whom no pass has tried yet:
`SlotsServed` says that an hour ends with nobody owed.

### Texts

| Model | Code |
|---|---|
| `response[m]` | `webhook_events.response` of a MessageSid or an `idempotency_key`; `NoRow`, `Blank`, or the number of the turn that wrote it |
| `Arrives`, `KeySelected`, `KeyInserted`, `LookupFails` | handleSMS and toolSaveAnswer up to RememberWebhook, its SELECT and INSERT apart; an error lets the delivery through |
| `Ensures`, `SessionCreated` | EnsureSession: what is carried forward is read before the transaction that creates the session |
| `Interviews`, `AsksAgain`, `Saved`, `AnswerWritten`, `WriteFails`, `AsksNext` | interviewReply and toolSaveAnswer around RecordChecklistAnswer |
| `ModelAnswers`, `RunsTools` | the rounds of Brain.reply, with whatever the model asks for |
| `EnsureFails` | the session can be neither found nor made: a save is refused, a text goes on to the model |
| `ResponseStored` | StoreWebhookResponse and the answer |
| `Crash`, `Tick` | every turn under way is gone; hours pass |

A reply is the number of the turn that made it, so that two deliveries answered
alike have the same number. `blind` are messages with a delivery whose key could
not be looked up, which the code lets through on purpose. A delivery may also fail
before its key is looked up: at EnsureUser, or for a save at EnsureSession. It is
told so (`Sorry`: the fallback reply, an error status), whatever is kept of its
message; and a text whose profile cannot be read again after MarkPhoneVerified
panics and is told nothing. Merged: the handler's
first read of the current question and RecordChecklistAnswer's own; reading the
next question and marking it asked. Hours pass between turns only.

### Suggestions

| Model | Code |
|---|---|
| `Eligible`, `Score`, `MatchEvent` | scoreEvent and RankEvents, with the tables of `matching.go` as constants |
| `CandidateEvents`, `Asks`, `Picks`, `NoMatch`, `Offered`, `OfferFails` | SuggestEvent: the person's row, the candidates, the INSERT |
| `SaysYes`, `YesRetried`, `Opens`, `Accepts` | AcceptSuggestion: the newest on offer is looked up, then updated; a retry runs it again |
| `Seeds`, `Kept` | SeedEvents at the start of a process, with and without `-reseed` |
| `Learns`, `Forgets` | interests change; ForgetUser |

A text is the set of words in it, and one word's being part of another a constant
relation, so that the two-way Contains of optedIn and mentionsCity is kept.
`CandidateEvents` and MatchEvent are one step (the candidates are a local copy,
and the clock cannot bring an event back). Left out of them: the LIMIT of a thousand
rows, and the turning away of an event without a link, which the loader does before
(events.go:57,159). SeedEvents' count and its transaction
are one step too. `since` is history: the newest suggestion when the candidates
were read, by which `OfferedAfresh` tells an overlap from an event offered again.

### Lease and Inbox

`Lease` is what the call slot promises: a key is claimed for a term, by nobody else
until the term is over or the key let go of, whoever outstays the term has no claim
any more, and the key is *broken* once somebody lets go of it under its user.
`ImplementsLease` maps the users of a key to the calls in their term, the age of the
lease to the row's, and the broken keys to `abandoned`; timers, webhooks, syncs,
failures, expiry and restarts are then claims, ends, releases and breaks, the passing
of the term, or nothing at all.
`Inbox` is what the webhooks promise whoever delivers a message: it is worked off
once at most; before that begins a delivery is told nothing but that it failed
(`Apologises`), and after it that, the one reply, or an empty answer as long as the
reply is not kept. `ImplementsInbox` maps the work done
on a message to `turns`, the kept replies to the rows past `Blank`, what was told to
`answers`, and the exempt messages, those whose key could not be looked up, to
`blind`. It refuses what the two other properties of Texts let pass: a delivery that
is brushed off before its message has been begun.

## 4. The runs

Distinct states and times are those of two TLC workers.

| Run | Shows | States |
|---|---|---|
| `call_slot` | `OneCallPerPerson`, `ActiveCallShows`, `HangUpTargetsOwnCall`, `ImplementsLease`, `SlotReopens` with races, calls that outlast their claim or ring late, lost hang-ups, late transcripts, failing statements, restarts | 733,917, 2 min |
| `interview` | `OneQuestionAtATime`, `SignedUpOnlyOnYes` with two turns at a time, crashes and failing statements | 1,066,621, 80 s |
| `calendar` | `OneFetchPerUrl`, `NeverOlder`, `FeedsStayFetchable` with slow, silent and failing hosts and error pages | 651,642, 2 min |
| `transcripts` | `OwnedByTheNumber`, `OwnershipSticks`, `RetentionHolds` while the number changes hands and lookups fail | 63,567, 10 s |
| `sign_in` | `OneLiveCode`, `CodesLast`, `RateHolds` with texts refused or answered late, erasure, restarts, the sweep | 204,737, 10 s |
| `signals` | `OnePerKey`, `RevocationHolds`, `KnownUntilStale` with overlapping deliveries and decisions, failing statements, erasure, the sweep | 729,986, 50 s |
| `check_ins` | `OncePerSlot`, `SlotsServed` with handlers beside the scheduler, lost answers, failing marks, restarts | 1,908,950, 1 min |
| `texts` | `OneTurnPerMessage`, `RepliesReplayed`, `ImplementsInbox`, `EveryDeliveryAnswered` with overlapping deliveries, a failing statement anywhere, crashes | 348,157, 100 s |
| `suggestions` | `OfferedAfresh`, `NothingOrphaned`, `SignedUpOnYes`, `BestIsOffered` with overlapping requests and yeses, a reseed, erasure | 1,003,968, 100 s |
| `transcripts_erased`, `texts_evening`, `suggestions_retry` | one violated statement of a comment or document each, see [7](#7-disagreements-found) | until found |

Every property has a mutant of a modelled definition that breaks it under the
same configuration.

Bounds, and why they are enough:

- `call_slot`: one person, because no statement touches two people's rows; two
  requests, the fewest that race and the fewest for a release to come late.
  `CallMax` is one tick: what matters is that ages before, at and past it differ,
  and they do, a call that has outlasted its claim included. `SyncReach` is two, so that
  a routine pass can list a call whose slot has expired.
- `interview`: two workers, the fewest that interleave; more only add further
  pairs. Three of the five questions, one for each treatment the code gives (a
  profile column; asked anew each session; acted on by the scheduler). Two
  sessions are needed to carry forward. Four turns reach every action, an ended
  introduction included.
- `calendar`: two feeds and two fetch identities, so that nothing but the in-flight
  map prevents a second fetch of a feed; two callers to race for it; two versions, an
  older and a newer.
- `transcripts`: a second number, so that two profiles exist at once, and a third
  profile, so that the number can be forgotten and sign up again.
- `sign_in`: two requests that would overlap if the cooldown let them, one typed
  code between them, three codes: one discarded, one replaced, one live. The
  durations are shortened in their order (`SendLimit < Cooldown < Window`); two
  cooldowns still fit in a window.
- `signals`: two deliveries are one retry or two observations; two consent
  decisions overlap; two profiles let a person be forgotten and come back.
- `check_ins`: two people, the fewest of whom one can hold up the other; one handler
  beside the scheduler; two hours in a row that no two frequencies treat alike (a
  weekday evening and a weekend morning). One check-in on demand, one change to
  somebody's profile, and one lost mark per person and slot: a second of any of
  them repeats the first. Two handlers that take back each other's marks do not meet
  here; the theorems of [6](#6-the-proofs) cover them.
- `texts`: two handlers and three deliveries of two texts and a save, so that a
  message can come twice, the second time while another delivery is under way; one
  failing statement; two rounds of tools, the fewest where the last differs from
  the first; a lifetime of 0 in two hours, so that an answer can be fresh and stale.
  `texts_evening` has four texts and no failure.
- `suggestions`: one person, since no statement but the reseed concerns two, and
  that one asks only whether *anybody* was offered an event; two offers and two
  seeds, the fewest that overlap; two yeses, which may overlap too, and one retry. The titles and words
  have an event for each reason to turn one away or to prefer it.

Symmetry is used only for workers, requests, codes, deliveries and keys, which no
definition tells apart, and only in runs without a liveness property. Deadlock is
checked except in the runs of CallSlot, where every request ends, and of Interview,
Texts and Suggestions, where the turns, deliveries and offers run out.

## 5. Fairness

Weak fairness only, of what a running process and its peers do by themselves.

- CallSlot: time passes, a placement is answered or times out (the HTTP client has a
  timeout), the goroutine that has an answer records it, an armed timer runs. Nothing
  is assumed of phones being answered, of either party or the provider ending a call,
  of webhooks being delivered or filed, of syncs or releases succeeding or of the
  process staying up: `SlotReopens` rests on the age of the claim.
- CalendarCache: a fetch that runs gets an answer, fails or times out. No caller
  is fair.
- Transcripts: the hourly purge and a filing that has begun.
- Texts: each handler's steps. A handler that has begun goes on: every statement
  and every call of the model returns, at the latest with an error when its 40
  seconds are up. Nothing is assumed of deliveries or retries.
- Interview, SignIn, Signals, CheckIns, Suggestions: none. Their properties are
  safety. That the scheduler gets through one pass an hour is a guard of `Passes`
  (its ticker runs every minute and its clients time out), from which `SlotsServed`
  follows as an action property.

## 6. The proofs

Each theorem holds for every value of the constants that satisfies the module's
ASSUME (`CallSlotAssumption`, `CalendarAssumption`, `TranscriptsAssumption`,
`SignInAssumption`, `SignalsAssumption`, `InterviewAssumption`, `TextsAssumption`,
`SuggestionsAssumption`, `CheckInsAssumption`), any number of people, calls, requests or deliveries
included. TLC evaluates each assumption in the runs above.

| Module | Theorems | Inductive invariant, and why it is needed |
|---|---|---|
| CallSlot_proofs | `TypeCorrect`; `SlotIsALock` (`OneCallPerPerson`); `ActiveCallsShow`; `BackstopHitsItsOwnCall` (`HangUpTargetsOwnCall`); `SlotIsALease` (`ImplementsLease`) | `LockInv`: until its slot is released, a call in its term is exactly as old as its claim, and so too young to be claimed over. One call per person alone is not inductive: it does not say why the conditional UPDATE must fail. `BackstopInv`: what a timer may have captured |
| Background_proofs, the calendar | `TypeCorrect`; `FetchesAreShared`; `CacheNeverGoesBack` (`NeverOlder`, an action property) | `CacheInv`: what was shown before a fetch is under way is no newer than what it will bring, unless that is an error page |
| Background_proofs, check-ins | `CITypeCorrect`; `OneOpeningPerSlot` (`OncePerSlot`); `EveryoneDueIsTried` (`SlotsServed`, an action property) | `SlotInv`: a pass is of the latest slot, a mark about to be made covers that slot, and whoever may still be opened has heard no more than was unmarked. `OwedInv`: whoever is owed a try is due, willing and still ahead of the pass |
| Transcripts_proofs | `TypeCorrect`; `OwnersHoldTheNumber`; `OwnersStay` (an action property) | `CustodyInv`: what a half-way filing has read is its own number's profile or a profile that is gone, and ids do not come back |
| SignIn_proofs | `TypeCorrect`; `OnlyTheLatestWorks`; `FailuresTakeOnlyTheirOwn` (`CodesLast`, an action property); `RateIsKept` (`RateHolds`) | `TurnsInv`: a text is given up before its cooldown is over, so requests take turns. Without `SendLimit < Cooldown` the third theorem is false. `BudgetInv`: every text asked for has its hit in the budget. `RateInv`: all codes of a window count, and whoever is about to mint finds room, no other minting in between |
| Signals_proofs | `TypeCorrect`; `RetriesStoreOnce`; `RevocationsHold`; `ReadingsLast` (`KnownUntilStale`, an action property) | `RetryInv`: a registered key outlives no profile and is outlived by none it was registered for. `ConsentInv`: a closed scope is inactive and nothing still to be written about it opens it. `StoredInv`: a row is there because its request stored it, so that no later step writes it again |
| Interview_proofs | `TypeCorrect`; `QuestionsInOrder` (`OneQuestionAtATime`); `SignUpsFollowYeses` (`SignedUpOnlyOnYes`) | `InSession`: a turn past looking for its session has one. Type correctness needs it, since a turn's session is an index. `SignUpInv`: each yes is an event accepted, a turn still acting on it, or came to nothing |
| Texts_proofs | `TypeCorrect`; `MessagesTakeOneTurn` (`OneTurnPerMessage`); `KeptRepliesReplayed` (`RepliesReplayed`, an action property); `TextsAreAnInbox` (`ImplementsInbox`) | `KeyInv`: of a message whose lookups all succeeded, a turn was taken at most once and only with its key registered, and what is kept is that turn's reply. `BegunInv`: a row, and a handler past its lookup, speak of a turn that has begun |
| Suggestions_proofs | `TypeCorrect`; `OffersAreAfresh` (`OfferedAfresh`); `NoSuggestionIsOrphaned` (`NothingOrphaned`); `SignUpsFollowYeses` (`SignedUpOnYes`); `TheBestIsOffered` (`BestIsOffered`, an action property) | `AfreshInv`: whoever is about to offer an event that was offered already read the candidates before that. `SignUpInv`: as in Interview, an id naming one row |

The two refinements are proved step by step: the initial states map to the abstract
initial state, and under the inductive invariant each action maps to one abstract
action or to a stutter. `SlotIsALease` needs `LockInv` to know that a claim the
UPDATE lets through finds no user; `TextsAreAnInbox` needs `KeyInv` to know that the
reply of a turn is the one that is kept.

Every invariant proof has the same layout: the initial states, then one step per
action, the disjuncts of Next that leave the relevant variables alone together,
then a QED by PTL from the two and from the type theorem.

The properties that count rest on an invariant that pairs what is counted with who
may still add to it, in two cardinalities (`SignUpInv`) or one and a guard
(`RateInv`), so that each step adds to or removes from a finite set one element at
most. `TheBestIsOffered` rests on lemmas about the score, a sum of quotients of
cardinalities: `HitsFinite`, `DivMonotone`, `ScoreOrder`. They need each profile's
interests to be finite, which a stored list is.

Proving changed one property. `SlotsServed` first said that whoever was due all
through an hour is marked in it or later; it is false with two handlers, one of which
writes the mark of an earlier period over the one the hour's pass has made
(`MarkTriggered` writes whatever instant it was given). What the code keeps is that
everybody due is *tried*, which is what `owed` now records.

`RevocationsHold` is about a revocation that no grant was decided after, once nothing
of the scope is left to write that was decided before such a grant or is one. That
condition is part of the code's behaviour, not a convenience: without it the
statement is false, as [7](#7-disagreements-found) describes. In the same way
`SlotIsALock` stops at `callMaxDuration`, since the code does.

Every safety property and every refinement that a passing run checks is proved.
Only model-checked are the four liveness properties (`SlotReopens`,
`FeedsStayFetchable`, `RetentionHolds`, `EveryDeliveryAnswered`), which need ENABLED
and so are out of the prover's reach. Nothing here is proved by induction over data.

## 7. Disagreements found

Where the code does something else than a comment, a message or a document says.
Three are runs that check one statement and end in a counterexample.

| Run | Statement | What the code does |
|---|---|---|
| `transcripts_erased` | /forget erases call transcripts, and a person can delete one (docs/DATA-AND-CONSENT.md:85-93) | The provider still lists the call, and the next pass or boot files it again |
| `texts_evening` | "last week's yes proves nothing and the question comes back" (checklist.go:78-79) | The lifetime of an answer is looked at when a session is created, and a check-in session is never closed: the question is never put again |
| `suggestions_retry` | an event "is only acted on after an explicit yes" (README.md:103-104) | accept_suggestion has no idempotency key: a yes delivered again accepts the next open suggestion |

Reading the code for the models showed more, which no run states as a property:

- A call that lasts longer than `callMaxDuration` is no longer believed in: the
  button is live over it and its person is rung again, where server.go:500-502 says
  that nobody is rung twice. db.go:31-35 assumes that calls are shorter, and nothing
  makes them (call_state_test.go:75-76: "nothing in the service ends a call on a
  timer").
- A request for a call that times out releases the slot as one that "never happened"
  (server.go:525), although the provider may have rung the phone, or ring it yet. An
  answer with a good status is taken for a call whatever it says (voice.go:199-225).
- Filing a finished call a second time, or late, clears the slot of the call that is
  up, where transcripts.go:438-441 says "Replays are harmless: clearing an
  already-clear slot is a no-op" (CallSlot, `StoreConversation`; the lease is broken
  then).
- A host that answers with an error page has its calendar replaced by one without
  events, which is served as fresh until it expires: the fetch looks at no status
  (ics.go:268-279; CalendarCache, `HostAnswers`).
- A retry of a text whose turn is still running, or died, is answered with an empty
  text, where server.go:349-350 and docs/DATA-AND-CONSENT.md:186-188 promise the
  same answer; the retry of a save that was refused is told
  `{"ok":true,"replayed":true}` (ingest.go:171), its key being registered before
  the save is judged. The same holds of `/ingest`, whose observation is then lost.
- A retry may also be answered before its key is looked up, with the fallback reply
  (server.go:337-341) or an error (ingest.go:100-116), although its reply is kept; and
  where the profile cannot be read again after MarkPhoneVerified (server.go:346), `u`
  is nil and the handler panics.
- Two overlapping texts may both be recorded as the answer to one question
  (checklist.go:344 reads before the transaction), and an answer carried forward
  is stamped with the time of the new session, which starts its lifetime again.
- A revocation delayed between taking its time and its UPDATE (signals.go:121) puts
  an earlier `revoked_at` in place of a later one, and an earlier grant so delayed
  clears it (signals.go:117): either way the scope is open after the later revocation
  was answered, where docs/DATA-AND-CONSENT.md:81 says "Revocation is immediate". A
  revocation that a later grant has overtaken likewise leaves the scope open, though
  its UPDATE runs last. And an observation permitted before a revocation is stored
  after it (signals.go:188), unread while the scope is closed.
- After a provider outage the table hands a number its codes back, the in-memory
  budget (auth_http.go:189) does not, where auth.go:150-153 says that an outage
  "does not lock somebody out of their own account". A text whose answer comes too
  late is one of "a code that was minted but never reached anybody" (auth.go:150) to
  it, so that a code somebody has in hand stops working; and neither budget nor table
  remembers that text after a restart, so that a number may then get more than its
  rate.
- A person who skips the consent question is told "No problem, I won't check in on
  a schedule." (brain.go:216), and is checked in with: a skip is no refusal to the
  scheduler (scheduler.go:47), nor is a failed read of the answer.
- save_onboarding writes a row back that it read earlier (db.go:260): a name
  recorded in between is lost, and the introduction is over without one.
- A failed read of the next question is taken for a finished checklist
  (brain.go:265), and the introduction ends with questions left.
- A check-in is marked after it was sent (server.go:459), and a handler's mark is
  written whatever is there by then (account.go:39): a slot whose mark is lost or
  taken back opens again.
- Two overlapping requests may offer one event twice (brain.go:516), and a yes accepts
  the newest event on offer, which need not be the one the question named
  (brain.go:307).
- optedIn compares both ways, so that "tech" opts into "black in tech", where
  README.md:122-124 offers such events only "to people who said they are in that
  audience"; and README.md:103 suggests only "from explicitly stated interests",
  where scoreEvent makes a general pick for whoever stated none.
- A fresh export with as many rows as the table is skipped (db.go:524), where the
  comment above it says that new rows are picked up; and a row that is there is
  never corrected, the INSERT ignoring it.
- docs/DATA-AND-CONSENT.md:169-171 says that a delivery that matches nobody is
  dropped, where the code keeps it unowned; its line 89 has the sweeper delete by
  `expires_at`, where the code deletes by each kind's retention of `observed_at`.

## 8. What is not modelled

- What the model says and which tools it calls: an external service decides it.
  The tools that suggest and accept are in Suggestions; save_checkin only appends.
- Caller context, web pages, configuration, metrics: rendering and I/O, with no
  state that two steps could disagree on.
- Telephony and voice clients, schema and migrations: what their answers and
  constraints mean is part of the models that rely on them.
- Of modelled components: sessions after sign-in and the per-client limiter; how an
  export is fetched and parsed.
- Contents: what is said, parsed or rendered. A calendar is a version, an answer
  the kind of reply it is, a transcript its call.

## 9. Plan

Done, in order of what the system stands on: the call slot, the interview, the
calendar cache, transcripts, sign-in, signals and consent, check-ins, texts and
their deliveries, matching and suggestions; two abstract specifications; proofs of
every safety property of all nine. Next:

1. Sign-in sessions: starting, verifying the number, revoking, and `/forget` while
   a request is under way.
2. Composition of CheckIns with Interview, so that what a skip of the consent
   question leaves is what the scheduler reads.
3. Abstract specifications of what sign-in promises (a code that is good once, for
   its lifetime) and of a scope's consent, with their refinements.
