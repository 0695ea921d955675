------------------------------ MODULE Signals ------------------------------
(***************************************************************************)
(* Observations about one person, what they have agreed to share, and for  *)
(* how long each is believed and kept.                                     *)
(*                                                                         *)
(* A source posts observations to /ingest and retries what it thinks was   *)
(* lost, under an idempotency key. Each delivery looks the profile up,     *)
(* registers its key, checks consent and only then inserts; scopes are     *)
(* granted and revoked, and the person forgotten, between those steps. An  *)
(* hourly sweep deletes what has outlived its kind's retention.            *)
(*                                                                         *)
(* A profile id is never reused, so ids are counted; 0 is "nobody". Times  *)
(* of consent decisions are stamps of a clock of their own (0 is NULL),    *)
(* far finer than the hours that age observations.                         *)
(***************************************************************************)
EXTENDS Integers, FiniteSets

CONSTANTS
    Kinds,        \* signal kinds, each a consent scope
    TTL,          \* signalTTL: hours an observation of a kind stays usable
    Keep,         \* signalRetention: hours it is stored
    Ahead,        \* bound: hours a source's clock may run ahead
    Oldest,       \* bound: ages are told apart up to here
    Keys,         \* observations, each posted under its idempotency key
    KindOf,       \* the kind of the observation
    Deliveries,   \* bound: requests to /ingest, retries included
    MaxProfiles,  \* bound: profiles ever created
    MaxStamp,     \* bound: distinct times of consent decisions
    MaxSettings   \* bound: consent decisions under way at once

ASSUME SignalsAssumption ==
    /\ TTL \in [Kinds -> Nat] /\ Keep \in [Kinds -> Nat]
    /\ Ahead \in Nat /\ Oldest \in Nat
    /\ \A k \in Kinds : TTL[k] <= Keep[k] /\ Keep[k] < Oldest
    /\ KindOf \in [Keys -> Kinds]
    /\ MaxProfiles \in Nat /\ MaxStamp \in Nat
    /\ MaxSettings \in Nat

Nobody == 0
Profiles == 1..MaxProfiles
Stamps == 1..MaxStamp
Ages == (0 - Ahead)..Oldest

VARIABLES
    profile,    \* the id of the person's row in users, or Nobody
    created,    \* profiles created so far
    clock,      \* the last stamp given to a consent decision
    consent,    \* per scope: its row in consents
    setting,    \* SetConsents still to run one or both of their statements
    KeyOf,      \* per request: the observation it carries
    step,       \* per request: where its handler is
    who,        \* per request: the profile it looked up
    registered, \* requests that were the first under their key
    events,     \* keys with a row in webhook_events
    signals,    \* rows of signals, each named by the request that inserted it
    age,        \* per row of signals: hours since its observed_at
    closed,     \* history: scopes never granted, or settled as revoked (below)
    barred      \* history: requests that came while their scope was closed,
                \* and it has been closed since

people == <<profile, created>>
scopes == <<clock, consent, setting>>
ScopeOf(d) == KindOf[KeyOf[d]]

handlers == <<KeyOf, step, who, registered, events>>
rows == <<signals, age>>
history == <<closed, barred>>
vars == <<people, scopes, handlers, rows, history>>

Steps == {"idle", "selects", "registers", "checks", "permitted", "stored",
          "answered"}
Done == {"idle", "stored", "answered"}
Row == [granted : {0} \cup Stamps, revoked : {0} \cup Stamps]
NoRow == [granted |-> 0, revoked |-> 0]
Setting == [who : Profiles, scope : Kinds, granted : BOOLEAN, stamp : Stamps,
            inserted : BOOLEAN, overtaken : BOOLEAN]

TypeOK ==
    /\ profile \in {Nobody} \cup Profiles
    /\ created \in 0..MaxProfiles
    /\ clock \in 0..MaxStamp
    /\ consent \in [Kinds -> Row]
    /\ setting \in SUBSET Setting
    /\ KeyOf \in [Deliveries -> Keys]
    /\ age \in [Deliveries -> Ages]
    /\ step \in [Deliveries -> Steps]
    /\ who \in [Deliveries -> {Nobody} \cup Profiles]
    /\ registered \in SUBSET Deliveries
    /\ events \in SUBSET Keys
    /\ signals \in SUBSET Deliveries
    /\ closed \in SUBSET Kinds
    /\ barred \in SUBSET Deliveries
    \* The foreign keys: every row belongs to a profile.
    /\ profile = Nobody => /\ signals = {} /\ events = {}
                           /\ consent = [k \in Kinds |-> NoRow]

Init ==
    /\ profile = Nobody /\ created = 0
    /\ clock = 0
    /\ consent = [k \in Kinds |-> NoRow]
    /\ setting = {}
    /\ KeyOf \in [Deliveries -> Keys]
    /\ age = [d \in Deliveries |-> 0]
    /\ step = [d \in Deliveries |-> "idle"]
    /\ who = [d \in Deliveries |-> Nobody]
    /\ registered = {} /\ events = {} /\ signals = {}
    /\ closed = Kinds /\ barred = {}

\* As if foreign keys were not enforced.
ExistsUnchecked(p) == TRUE

\* Every table but users has user_id as a foreign key.
Exists(p) == p # Nobody /\ p = profile

----------------------------------------------------------------------------
(* Profiles.                                                               *)

\* EnsureUser, CreateUser.
SignUp ==
    /\ profile = Nobody
    /\ created < MaxProfiles
    /\ created' = created + 1
    /\ profile' = created + 1
    /\ UNCHANGED <<scopes, handlers, rows, history>>

\* ForgetUser, one transaction: signals, consents, webhook events, the profile.
ForgetUser ==
    /\ profile # Nobody
    /\ profile' = Nobody
    /\ consent' = [k \in Kinds |-> NoRow]
    /\ signals' = {} /\ events' = {}
    /\ age' = [d \in Deliveries |-> 0]
    /\ closed' = Kinds
    /\ UNCHANGED <<created, clock, setting, KeyOf, step, who, registered, barred>>

----------------------------------------------------------------------------
(* Consent: handleConsent looks the profile up, SetConsent takes the time  *)
(* and runs two statements, an insert that yields to an existing row and   *)
(* then the update.                                                        *)

\* As if a grant and a revocation of the same instant left the scope open.
ActiveOnTie(row) ==
    row.granted # 0 /\ (row.revoked = 0 \/ row.revoked <= row.granted)

\* Consent.Active
Active(row) ==
    row.granted # 0 /\ (row.revoked = 0 \/ row.revoked < row.granted)

Underway(k, p) == {s \in setting : s.scope = k /\ s.who = p}

\* A decision is made when SetConsent is given the time, which is no earlier
\* than the last decision's. A grant opens its scope and overtakes, as the later
\* of the two, every revocation of it whose statements are still to run.
Decides(k, grant) ==
    \E t \in {clock, clock + 1} \cap Stamps :
       /\ profile # Nobody
       /\ Cardinality(setting) < MaxSettings
       /\ clock' = t
       /\ setting' = {IF grant /\ ~s.granted /\ s.scope = k
                        THEN [s EXCEPT !.overtaken = TRUE]
                        ELSE s : s \in setting}
                     \cup {[who |-> profile, scope |-> k, granted |-> grant,
                            stamp |-> t, inserted |-> FALSE, overtaken |-> FALSE]}
       /\ IF grant
          THEN /\ closed' = closed \ {k}
               /\ barred' = {d \in barred : ScopeOf(d) # k}
          ELSE UNCHANGED history
       /\ UNCHANGED <<people, consent, handlers, rows>>

\* insertIgnoreSQL: only where the scope has no row; without a profile the
\* foreign key fails and SetConsent returns.
ConsentInserts(s) ==
    /\ s \in setting /\ ~s.inserted
    /\ IF Exists(s.who)
       THEN /\ setting' = (setting \ {s}) \cup {[s EXCEPT !.inserted = TRUE]}
            /\ consent' = [consent EXCEPT ![s.scope] =
                 IF @ # NoRow THEN @
                 ELSE IF s.granted THEN [NoRow EXCEPT !.granted = s.stamp]
                                   ELSE [NoRow EXCEPT !.revoked = s.stamp]]
       ELSE /\ setting' = setting \ {s}
            /\ UNCHANGED consent
    /\ UNCHANGED <<people, clock, handlers, rows, history>>

\* A revocation is written that no grant was decided after, with no grant of the
\* scope, nor a revocation that a grant has overtaken, still to be written.
Settles(s) ==
    /\ ~s.granted /\ ~s.overtaken /\ Exists(s.who)
    /\ \A o \in Underway(s.scope, s.who) : ~o.granted /\ ~o.overtaken

\* A grant clears revoked_at; a revocation leaves granted_at as it was, even
\* one later than the revocation's own time. When the profile has gone there is
\* no row to update.
ConsentUpdates(s) ==
    /\ s \in setting /\ s.inserted
    /\ setting' = setting \ {s}
    /\ consent' = IF ~Exists(s.who) THEN consent
                  ELSE [consent EXCEPT ![s.scope] =
                          IF s.granted THEN [granted |-> s.stamp, revoked |-> 0]
                                       ELSE [@ EXCEPT !.revoked = s.stamp]]
    /\ closed' = IF Settles(s) THEN closed \cup {s.scope} ELSE closed
    /\ UNCHANGED <<people, clock, handlers, rows, barred>>

\* Either statement fails, and SetConsent returns the error.
ConsentFails(s) ==
    /\ setting' = setting \ {s}
    /\ UNCHANGED <<people, clock, consent, handlers, rows, history>>

----------------------------------------------------------------------------
(* Ingestion.                                                              *)

Moves(d, from, to) == step[d] = from /\ step' = [step EXCEPT ![d] = to]

\* handleIngest, up to the idempotency key: a number nobody has is turned away.
IngestArrives(d) ==
    /\ profile # Nobody
    /\ Moves(d, "idle", "selects")
    /\ who' = [who EXCEPT ![d] = profile]
    /\ barred' = IF ScopeOf(d) \in closed THEN barred \cup {d} ELSE barred
    /\ UNCHANGED <<people, scopes, KeyOf, registered, events, rows, closed>>

\* The request ends without storing anything: replayed, refused or lost.
Answers(d) ==
    /\ step' = [step EXCEPT ![d] = "answered"]
    /\ who' = [who EXCEPT ![d] = Nobody]
    /\ registered' = registered \ {d}
    /\ barred' = barred \ {d}

\* RememberWebhook looks for the key first: a repeat is answered at once.
Selects(d) ==
    /\ step[d] = "selects"
    /\ IF KeyOf[d] \in events
       THEN Answers(d)
       ELSE Moves(d, "selects", "registers") /\ UNCHANGED <<who, registered, barred>>
    /\ UNCHANGED <<people, scopes, KeyOf, events, rows, closed>>

\* As if the number of rows inserted were not looked at.
RegistersBlind(d) ==
    /\ Exists(who[d])
    /\ Moves(d, "registers", "checks")
    /\ registered' = registered \cup {d}
    /\ events' = events \cup {KeyOf[d]}
    /\ UNCHANGED <<people, scopes, KeyOf, who, rows, history>>

\* The insert yields to a concurrent duplicate, which makes this the repeat.
Registers(d) ==
    /\ step[d] = "registers" /\ Exists(who[d])
    /\ IF KeyOf[d] \in events
       THEN Answers(d) /\ UNCHANGED events
       ELSE /\ Moves(d, "registers", "checks")
            /\ registered' = registered \cup {d}
            /\ events' = events \cup {KeyOf[d]}
            /\ UNCHANGED <<who, barred>>
    /\ UNCHANGED <<people, scopes, KeyOf, rows, closed>>

\* A request without a key, or one whose key the store failed to look up or to
\* write, is handled all the same.
GoesUnregistered(d) ==
    /\ \/ Moves(d, "selects", "checks")
       \/ Moves(d, "registers", "checks")
    /\ UNCHANGED <<people, scopes, KeyOf, who, registered, events, rows, history>>

\* IngestSignal, first half: HasConsent, then what else the value needs.
Permits(d) ==
    /\ Exists(who[d]) /\ Active(consent[ScopeOf(d)])
    /\ Moves(d, "checks", "permitted")
    /\ UNCHANGED <<people, scopes, KeyOf, who, registered, events, rows, history>>

\* Without consent, with a field missing, or when the store fails.
Refuses(d) ==
    /\ step[d] \in {"checks", "permitted"}
    /\ Answers(d)
    /\ UNCHANGED <<people, scopes, KeyOf, events, rows, closed>>

\* IngestSignal, second half: the row, unless its profile has gone. Whatever
\* observed_at it was sent with is first made use of here.
IngestSignal(d) ==
    /\ Exists(who[d])
    /\ Moves(d, "permitted", "stored")
    /\ signals' = signals \cup {d}
    /\ \E a \in Ages : age' = [age EXCEPT ![d] = a]
    /\ UNCHANGED <<people, scopes, KeyOf, who, registered, events, history>>

\* The process dies: handlers and half-run SetConsents go, rows stay.
Restart ==
    LET lost == {d \in Deliveries : step[d] \notin Done}
    IN  /\ setting' = {}
        /\ step' = [d \in Deliveries |-> IF d \in lost THEN "answered" ELSE step[d]]
        /\ who' = [d \in Deliveries |-> IF d \in lost THEN Nobody ELSE who[d]]
        /\ registered' = registered \ lost
        /\ barred' = barred \ lost
        /\ UNCHANGED <<people, clock, consent, KeyOf, events, rows, closed>>

----------------------------------------------------------------------------
(* Reading, and growing old.                                               *)

OfKind(k) == {d \in signals : ScopeOf(d) = k}

\* Signal.Fresh: expires_at is observed_at and the kind's TTL.
Fresh(d) == age[d] < TTL[ScopeOf(d)]

\* As if the first observation were read.
LatestFirst(k) == {d \in OfKind(k) : \A e \in OfKind(k) : age[d] >= age[e]}

\* ORDER BY observed_at DESC LIMIT 1, or one of those observed together.
Latest(k) == {d \in OfKind(k) : \A e \in OfKind(k) : age[d] <= age[e]}

\* LatestSignal: what everybody else is told is known, not unknown.
Known(k) ==
    /\ profile # Nobody /\ Active(consent[k])
    /\ \E d \in Latest(k) : Fresh(d)

\* PurgeExpiredSignals, of one kind.
Outdated(k) == {d \in OfKind(k) : age[d] > Keep[k]}

\* PurgeExpiredSignals goes through the kinds in no fixed order and stops at the
\* first statement that fails, so that any of them may be left for the next pass.
Sweep ==
    \E done \in SUBSET {k \in Kinds : Outdated(k) # {}} :
       /\ signals' = signals \ UNION {Outdated(k) : k \in done}
       /\ age' = [d \in Deliveries |-> IF d \in signals' THEN age[d] ELSE 0]
       /\ UNCHANGED <<people, scopes, handlers, history>>

\* An hour passes, in which every request begun has ended.
Tick ==
    /\ setting = {} /\ \A d \in Deliveries : step[d] \in Done
    /\ age' = [d \in Deliveries |->
                 IF d \in signals /\ age[d] < Oldest THEN age[d] + 1 ELSE age[d]]
    /\ UNCHANGED <<people, scopes, handlers, signals, history>>

----------------------------------------------------------------------------
Handles(d) ==
    \/ IngestArrives(d) \/ Selects(d) \/ Registers(d) \/ GoesUnregistered(d)
    \/ Permits(d) \/ Refuses(d) \/ IngestSignal(d)

Next ==
    \/ SignUp \/ ForgetUser
    \/ \E k \in Kinds, grant \in BOOLEAN : Decides(k, grant)
    \/ \E s \in setting : ConsentInserts(s) \/ ConsentUpdates(s) \/ ConsentFails(s)
    \/ \E d \in Deliveries : Handles(d)
    \/ Sweep
    \/ Tick
    \/ Restart

Spec == Init /\ [][Next]_vars

----------------------------------------------------------------------------
(* Properties.                                                             *)

\* "a retried save must not write a second check-in": however a source's
\* retries overlap, one of the requests registered under a key, at most, has
\* its observation stored for the same person.
OnePerKey ==
    \A d, e \in registered :
       /\ step[d] = "stored" /\ step[e] = "stored"
       /\ KeyOf[d] = KeyOf[e] /\ who[d] = who[e]
       => d = e

\* Why it holds: a registered key stays in webhook_events for as long as the
\* profile it was registered for.
RetryInv ==
    /\ profile <= created
    /\ \A d \in Deliveries : who[d] <= created
    /\ \A d \in registered : /\ step[d] \in {"checks", "permitted", "stored"}
                             /\ who[d] # Nobody
                             /\ who[d] = profile => KeyOf[d] \in events
    /\ \A d, e \in registered : KeyOf[d] = KeyOf[e] /\ who[d] = who[e] => d = e

\* "Revocation is immediate": decisions count in the order of their times. A
\* request that comes in before its scope was ever granted, or once a revocation
\* of it has been written that no grant was decided after, stores nothing unless
\* a grant is decided meanwhile. It is promised only where nothing of the scope
\* is still to be written but revocations later than every grant: an earlier
\* grant, or a revocation that a grant has overtaken, that is written after the
\* last revocation leaves the scope open.
RevocationHolds == \A d \in barred : step[d] # "stored"

\* Why it holds: a revocation no grant has overtaken is at least as late as
\* anything granted, so a closed scope is inactive and what is still to be
\* written about it keeps it so.
ConsentInv ==
    /\ profile <= created
    /\ \A s \in setting : s.stamp <= clock /\ s.who <= created
    /\ \A k \in Kinds : consent[k].granted <= clock
    /\ \A s \in setting : ~s.granted /\ ~s.overtaken /\ s.who = profile =>
          /\ consent[s.scope].granted <= s.stamp
          /\ \A g \in setting : g.granted /\ g.scope = s.scope => g.stamp <= s.stamp
    /\ \A k \in closed :
          /\ ~Active(consent[k])
          /\ \A s \in Underway(k, profile) :
                ~s.granted /\ consent[k].granted <= s.stamp
    /\ \A d \in barred : /\ ScopeOf(d) \in closed
                         /\ step[d] \in {"selects", "registers", "checks"}

\* A reading that is known becomes unknown only because it is revoked, erased
\* or out of date: no late, older or misdated observation hides it and the
\* sweep never takes it.
KnownUntilStale ==
    [][\A k \in Kinds : Known(k) /\ ~Known(k)' =>
          \/ profile' # profile \/ ~Active(consent'[k])
          \/ OfKind(k) = OfKind(k)' /\ \A d \in OfKind(k) : ~Fresh(d)']_vars
=============================================================================
