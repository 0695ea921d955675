------------------------------- MODULE SignIn -------------------------------
(***************************************************************************)
(* One number's sign-in codes: asked for, texted, typed.                   *)
(*                                                                         *)
(* A request passes two in-memory limiters, counts the codes of the last   *)
(* window in login_codes, mints one that replaces its predecessors and     *)
(* texts it; a text whose sending is not confirmed, arrived or not, takes  *)
(* back every code still unconsumed. A typed code is read, judged and only *)
(* then burnt. Requests, typed codes, erasure, restarts and the sweep      *)
(* interleave; the limiters are lost in a restart, the table is not.       *)
(*                                                                         *)
(* A request is handleSignupStart's, which ensures a profile, or           *)
(* handleAuthRequest's, which needs one. Time passes in ticks of           *)
(* SendLimit's unit; the statements of a handler take less than a tick.    *)
(***************************************************************************)
EXTENDS Naturals, FiniteSets

CONSTANTS
    Requests,   \* bound: requests for a code under way at once
    Typists,    \* bound: typed codes being judged at once
    Codes,      \* bound: rows of login_codes at once
    SendLimit,  \* the SMS client's timeout
    Cooldown,   \* loginCodeCooldown
    TTL,        \* loginCodeTTL
    Window,     \* loginCodeWindow
    Rate,       \* loginCodeRate
    Attempts    \* loginCodeAttempts

ASSUME SignInAssumption ==
    /\ SendLimit \in Nat \ {0} /\ Cooldown \in Nat
    /\ SendLimit < Cooldown
    /\ Cooldown < Window
    /\ TTL \in Nat /\ Window \in Nat
    /\ Rate \in Nat \ {0} /\ Attempts \in Nat \ {0}

VARIABLES
    profile,  \* users has a row for the number
    code,     \* rows of login_codes
    cool,     \* ticks since codeCooldown was hit, up to Cooldown
    budget,   \* ages of codeBudget's hits (a cooldown apart, so all different)
    request,  \* handlers of requests: where they are, and their code
    typist,   \* handlers of typed codes: what they read and concluded
    verified, \* phone_verified_at is set
    asked     \* history: ages of the texts this process asked the provider for

vars == <<profile, code, cool, budget, request, typist, verified, asked>>

AgeCap == TTL + Window + 1

Rows == [state : {"live", "consumed"}, age : 0..AgeCap, tries : Nat]
NoRow == [state |-> "none", age |-> 0, tries |-> 0]

Idle == [pc |-> "idle"]
RequestState ==
    {Idle} \cup [pc : {"counts", "mints"}, waited : {0}]
           \cup [pc : {"sends"}, code : Codes, waited : 0..SendLimit]
TypistState ==
    {Idle, [pc |-> "signsIn"]}
        \cup [pc : {"judges"}, code : Codes, right : BOOLEAN, expired : BOOLEAN, tries : Nat]
        \cup [pc : {"burns"}, code : Codes]

TypeOK ==
    /\ profile \in BOOLEAN
    /\ code \in [Codes -> {NoRow} \cup Rows]
    /\ cool \in 0..Cooldown
    /\ budget \in SUBSET (0..(Window - 1))
    /\ request \in [Requests -> RequestState]
    /\ typist \in [Typists -> TypistState]
    /\ verified \in BOOLEAN
    /\ asked \in SUBSET (0..(Window - 1))

Init ==
    /\ profile = FALSE
    /\ code = [c \in Codes |-> NoRow]
    /\ cool = Cooldown
    /\ budget = {}
    /\ request = [r \in Requests |-> Idle]
    /\ typist = [t \in Typists |-> Idle]
    /\ verified = FALSE
    /\ asked = {}

----------------------------------------------------------------------------
(* Asking for a code.                                                      *)

Live == {c \in Codes : code[c].state = "live"}
Recent == {c \in Codes : code[c] # NoRow /\ code[c].age < Window}

CooldownOver == cool = Cooldown

\* handleSignupStart makes the profile that handleAuthRequest must find; either
\* is turned away when a statement fails.
LooksUp(r) ==
    \/ /\ profile' = TRUE
       /\ request' = [request EXCEPT ![r] = [pc |-> "counts", waited |-> 0]]
    \/ UNCHANGED <<profile, request>>

\* As if a request did not start the cooldown.
AsksUncooled(r) ==
    /\ request[r] = Idle
    /\ \E c \in Codes : code[c] = NoRow
    /\ CooldownOver
    /\ Cardinality(budget) < Rate
    /\ budget' = budget \cup {0}
    /\ LooksUp(r)
    /\ UNCHANGED <<code, cool, typist, verified, asked>>

\* throttleCode lets a request through; the hit counts whatever comes of it.
Asks(r) ==
    /\ request[r] = Idle
    /\ \E c \in Codes : code[c] = NoRow
    /\ CooldownOver
    /\ Cardinality(budget) < Rate
    /\ cool' = 0
    /\ budget' = budget \cup {0}
    /\ LooksUp(r)
    /\ UNCHANGED <<code, typist, verified, asked>>

\* The budget refuses a request the cooldown let through, and has hit.
OverBudget ==
    /\ CooldownOver
    /\ Cardinality(budget) >= Rate
    /\ cool' = 0
    /\ UNCHANGED <<profile, code, budget, request, typist, verified, asked>>

\* As if the count let one code too many through.
CountsOneMore(r) ==
    /\ request[r].pc = "counts"
    /\ \/ /\ Cardinality(Recent) <= Rate
          /\ request' = [request EXCEPT ![r].pc = "mints"]
       \/ request' = [request EXCEPT ![r] = Idle]
    /\ UNCHANGED <<profile, code, cool, budget, typist, verified, asked>>

\* IssueLoginCode counts the codes of the window; a request refused, or failed
\* by this statement or the transaction after it, is over.
Counts(r) ==
    /\ request[r].pc = "counts"
    /\ \/ /\ Cardinality(Recent) < Rate
          /\ request' = [request EXCEPT ![r].pc = "mints"]
       \/ request' = [request EXCEPT ![r] = Idle]
    /\ UNCHANGED <<profile, code, cool, budget, typist, verified, asked>>

Consumed(row) == [row EXCEPT !.state = "consumed"]

NewRow == [state |-> "live", age |-> 0, tries |-> 0]

\* As if the codes before it were left to work.
MintsAlongside(r) ==
    /\ request[r].pc = "mints"
    /\ \E c \in Codes :
         /\ code[c] = NoRow
         /\ code' = [code EXCEPT ![c] = NewRow]
         /\ request' = [request EXCEPT ![r] = [pc |-> "sends", code |-> c, waited |-> 0]]
    /\ asked' = asked \cup {0}
    /\ UNCHANGED <<profile, cool, budget, typist, verified>>

\* IssueLoginCode's transaction: consume what is outstanding, insert the new one.
\* Its text is asked for at once.
Mints(r) ==
    /\ request[r].pc = "mints"
    /\ \E c \in Codes :
         /\ code[c] = NoRow
         /\ code' = [d \in Codes |-> IF d = c THEN NewRow
                                     ELSE IF d \in Live THEN Consumed(code[d]) ELSE code[d]]
         /\ request' = [request EXCEPT ![r] = [pc |-> "sends", code |-> c, waited |-> 0]]
    /\ asked' = asked \cup {0}
    /\ UNCHANGED <<profile, cool, budget, typist, verified>>

\* The provider says that it has the text.
Texted(r) ==
    /\ request[r].pc = "sends"
    /\ request' = [request EXCEPT ![r] = Idle]
    /\ UNCHANGED <<profile, code, cool, budget, typist, verified, asked>>

\* The provider refuses, or is not heard of in time though the text may be on
\* its way: DiscardLoginCode deletes every code of the number not yet consumed.
\* That it fails is only logged.
Discards(r) ==
    /\ request[r].pc = "sends"
    /\ request' = [request EXCEPT ![r] = Idle]
    /\ \/ code' = [c \in Codes |-> IF c \in Live THEN NoRow ELSE code[c]]
       \/ UNCHANGED code
    /\ UNCHANGED <<profile, cool, budget, typist, verified, asked>>

----------------------------------------------------------------------------
(* Typing it in: handleAuthVerify.                                         *)

\* ConsumeLoginCode reads the newest code outstanding. The text may be there
\* before the provider's answer is, so any outstanding code can be typed.
Types(t, c, right) ==
    /\ typist[t] = Idle
    /\ profile
    /\ c \in Live
    /\ \A d \in Live : code[c].age <= code[d].age
    /\ typist' = [typist EXCEPT ![t] =
                    [pc |-> "judges", code |-> c, right |-> right,
                     expired |-> code[c].age > TTL, tries |-> code[c].tries]]
    /\ UNCHANGED <<profile, code, cool, budget, request, verified, asked>>

\* An UPDATE of a row: none, if it has been deleted meanwhile.
Burnt(c) == [code EXCEPT ![c] = IF @ = NoRow THEN @ ELSE Consumed(@)]

Missed(row) == [row EXCEPT !.tries = @ + 1]

Judging(t) == typist[t].pc = "judges"
Usable(t) == ~typist[t].expired /\ typist[t].tries < Attempts

\* Expired, or out of attempts: burnt whatever was typed.
TooLate(t) ==
    /\ Judging(t) /\ ~Usable(t)
    /\ code' = Burnt(typist[t].code)
    /\ typist' = [typist EXCEPT ![t] = Idle]
    /\ UNCHANGED <<profile, cool, budget, request, verified, asked>>

\* As if the row read were written back, whether or not it is still there.
WrongWritesBack(t) ==
    /\ Judging(t) /\ Usable(t) /\ ~typist[t].right
    /\ code' = [code EXCEPT ![typist[t].code] = Missed(@)]
    /\ typist' = [typist EXCEPT ![t] =
                    IF @.tries + 1 >= Attempts THEN [pc |-> "burns", code |-> @.code]
                                               ELSE Idle]
    /\ UNCHANGED <<profile, cool, budget, request, verified, asked>>

\* A wrong code costs an attempt; the last one burns the code in a statement
\* of its own.
Wrong(t) ==
    /\ Judging(t) /\ Usable(t) /\ ~typist[t].right
    /\ code' = [code EXCEPT ![typist[t].code] =
                  IF @ = NoRow THEN @ ELSE Missed(@)]
    /\ typist' = [typist EXCEPT ![t] =
                    IF @.tries + 1 >= Attempts THEN [pc |-> "burns", code |-> @.code]
                                               ELSE Idle]
    /\ UNCHANGED <<profile, cool, budget, request, verified, asked>>

Burns(t) ==
    /\ typist[t].pc = "burns"
    /\ code' = Burnt(typist[t].code)
    /\ typist' = [typist EXCEPT ![t] = Idle]
    /\ UNCHANGED <<profile, cool, budget, request, verified, asked>>

\* The right code is burnt; how many rows that touched is not looked at.
Right(t) ==
    /\ Judging(t) /\ Usable(t) /\ typist[t].right
    /\ code' = Burnt(typist[t].code)
    /\ typist' = [typist EXCEPT ![t] = [pc |-> "signsIn"]]
    /\ UNCHANGED <<profile, cool, budget, request, verified, asked>>

\* StartAuthSession and MarkPhoneVerified, whose error is dropped.
SignsIn(t) ==
    /\ typist[t].pc = "signsIn"
    /\ typist' = [typist EXCEPT ![t] = Idle]
    /\ verified' \in {verified, TRUE}
    /\ UNCHANGED <<profile, code, cool, budget, request, asked>>

----------------------------------------------------------------------------
(* The environment.                                                        *)

Spent(c) == code[c] # NoRow /\ code[c].age > TTL + Window

\* PurgeExpiredAuth, of the hourly sweep.
Purge ==
    /\ \E c \in Codes : Spent(c)
    /\ code' = [c \in Codes |-> IF Spent(c) THEN NoRow ELSE code[c]]
    /\ UNCHANGED <<profile, cool, budget, request, typist, verified, asked>>

\* The number's codes go with its profile; whoever is judging one finds its row
\* gone, and no profile to start a session for.
ForgetUser ==
    /\ profile
    /\ profile' = FALSE
    /\ code' = [c \in Codes |-> NoRow]
    /\ verified' = FALSE
    /\ typist' = [t \in Typists |-> Idle]
    /\ UNCHANGED <<cool, budget, request, asked>>

Waiting(r) == request[r].pc = "sends"

\* Ages a tick later, those past the window left out.
Older(ages) == {b \in 1..(Window - 1) : b - 1 \in ages}

\* Time passes for a text under way, never past the client's timeout, and for
\* no handler between two statements.
Tick ==
    /\ \A t \in Typists : typist[t] = Idle
    /\ \A r \in Requests : \/ request[r] = Idle
                           \/ Waiting(r) /\ request[r].waited < SendLimit
    /\ code' = [c \in Codes |->
                  IF code[c] = NoRow \/ code[c].age = AgeCap THEN code[c]
                  ELSE [code[c] EXCEPT !.age = @ + 1]]
    /\ cool' = IF cool < Cooldown THEN cool + 1 ELSE cool
    /\ budget' = Older(budget)
    /\ asked' = Older(asked)
    /\ request' = [r \in Requests |->
                     IF Waiting(r) THEN [request[r] EXCEPT !.waited = @ + 1]
                                   ELSE request[r]]
    /\ UNCHANGED <<profile, typist, verified>>

\* Handlers and limiters go, the tables stay.
Restart ==
    /\ cool' = Cooldown
    /\ budget' = {}
    /\ request' = [r \in Requests |-> Idle]
    /\ typist' = [t \in Typists |-> Idle]
    /\ asked' = {}
    /\ UNCHANGED <<profile, code, verified>>

RequestStep(r) == Asks(r) \/ Counts(r) \/ Mints(r) \/ Texted(r) \/ Discards(r)
TypistStep(t) ==
    \/ \E c \in Codes, right \in BOOLEAN : Types(t, c, right)
    \/ TooLate(t) \/ Wrong(t) \/ Burns(t) \/ Right(t) \/ SignsIn(t)

Next ==
    \/ \E r \in Requests : RequestStep(r)
    \/ OverBudget
    \/ \E t \in Typists : TypistStep(t)
    \/ ForgetUser \/ Purge \/ Tick \/ Restart

Spec == Init /\ [][Next]_vars

----------------------------------------------------------------------------
(* Properties.                                                             *)

\* "the most recent one is the only one that works".
OneLiveCode == \A c, d \in Live : c = d

\* A step that gives up the text of code c.
TextGivenUp(c) ==
    \E r \in Requests : /\ request[r].pc = "sends" /\ request[r].code = c
                       /\ request'[r] = Idle

\* DiscardLoginCode deletes by number, not by code, yet a text given up takes back
\* no code but its own, however late its answer: any other lasts until the sweep
\* takes it, long expired, or its person is forgotten.
CodesLast ==
    [][\A c \in Codes : code[c] # NoRow /\ code'[c] = NoRow =>
         Spent(c) \/ TextGivenUp(c) \/ (profile /\ ~profile')]_vars

\* Why it holds: a text is given up before the cooldown it started is over, so
\* requests take turns, and the code under way is the only one outstanding.
TurnsInv ==
    /\ OneLiveCode
    /\ \A r, s \in Requests : request[r] # Idle /\ request[s] # Idle => r = s
    /\ \A r \in Requests : request[r] # Idle => request[r].waited = cool
    /\ \A r \in Requests : request[r].pc = "sends" =>
          \A c \in Live : c = request[r].code

\* In a window, no process asks for more texts to a number than loginCodeRate,
\* whatever it takes back or forgets; and no more codes than that are on record,
\* however often the limiters in memory are lost.
RateHolds ==
    /\ Cardinality(asked) <= Rate
    /\ Cardinality(Recent) <= Rate

\* Why the first half holds: every text asked for and every request under way has
\* its hit in the budget.
BudgetInv ==
    /\ asked \subseteq budget
    /\ Cardinality(budget) <= Rate
    /\ \A r \in Requests : request[r] # Idle => request[r].waited \in budget

\* Why the second does: no other request mints between a request's count and its
\* own code.
RateInv ==
    /\ IsFiniteSet(Recent) /\ Cardinality(Recent) <= Rate
    /\ \A r \in Requests : request[r].pc = "mints" => Cardinality(Recent) < Rate
=============================================================================
