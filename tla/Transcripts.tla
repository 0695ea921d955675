---------------------------- MODULE Transcripts ----------------------------
(***************************************************************************)
(* Whose calls are whose, and for how long: the transcripts table.         *)
(*                                                                         *)
(* Two sources file the same call: the provider's webhook, on a goroutine, *)
(* and the periodic sync. Each looks up who owns the number and only then  *)
(* writes, so a profile may appear, prove its number or be forgotten in    *)
(* between. A call filed for a number nobody has is kept unowned until the *)
(* number is proved. Owners may delete a call or be forgotten altogether,  *)
(* and the hourly sweep drops what has outlived its retention.             *)
(*                                                                         *)
(* A profile id is never reused, so ids are counted; 0 is "nobody".        *)
(***************************************************************************)
EXTENDS Naturals, FiniteSets

CONSTANTS
    Calls,        \* conversations the provider has had
    Numbers,      \* phone numbers
    NumberOf,     \* the number each call was placed to
    Retention,    \* transcriptRetention and syncBackfill, in ticks
    SyncReach,    \* how far back a routine sync pass lists
    MaxProfiles   \* bound: profiles ever created

ASSUME TranscriptsAssumption ==
    /\ NumberOf \in [Calls -> Numbers]
    /\ Retention \in Nat /\ SyncReach \in Nat
    /\ SyncReach <= Retention
    /\ MaxProfiles \in Nat

Nobody == 0
Profiles == 1..MaxProfiles
Sources == {"webhook", "sync"}

VARIABLES
    profile,   \* per number: the id of its row in users, or Nobody
    created,   \* profiles created so far
    verified,  \* numbers whose profile has phone_verified_at
    adopting,  \* profiles just verified, AdoptTranscripts still to run
    happened,  \* calls the provider can speak of
    age,       \* per call: ticks since it started, capped past Retention
    stored,    \* calls with a row in transcripts
    owner,     \* per call: its row's user_id, or Nobody
    delivered, \* calls whose webhook was delivered
    queue,     \* conversations the running sync pass has yet to file
    pass,      \* the sync loop: before its boot backfill, due, or waiting
    filing,    \* storeConversations between looking up the owner and writing
    erased     \* history: calls their owner has had deleted

people == <<profile, created, verified, adopting>>
sync == <<delivered, queue, pass>>
vars == <<people, happened, age, stored, owner, sync, filing, erased>>

AgeCap == Retention + 1
Filing == [call : Calls, owner : {Nobody} \cup Profiles, source : Sources]

TypeOK ==
    /\ profile \in [Numbers -> {Nobody} \cup Profiles]
    /\ created \in 0..MaxProfiles
    /\ verified \in SUBSET Numbers
    /\ adopting \in SUBSET Profiles
    /\ happened \in SUBSET Calls
    /\ age \in [Calls -> 0..AgeCap]
    /\ stored \in SUBSET Calls
    /\ owner \in [Calls -> {Nobody} \cup Profiles]
    /\ delivered \in SUBSET Calls
    /\ queue \in SUBSET Calls
    /\ pass \in {"boot", "due", "wait"}
    /\ filing \in SUBSET Filing
    /\ erased \in SUBSET Calls

Init ==
    /\ profile = [n \in Numbers |-> Nobody]
    /\ created = 0
    /\ verified = {} /\ adopting = {}
    /\ happened = {}
    /\ age = [c \in Calls |-> 0]
    /\ stored = {}
    /\ owner = [c \in Calls |-> Nobody]
    /\ delivered = {} /\ queue = {} /\ pass = "boot"
    /\ filing = {}
    /\ erased = {}

----------------------------------------------------------------------------
(* Profiles.                                                               *)

\* EnsureUser, CreateUser: the number is unique in users.
SignUp(n) ==
    /\ profile[n] = Nobody
    /\ created < MaxProfiles
    /\ created' = created + 1
    /\ profile' = [profile EXCEPT ![n] = created + 1]
    /\ UNCHANGED <<verified, adopting, happened, age, stored, owner, sync,
                   filing, erased>>

\* As if nobody checked that the number has a profile.
VerifyUnknown(n) ==
    /\ verified' = verified \cup {n}
    /\ adopting' = adopting \cup {profile[n]}
    /\ UNCHANGED <<profile, created, happened, age, stored, owner, sync,
                   filing, erased>>

\* MarkPhoneVerified stamps the profile, then adopts what is held unowned.
Verify(n) ==
    /\ profile[n] # Nobody
    /\ verified' = verified \cup {n}
    /\ adopting' = adopting \cup {profile[n]}
    /\ UNCHANGED <<profile, created, happened, age, stored, owner, sync,
                   filing, erased>>

AdoptTranscripts(p) ==
    /\ p \in adopting
    /\ adopting' = adopting \ {p}
    /\ owner' = [c \in Calls |-> IF /\ c \in stored /\ owner[c] = Nobody
                                    /\ profile[NumberOf[c]] = p
                                 THEN p ELSE owner[c]]
    /\ UNCHANGED <<profile, created, verified, happened, age, stored, sync,
                   filing, erased>>

----------------------------------------------------------------------------
(* The two sources.                                                        *)

\* The provider has begun a conversation, and can be asked about it.
CallHappens(c) ==
    /\ c \notin happened
    /\ happened' = happened \cup {c}
    /\ UNCHANGED <<people, age, stored, owner, sync, filing, erased>>

\* storeConversation, first half: who has this number. Lookup never creates, and
\* one that fails found nobody. (Calls are those with a usable number: any other
\* is dropped here.)
LooksUp(c, source) ==
    \E p \in {profile[NumberOf[c]], Nobody} :
        filing' = filing \cup {[call |-> c, owner |-> p, source |-> source]}

WebhookArrives(c) ==
    /\ c \in happened \ delivered
    /\ delivered' = delivered \cup {c}
    /\ LooksUp(c, "webhook")
    /\ UNCHANGED <<people, happened, age, stored, owner, queue, pass, erased>>

\* The boot backfill reaches as far back as calls are kept.
Reach == IF pass = "boot" THEN Retention ELSE SyncReach

\* A pass lists what began inside its window; an error leaves a partial list.
SyncLists ==
    /\ queue = {} /\ pass # "wait"
    /\ \A f \in filing : f.source # "sync"
    /\ \E part \in SUBSET {c \in happened : age[c] <= Reach} : queue' = part
    /\ pass' = "wait"
    /\ UNCHANGED <<people, happened, age, stored, owner, delivered, filing, erased>>

\* The conversations of a pass are filed one after another.
SyncLooksUp(c) ==
    /\ c \in queue
    /\ \A f \in filing : f.source # "sync"
    /\ queue' = queue \ {c}
    /\ LooksUp(c, "sync")
    /\ UNCHANGED <<people, happened, age, stored, owner, delivered, pass, erased>>

\* Fetching a conversation failed: it is left for another pass.
SyncSkips(c) ==
    /\ c \in queue
    /\ queue' = queue \ {c}
    /\ UNCHANGED <<people, happened, age, stored, owner, delivered, pass,
                   filing, erased>>

\* As if foreign keys were not enforced.
ProfileExistsUnchecked(p) == TRUE

\* users(id) is a foreign key: a row cannot name a profile that is gone.
ProfileExists(p) == p = Nobody \/ \E n \in Numbers : profile[n] = p

\* As if the owner were overwritten without the COALESCE.
OwnerAfterOverwrite(f) == f.owner

\* COALESCE(?, user_id): a filing that found nobody leaves the owner alone.
OwnerAfter(f) ==
    IF f.owner = Nobody /\ f.call \in stored THEN owner[f.call] ELSE f.owner

\* SaveTranscript, one transaction: update the row of this conversation or
\* insert it. An error is logged and the call is not filed.
SaveTranscript(f) ==
    /\ f \in filing
    /\ filing' = filing \ {f}
    /\ IF ProfileExists(f.owner)
       THEN /\ stored' = stored \cup {f.call}
            /\ owner' = [owner EXCEPT ![f.call] = OwnerAfter(f)]
       ELSE UNCHANGED <<stored, owner>>
    /\ UNCHANGED <<people, happened, age, sync, erased>>

----------------------------------------------------------------------------
(* Erasure.                                                                *)

\* transcriptOwned: attached to the profile, or held against its number.
Owned(n) == {c \in stored : \/ owner[c] = profile[n]
                            \/ owner[c] = Nobody /\ NumberOf[c] = n}

\* Rows leave the table; a row's owner goes with it.
Drop(gone) ==
    /\ stored' = stored \ gone
    /\ owner' = [c \in Calls |-> IF c \in gone THEN Nobody ELSE owner[c]]

\* The owner, signed in, deletes one call from the dashboard.
DeleteTranscript(n, c) ==
    /\ n \in verified
    /\ c \in Owned(n)
    /\ Drop({c})
    /\ erased' = erased \cup {c}
    /\ UNCHANGED <<people, happened, age, sync, filing>>

\* ForgetUser, one transaction: what the profile owns, what is held against its
\* number, and the profile.
ForgetUser(n) ==
    /\ profile[n] # Nobody
    /\ Drop(Owned(n))
    /\ erased' = erased \cup Owned(n)
    /\ profile' = [profile EXCEPT ![n] = Nobody]
    /\ verified' = verified \ {n}
    /\ adopting' = adopting \ {profile[n]}
    /\ UNCHANGED <<created, happened, age, sync, filing>>
Expired == {c \in stored : age[c] > Retention}

\* As if the sweep went through the profiles.
PurgeOwned ==
    LET gone == {c \in Expired : owner[c] # Nobody}
    IN  /\ gone # {}
        /\ Drop(gone)
        /\ UNCHANGED <<people, happened, age, sync, filing, erased>>

\* PurgeExpiredTranscripts, of the hourly sweep.
Purge ==
    /\ Expired # {}
    /\ Drop(Expired)
    /\ UNCHANGED <<people, happened, age, sync, filing, erased>>

----------------------------------------------------------------------------
(* The environment.                                                        *)

\* A day passes: every filing begun has long ended, and passes have come due.
Tick ==
    /\ filing = {} /\ adopting = {}
    /\ age' = [c \in Calls |-> IF c \in happened /\ age[c] < AgeCap
                               THEN age[c] + 1 ELSE age[c]]
    /\ pass' = IF pass = "wait" THEN "due" ELSE pass
    /\ UNCHANGED <<people, happened, stored, owner, delivered, queue, filing, erased>>

\* The process dies and is restarted: goroutines go, and the sync starts over
\* with its backfill.
Restart ==
    /\ filing' = {} /\ queue' = {} /\ adopting' = {}
    /\ pass' = "boot"
    /\ UNCHANGED <<profile, created, verified, happened, age, stored, owner,
                   delivered, erased>>

CallStep(c) ==
    \/ CallHappens(c) \/ WebhookArrives(c) \/ SyncLooksUp(c) \/ SyncSkips(c)
    \/ \E n \in Numbers : DeleteTranscript(n, c)

Next ==
    \/ \E n \in Numbers : SignUp(n) \/ Verify(n) \/ ForgetUser(n)
    \/ \E p \in Profiles : AdoptTranscripts(p)
    \/ \E c \in Calls : CallStep(c)
    \/ \E f \in filing : SaveTranscript(f)
    \/ SyncLists
    \/ Purge
    \/ Tick
    \/ Restart

\* The sweep runs every hour; a filing begun is finished.
Fairness ==
    /\ WF_vars(Purge)
    /\ WF_vars(\E f \in filing : SaveTranscript(f))

Spec == Init /\ [][Next]_vars /\ Fairness

----------------------------------------------------------------------------
(* Properties.                                                             *)

\* A transcript is never attached to anybody but the profile that holds its
\* number now, whatever signs up, is forgotten or signs up again while a filing
\* is half-way.
OwnedByTheNumber ==
    \A c \in stored : owner[c] # Nobody => owner[c] = profile[NumberOf[c]]

\* Why it holds: numbers share no profile, a profile not yet created is named
\* nowhere, and what a half-way filing has read is its number's or nobody's.
CustodyInv ==
    /\ \A n \in Numbers : profile[n] <= created
    /\ \A m, n \in Numbers :
          profile[m] = profile[n] /\ profile[m] # Nobody => m = n
    /\ \A f \in filing : f.owner <= created
    /\ \A f \in filing : \A n \in Numbers :
          profile[n] = f.owner /\ f.owner # Nobody => n = NumberOf[f.call]
    /\ OwnedByTheNumber

\* "a later delivery for a number that has since signed up must not orphan it":
\* an attached row stays attached to the same profile as long as it exists.
OwnershipSticks ==
    [][\A c \in stored \cap stored' :
          owner[c] # Nobody => owner'[c] = owner[c]]_vars

\* Nothing said on a call is kept past its retention for good, owned or not,
\* however late it was filed.
RetentionHolds ==
    \A c \in Calls : c \in Expired ~> c \notin stored

\* What a person has had deleted stays deleted.
ErasedStaysErased == stored \cap erased = {}
=============================================================================
