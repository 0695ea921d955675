------------------------- MODULE Transcripts_proofs -------------------------
(***************************************************************************)
(* Proofs about Transcripts, for any calls, numbers and profiles.          *)
(***************************************************************************)
EXTENDS Transcripts, TLAPS

\* Every variable keeps its type.
THEOREM TypeCorrect == Spec => []TypeOK
<1> USE TranscriptsAssumption DEF Nobody, Profiles
<1>1. Init => TypeOK
  BY DEF Init, TypeOK, AgeCap
<1>2. TypeOK /\ [Next]_vars => TypeOK'
  <2> SUFFICES ASSUME TypeOK, [Next]_vars PROVE TypeOK'
    OBVIOUS
  <2> USE DEF TypeOK, people, sync
  <2>1. ASSUME NEW n \in Numbers, SignUp(n) PROVE TypeOK'
    <3>1. created + 1 \in 1..MaxProfiles
      BY <2>1 DEF SignUp
    <3> QED BY <2>1, <3>1 DEF SignUp
  <2>2. ASSUME NEW n \in Numbers, Verify(n) PROVE TypeOK'
    <3>1. profile[n] \in 1..MaxProfiles
      BY <2>2 DEF Verify
    <3> QED BY <2>2, <3>1 DEF Verify
  <2>3. ASSUME NEW n \in Numbers, ForgetUser(n) PROVE TypeOK'
    BY <2>3 DEF ForgetUser, Drop, Owned
  <2>4. ASSUME NEW p \in 1..MaxProfiles, AdoptTranscripts(p) PROVE TypeOK'
    BY <2>4 DEF AdoptTranscripts
  <2>5. ASSUME NEW c \in Calls, CallHappens(c) \/ SyncSkips(c) PROVE TypeOK'
    BY <2>5 DEF CallHappens, SyncSkips
  <2>6. ASSUME NEW c \in Calls, WebhookArrives(c) PROVE TypeOK'
    <3>1. filing' \in SUBSET Filing
      BY <2>6 DEF WebhookArrives, LooksUp, Filing, Sources
    <3> QED BY <2>6, <3>1 DEF WebhookArrives
  <2>7. ASSUME NEW c \in Calls, SyncLooksUp(c) PROVE TypeOK'
    <3>1. filing' \in SUBSET Filing
      BY <2>7 DEF SyncLooksUp, LooksUp, Filing, Sources
    <3> QED BY <2>7, <3>1 DEF SyncLooksUp
  <2>8. ASSUME NEW n \in Numbers, NEW c \in Calls, DeleteTranscript(n, c) PROVE TypeOK'
    BY <2>8 DEF DeleteTranscript, Drop, Owned
  <2>9. ASSUME NEW f \in filing, SaveTranscript(f) PROVE TypeOK'
    <3>1. f.call \in Calls /\ OwnerAfter(f) \in {0} \cup 1..MaxProfiles
      BY DEF Filing, OwnerAfter
    <3> QED BY <2>9, <3>1 DEF SaveTranscript
  <2>10. CASE SyncLists
    BY <2>10 DEF SyncLists
  <2>11. CASE Purge
    BY <2>11 DEF Purge, Drop, Expired
  <2>12. CASE Tick
    BY <2>12 DEF Tick, AgeCap
  <2>13. CASE Restart
    BY <2>13 DEF Restart
  <2>14. CASE UNCHANGED vars
    BY <2>14 DEF vars
  <2> QED BY <2>1, <2>2, <2>3, <2>4, <2>5, <2>6, <2>7, <2>8, <2>9, <2>10,
             <2>11, <2>12, <2>13, <2>14 DEF Next, CallStep
<1> QED BY <1>1, <1>2, PTL DEF Spec

\* The strengthening of OwnedByTheNumber is inductive.
LEMMA CustodyHolds == Spec => []CustodyInv
<1> USE TranscriptsAssumption DEF Nobody, Profiles
<1>1. Init => CustodyInv
  BY DEF Init, CustodyInv, OwnedByTheNumber
<1>2. TypeOK /\ CustodyInv /\ [Next]_vars => CustodyInv'
  <2> SUFFICES ASSUME TypeOK, CustodyInv, [Next]_vars PROVE CustodyInv'
    OBVIOUS
  <2> USE DEF CustodyInv, OwnedByTheNumber, people, sync
  <2>1. ASSUME UNCHANGED <<profile, created, stored, owner, filing>> PROVE CustodyInv'
    BY <2>1
  <2>2. ASSUME NEW n \in Numbers, SignUp(n) PROVE CustodyInv'
    <3>1. /\ created \in Nat /\ created' = created + 1
          /\ \A m \in Numbers : profile'[m] = IF m = n THEN created + 1 ELSE profile[m]
          /\ \A m \in Numbers : profile[m] \in Nat /\ profile[m] <= created
          /\ profile[n] = 0
          /\ UNCHANGED <<stored, owner, filing>>
      BY <2>2 DEF SignUp, TypeOK
    <3>2. \A f \in filing : f.owner \in Nat /\ f.owner <= created
      BY DEF TypeOK, Filing
    <3>3. \A c \in stored : owner[c] # 0 => profile'[NumberOf[c]] = profile[NumberOf[c]]
      BY <3>1 DEF TypeOK
    <3> QED BY <3>1, <3>2, <3>3
  <2>3. ASSUME NEW p \in 1..MaxProfiles, AdoptTranscripts(p) PROVE CustodyInv'
    BY <2>3 DEF AdoptTranscripts, TypeOK
  <2>4. ASSUME NEW c \in Calls, NEW source,
               LooksUp(c, source), UNCHANGED <<profile, created, stored, owner>>
        PROVE  CustodyInv'
    <3>1. \A f \in filing' : \/ f \in filing
                             \/ f.call = c /\ f.owner \in {profile[NumberOf[c]], 0}
      BY <2>4 DEF LooksUp
    <3>2. NumberOf[c] \in Numbers
      OBVIOUS
    <3>3. \A f \in filing' : f.owner <= created
      <4>1. created \in Nat
        BY DEF TypeOK
      <4> QED BY <3>1, <3>2, <4>1
    <3>4. ASSUME NEW f \in filing', NEW n \in Numbers, profile[n] = f.owner, f.owner # 0
          PROVE  n = NumberOf[f.call]
      BY <3>1, <3>2, <3>4
    <3>5. OwnedByTheNumber'
      BY <2>4
    <3> QED BY <2>4, <3>3, <3>4, <3>5
  <2>5. ASSUME NEW f \in filing, SaveTranscript(f) PROVE CustodyInv'
    <3>1. f.call \in Calls /\ NumberOf[f.call] \in Numbers
      BY DEF TypeOK, Filing
    <3>2. CASE ~ProfileExists(f.owner)
      BY <2>5, <3>2 DEF SaveTranscript
    <3>3. CASE ProfileExists(f.owner)
      <4>1. f.owner # 0 => f.owner = profile[NumberOf[f.call]]
        BY <3>3 DEF ProfileExists
      <4>2. OwnerAfter(f) # 0 => OwnerAfter(f) = profile[NumberOf[f.call]]
        BY <4>1 DEF OwnerAfter
      <4>3. \A c \in Calls : owner'[c] = IF c = f.call THEN OwnerAfter(f) ELSE owner[c]
        BY <2>5, <3>3 DEF SaveTranscript, TypeOK
      <4>4. /\ stored' = stored \cup {f.call} /\ stored' \subseteq Calls
            /\ UNCHANGED <<profile, created>> /\ filing' \subseteq filing
        BY <2>5, <3>1, <3>3 DEF SaveTranscript, TypeOK
      <4>5. OwnedByTheNumber'
        BY <4>2, <4>3, <4>4
      <4> QED BY <4>4, <4>5
    <3> QED BY <3>2, <3>3
  <2>6. ASSUME NEW gone, Drop(gone), UNCHANGED <<profile, created, filing>>
        PROVE  CustodyInv'
    BY <2>6 DEF Drop, TypeOK
  <2>7. ASSUME NEW n \in Numbers, ForgetUser(n) PROVE CustodyInv'
    <3>1. /\ profile[n] \in Nat \ {0} /\ created \in Nat
          /\ \A m \in Numbers : profile'[m] = IF m = n THEN 0 ELSE profile[m]
          /\ UNCHANGED <<created, filing>>
      BY <2>7 DEF ForgetUser, TypeOK
    <3>2. ASSUME NEW c \in stored', owner'[c] # 0
          PROVE  owner'[c] = profile'[NumberOf[c]]
      <4>1. c \in stored /\ c \notin Owned(n) /\ owner'[c] = owner[c] /\ c \in Calls
        BY <2>7, <3>2 DEF ForgetUser, Drop, TypeOK
      <4>2. owner[c] # profile[n] /\ owner[c] = profile[NumberOf[c]]
        BY <3>2, <4>1 DEF Owned
      <4> QED BY <3>1, <4>1, <4>2
    <3>3. \A m \in Numbers : profile'[m] = profile[m] \/ profile'[m] = 0
      BY <3>1
    <3> QED BY <3>1, <3>2, <3>3
  <2>8. ASSUME NEW c \in Calls, CallStep(c) PROVE CustodyInv'
    <3>1. CASE CallHappens(c) \/ SyncSkips(c)
      BY <3>1, <2>1 DEF CallHappens, SyncSkips
    <3>2. CASE WebhookArrives(c) \/ SyncLooksUp(c)
      BY <3>2, <2>4 DEF WebhookArrives, SyncLooksUp
    <3>3. ASSUME NEW n \in Numbers, DeleteTranscript(n, c) PROVE CustodyInv'
      BY <3>3, <2>6 DEF DeleteTranscript
    <3> QED BY <2>8, <3>1, <3>2, <3>3 DEF CallStep
  <2>9. ASSUME NEW n \in Numbers, Verify(n) PROVE CustodyInv'
    BY <2>9, <2>1 DEF Verify
  <2>10. CASE SyncLists \/ Tick \/ UNCHANGED vars
    BY <2>10, <2>1 DEF SyncLists, Tick, vars
  <2>11. CASE Purge
    BY <2>11, <2>6 DEF Purge
  <2>12. CASE Restart
    BY <2>12 DEF Restart
  <2> QED BY <2>2, <2>3, <2>5, <2>7, <2>8, <2>9, <2>10, <2>11, <2>12 DEF Next, Profiles
<1> QED BY <1>1, <1>2, TypeCorrect, PTL DEF Spec

\* A transcript is attached to nobody but the profile holding its number now
\* (storeConversation's lookup, users(id) and ForgetUser against each other).
THEOREM OwnersHoldTheNumber == Spec => []OwnedByTheNumber
<1>1. CustodyInv => OwnedByTheNumber
  BY DEF CustodyInv
<1> QED BY <1>1, CustodyHolds, PTL

\* An attached transcript is never handed to another profile nor orphaned
\* (SaveTranscript's COALESCE, AdoptTranscripts' "user_id IS NULL").
THEOREM OwnersStay == Spec => OwnershipSticks
<1> USE TranscriptsAssumption DEF Nobody, Profiles
<1>1. TypeOK /\ CustodyInv /\ [Next]_vars =>
        [\A c \in stored \cap stored' : owner[c] # Nobody => owner'[c] = owner[c]]_vars
  <2> SUFFICES ASSUME TypeOK, CustodyInv, Next,
                      NEW c \in stored \cap stored', owner[c] # 0
               PROVE  owner'[c] = owner[c]
    BY DEF vars
  <2>0. c \in Calls
    BY DEF TypeOK
  <2> USE DEF people, sync
  <2>1. ASSUME NEW p \in 1..MaxProfiles, AdoptTranscripts(p) PROVE owner'[c] = owner[c]
    BY <2>0, <2>1 DEF AdoptTranscripts
  <2>2. ASSUME NEW f \in filing, SaveTranscript(f) PROVE owner'[c] = owner[c]
    <3>1. CASE c = f.call /\ ProfileExists(f.owner) /\ f.owner # 0
      <4>1. f.owner = profile[NumberOf[c]]
        BY <3>1 DEF ProfileExists, CustodyInv
      <4>2. owner[c] = profile[NumberOf[c]]
        BY DEF CustodyInv, OwnedByTheNumber
      <4>3. owner'[c] = f.owner
        BY <2>0, <2>2, <3>1 DEF SaveTranscript, OwnerAfter, TypeOK
      <4> QED BY <4>1, <4>2, <4>3
    <3>2. CASE ~(c = f.call /\ ProfileExists(f.owner) /\ f.owner # 0)
      BY <2>0, <2>2, <3>2 DEF SaveTranscript, OwnerAfter, TypeOK
    <3> QED BY <3>1, <3>2
  <2>3. ASSUME NEW gone, Drop(gone) PROVE owner'[c] = owner[c]
    BY <2>0, <2>3 DEF Drop
  <2>4. ASSUME NEW n \in Numbers, SignUp(n) \/ Verify(n) \/ ForgetUser(n)
        PROVE  owner'[c] = owner[c]
    BY <2>3, <2>4 DEF SignUp, Verify, ForgetUser
  <2>5. ASSUME NEW d \in Calls, CallStep(d) PROVE owner'[c] = owner[c]
    BY <2>3, <2>5 DEF CallStep, CallHappens, WebhookArrives, SyncLooksUp, SyncSkips,
                      DeleteTranscript
  <2>6. CASE SyncLists \/ Purge \/ Tick \/ Restart
    BY <2>3, <2>6 DEF SyncLists, Purge, Tick, Restart
  <2> QED BY <2>1, <2>2, <2>4, <2>5, <2>6 DEF Next
<1> QED BY <1>1, TypeCorrect, CustodyHolds, PTL DEF Spec, OwnershipSticks
=============================================================================
