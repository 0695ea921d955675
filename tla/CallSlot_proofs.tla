--------------------------- MODULE CallSlot_proofs ---------------------------
(***************************************************************************)
(* Proofs about the live-call slot, for every set of people and requests   *)
(* and every callMaxDuration.                                              *)
(***************************************************************************)
EXTENDS CallSlot, TLAPS

\* Every state variable keeps its type: in particular a claim's age never
\* passes Stale other than by being cleared, and last_call_sid is a call.
THEOREM TypeCorrect == Spec => []TypeOK
<1> USE CallSlotAssumption DEF Stale, Clear, AgeCap, Timer, slotVars
<1>1. Init => TypeOK
  BY DEF Init, TypeOK
<1>2. TypeOK /\ [Next]_vars => TypeOK'
  <2> SUFFICES ASSUME TypeOK, [Next]_vars PROVE TypeOK'
    OBVIOUS
  <2> USE DEF TypeOK
  <2>1. ASSUME NEW c \in Calls, StartCall(c) PROVE TypeOK'
    BY <2>1 DEF StartCall
  <2>2. ASSUME NEW c \in Calls, RefuseCall(c) PROVE TypeOK'
    BY <2>2 DEF RefuseCall, slotVars
  <2>3. ASSUME NEW c \in Calls, ProviderRings(c) \/ ProviderDrops(c) PROVE TypeOK'
    BY <2>3 DEF ProviderRings, ProviderDrops
  <2>4. ASSUME NEW c \in Calls, CallPlaced(c) PROVE TypeOK'
    BY <2>4 DEF CallPlaced, slotVars
  <2>5. ASSUME NEW c \in Calls, SetCallSID(c) PROVE TypeOK'
    BY <2>5 DEF SetCallSID, slotVars
  <2>6. ASSUME NEW c \in Calls, CallFailed(c) PROVE TypeOK'
    BY <2>6 DEF CallFailed, EndCall
  <2>7. ASSUME NEW c \in Calls, LineCloses(c) PROVE TypeOK'
    BY <2>7 DEF LineCloses, slotVars
  <2>8. ASSUME NEW c \in Calls, SaveOnboarding(c) PROVE TypeOK'
    <3>1. UserOf[c] \in Users
      OBVIOUS
    <3>2. timers' \in SUBSET Timer
      <4>1. CASE sid[UserOf[c]] = None
        BY <2>8, <4>1 DEF SaveOnboarding
      <4>2. CASE sid[UserOf[c]] # None
        <5>1. [sid |-> sid[UserOf[c]], by |-> c, hung |-> FALSE] \in Timer
          BY <3>1, <4>2
        <5> QED BY <2>8, <4>2, <5>1 DEF SaveOnboarding
      <4> QED BY <4>1, <4>2
    <3> QED BY <2>8, <3>1, <3>2 DEF SaveOnboarding, slotVars
  <2>9. ASSUME NEW c \in Calls, WebhookArrives(c) PROVE TypeOK'
    BY <2>9 DEF WebhookArrives, slotVars
  <2>10. ASSUME NEW c \in Calls, WebhookFiles(c) PROVE TypeOK'
    BY <2>10 DEF WebhookFiles, StoreConversation, EndCall
  <2>11. ASSUME NEW c \in Calls, SyncFiles(c) PROVE TypeOK'
    BY <2>11 DEF SyncFiles, StoreConversation, EndCall
  <2>12. ASSUME NEW c \in Calls, SyncSkips(c) PROVE TypeOK'
    BY <2>12 DEF SyncSkips, slotVars
  <2>13. ASSUME NEW t \in timers, TimerHangsUp(t) PROVE TypeOK'
    BY <2>13 DEF TimerHangsUp, slotVars
  <2>14. ASSUME NEW t \in timers, TimerReleases(t) PROVE TypeOK'
    BY <2>14 DEF TimerReleases, EndCall
  <2>15. CASE SyncLists
    BY <2>15 DEF SyncLists, Listed, slotVars
  <2>16. CASE Tick
    BY <2>16 DEF Tick
  <2>17. CASE Restart
    BY <2>17 DEF Restart, slotVars
  <2>18. CASE UNCHANGED vars
    BY <2>18 DEF vars
  <2> QED
    BY <2>1, <2>2, <2>3, <2>4, <2>5, <2>6, <2>7, <2>8, <2>9, <2>10, <2>11,
       <2>12, <2>13, <2>14, <2>15, <2>16, <2>17, <2>18 DEF Next, CallStep
<1> QED BY <1>1, <1>2, PTL DEF Spec

----------------------------------------------------------------------------
\* A release either leaves nobody in their term or marks its user abandoned;
\* everybody else's slot and standing are untouched.
LEMMA ReleaseIsMarked ==
    ASSUME TypeOK, NEW u \in Users, EndCall(u)
    PROVE  /\ \A v \in Users \ abandoned' : v \notin abandoned
           /\ \A v \in Users : v # u => slotAge'[v] = slotAge[v]
           /\ u \notin abandoned' /\ slotAge' # slotAge
                => \A c \in CallsOf(u) : ~InTerm(c)'
           /\ slotAge' # slotAge => slotAge' = [slotAge EXCEPT ![u] = Clear]
           /\ abandoned' = abandoned \/ abandoned' = abandoned \cup {u}
BY DEF EndCall, slotVars, TypeOK

\* A step that rings nobody new and leaves the slots alone keeps the lock.
LEMMA QuietKeepsLock ==
    ASSUME TypeOK, LockInv, UNCHANGED slotVars, UNCHANGED callAge,
           \A c \in Calls : Active(c)' => Active(c),
           \A c \in Calls : pc'[c] = "idle" => pc[c] = "idle" /\ line'[c] = line[c]
    PROVE  LockInv'
<1>1. \A c \in Calls : InTerm(c)' => InTerm(c) /\ callAge'[c] = callAge[c]
  BY DEF InTerm
<1> QED BY <1>1 DEF slotVars, LockInv, OneCallPerPerson, CallsOf

\* What an action that ends in EndCall(u) owes the lock: it puts nobody on
\* the line, and the release accounts for itself.
LEMMA ReleaseKeepsLock ==
    ASSUME TypeOK, LockInv, NEW u \in Users, EndCall(u),
           UNCHANGED <<line, callAge>>,
           \A c \in Calls : pc'[c] \in {pc[c], "done"}
    PROVE  LockInv'
<1>1. \A c \in Calls : InTerm(c)' => InTerm(c)
  BY DEF InTerm, Active
<1>2. ASSUME NEW v \in Users \ abandoned', NEW c \in CallsOf(v), InTerm(c)'
      PROVE  slotAge'[v] = callAge'[c]
  BY <1>1, <1>2, ReleaseIsMarked DEF LockInv, CallsOf
<1>3. OneCallPerPerson'
  <2> SUFFICES ASSUME NEW v \in Users \ abandoned', NEW c \in CallsOf(v),
                      NEW d \in CallsOf(v), InTerm(c)', InTerm(d)'
               PROVE  c = d
    BY DEF OneCallPerPerson, CallsOf
  <2> QED BY <1>1, ReleaseIsMarked DEF LockInv, OneCallPerPerson, CallsOf
<1>4. \A c \in Calls : pc'[c] = "idle" => line'[c] = "none" /\ callAge'[c] = 0
  BY DEF LockInv
<1> QED BY <1>2, <1>3, <1>4 DEF LockInv, CallsOf

\* Whoever may be rung has no call in its term.
LEMMA ClaimFindsNobody ==
    ASSUME TypeOK, LockInv, NEW u \in Users \ abandoned, MayClaim(u)
    PROVE  \A c \in CallsOf(u) : ~InTerm(c)
<1> SUFFICES ASSUME NEW c \in CallsOf(u), InTerm(c) PROVE FALSE
  OBVIOUS
<1>1. slotAge[u] = callAge[c] /\ callAge[c] <= CallMax /\ c \in Calls
  BY DEF LockInv, InTerm, CallsOf
<1> QED BY <1>1, CallSlotAssumption DEF MayClaim, Clear, TypeOK

\* While time passes, a call that is still in its term was in it, and its claim
\* grew older with it.
LEMMA TickAgesBoth ==
    ASSUME TypeOK, LockInv, Tick
    PROVE  /\ UNCHANGED abandoned
           /\ \A c \in Calls : InTerm(c)' => InTerm(c)
           /\ \A v \in Users \ abandoned : \A c \in CallsOf(v) : InTerm(c) =>
                /\ slotAge[v] = callAge[c]
                /\ slotAge'[v] = slotAge[v] + 1 /\ callAge'[c] = callAge[c] + 1
<1> USE CallSlotAssumption
<1>1. \A c \in Calls : /\ Active(c)' <=> Active(c)
                       /\ Active(c) => \/ callAge'[c] = callAge[c] + 1
                                       \/ callAge'[c] = callAge[c] /\ callAge[c] = Stale
  BY DEF Tick, Active, TypeOK, Stale
<1>2. \A c \in Calls : InTerm(c)' => InTerm(c)
  BY <1>1 DEF InTerm, Stale, TypeOK
<1>3. ASSUME NEW v \in Users \ abandoned, NEW c \in CallsOf(v), InTerm(c)
      PROVE  /\ slotAge[v] = callAge[c]
             /\ slotAge'[v] = slotAge[v] + 1 /\ callAge'[c] = callAge[c] + 1
  <2>1. c \in Calls /\ slotAge[v] = callAge[c] /\ callAge[c] \in 0..CallMax /\ Active(c)
    BY <1>3 DEF LockInv, CallsOf, InTerm, TypeOK, Stale
  <2> QED BY <2>1 DEF Tick, Stale
<1> QED BY <1>2, <1>3 DEF Tick

\* The slot is a lock for a call's term. Whatever interleaving, replay, expiry,
\* failure or crash, a person whose slot was never released within a call's term
\* has one call in its term at most, although a call may outlast its own.
THEOREM SlotIsALock == Spec => [](LockInv /\ OneCallPerPerson)
<1> USE CallSlotAssumption
<1>1. Init => LockInv
  BY DEF Init, LockInv, OneCallPerPerson, InTerm, Active, CallsOf
<1>2. TypeOK /\ LockInv /\ [Next]_vars => LockInv'
  <2> SUFFICES ASSUME TypeOK, LockInv, [Next]_vars PROVE LockInv'
    OBVIOUS
  <2>1. ASSUME NEW c \in Calls, StartCall(c) PROVE LockInv'
    <3> DEFINE u == UserOf[c]
    <3>1. /\ u \in Users /\ c \in CallsOf(u) /\ MayClaim(u)
          /\ slotAge' = [slotAge EXCEPT ![u] = 0] /\ UNCHANGED <<abandoned, callAge>>
          /\ callAge[c] = 0
          /\ pc' = [pc EXCEPT ![c] = "claimed"] /\ line' = [line EXCEPT ![c] = "asked"]
      BY <2>1 DEF CallsOf, StartCall, LockInv
    <3>2. u \notin abandoned => \A d \in CallsOf(u) : ~InTerm(d)
      BY <3>1, ClaimFindsNobody
    <3>3. \A d \in Calls : InTerm(d)' => InTerm(d) \/ d = c
      BY <3>1 DEF InTerm, Active, TypeOK
    <3>4. ASSUME NEW v \in Users \ abandoned, NEW d \in CallsOf(v), InTerm(d)'
          PROVE  slotAge'[v] = callAge'[d]
      <4>1. CASE d = c
        BY <3>1, <4>1, <3>4 DEF CallsOf, TypeOK
      <4>2. CASE d # c
        <5>1. InTerm(d) /\ v # u
          BY <3>2, <3>3, <3>4, <4>2 DEF CallsOf
        <5> QED BY <3>1, <5>1 DEF LockInv, TypeOK
      <4> QED BY <4>1, <4>2
    <3>5. OneCallPerPerson'
      <4> SUFFICES ASSUME NEW v \in Users \ abandoned, NEW d \in CallsOf(v),
                          NEW e \in CallsOf(v), InTerm(d)', InTerm(e)'
                   PROVE  d = e
        BY <3>1 DEF OneCallPerPerson, CallsOf
      <4> QED BY <3>1, <3>2, <3>3 DEF LockInv, OneCallPerPerson, CallsOf
    <3>6. \A d \in Calls : pc'[d] = "idle" => line'[d] = "none" /\ callAge'[d] = 0
      BY <3>1 DEF LockInv, TypeOK
    <3> QED BY <3>1, <3>4, <3>5, <3>6 DEF LockInv, CallsOf
  <2>2. ASSUME NEW c \in Calls,
               \/ RefuseCall(c) \/ ProviderRings(c) \/ ProviderDrops(c) \/ CallPlaced(c)
               \/ SetCallSID(c) \/ LineCloses(c) \/ SaveOnboarding(c)
               \/ WebhookArrives(c) \/ SyncSkips(c)
        PROVE  LockInv'
    <3>1. UNCHANGED <<slotVars, callAge>>
      BY <2>2 DEF RefuseCall, ProviderRings, ProviderDrops, CallPlaced, SetCallSID,
                  LineCloses, SaveOnboarding, WebhookArrives, SyncSkips
    <3>2. \A d \in Calls : Active(d)' => Active(d)
      BY <2>2 DEF RefuseCall, ProviderRings, ProviderDrops, CallPlaced, SetCallSID,
                  LineCloses, SaveOnboarding, WebhookArrives, SyncSkips, Active, TypeOK
    <3>3. \A d \in Calls : pc'[d] = "idle" => pc[d] = "idle" /\ line'[d] = line[d]
      BY <2>2 DEF RefuseCall, ProviderRings, ProviderDrops, CallPlaced, SetCallSID,
                  LineCloses, SaveOnboarding, WebhookArrives, SyncSkips, LockInv, TypeOK
    <3> QED BY <3>1, <3>2, <3>3, QuietKeepsLock
  <2>3. ASSUME NEW c \in Calls, CallFailed(c) \/ StoreConversation(c) PROVE LockInv'
    <3>1. /\ UNCHANGED <<line, callAge>> /\ EndCall(UserOf[c]) /\ UserOf[c] \in Users
          /\ \A d \in Calls : pc'[d] \in {pc[d], "done"}
      BY <2>3 DEF CallFailed, StoreConversation, TypeOK
    <3> QED BY <3>1, ReleaseKeepsLock
  <2>4. ASSUME NEW t \in timers, TimerHangsUp(t) PROVE LockInv'
    <3>1. /\ UNCHANGED <<slotVars, pc, callAge>>
          /\ \A d \in Calls : \/ line'[d] = line[d]
                              \/ line[d] = "live" /\ line'[d] = "over"
      BY <2>4 DEF TimerHangsUp, TypeOK
    <3>2. \A d \in Calls : pc[d] = "idle" => line[d] = "none"
      BY DEF LockInv
    <3> QED BY <3>1, <3>2, QuietKeepsLock DEF Active
  <2>5. ASSUME NEW t \in timers, TimerReleases(t) PROVE LockInv'
    <3>1. /\ UNCHANGED <<line, callAge, pc>> /\ EndCall(UserOf[t.by])
          /\ UserOf[t.by] \in Users
      BY <2>5 DEF TimerReleases, TypeOK, Timer
    <3> QED BY <3>1, ReleaseKeepsLock
  <2>6. CASE SyncLists \/ UNCHANGED vars
    <3>1. UNCHANGED <<slotVars, callAge, pc, line>>
      BY <2>6 DEF SyncLists, vars, slotVars
    <3> QED BY <3>1, QuietKeepsLock DEF Active
  <2>7. CASE Tick
    <3>1. \A c \in Calls : pc'[c] = "idle" => line'[c] = "none" /\ callAge'[c] = 0
      BY <2>7 DEF Tick, LockInv, Active
    <3>2. OneCallPerPerson'
      BY <2>7, TickAgesBoth DEF LockInv, OneCallPerPerson, CallsOf
    <3>3. \A v \in Users \ abandoned' : \A c \in CallsOf(v) :
             InTerm(c)' => slotAge'[v] = callAge'[c]
      BY <2>7, TickAgesBoth DEF CallsOf
    <3> QED BY <3>1, <3>2, <3>3 DEF LockInv, CallsOf
  <2>8. CASE Restart
    <3>1. /\ UNCHANGED <<slotVars, callAge, line>>
          /\ \A c \in Calls : pc'[c] = "idle" => pc[c] = "idle"
      BY <2>8 DEF Restart
    <3> QED BY <3>1, QuietKeepsLock DEF Active
  <2> QED
    BY <2>1, <2>2, <2>3, <2>4, <2>5, <2>6, <2>7, <2>8
    DEF Next, CallStep, WebhookFiles, SyncFiles
<1>3. LockInv => OneCallPerPerson
  BY DEF LockInv
<1> QED BY <1>1, <1>2, <1>3, TypeCorrect, PTL DEF Spec

\* The button is never live over an active call that is within
\* callMaxDuration: the claim the dashboard reads is as old as the call.
THEOREM ActiveCallsShow == Spec => []ActiveCallShows
<1>1. TypeOK /\ LockInv => ActiveCallShows
  BY CallSlotAssumption
  DEF LockInv, ActiveCallShows, CallInProgress, InTerm, CallsOf, TypeOK, Stale
<1> QED BY <1>1, SlotIsALock, TypeCorrect, PTL
----------------------------------------------------------------------------
\* A step that brings no call back into its term cannot disturb what the timers
\* that are left have captured.
LEMMA QuietKeepsBackstop ==
    ASSUME TypeOK, BackstopInv, timers' \subseteq timers, abandoned \subseteq abandoned',
           \A u \in Users : sid'[u] \in {sid[u], None},
           \A c \in Calls : InTerm(c)' => InTerm(c),
           timers' # {} => UNCHANGED callAge,
           \A c \in Calls : pc[c] # "idle" => pc'[c] # "idle",
           \A c \in Calls : pc'[c] = "idle" => line'[c] = line[c]
    PROVE  BackstopInv'
<1>1. \A t \in timers : t.sid \in Calls /\ t.by \in Calls
  BY DEF TypeOK, Timer
<1>2. \A u \in Users : sid'[u] # None => UserOf[sid'[u]] = u /\ pc'[sid'[u]] # "idle"
  BY DEF BackstopInv, TypeOK
<1>3. \A t \in timers' : UserOf[t.sid] = UserOf[t.by] /\ pc'[t.sid] # "idle"
  BY <1>1 DEF BackstopInv
<1>4. \A t \in timers' :
         /\ ~t.hung /\ UserOf[t.by] \notin abandoned'
         /\ InTerm(t.sid)' /\ callAge'[t.by] <= CallMax
         => t.sid = t.by
  BY <1>1 DEF BackstopInv
<1>5. \A c \in Calls : pc'[c] = "idle" => line'[c] = "none"
  BY DEF BackstopInv
<1> QED BY <1>2, <1>3, <1>4, <1>5 DEF BackstopInv

\* A release only adds to the people whose slot was taken back.
LEMMA ReleaseOnlyAdds ==
    ASSUME NEW u \in Users, EndCall(u) PROVE abandoned \subseteq abandoned'
BY DEF EndCall, slotVars

\* The backstop hangs up the call whose introduction armed it and no other call
\* in its term, although it acts on whichever SID was on the row at that moment,
\* an older one where a statement failed.
THEOREM BackstopHitsItsOwnCall == Spec => [](BackstopInv /\ HangUpTargetsOwnCall)
<1> USE CallSlotAssumption
<1>1. Init => BackstopInv
  BY DEF Init, BackstopInv
<1>2. TypeOK /\ LockInv /\ BackstopInv /\ [Next]_vars => BackstopInv'
  <2> SUFFICES ASSUME TypeOK, LockInv, BackstopInv, [Next]_vars
               PROVE  BackstopInv'
    OBVIOUS
  <2>1. ASSUME NEW c \in Calls, StartCall(c) PROVE BackstopInv'
    <3>1. /\ UNCHANGED <<sid, timers, abandoned, callAge>> /\ pc[c] = "idle"
          /\ pc' = [pc EXCEPT ![c] = "claimed"] /\ line' = [line EXCEPT ![c] = "asked"]
      BY <2>1 DEF StartCall
    <3>2. \A d \in Calls \ {c} : InTerm(d)' <=> InTerm(d)
      BY <3>1 DEF InTerm, Active
    <3>3. \A t \in timers : t.sid \in Calls /\ t.sid # c
      BY <3>1 DEF TypeOK, Timer, BackstopInv
    <3>4. \A u \in Users : sid[u] # None => UserOf[sid[u]] = u /\ pc'[sid[u]] # "idle"
      BY <3>1 DEF BackstopInv, TypeOK
    <3>5. \A t \in timers : UserOf[t.sid] = UserOf[t.by] /\ pc'[t.sid] # "idle"
      BY <3>1, <3>3 DEF BackstopInv, TypeOK
    <3>6. \A t \in timers :
             /\ ~t.hung /\ UserOf[t.by] \notin abandoned
             /\ InTerm(t.sid)' /\ callAge'[t.by] <= CallMax
             => t.sid = t.by
      BY <3>1, <3>2, <3>3 DEF BackstopInv
    <3>7. \A d \in Calls : pc'[d] = "idle" => line'[d] = "none"
      BY <3>1 DEF BackstopInv, TypeOK
    <3> QED BY <3>1, <3>4, <3>5, <3>6, <3>7 DEF BackstopInv
  <2>2. ASSUME NEW c \in Calls, SetCallSID(c) PROVE BackstopInv'
    <3>1. /\ pc[c] = "placed" /\ UNCHANGED <<line, callAge, timers, abandoned>>
          /\ pc' = [pc EXCEPT ![c] = "done"]
          /\ \/ sid' = sid \/ sid' = [sid EXCEPT ![UserOf[c]] = c]
             \/ sid' = [sid EXCEPT ![UserOf[c]] = None]
      BY <2>2 DEF SetCallSID, slotVars
    <3>2. \A d \in Calls : (InTerm(d)' <=> InTerm(d)) /\ (pc[d] # "idle" => pc'[d] # "idle")
                           /\ (pc'[d] = "idle" => pc[d] = "idle")
      BY <3>1 DEF InTerm, Active, TypeOK
    <3>3. \A u \in Users : sid'[u] # None => UserOf[sid'[u]] = u /\ pc'[sid'[u]] # "idle"
      BY <3>1, <3>2 DEF BackstopInv, TypeOK
    <3>4. \A t \in timers : t.sid \in Calls
      BY DEF TypeOK, Timer
    <3> QED BY <3>1, <3>2, <3>3, <3>4 DEF BackstopInv
  <2>3. ASSUME NEW c \in Calls, SaveOnboarding(c) PROVE BackstopInv'
    <3> DEFINE u == UserOf[c]
               new == [sid |-> sid[u], by |-> c, hung |-> FALSE]
    <3>1. UNCHANGED <<sid, line, pc, callAge, abandoned>> /\ line[c] = "live" /\ u \in Users
      BY <2>3 DEF SaveOnboarding, slotVars
    <3>2. \A d \in Calls : InTerm(d)' <=> InTerm(d)
      BY <3>1 DEF InTerm, Active
    <3>3. CASE sid[u] = None
      BY <2>3, <3>1, <3>2, <3>3, QuietKeepsBackstop DEF SaveOnboarding
    <3>4. CASE sid[u] # None
      <4>1. UserOf[sid[u]] = u /\ pc[sid[u]] # "idle" /\ sid[u] \in Calls
        BY <3>1, <3>4 DEF BackstopInv, TypeOK
      <4>2. InTerm(sid[u]) /\ callAge[c] <= CallMax /\ u \notin abandoned => sid[u] = c
        BY <3>1, <4>1 DEF LockInv, OneCallPerPerson, InTerm, Active, CallsOf
      <4>3. timers' = timers \cup {new}
        BY <2>3, <3>4 DEF SaveOnboarding
      <4>4. \A t \in timers : t.sid \in Calls
        BY DEF TypeOK, Timer
      <4>5. \A t \in timers' : UserOf[t.sid] = UserOf[t.by] /\ pc[t.sid] # "idle"
        BY <4>1, <4>3 DEF BackstopInv
      <4>6. \A t \in timers' :
               /\ ~t.hung /\ UserOf[t.by] \notin abandoned
               /\ InTerm(t.sid)' /\ callAge[t.by] <= CallMax
               => t.sid = t.by
        BY <3>2, <4>1, <4>2, <4>3, <4>4 DEF BackstopInv
      <4> QED BY <3>1, <4>5, <4>6 DEF BackstopInv
    <3> QED BY <3>3, <3>4
  <2>4. ASSUME NEW c \in Calls, CallFailed(c) \/ StoreConversation(c)
        PROVE  BackstopInv'
    <3>1. /\ UNCHANGED <<sid, line, callAge, timers>> /\ EndCall(UserOf[c])
          /\ UserOf[c] \in Users
          /\ \A d \in Calls : pc'[d] = pc[d] \/ (pc[d] # "idle" /\ pc'[d] # "idle")
      BY <2>4 DEF CallFailed, StoreConversation, TypeOK
    <3>2. \A d \in Calls : InTerm(d)' <=> InTerm(d)
      BY <3>1 DEF InTerm, Active
    <3> QED BY <3>1, <3>2, ReleaseOnlyAdds, QuietKeepsBackstop
  <2>5. ASSUME NEW t \in timers, TimerHangsUp(t) PROVE BackstopInv'
    <3> DEFINE hung == [t EXCEPT !.hung = TRUE]
    <3>1. /\ UNCHANGED <<sid, abandoned, pc, callAge>>
          /\ timers' = (timers \ {t}) \cup {hung}
          /\ \A d \in Calls : \/ line'[d] = line[d]
                              \/ line[d] = "live" /\ line'[d] = "over"
      BY <2>5 DEF TimerHangsUp, slotVars, TypeOK
    <3>2. hung.sid = t.sid /\ hung.by = t.by /\ hung.hung
      BY DEF TypeOK, Timer
    <3>3. \A d \in Calls : InTerm(d)' => InTerm(d)
      BY <3>1 DEF InTerm, Active
    <3>4. \A s \in timers : s.sid \in Calls
      BY DEF TypeOK, Timer
    <3> HIDE DEF hung
    <3>5. \A s \in timers' : UserOf[s.sid] = UserOf[s.by] /\ pc[s.sid] # "idle"
      BY <3>1, <3>2 DEF BackstopInv
    <3>6. \A s \in timers' :
             /\ ~s.hung /\ UserOf[s.by] \notin abandoned
             /\ InTerm(s.sid)' /\ callAge[s.by] <= CallMax
             => s.sid = s.by
      BY <3>1, <3>2, <3>3, <3>4 DEF BackstopInv
    <3>7. \A d \in Calls : pc[d] = "idle" => line'[d] = "none"
      BY <3>1 DEF BackstopInv
    <3> QED BY <3>1, <3>5, <3>6, <3>7 DEF BackstopInv
  <2>6. ASSUME NEW t \in timers, TimerReleases(t) PROVE BackstopInv'
    <3>1. /\ UNCHANGED <<line, pc, callAge>> /\ timers' \subseteq timers
          /\ EndCall(UserOf[t.by]) /\ UserOf[t.by] \in Users
          /\ \A u \in Users : sid'[u] \in {sid[u], None}
      BY <2>6 DEF TimerReleases, TypeOK, Timer
    <3>2. \A d \in Calls : InTerm(d)' <=> InTerm(d)
      BY <3>1 DEF InTerm, Active
    <3> QED BY <3>1, <3>2, ReleaseOnlyAdds, QuietKeepsBackstop
  <2>7. ASSUME NEW c \in Calls,
               \/ RefuseCall(c) \/ ProviderRings(c) \/ ProviderDrops(c)
               \/ CallPlaced(c) \/ LineCloses(c) \/ WebhookArrives(c) \/ SyncSkips(c)
        PROVE  BackstopInv'
    <3>1. UNCHANGED <<sid, timers, abandoned, callAge>>
      BY <2>7 DEF RefuseCall, ProviderRings, ProviderDrops, CallPlaced, LineCloses,
                  WebhookArrives, SyncSkips, slotVars
    <3>2. \A d \in Calls : InTerm(d)' => InTerm(d)
      BY <2>7 DEF RefuseCall, ProviderRings, ProviderDrops, CallPlaced, LineCloses,
                  WebhookArrives, SyncSkips, InTerm, Active, TypeOK
    <3>3. \A d \in Calls : /\ pc[d] # "idle" => pc'[d] # "idle"
                           /\ pc'[d] = "idle" => line'[d] = line[d]
      BY <2>7 DEF RefuseCall, ProviderRings, ProviderDrops, CallPlaced, LineCloses,
                  WebhookArrives, SyncSkips, TypeOK, BackstopInv
    <3> QED BY <3>1, <3>2, <3>3, QuietKeepsBackstop
  <2>8. CASE SyncLists \/ UNCHANGED vars
    <3>1. UNCHANGED <<sid, timers, abandoned, callAge, pc, line>>
      BY <2>8 DEF SyncLists, vars, slotVars
    <3> QED BY <3>1, QuietKeepsBackstop DEF InTerm, Active
  <2>9. CASE Tick
    <3>1. UNCHANGED <<sid, timers, abandoned, pc, line>> /\ timers = {}
      BY <2>9 DEF Tick
    <3> QED BY <2>9, <3>1, TickAgesBoth, QuietKeepsBackstop
  <2>10. CASE Restart
    <3>1. /\ UNCHANGED <<sid, abandoned, callAge, line>> /\ timers' = {}
          /\ \A c \in Calls : pc[c] # "idle" => pc'[c] # "idle"
      BY <2>10 DEF Restart, slotVars
    <3> QED BY <3>1, QuietKeepsBackstop DEF InTerm, Active
  <2> QED
    BY <2>1, <2>2, <2>3, <2>4, <2>5, <2>6, <2>7, <2>8, <2>9, <2>10
    DEF Next, CallStep, WebhookFiles, SyncFiles
<1>3. BackstopInv => HangUpTargetsOwnCall
  BY DEF BackstopInv, HangUpTargetsOwnCall
<1> QED BY <1>1, <1>2, <1>3, TypeCorrect, SlotIsALock, PTL DEF Spec
----------------------------------------------------------------------------
\* What the mapping is made of.
LEMMA MappingTypes ==
    ASSUME TypeOK
    PROVE  /\ Using \in [Users -> SUBSET Calls]
           /\ LeaseAge \in [Users -> 0..Stale]
           /\ Slot!Free = Stale
BY CallSlotAssumption
DEF Using, LeaseAge, CallsOf, TypeOK, MayClaim, Slot!Free, Stale, Clear

\* A release of somebody's slot is, to the lease, a release or a break: whoever
\* is in their term then is alone, and the release accounts for them.
LEMMA ReleaseReleasesLease ==
    ASSUME TypeOK, TypeOK', LockInv, NEW u \in Users, EndCall(u),
           \A c \in Calls : InTerm(c)' <=> InTerm(c)
    PROVE  Slot!Next \/ UNCHANGED <<Using, LeaseAge, abandoned>>
<1> USE CallSlotAssumption
<1>1. CASE UNCHANGED slotVars
  <2>1. UNCHANGED <<Using, LeaseAge, abandoned>>
    BY <1>1 DEF slotVars, Using, LeaseAge, MayClaim, CallsOf
  <2> QED BY <2>1
<1>2. CASE slotAge' = [slotAge EXCEPT ![u] = Clear]
           /\ abandoned' = IF \E c \in CallsOf(u) : InTerm(c)'
                           THEN abandoned \cup {u} ELSE abandoned
  <2>1. \A v \in Users : v # u => Using'[v] = Using[v] /\ LeaseAge'[v] = LeaseAge[v]
    BY <1>2 DEF Using, LeaseAge, MayClaim, CallsOf, TypeOK
  <2>2. Using'[u] = {} /\ LeaseAge'[u] = Stale
    BY <1>2 DEF Using, LeaseAge, MayClaim, CallsOf, TypeOK
  <2>3. Using' = [Using EXCEPT ![u] = {}] /\ LeaseAge' = [LeaseAge EXCEPT ![u] = Stale]
    BY <2>1, <2>2, MappingTypes DEF Using, LeaseAge
  <2>4. CASE abandoned' = abandoned
    <3>1. Slot!Releases(u)
      BY <2>3, <2>4, MappingTypes DEF Slot!Releases
    <3> QED BY <3>1 DEF Slot!Next
  <2>5. CASE abandoned' # abandoned
    <3>1. abandoned' = abandoned \cup {u} /\ u \notin abandoned
          /\ \E c \in CallsOf(u) : InTerm(c)
      BY <1>2, <2>5 DEF CallsOf
    <3>2. Using[u] # {}
      BY <3>1 DEF Using
    <3>3. Slot!Breaks(u)
      BY <2>3, <3>1, <3>2, MappingTypes DEF Slot!Breaks
    <3> QED BY <3>3 DEF Slot!Next
  <2> QED BY <2>4, <2>5
<1> QED BY <1>1, <1>2 DEF EndCall

\* A step that claims nothing and releases nothing ends some calls, at most.
LEMMA QuietEndsLease ==
    ASSUME TypeOK, LockInv, UNCHANGED slotVars,
           \A c \in Calls : InTerm(c)' => InTerm(c)
    PROVE  Slot!Next
<1> DEFINE K == {u \in Users : Using'[u] = {}}
<1>1. UNCHANGED <<abandoned, LeaseAge>>
  BY DEF slotVars, LeaseAge, MayClaim
<1>2. \A u \in Users \ K : Using'[u] = Using[u]
  BY <1>1 DEF Using, CallsOf, LockInv, OneCallPerPerson
<1>3. Using' = [u \in Users |-> IF u \in K THEN {} ELSE Using[u]]
  BY <1>2 DEF Using
<1>4. Slot!Ends(K)
  BY <1>1, <1>3 DEF Slot!Ends
<1> QED BY <1>4 DEF Slot!Next

\* The call slot implements a lease of callMaxDuration, whoever rings, outstays,
\* hangs up, files, fails or dies.
THEOREM SlotIsALease == Spec => ImplementsLease
<1> USE CallSlotAssumption DEF Slot!vars
<1>1. Init => Slot!Init
  <2> SUFFICES ASSUME Init PROVE Slot!Init
    OBVIOUS
  <2>1. \A u \in Users : Using[u] = {} /\ LeaseAge[u] = Stale
    BY DEF Init, Using, LeaseAge, CallsOf, InTerm, Active, MayClaim
  <2> QED BY <2>1 DEF Init, Slot!Init, Slot!Free, Using, LeaseAge, Stale
<1>2. TypeOK /\ TypeOK' /\ LockInv /\ [Next]_vars => [Slot!Next]_Slot!vars
  <2> SUFFICES ASSUME TypeOK, TypeOK', LockInv, [Next]_vars
               PROVE  Slot!Next \/ UNCHANGED <<Using, LeaseAge, abandoned>>
    OBVIOUS
  <2>1. ASSUME NEW c \in Calls, StartCall(c)
        PROVE  Slot!Next \/ UNCHANGED <<Using, LeaseAge, abandoned>>
    <3> DEFINE u == UserOf[c]
    <3>1. /\ u \in Users /\ c \in CallsOf(u) /\ MayClaim(u)
          /\ slotAge' = [slotAge EXCEPT ![u] = 0] /\ UNCHANGED <<abandoned, callAge>>
          /\ callAge[c] = 0 /\ line' = [line EXCEPT ![c] = "asked"]
      BY <2>1 DEF CallsOf, StartCall, LockInv
    <3>2. /\ \A d \in Calls \ {c} : InTerm(d)' <=> InTerm(d)
          /\ InTerm(c)'
      BY <3>1 DEF InTerm, Active, TypeOK
    <3>3. \A v \in Users : v # u => Using'[v] = Using[v] /\ LeaseAge'[v] = LeaseAge[v]
      BY <3>1, <3>2 DEF Using, LeaseAge, CallsOf, MayClaim, TypeOK
    <3>4. CASE u \in abandoned
      <4>1. Using'[u] = Using[u] /\ LeaseAge'[u] = LeaseAge[u]
        BY <3>1, <3>4 DEF Using, LeaseAge
      <4>2. Using' = Using /\ LeaseAge' = LeaseAge
        BY <3>3, <4>1 DEF Using, LeaseAge
      <4> QED BY <3>1, <4>2
    <3>5. CASE u \notin abandoned
      <4>1. \A d \in CallsOf(u) : ~InTerm(d)
        BY <3>1, <3>5, ClaimFindsNobody
      <4>2. Using[u] = {} /\ Using'[u] = {c}
        BY <3>1, <3>2, <3>5, <4>1 DEF Using, CallsOf
      <4>3. LeaseAge[u] = Stale /\ LeaseAge'[u] = 0
        BY <3>1, <3>5 DEF LeaseAge, MayClaim, Clear, TypeOK
      <4>4. Using' = [Using EXCEPT ![u] = {c}]
        BY <3>3, <4>2 DEF Using
      <4>5. LeaseAge' = [LeaseAge EXCEPT ![u] = 0]
        BY <3>3, <4>3 DEF LeaseAge
      <4>6. Slot!Claims(u, c)
        BY <3>1, <3>5, <4>2, <4>3, <4>4, <4>5, MappingTypes DEF Slot!Claims
      <4> QED BY <3>1, <4>6 DEF Slot!Next
    <3> QED BY <3>4, <3>5
  <2>2. ASSUME NEW c \in Calls,
               \/ RefuseCall(c) \/ ProviderRings(c) \/ ProviderDrops(c) \/ CallPlaced(c)
               \/ SetCallSID(c) \/ LineCloses(c) \/ SaveOnboarding(c)
               \/ WebhookArrives(c) \/ SyncSkips(c)
        PROVE  Slot!Next
    <3>1. UNCHANGED <<slotVars, callAge>>
      BY <2>2 DEF RefuseCall, ProviderRings, ProviderDrops, CallPlaced, SetCallSID,
                  LineCloses, SaveOnboarding, WebhookArrives, SyncSkips
    <3>2. \A d \in Calls : InTerm(d)' => InTerm(d)
      BY <2>2 DEF RefuseCall, ProviderRings, ProviderDrops, CallPlaced, SetCallSID,
                  LineCloses, SaveOnboarding, WebhookArrives, SyncSkips, InTerm, Active,
                  TypeOK
    <3> QED BY <3>1, <3>2, QuietEndsLease
  <2>3. ASSUME NEW c \in Calls, CallFailed(c) \/ StoreConversation(c)
        PROVE  Slot!Next \/ UNCHANGED <<Using, LeaseAge, abandoned>>
    <3>1. UserOf[c] \in Users /\ EndCall(UserOf[c]) /\ UNCHANGED <<line, callAge>>
      BY <2>3 DEF CallFailed, StoreConversation
    <3> QED BY <3>1, ReleaseReleasesLease DEF InTerm, Active
  <2>4. ASSUME NEW t \in timers, TimerHangsUp(t) PROVE Slot!Next
    <3>1. /\ UNCHANGED <<slotVars, callAge>>
          /\ \A d \in Calls : line'[d] \in {line[d], "over"}
      BY <2>4 DEF TimerHangsUp, TypeOK
    <3>2. \A d \in Calls : InTerm(d)' => InTerm(d)
      BY <3>1 DEF InTerm, Active
    <3> QED BY <3>1, <3>2, QuietEndsLease
  <2>5. ASSUME NEW t \in timers, TimerReleases(t)
        PROVE  Slot!Next \/ UNCHANGED <<Using, LeaseAge, abandoned>>
    <3>1. UserOf[t.by] \in Users /\ EndCall(UserOf[t.by]) /\ UNCHANGED <<line, callAge>>
      BY <2>5 DEF TimerReleases, TypeOK, Timer
    <3> QED BY <3>1, ReleaseReleasesLease DEF InTerm, Active
  <2>6. CASE SyncLists \/ Restart \/ UNCHANGED vars
    <3>1. UNCHANGED <<slotVars, line, callAge>>
      BY <2>6 DEF SyncLists, Restart, vars, slotVars
    <3> QED BY <3>1, QuietEndsLease DEF InTerm, Active
  <2>7. CASE Tick
    <3>1. UNCHANGED abandoned /\ \A c \in Calls : Active(c)' <=> Active(c)
      BY <2>7 DEF Tick, Active
    <3>2. \A u \in Users :
             slotAge'[u] = IF slotAge[u] < Stale THEN slotAge[u] + 1 ELSE slotAge[u]
      BY <2>7 DEF Tick
    <3>3. LeaseAge' = [u \in Users |-> IF LeaseAge[u] = Slot!Free THEN Slot!Free
                                       ELSE LeaseAge[u] + 1]
      <4>1. \A u \in Users : LeaseAge'[u] = IF LeaseAge[u] = Stale THEN Stale
                                            ELSE LeaseAge[u] + 1
        BY <3>1, <3>2 DEF LeaseAge, MayClaim, Stale, Clear, TypeOK
      <4> QED BY <4>1, MappingTypes DEF LeaseAge
    <3>4. ASSUME NEW u \in Users
          PROVE  Using'[u] = IF LeaseAge'[u] = Slot!Free THEN {} ELSE Using[u]
      <4>1. CASE u \in abandoned
        BY <3>1, <4>1 DEF Using
      <4>2. CASE u \notin abandoned
        <5>1. \A c \in CallsOf(u) : InTerm(c)' =>
                 /\ InTerm(c) /\ slotAge'[u] = callAge'[c] /\ callAge'[c] <= CallMax
          BY <2>7, <4>2, TickAgesBoth DEF CallsOf, InTerm
        <5>2. \A c \in CallsOf(u) : InTerm(c) =>
                 /\ slotAge'[u] = callAge'[c] /\ slotAge'[u] \in 0..Stale /\ Active(c)'
          BY <2>7, <3>1, <4>2, TickAgesBoth DEF CallsOf, InTerm, TypeOK, Stale
        <5>3. CASE MayClaim(u)'
          <6>1. \A c \in CallsOf(u) : ~InTerm(c)'
            BY <5>1, <5>3 DEF MayClaim, Clear, TypeOK, CallsOf
          <6> QED BY <3>1, <4>2, <5>3, <6>1, MappingTypes DEF Using, LeaseAge, CallsOf
        <5>4. CASE ~MayClaim(u)'
          <6>1. \A c \in CallsOf(u) : InTerm(c) <=> InTerm(c)'
            BY <5>1, <5>2, <5>4 DEF MayClaim, InTerm, CallsOf, TypeOK, Stale
          <6>2. LeaseAge'[u] # Slot!Free
            BY <3>1, <4>2, <5>4, MappingTypes DEF LeaseAge, MayClaim, TypeOK, Stale
          <6> QED BY <3>1, <4>2, <6>1, <6>2 DEF Using, CallsOf
        <5> QED BY <5>3, <5>4
      <4> QED BY <4>1, <4>2
    <3>5. Using' = [u \in Users |-> IF LeaseAge'[u] = Slot!Free THEN {} ELSE Using[u]]
      BY <3>4 DEF Using
    <3>6. Slot!Passes
      BY <3>1, <3>3, <3>5 DEF Slot!Passes
    <3> QED BY <3>6 DEF Slot!Next
  <2> QED BY <2>1, <2>2, <2>3, <2>4, <2>5, <2>6, <2>7
         DEF Next, CallStep, WebhookFiles, SyncFiles
<1> QED BY <1>1, <1>2, TypeCorrect, SlotIsALock, PTL
       DEF Spec, ImplementsLease, Slot!Spec
=============================================================================
