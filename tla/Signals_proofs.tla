--------------------------- MODULE Signals_proofs ---------------------------
(***************************************************************************)
(* Proofs about Signals, for any kinds, lifetimes, retries and number of   *)
(* consent decisions under way.                                            *)
(***************************************************************************)
EXTENDS Signals, TLAPS

\* A decision that has run its insert is still a decision.
LEMMA InsertedIsSetting ==
    ASSUME NEW s \in Setting
    PROVE  /\ [s EXCEPT !.inserted = TRUE] \in Setting
           /\ [s EXCEPT !.overtaken = TRUE] \in Setting
           /\ s.stamp \in Stamps /\ s.scope \in Kinds /\ s.who \in Profiles
BY DEF Setting

\* Every variable keeps its type, and rows their profile.
THEOREM TypeCorrect == Spec => []TypeOK
<1> USE SignalsAssumption
<1>1. Init => TypeOK
  BY DEF Init, TypeOK, Row, NoRow, Steps, Ages
<1>2. TypeOK /\ [Next]_vars => TypeOK'
  <2> SUFFICES ASSUME TypeOK, [Next]_vars PROVE TypeOK'
    OBVIOUS
  <2> USE DEF TypeOK, rows
  <2>1. CASE SignUp
    BY <2>1 DEF SignUp, Profiles, scopes, handlers, history
  <2>2. CASE ForgetUser
    BY <2>2 DEF ForgetUser, Row, NoRow, Ages
  <2>3. ASSUME NEW k \in Kinds, NEW grant \in BOOLEAN, Decides(k, grant)
        PROVE  TypeOK'
    <3>1. PICK t \in {clock, clock + 1} \cap Stamps :
             /\ profile # Nobody /\ clock' = t
             /\ setting' = {IF grant /\ ~s.granted /\ s.scope = k THEN [s EXCEPT !.overtaken = TRUE]
                                                    ELSE s : s \in setting}
                     \cup {[who |-> profile, scope |-> k, granted |-> grant,
                            stamp |-> t, inserted |-> FALSE, overtaken |-> FALSE]}
      BY <2>3 DEF Decides
    <3>2. setting' \in SUBSET Setting
      <4>1. [who |-> profile, scope |-> k, granted |-> grant, stamp |-> t,
             inserted |-> FALSE, overtaken |-> FALSE] \in Setting
        BY <3>1 DEF Setting
      <4> QED BY <3>1, <4>1, InsertedIsSetting
    <3>3. clock' \in 0..MaxStamp
      BY <3>1 DEF Stamps
    <3> QED BY <2>3, <3>2, <3>3 DEF Decides, people, handlers, history
  <2>4. ASSUME NEW s \in setting, ConsentInserts(s) PROVE TypeOK'
    <3>0. /\ [s EXCEPT !.inserted = TRUE] \in Setting
          /\ s.stamp \in Stamps /\ s.scope \in Kinds
      BY InsertedIsSetting
    <3>1. setting' \in SUBSET Setting
      <4>1. setting' \subseteq setting \cup {[s EXCEPT !.inserted = TRUE]}
        BY <2>4 DEF ConsentInserts
      <4> QED BY <4>1, <3>0
    <3>2. consent' \in [Kinds -> Row]
      <4>1. \A x \in Stamps : /\ [NoRow EXCEPT !.granted = x] \in Row
                              /\ [NoRow EXCEPT !.revoked = x] \in Row
        BY DEF Row, NoRow
      <4> QED BY <2>4, <3>0, <4>1 DEF ConsentInserts
    <3>3. profile' = Nobody => consent' = consent
      BY <2>4 DEF ConsentInserts, Exists, people
    <3> QED BY <2>4, <3>1, <3>2, <3>3 DEF ConsentInserts, people, handlers, history
  <2>5. ASSUME NEW s \in setting, ConsentUpdates(s) PROVE TypeOK'
    <3>0. s.stamp \in Stamps /\ s.scope \in Kinds
      BY InsertedIsSetting
    <3>1. consent' \in [Kinds -> Row]
      <4>1. \A row \in Row : [row EXCEPT !.revoked = s.stamp] \in Row
        BY <3>0 DEF Row
      <4>2. [granted |-> s.stamp, revoked |-> 0] \in Row
        BY <3>0 DEF Row
      <4> QED BY <2>5, <3>0, <4>1, <4>2 DEF ConsentUpdates
    <3>2. closed' \in SUBSET Kinds /\ setting' \in SUBSET Setting
      <4>1. /\ closed' = closed \/ closed' = closed \cup {s.scope}
            /\ setting' = setting \ {s}
        BY <2>5 DEF ConsentUpdates
      <4> QED BY <3>0, <4>1
    <3>3. profile' = Nobody => consent' = consent
      BY <2>5 DEF ConsentUpdates, Exists, people
    <3> QED BY <2>5, <3>1, <3>2, <3>3 DEF ConsentUpdates, people, handlers
  <2>11. ASSUME NEW s \in setting, ConsentFails(s) PROVE TypeOK'
    BY <2>11 DEF ConsentFails, people, handlers, history
  <2>6. ASSUME NEW d \in Deliveries, Handles(d) PROVE TypeOK'
    <3> USE DEF people, scopes, history, Steps
    <3>1. CASE IngestArrives(d)
      BY <2>6, <3>1 DEF IngestArrives, Moves
    <3>2. CASE Selects(d)
      BY <3>2 DEF Selects, Moves, Answers
    <3>3. CASE Registers(d)
      BY <3>3 DEF Registers, Moves, Answers, Exists
    <3>4. CASE GoesUnregistered(d)
      BY <3>4 DEF GoesUnregistered, Moves
    <3>5. CASE Permits(d)
      BY <3>5 DEF Permits, Moves
    <3>6. CASE Refuses(d)
      BY <3>6 DEF Refuses, Answers
    <3>7. CASE IngestSignal(d)
      BY <3>7 DEF IngestSignal, Moves, Exists, Ages
    <3> QED BY <2>6, <3>1, <3>2, <3>3, <3>4, <3>5, <3>6, <3>7 DEF Handles
  <2>7. CASE Sweep
    BY <2>7 DEF Sweep, Ages, people, scopes, handlers, history
  <2>8. CASE Tick
    <3>1. age' \in [Deliveries -> Ages]
      BY <2>8 DEF Tick, Ages
    <3> QED BY <2>8, <3>1 DEF Tick, people, scopes, handlers, history
  <2>9. CASE Restart
    BY <2>9 DEF Restart, people, Steps
  <2>10. CASE UNCHANGED vars
    BY <2>10 DEF vars, people, scopes, handlers, history
  <2> QED BY <2>1, <2>2, <2>3, <2>4, <2>5, <2>6, <2>7, <2>8, <2>9, <2>10, <2>11 DEF Next
<1> QED BY <1>1, <1>2, PTL DEF Spec

\* A key stays registered for as long as the profile it was registered for.
LEMMA RetryInvHolds == Spec => []RetryInv
<1> USE SignalsAssumption
<1>1. Init => RetryInv
  BY DEF Init, RetryInv, Nobody
<1>2. TypeOK /\ RetryInv /\ [Next]_vars => RetryInv'
  <2> SUFFICES ASSUME TypeOK, RetryInv, [Next]_vars PROVE RetryInv'
    OBVIOUS
  <2>0. created \in Nat /\ profile \in Nat /\ \A d \in Deliveries : who[d] \in Nat
    BY DEF TypeOK, Profiles, Nobody
  <2>1. CASE SignUp
    BY <2>0, <2>1 DEF SignUp, RetryInv, TypeOK, handlers, Nobody
  <2>2. CASE ForgetUser
    <3>1. profile' = 0 /\ UNCHANGED <<created, KeyOf, step, who, registered>>
      BY <2>2 DEF ForgetUser, Nobody
    <3> QED BY <2>0, <3>1 DEF RetryInv, Nobody
  <2>3. ASSUME UNCHANGED <<people, handlers>> PROVE RetryInv'
    BY <2>3 DEF RetryInv, people, handlers
  <2>4. ASSUME NEW d \in Deliveries, Answers(d),
               UNCHANGED <<profile, created, KeyOf, events>>
        PROVE  RetryInv'
    BY <2>0, <2>4 DEF Answers, RetryInv, TypeOK, Nobody
  <2>5. ASSUME NEW d \in Deliveries, Handles(d) PROVE RetryInv'
    <3> USE DEF people
    <3>1. CASE IngestArrives(d)
      <4>1. d \notin registered
        BY <3>1 DEF IngestArrives, Moves, RetryInv
      <4>2. \A e \in Deliveries :
               /\ e # d => step'[e] = step[e] /\ who'[e] = who[e]
               /\ who'[d] = profile
        BY <3>1 DEF IngestArrives, Moves, TypeOK
      <4>3. UNCHANGED <<profile, created, KeyOf, registered, events>>
        BY <3>1 DEF IngestArrives
      <4> HIDE <3>1
      <4>4. \A e \in registered : step'[e] = step[e] /\ who'[e] = who[e]
        BY <4>1, <4>2 DEF TypeOK
      <4>5. \A e \in Deliveries : who'[e] <= created'
        BY <4>2, <4>3 DEF RetryInv
      <4> QED BY <4>3, <4>4, <4>5 DEF RetryInv
    <3>2. CASE Selects(d)
      <4>1. CASE KeyOf[d] \in events
        BY <3>2, <4>1, <2>4 DEF Selects
      <4>2. CASE KeyOf[d] \notin events
        BY <3>2, <4>2 DEF Selects, Moves, RetryInv, TypeOK
      <4> QED BY <4>1, <4>2
    <3>3. CASE Registers(d)
      <4>1. CASE KeyOf[d] \in events
        BY <3>3, <4>1, <2>4 DEF Registers
      <4>2. CASE KeyOf[d] \notin events
        <5>1. /\ UNCHANGED <<profile, created, KeyOf, who>>
              /\ registered' = registered \cup {d}
              /\ events' = events \cup {KeyOf[d]}
              /\ who[d] # Nobody /\ who[d] = profile
          BY <3>3, <4>2 DEF Registers, Exists
        <5>2. \A e \in Deliveries :
                 step'[e] = IF e = d THEN "checks" ELSE step[e]
          BY <3>3, <4>2 DEF Registers, Moves, TypeOK
        <5>3. \A e \in registered : KeyOf[e] = KeyOf[d] => who[e] # who[d]
          BY <4>2, <5>1 DEF RetryInv
        <5>4. \A e \in registered' :
                 step'[e] \in {"checks", "permitted", "stored"}
          BY <5>1, <5>2 DEF RetryInv, TypeOK
        <5>5. \A e, f \in registered' :
                 KeyOf[e] = KeyOf[f] /\ who[e] = who[f] => e = f
          BY <5>1, <5>3 DEF RetryInv
        <5>6. \A e \in registered' : /\ who[e] # Nobody
                                     /\ who[e] = profile => KeyOf[e] \in events'
          BY <5>1 DEF RetryInv
        <5> QED BY <5>1, <5>4, <5>5, <5>6 DEF RetryInv
      <4> QED BY <4>1, <4>2
    <3>4. CASE GoesUnregistered(d)
      <4>1. d \notin registered /\ UNCHANGED <<people, KeyOf, who, registered, events>>
        BY <3>4 DEF GoesUnregistered, Moves, RetryInv
      <4>2. \A e \in registered : step'[e] = step[e]
        BY <3>4, <4>1 DEF GoesUnregistered, Moves, TypeOK
      <4> QED BY <4>1, <4>2 DEF RetryInv
    <3>5. CASE Permits(d)
      BY <3>5 DEF Permits, Moves, RetryInv, TypeOK
    <3>6. CASE Refuses(d)
      BY <3>6, <2>4 DEF Refuses
    <3>7. CASE IngestSignal(d)
      BY <3>7 DEF IngestSignal, Moves, RetryInv, TypeOK
    <3> QED BY <2>5, <3>1, <3>2, <3>3, <3>4, <3>5, <3>6, <3>7 DEF Handles
  <2>6. CASE Tick
    BY <2>6, <2>3 DEF Tick
  <2>7. CASE Restart
    BY <2>0, <2>7 DEF Restart, RetryInv, TypeOK, people, Nobody
  <2>8. ASSUME NEW k \in Kinds, NEW grant \in BOOLEAN, Decides(k, grant)
        PROVE  RetryInv'
    BY <2>8, <2>3 DEF Decides
  <2>9. ASSUME NEW s \in setting,
               ConsentInserts(s) \/ ConsentUpdates(s) \/ ConsentFails(s)
        PROVE  RetryInv'
    <3>1. UNCHANGED people /\ UNCHANGED handlers
      BY <2>9 DEF ConsentInserts, ConsentUpdates, ConsentFails
    <3> QED BY <3>1, <2>3
  <2>10. CASE Sweep \/ UNCHANGED vars
    BY <2>10, <2>3 DEF Sweep, vars
  <2> QED BY <2>1, <2>2, <2>5, <2>6, <2>7, <2>8, <2>9, <2>10 DEF Next
<1> QED BY <1>1, <1>2, TypeCorrect, PTL DEF Spec

\* However retries overlap, a key's observation is stored once for a person
\* (RememberWebhook's insert that yields, and the check of the rows inserted).
THEOREM RetriesStoreOnce == Spec => []OnePerKey
<1>1. RetryInv => OnePerKey
  BY DEF RetryInv, OnePerKey
<1> QED BY <1>1, RetryInvHolds, PTL

\* Which scopes are open, and what is still to be written about them.
LEMMA ConsentInvHolds == Spec => []ConsentInv
<1> USE SignalsAssumption
<1>1. Init => ConsentInv
  BY DEF Init, ConsentInv, NoRow, Active, Nobody, Underway
<1>2. TypeOK /\ ConsentInv /\ [Next]_vars => ConsentInv'
  <2> SUFFICES ASSUME TypeOK, ConsentInv, [Next]_vars PROVE ConsentInv'
    OBVIOUS
  <2>0. /\ created \in Nat /\ profile \in Nat /\ clock \in Nat
        /\ \A s \in setting : /\ s.stamp \in Nat /\ s.stamp # 0 /\ s.scope \in Kinds
                              /\ s.who \in Nat /\ s.who # 0
                              /\ s.granted \in BOOLEAN /\ s.overtaken \in BOOLEAN
        /\ \A k \in Kinds : consent[k].granted \in Nat /\ consent[k].revoked \in Nat
        /\ profile = 0 => \A k \in Kinds : consent[k] = NoRow
    BY DEF TypeOK, Profiles, Nobody, Stamps, Setting, Row
  <2>1. CASE SignUp
    <3>1. /\ profile = 0 /\ created' = created + 1 /\ profile' = created + 1
          /\ UNCHANGED <<clock, consent, setting, KeyOf, step, closed, barred>>
      BY <2>1 DEF SignUp, Nobody, scopes, handlers, history
    <3>2. Underway(created + 1, profile') \subseteq setting
      BY DEF Underway
    <3>3. \A s \in setting : s.who # profile'
      BY <2>0, <3>1 DEF ConsentInv
    <3> QED BY <2>0, <3>1, <3>3 DEF ConsentInv, Underway, ScopeOf
  <2>2. CASE ForgetUser
    <3>1. /\ profile' = 0 /\ closed' = Kinds
          /\ consent' = [k \in Kinds |-> NoRow]
          /\ UNCHANGED <<created, clock, setting, KeyOf, step, barred>>
      BY <2>2 DEF ForgetUser, Nobody
    <3>2. \A k \in Kinds : ~Active(consent'[k]) /\ consent'[k].granted = 0
      BY <3>1 DEF Active, NoRow
    <3> QED BY <2>0, <3>1, <3>2 DEF ConsentInv, Underway, ScopeOf, TypeOK
  <2>3. ASSUME NEW k \in Kinds, NEW grant \in BOOLEAN, Decides(k, grant)
        PROVE  ConsentInv'
    <3>1. PICK t \in {clock, clock + 1} \cap Stamps :
             /\ profile # Nobody /\ clock' = t
             /\ setting' = {IF grant /\ ~s.granted /\ s.scope = k THEN [s EXCEPT !.overtaken = TRUE]
                                                    ELSE s : s \in setting}
                     \cup {[who |-> profile, scope |-> k, granted |-> grant,
                            stamp |-> t, inserted |-> FALSE, overtaken |-> FALSE]}
      BY <2>3 DEF Decides
    <3>2. t \in Nat /\ clock <= t
      BY <2>0, <3>1
    <3>3. UNCHANGED <<profile, created, consent, KeyOf, step>>
      BY <2>3 DEF Decides, people, handlers
    <3>4. /\ closed' = IF grant THEN closed \ {k} ELSE closed
          /\ barred' = IF grant THEN {d \in barred : ScopeOf(d) # k} ELSE barred
      BY <2>3 DEF Decides, history
    <3> DEFINE new == [who |-> profile, scope |-> k, granted |-> grant, stamp |-> t,
                       inserted |-> FALSE, overtaken |-> FALSE]
    \* Everything under way but the new decision was so before, unless a grant
    \* has overtaken it.
    <3>5. \A s \in setting' : \/ s = new
                              \/ \E o \in setting :
                                    /\ s.who = o.who /\ s.scope = o.scope
                                    /\ s.granted = o.granted /\ s.stamp = o.stamp
                                    /\ s.overtaken = ((grant /\ ~o.granted /\ o.scope = k) \/ o.overtaken)
      <4>1. \A o \in setting :
               LET s == IF grant /\ ~o.granted /\ o.scope = k THEN [o EXCEPT !.overtaken = TRUE] ELSE o
               IN  /\ s.who = o.who /\ s.scope = o.scope
                   /\ s.granted = o.granted /\ s.stamp = o.stamp
                   /\ s.overtaken = ((grant /\ ~o.granted /\ o.scope = k) \/ o.overtaken)
        BY DEF TypeOK, Setting
      <4> QED BY <3>1, <4>1
    <3>6. \A s \in setting' : s.stamp <= clock' /\ s.who <= created'
      BY <2>0, <3>1, <3>2, <3>3, <3>5 DEF ConsentInv
    <3>7. \A j \in Kinds : consent'[j].granted <= clock'
      BY <2>0, <3>1, <3>2, <3>3 DEF ConsentInv
    <3>8. \A s \in setting' : ~s.granted /\ ~s.overtaken /\ s.who = profile' =>
             /\ consent'[s.scope].granted <= s.stamp
             /\ \A g \in setting' : g.granted /\ g.scope = s.scope => g.stamp <= s.stamp
      <4> SUFFICES ASSUME NEW s \in setting', ~s.granted, ~s.overtaken, s.who = profile
                   PROVE  /\ consent[s.scope].granted <= s.stamp
                          /\ \A g \in setting' :
                                g.granted /\ g.scope = s.scope => g.stamp <= s.stamp
        BY <3>3
      <4>1. CASE s = new
        <5>1. ~grant /\ s.scope = k /\ s.stamp = t
          BY <4>1
        <5>2. consent[k].granted <= t
          BY <2>0, <3>2 DEF ConsentInv
        <5>3. \A g \in setting' : g.granted => g.stamp <= t
          BY <2>0, <3>2, <3>5, <5>1 DEF ConsentInv
        <5> QED BY <5>1, <5>2, <5>3
      <4>2. CASE s # new
        <5>1. PICK o \in setting :
                 /\ s.who = o.who /\ s.scope = o.scope
                 /\ s.granted = o.granted /\ s.stamp = o.stamp
                 /\ s.overtaken = ((grant /\ ~o.granted /\ o.scope = k) \/ o.overtaken)
          BY <3>5, <4>2
        <5>2. ~o.granted /\ ~o.overtaken /\ o.who = profile /\ ~(grant /\ o.scope = k)
          BY <5>1
        <5>3. /\ consent[o.scope].granted <= o.stamp
              /\ \A g \in setting : g.granted /\ g.scope = o.scope => g.stamp <= o.stamp
          BY <5>2 DEF ConsentInv
        <5> QED BY <3>5, <5>1, <5>2, <5>3
      <4> QED BY <4>1, <4>2
    <3>9. \A j \in closed' :
             /\ ~Active(consent'[j])
             /\ \A s \in Underway(j, profile)' : ~s.granted /\ consent'[j].granted <= s.stamp
      <4> SUFFICES ASSUME NEW j \in closed'
                   PROVE  /\ ~Active(consent[j])
                          /\ \A s \in setting' : s.scope = j /\ s.who = profile =>
                                ~s.granted /\ consent[j].granted <= s.stamp
        BY <3>3 DEF Underway, Active
      <4>1. j \in closed /\ j \in Kinds /\ ~(grant /\ j = k)
        BY <3>4 DEF TypeOK
      <4>2. /\ ~Active(consent[j])
            /\ \A s \in setting : s.scope = j /\ s.who = profile =>
                  ~s.granted /\ consent[j].granted <= s.stamp
        BY <4>1 DEF ConsentInv, Underway
      <4>3. consent[j].granted <= t
        BY <2>0, <3>2, <4>1 DEF ConsentInv
      <4> QED BY <3>5, <4>1, <4>2, <4>3
    <3>10. \A d \in barred' : /\ ScopeOf(d)' \in closed'
                              /\ step'[d] \in {"selects", "registers", "checks"}
      BY <3>3, <3>4 DEF ConsentInv, ScopeOf
    <3> QED BY <2>0, <3>3, <3>6, <3>7, <3>8, <3>9, <3>10 DEF ConsentInv
  <2>4. ASSUME NEW s \in setting, ConsentInserts(s) PROVE ConsentInv'
    <3>1. UNCHANGED <<profile, created, clock, KeyOf, step, closed, barred>>
      BY <2>4 DEF ConsentInserts, people, handlers, history
    <3>2. \A r \in setting' : \E o \in setting :
             /\ r.who = o.who /\ r.scope = o.scope /\ r.granted = o.granted
             /\ r.stamp = o.stamp /\ r.overtaken = o.overtaken
      <4>1. LET r == [s EXCEPT !.inserted = TRUE]
            IN  /\ r.who = s.who /\ r.scope = s.scope /\ r.granted = s.granted
                /\ r.stamp = s.stamp /\ r.overtaken = s.overtaken
        BY DEF TypeOK, Setting
      <4> QED BY <2>4, <4>1 DEF ConsentInserts
    \* The row changes only where there was none, and for a grant only then.
    <3>3. \A k \in Kinds :
             \/ consent'[k] = consent[k]
             \/ /\ k = s.scope /\ s.who = profile
                /\ s.granted => consent'[k] = [granted |-> s.stamp, revoked |-> 0]
                /\ ~s.granted => consent'[k] = [granted |-> 0, revoked |-> s.stamp]
      BY <2>0, <2>4 DEF ConsentInserts, Exists, TypeOK, NoRow
    <3>4. \A k \in Kinds : consent'[k].granted <= clock'
      BY <2>0, <3>1, <3>3 DEF ConsentInv
    <3>5. \A r \in setting' : ~r.granted /\ ~r.overtaken /\ r.who = profile =>
             consent'[r.scope].granted <= r.stamp
      <4> SUFFICES ASSUME NEW o \in setting, ~o.granted, ~o.overtaken, o.who = profile
                   PROVE  consent'[o.scope].granted <= o.stamp
        BY <3>2
      <4>1. /\ consent[o.scope].granted <= o.stamp
            /\ s.granted /\ s.scope = o.scope => s.stamp <= o.stamp
        BY DEF ConsentInv
      <4> QED BY <2>0, <3>3, <4>1
    <3>6. \A k \in closed :
             /\ ~Active(consent'[k])
             /\ \A o \in setting : o.scope = k /\ o.who = profile =>
                   ~o.granted /\ consent'[k].granted <= o.stamp
      <4> SUFFICES ASSUME NEW k \in closed
                   PROVE  /\ ~Active(consent'[k])
                          /\ \A o \in setting : o.scope = k /\ o.who = profile =>
                                ~o.granted /\ consent'[k].granted <= o.stamp
        OBVIOUS
      <4>1. /\ k \in Kinds /\ ~Active(consent[k])
            /\ \A o \in setting : o.scope = k /\ o.who = profile =>
                   ~o.granted /\ consent[k].granted <= o.stamp
        BY DEF ConsentInv, Underway, TypeOK
      <4>2. \/ consent'[k] = consent[k]
            \/ consent'[k] = [granted |-> 0, revoked |-> s.stamp]
        BY <3>3, <4>1
      <4> QED BY <2>0, <4>1, <4>2 DEF Active
    <3> QED BY <2>0, <3>1, <3>2, <3>4, <3>5, <3>6 DEF ConsentInv, Underway, ScopeOf
  <2>5. ASSUME NEW s \in setting, ConsentUpdates(s) PROVE ConsentInv'
    <3>1. /\ UNCHANGED <<profile, created, clock, KeyOf, step, barred>>
          /\ setting' = setting \ {s}
          /\ closed \subseteq closed'
      BY <2>5 DEF ConsentUpdates, people, handlers
    <3>2. \A k \in Kinds :
             \/ consent'[k] = consent[k]
             \/ /\ k = s.scope /\ s.who = profile
                /\ s.granted => consent'[k] = [granted |-> s.stamp, revoked |-> 0]
                /\ ~s.granted => consent'[k] = [granted |-> consent[k].granted,
                                                revoked |-> s.stamp]
      <4>1. \A k \in Kinds : consent[k] \in Row
        BY DEF TypeOK
      <4> QED BY <2>0, <2>5, <4>1 DEF ConsentUpdates, Exists, TypeOK, Row
    <3>7. \A k \in Kinds :
             \/ consent'[k].granted = consent[k].granted
             \/ /\ k = s.scope /\ s.granted
                /\ consent'[k].granted = s.stamp
      <4> SUFFICES ASSUME NEW k \in Kinds, consent'[k] # consent[k]
                   PROVE  \/ consent'[k].granted = consent[k].granted
                          \/ /\ k = s.scope /\ s.granted
                             /\ consent'[k].granted = s.stamp
        OBVIOUS
      <4>1. CASE s.granted
        BY <3>2, <4>1
      <4>2. CASE ~s.granted
        <5>1. consent'[k] = [granted |-> consent[k].granted, revoked |-> s.stamp]
          BY <3>2, <4>2
        <5>2. consent'[k].granted = consent[k].granted
          BY ONLY <5>1
        <5> QED BY <5>2
      <4> QED BY <4>1, <4>2
    <3>3. \A k \in Kinds : consent'[k].granted <= clock'
      BY <2>0, <3>1, <3>7 DEF ConsentInv
    <3>4. \A o \in setting : ~o.granted /\ ~o.overtaken /\ o.who = profile =>
             consent'[o.scope].granted <= o.stamp
      <4> SUFFICES ASSUME NEW o \in setting, ~o.granted, ~o.overtaken, o.who = profile
                   PROVE  consent'[o.scope].granted <= o.stamp
        OBVIOUS
      <4>1. /\ consent[o.scope].granted <= o.stamp
            /\ s.granted /\ s.scope = o.scope => s.stamp <= o.stamp
        BY DEF ConsentInv
      <4> QED BY <2>0, <3>7, <4>1
    \* A scope that was closed is written about by revocations alone.
    <3>5. \A k \in closed :
             /\ ~Active(consent'[k])
             /\ \A o \in setting : o.scope = k /\ o.who = profile =>
                   ~o.granted /\ consent'[k].granted <= o.stamp
      <4> SUFFICES ASSUME NEW k \in closed
                   PROVE  /\ ~Active(consent'[k])
                          /\ \A o \in setting : o.scope = k /\ o.who = profile =>
                                ~o.granted /\ consent'[k].granted <= o.stamp
        OBVIOUS
      <4>1. /\ k \in Kinds /\ ~Active(consent[k])
            /\ \A o \in setting : o.scope = k /\ o.who = profile =>
                   ~o.granted /\ consent[k].granted <= o.stamp
        BY DEF ConsentInv, Underway, TypeOK
      <4>2. \/ consent'[k] = consent[k]
            \/ /\ s.scope = k /\ s.who = profile /\ ~s.granted
               /\ consent'[k] = [granted |-> consent[k].granted, revoked |-> s.stamp]
        BY <3>2, <4>1
      <4> QED BY <2>0, <4>1, <4>2 DEF Active
    \* A revocation that closes its scope is later than what was granted, and so
    \* is all that is still to be written about it.
    <3>6. \A k \in closed' \ closed :
             /\ ~Active(consent'[k])
             /\ \A o \in setting' : o.scope = k /\ o.who = profile =>
                   ~o.granted /\ consent'[k].granted <= o.stamp
      <4> SUFFICES ASSUME closed' # closed
                   PROVE  /\ closed' = closed \cup {s.scope}
                          /\ ~Active(consent'[s.scope])
                          /\ \A o \in setting' : o.scope = s.scope /\ o.who = profile =>
                                ~o.granted /\ consent'[s.scope].granted <= o.stamp
        OBVIOUS
      <4>1. /\ ~s.granted /\ ~s.overtaken /\ s.who = profile
            /\ \A o \in Underway(s.scope, s.who) : ~o.granted /\ ~o.overtaken
            /\ closed' = closed \cup {s.scope}
        BY <2>5 DEF ConsentUpdates, Settles, Exists
      <4>2. consent[s.scope].granted <= s.stamp
        BY <4>1 DEF ConsentInv
      <4>3. consent'[s.scope] = [granted |-> consent[s.scope].granted, revoked |-> s.stamp]
        <5>1. consent' = [consent EXCEPT ![s.scope] = [@ EXCEPT !.revoked = s.stamp]]
          BY <2>5, <4>1 DEF ConsentUpdates, Exists, Nobody, TypeOK, Setting, Profiles
        <5>2. consent[s.scope] \in Row /\ s.scope \in Kinds
          BY <2>0 DEF TypeOK
        <5> QED BY <5>1, <5>2 DEF TypeOK, Row
      <4>4. ~Active(consent'[s.scope])
        BY <2>0, <4>2, <4>3 DEF Active
      <4>5. ASSUME NEW o \in setting, o.scope = s.scope, o.who = profile
            PROVE  ~o.granted /\ consent'[s.scope].granted <= o.stamp
        <5>1. ~o.granted /\ ~o.overtaken
          BY <4>1, <4>5 DEF Underway
        <5>2. consent[s.scope].granted <= o.stamp
          BY <4>5, <5>1 DEF ConsentInv
        <5>3. consent'[s.scope].granted = consent[s.scope].granted
          BY ONLY <4>3
        <5> QED BY <5>1, <5>2, <5>3
      <4> QED BY <3>1, <4>1, <4>4, <4>5
    <3> QED BY <2>0, <3>1, <3>3, <3>4, <3>5, <3>6 DEF ConsentInv, Underway, ScopeOf
  <2>6. ASSUME UNCHANGED <<profile, created, clock, consent, KeyOf, closed>>,
               setting' \subseteq setting, barred' \subseteq barred,
               \A d \in barred' : step'[d] \in {"selects", "registers", "checks"}
        PROVE  ConsentInv'
    BY <2>6 DEF ConsentInv, Underway, ScopeOf
  <2>7. ASSUME NEW d \in Deliveries, Handles(d) PROVE ConsentInv'
    <3> USE DEF people, scopes, history
    <3>1. CASE IngestArrives(d)
      <4>1. \A e \in barred' : /\ ScopeOf(e) \in closed
                               /\ step'[e] \in {"selects", "registers", "checks"}
        BY <3>1 DEF IngestArrives, Moves, ConsentInv, TypeOK
      <4>2. UNCHANGED <<profile, created, clock, consent, setting, KeyOf, closed>>
        BY <3>1 DEF IngestArrives
      <4> QED BY <4>1, <4>2 DEF ConsentInv, Underway, ScopeOf
    <3>2. CASE Selects(d)
      BY <3>2, <2>6 DEF Selects, Moves, Answers, ConsentInv, TypeOK
    <3>3. CASE Registers(d)
      BY <3>3, <2>6 DEF Registers, Moves, Answers, ConsentInv, TypeOK
    <3>4. CASE GoesUnregistered(d)
      BY <3>4, <2>6 DEF GoesUnregistered, Moves, ConsentInv, TypeOK
    <3>5. CASE Permits(d)
      <4>1. d \notin barred
        BY <3>5 DEF Permits, ConsentInv
      <4> QED BY <3>5, <4>1, <2>6 DEF Permits, Moves, ConsentInv, TypeOK
    <3>6. CASE Refuses(d)
      BY <3>6, <2>6 DEF Refuses, Answers, ConsentInv, TypeOK
    <3>7. CASE IngestSignal(d)
      <4>1. d \notin barred
        BY <3>7 DEF IngestSignal, Moves, ConsentInv
      <4> QED BY <3>7, <4>1, <2>6 DEF IngestSignal, Moves, ConsentInv, TypeOK
    <3> QED BY <2>7, <3>1, <3>2, <3>3, <3>4, <3>5, <3>6, <3>7 DEF Handles
  <2>8. CASE Sweep \/ Tick \/ UNCHANGED vars
    BY <2>8, <2>6 DEF Sweep, Tick, vars, people, scopes, handlers, history, ConsentInv
  <2>9. CASE Restart
    BY <2>9, <2>6 DEF Restart, people, ConsentInv, TypeOK, Done
  <2>10. ASSUME NEW s \in setting, ConsentFails(s) PROVE ConsentInv'
    BY <2>10, <2>6 DEF ConsentFails, people, handlers, history, ConsentInv
  <2> QED BY <2>1, <2>2, <2>3, <2>4, <2>5, <2>7, <2>8, <2>9, <2>10 DEF Next
<1> QED BY <1>1, <1>2, TypeCorrect, PTL DEF Spec

\* A request that comes in once the last decision of its scope is a revocation
\* that has been written, with no grant and no overtaken revocation left to
\* write, stores nothing while no grant is decided (HasConsent, Consent.Active
\* and the two statements of SetConsent).
THEOREM RevocationsHold == Spec => []RevocationHolds
<1>1. ConsentInv => RevocationHolds
  BY DEF ConsentInv, RevocationHolds
<1> QED BY <1>1, ConsentInvHolds, PTL
----------------------------------------------------------------------------
\* A row of signals is there because its request stored it.
StoredInv == \A d \in signals : step[d] = "stored"

LEMMA StoredInvHolds == Spec => []StoredInv
<1>1. Init => StoredInv
  BY DEF Init, StoredInv
<1>2. TypeOK /\ StoredInv /\ [Next]_vars => StoredInv'
  <2> SUFFICES ASSUME TypeOK, StoredInv, [Next]_vars PROVE StoredInv'
    OBVIOUS
  <2> USE DEF StoredInv, TypeOK
  <2>1. ASSUME signals' \subseteq signals, UNCHANGED step PROVE StoredInv'
    BY <2>1
  <2>2. ASSUME NEW d \in Deliveries, Handles(d) PROVE StoredInv'
    <3>1. CASE IngestSignal(d)
      BY <3>1 DEF IngestSignal, Moves
    <3>2. CASE ~IngestSignal(d)
      <4>1. signals' = signals /\ step[d] # "stored"
        BY <2>2, <3>2 DEF Handles, IngestArrives, Selects, Registers, GoesUnregistered,
                          Permits, Refuses, Moves, rows
      <4>2. \A e \in Deliveries : e # d => step'[e] = step[e]
        BY <2>2, <3>2 DEF Handles, IngestArrives, Selects, Registers, GoesUnregistered,
                          Permits, Refuses, Moves, Answers
      <4> QED BY <4>1, <4>2
    <3> QED BY <3>1, <3>2
  <2>3. CASE Restart
    BY <2>3 DEF Restart, Done, rows
  <2>4. CASE ForgetUser
    BY <2>4 DEF ForgetUser
  <2>5. CASE Sweep
    BY <2>1, <2>5 DEF Sweep, handlers
  <2> QED BY <2>1, <2>2, <2>3, <2>4, <2>5
          DEF Next, SignUp, Decides, ConsentInserts, ConsentUpdates, ConsentFails, Tick, vars,
              handlers, rows
<1> QED BY <1>1, <1>2, TypeCorrect, PTL DEF Spec

\* A reading is known until it is revoked, erased or out of date.
THEOREM ReadingsLast == Spec => KnownUntilStale
<1> USE SignalsAssumption
<1> DEFINE Lasts(k) ==
      Known(k) /\ ~Known(k)' =>
          \/ profile' # profile \/ ~Active(consent'[k])
          \/ OfKind(k) = OfKind(k)' /\ \A d \in OfKind(k) : ~Fresh(d)'
<1>1. TypeOK /\ StoredInv /\ [Next]_vars => [\A k \in Kinds : Lasts(k)]_vars
  <2> SUFFICES ASSUME TypeOK, StoredInv, Next, NEW k \in Kinds, Known(k), ~Known(k)',
                      profile' = profile, Active(consent'[k])
               PROVE  OfKind(k) = OfKind(k)' /\ \A d \in OfKind(k) : ~Fresh(d)'
    BY Zenon
  <2>a. /\ profile # Nobody
        /\ \E d \in OfKind(k) : Fresh(d) /\ \A e \in OfKind(k) : age[d] <= age[e]
    BY DEF Known, Latest
  <2>b. PICK d \in OfKind(k) : Fresh(d) /\ \A e \in OfKind(k) : age[d] <= age[e]
    BY <2>a
  <2>c. /\ KindOf \in [Keys -> Kinds] /\ TTL[k] \in Nat /\ Keep[k] \in Nat /\ TTL[k] <= Keep[k]
        /\ Oldest \in Nat /\ signals \subseteq Deliveries
        /\ \A e \in Deliveries : age[e] \in Int /\ KeyOf[e] \in Keys
    BY DEF TypeOK, Ages
  <2>d. d \in signals /\ ScopeOf(d) = k /\ age[d] < TTL[k]
    BY <2>b DEF OfKind, Fresh
  <2>e. profile' # Nobody
    BY <2>a
  \* The steps that keep some row that is fresh and most recent are none of these.
  <2>1. ASSUME UNCHANGED KeyOf, NEW x \in OfKind(k)', age'[x] < TTL[k],
               \A e \in OfKind(k)' : age'[x] <= age'[e]
        PROVE  FALSE
    <3>1. Fresh(x)'
      BY <2>1 DEF OfKind, Fresh
    <3>2. Known(k)'
      BY <2>1, <2>e, <3>1 DEF Known, Latest
    <3> QED BY <3>2
  <2>2. ~UNCHANGED <<KeyOf, signals, age>>
    <3> SUFFICES ASSUME UNCHANGED <<KeyOf, signals, age>> PROVE FALSE
      OBVIOUS
    <3>1. OfKind(k)' = OfKind(k)
      BY DEF OfKind, ScopeOf
    <3> QED BY <2>1, <2>b, <2>d, <3>1
  <2>3. ~ForgetUser
    BY <2>a DEF ForgetUser
  <2>4. ASSUME NEW x \in Deliveries, IngestSignal(x) PROVE FALSE
    <3>1. /\ signals' = signals \cup {x} /\ UNCHANGED KeyOf
          /\ \E a \in Ages : age' = [age EXCEPT ![x] = a]
          /\ x \notin signals
      BY <2>4 DEF IngestSignal, Moves, StoredInv
    <3>2. PICK a \in Ages : age' = [age EXCEPT ![x] = a]
      BY <3>1
    <3>3. /\ a \in Int /\ age'[x] = a
          /\ \A e \in signals : age'[e] = age[e] /\ age[e] \in Int
      BY <2>c, <3>1, <3>2 DEF TypeOK, Ages
    <3>4. \A e \in OfKind(k)' : e = x \/ e \in OfKind(k)
      BY <3>1 DEF OfKind, ScopeOf
    <3>5. OfKind(k) \subseteq OfKind(k)' /\ OfKind(k) \subseteq signals
      BY <3>1 DEF OfKind, ScopeOf
    <3>6. CASE ScopeOf(x) = k /\ a <= age[d]
      <4>1. x \in OfKind(k)'
        BY <3>1, <3>6 DEF OfKind, ScopeOf
      <4>2. \A e \in OfKind(k)' : age'[x] <= age'[e]
        BY <2>b, <2>d, <3>3, <3>4, <3>5, <3>6
      <4> QED BY <2>1, <2>c, <2>d, <3>1, <3>3, <3>6, <4>1, <4>2
    <3>7. CASE ScopeOf(x) # k \/ age[d] < a
      <4>1. x \in OfKind(k)' => age[d] < a
        BY <3>1, <3>7 DEF OfKind, ScopeOf
      <4>2. \A e \in OfKind(k)' : age'[d] <= age'[e]
        BY <2>b, <2>d, <3>3, <3>4, <3>5, <4>1
      <4> QED BY <2>1, <2>b, <2>d, <3>1, <3>3, <3>5, <4>2
    <3> QED BY <2>c, <2>d, <3>3, <3>6, <3>7
  <2>5. ~Sweep
    <3> SUFFICES ASSUME Sweep PROVE FALSE
      OBVIOUS
    <3>1. PICK done \in SUBSET {q \in Kinds : Outdated(q) # {}} :
            /\ signals' = signals \ UNION {Outdated(q) : q \in done}
            /\ age' = [e \in Deliveries |-> IF e \in signals' THEN age[e] ELSE 0]
            /\ UNCHANGED KeyOf
      BY DEF Sweep, handlers
    <3>2. \A q \in Kinds : d \notin Outdated(q)
      BY <2>c, <2>d DEF Outdated, OfKind, ScopeOf
    <3>3. d \in signals' /\ OfKind(k)' \subseteq OfKind(k) /\ d \in OfKind(k)'
      BY <2>d, <3>1, <3>2 DEF OfKind, ScopeOf
    <3>4. \A e \in OfKind(k)' : age'[e] = age[e]
      BY <2>c, <3>1 DEF OfKind
    <3> QED BY <2>1, <2>b, <2>d, <3>1, <3>3, <3>4
  <2>6. CASE Tick
    <3>1. /\ UNCHANGED <<KeyOf, signals>>
          /\ \A e \in signals :
               age'[e] = IF age[e] < Oldest THEN age[e] + 1 ELSE age[e]
      BY <2>6, <2>c DEF Tick, handlers
    <3>2. OfKind(k)' = OfKind(k) /\ OfKind(k) \subseteq signals
      BY <3>1 DEF OfKind, ScopeOf
    <3>3. \A e \in OfKind(k) : age'[d] <= age'[e] /\ age'[e] \in Int
      <4>1. \A e \in OfKind(k) : age[e] \in Int /\ age[e] <= Oldest
        BY <2>c, <3>2 DEF TypeOK, Ages
      <4> QED BY <2>b, <2>c, <2>d, <3>1, <3>2, <4>1
    <3>4. ~(age'[d] < TTL[k])
      BY <2>1, <2>b, <3>1, <3>2, <3>3
    <3>5. \A e \in OfKind(k) : ~Fresh(e)'
      BY <2>b, <2>c, <3>1, <3>2, <3>3, <3>4 DEF Fresh, OfKind, ScopeOf
    <3> QED BY <3>2, <3>5
  <2> QED BY <2>2, <2>3, <2>4, <2>5, <2>6
          DEF Next, SignUp, Decides, ConsentInserts, ConsentUpdates, ConsentFails, Handles, IngestArrives,
              Selects, Registers, GoesUnregistered, Permits, Refuses, Restart, handlers, rows
<1>2. [][\A k \in Kinds : Lasts(k)]_vars => KnownUntilStale
  BY PTL DEF KnownUntilStale
<1> QED BY <1>1, <1>2, TypeCorrect, StoredInvHolds, PTL DEF Spec
=============================================================================
