--------------------------- MODULE SignIn_proofs ---------------------------
(***************************************************************************)
(* Proofs about SignIn, for any limits and any number of requests, typed   *)
(* codes and rows.                                                         *)
(***************************************************************************)
EXTENDS SignIn, FiniteSetTheorems, TLAPS

\* What a row keeps through the updates the handlers make.
LEMMA RowsStayRows ==
    ASSUME NEW row \in Rows
    PROVE  /\ row # NoRow
           /\ Consumed(row) \in Rows
           /\ Missed(row) \in Rows
           /\ row.age < AgeCap => [row EXCEPT !.age = @ + 1] \in Rows
<1>1. /\ row.state \in {"live", "consumed"} /\ row.age \in 0..AgeCap
      /\ row.tries \in Nat
  BY DEF Rows
<1>2. row # NoRow
  BY <1>1 DEF NoRow
<1>3. Consumed(row) \in Rows
  BY <1>1 DEF Consumed, Rows
<1>4. Missed(row) \in Rows
  BY <1>1 DEF Missed, Rows
<1>5. ASSUME row.age < AgeCap PROVE [row EXCEPT !.age = @ + 1] \in Rows
  <2>1. row.age + 1 \in 0..AgeCap
    BY <1>1, <1>5, SignInAssumption DEF AgeCap
  <2> QED BY <1>1, <2>1 DEF Rows
<1> QED BY <1>2, <1>3, <1>4, <1>5

\* What the handler of a request holds at each step.
LEMMA RequestFields ==
    ASSUME TypeOK, NEW r \in Requests
    PROVE  /\ request[r] = Idle <=> request[r].pc = "idle"
           /\ request[r].pc \in {"counts", "mints"} => request[r].waited = 0
           /\ request[r].pc = "sends" =>
                request[r].code \in Codes /\ request[r].waited \in 0..SendLimit
           /\ request[r].pc \in {"idle", "counts", "mints", "sends"}
BY DEF TypeOK, RequestState, Idle

\* What the handler of a typed code holds at each step.
LEMMA TypistFields ==
    ASSUME TypeOK, NEW t \in Typists
    PROVE  /\ Judging(t) => /\ typist[t].code \in Codes
                            /\ typist[t].tries \in Nat
           /\ typist[t].pc = "burns" => typist[t].code \in Codes
BY DEF TypeOK, TypistState, Idle, Judging

\* Burning a code leaves a table of rows.
LEMMA BurntIsTable ==
    ASSUME TypeOK, NEW c \in Codes
    PROVE  Burnt(c) \in [Codes -> {NoRow} \cup Rows]
BY RowsStayRows DEF TypeOK, Burnt

\* Every variable keeps its type.
THEOREM TypeCorrect == Spec => []TypeOK
<1> USE SignInAssumption
<1>1. Init => TypeOK
  <2> SUFFICES ASSUME Init PROVE TypeOK
    OBVIOUS
  <2>1. request \in [Requests -> RequestState] /\ typist \in [Typists -> TypistState]
    BY DEF Init, RequestState, TypistState
  <2>2. cool \in 0..Cooldown /\ budget \in SUBSET (0..(Window - 1))
    BY DEF Init
  <2> QED BY <2>1, <2>2 DEF Init, TypeOK
<1>2. TypeOK /\ [Next]_vars => TypeOK'
  <2> SUFFICES ASSUME TypeOK, [Next]_vars PROVE TypeOK'
    OBVIOUS
  <2> USE DEF TypeOK
  <2>1. ASSUME NEW r \in Requests, Asks(r) PROVE TypeOK'
    <3>1. request' \in [Requests -> RequestState]
      BY <2>1 DEF Asks, LooksUp, RequestState
    <3>2. profile' \in BOOLEAN
      BY <2>1 DEF Asks, LooksUp
    <3>3. cool' \in 0..Cooldown /\ budget' \in SUBSET (0..(Window - 1))
      BY <2>1 DEF Asks
    <3> QED BY <2>1, <3>1, <3>2, <3>3 DEF Asks
  <2>2. ASSUME NEW r \in Requests, Counts(r) PROVE TypeOK'
    <3>1. [request[r] EXCEPT !.pc = "mints"] \in RequestState
      BY <2>2 DEF Counts, RequestState, Idle
    <3>2. request' \in [Requests -> RequestState]
      BY <2>2, <3>1 DEF Counts, RequestState
    <3> QED BY <2>2, <3>2 DEF Counts
  <2>3. ASSUME NEW r \in Requests, Mints(r) PROVE TypeOK'
    <3>1. NewRow \in Rows
      BY DEF NewRow, Rows, AgeCap
    <3>2. \A d \in Live : Consumed(code[d]) \in Rows
      <4>1. \A d \in Live : code[d] \in Rows
        BY DEF Live, NoRow
      <4> QED BY <4>1, RowsStayRows
    <3>3. code' \in [Codes -> {NoRow} \cup Rows]
      BY <2>3, <3>1, <3>2 DEF Mints
    <3>4. request' \in [Requests -> RequestState]
      BY <2>3 DEF Mints, RequestState
    <3> QED BY <2>3, <3>3, <3>4 DEF Mints
  <2>4. ASSUME NEW r \in Requests, Texted(r) PROVE TypeOK'
    BY <2>4 DEF Texted, RequestState
  <2>5. ASSUME NEW r \in Requests, Discards(r) PROVE TypeOK'
    BY <2>5 DEF Discards, RequestState
  <2>6. CASE OverBudget
    BY <2>6 DEF OverBudget
  <2>7. ASSUME NEW t \in Typists, NEW c \in Codes, NEW right \in BOOLEAN, Types(t, c, right)
        PROVE  TypeOK'
    <3>1. code[c].tries \in Nat
      BY DEF NoRow, Rows
    <3>2. (code[c].age > TTL) \in BOOLEAN
      OBVIOUS
    <3>3. typist' \in [Typists -> TypistState]
      BY <2>7, <3>1, <3>2 DEF Types, TypistState
    <3> QED BY <2>7, <3>3 DEF Types
  <2>8. ASSUME NEW t \in Typists, TooLate(t) PROVE TypeOK'
    BY <2>8, BurntIsTable, TypistFields DEF TooLate, TypistState
  <2>9. ASSUME NEW t \in Typists, Wrong(t) PROVE TypeOK'
    <3>1. typist[t].code \in Codes
      BY <2>9, TypistFields DEF Wrong
    <3>2. code' \in [Codes -> {NoRow} \cup Rows]
      BY <2>9, <3>1, RowsStayRows DEF Wrong
    <3>3. typist' \in [Typists -> TypistState]
      BY <2>9, <3>1 DEF Wrong, TypistState
    <3> QED BY <2>9, <3>2, <3>3 DEF Wrong
  <2>10. ASSUME NEW t \in Typists, Burns(t) PROVE TypeOK'
    BY <2>10, BurntIsTable, TypistFields DEF Burns, TypistState
  <2>11. ASSUME NEW t \in Typists, Right(t) PROVE TypeOK'
    BY <2>11, BurntIsTable, TypistFields DEF Right, TypistState
  <2>12. ASSUME NEW t \in Typists, SignsIn(t) PROVE TypeOK'
    BY <2>12 DEF SignsIn, TypistState
  <2>13. CASE Purge
    BY <2>13 DEF Purge
  <2>14. CASE Tick
    <3>1. code' \in [Codes -> {NoRow} \cup Rows]
      <4>1. ASSUME NEW c \in Codes, code[c] # NoRow, code[c].age # AgeCap
            PROVE  [code[c] EXCEPT !.age = @ + 1] \in Rows
        <5>1. code[c] \in Rows /\ code[c].age < AgeCap
          BY <4>1 DEF Rows, AgeCap
        <5> QED BY <5>1, RowsStayRows
      <4> QED BY <2>14, <4>1 DEF Tick
    <3>2. ASSUME NEW r \in Requests, Waiting(r)
          PROVE  [request[r] EXCEPT !.waited = @ + 1] \in RequestState
      BY <2>14, <3>2 DEF Tick, Waiting, RequestState, Idle
    <3>3. request' \in [Requests -> RequestState]
      BY <2>14, <3>2 DEF Tick
    <3>4. /\ cool' \in 0..Cooldown /\ budget' \in SUBSET (0..(Window - 1))
          /\ asked' \in SUBSET (0..(Window - 1))
      BY <2>14 DEF Tick, Older
    <3> QED BY <2>14, <3>1, <3>3, <3>4 DEF Tick
  <2>15. CASE Restart
    BY <2>15 DEF Restart, RequestState, TypistState
  <2>16. CASE ForgetUser
    BY <2>16 DEF ForgetUser, TypistState
  <2>17. CASE UNCHANGED vars
    BY <2>17 DEF vars
  <2> QED BY <2>1, <2>2, <2>3, <2>4, <2>5, <2>6, <2>7, <2>8, <2>9, <2>10, <2>11,
             <2>12, <2>13, <2>14, <2>15, <2>16, <2>17 DEF Next, RequestStep, TypistStep
<1> QED BY <1>1, <1>2, PTL DEF Spec

\* The strengthening of OneLiveCode is inductive.
LEMMA TurnsHold == Spec => []TurnsInv
<1> USE SignInAssumption
<1>1. Init => TurnsInv
  BY DEF Init, TurnsInv, OneLiveCode, Live, NoRow, Idle
<1>2. TypeOK /\ TurnsInv /\ [Next]_vars => TurnsInv'
  <2> SUFFICES ASSUME TypeOK, TurnsInv, [Next]_vars PROVE TurnsInv'
    OBVIOUS
  <2> USE DEF TurnsInv, OneLiveCode
  <2>1. ASSUME CooldownOver, NEW r \in Requests PROVE request[r] = Idle
    <3>1. request[r].pc = "idle" \/ request[r].waited < Cooldown
      BY RequestFields
    <3> QED BY <2>1, <3>1, RequestFields DEF CooldownOver, TypeOK
  <2>2. ASSUME UNCHANGED <<cool, request>>, Live' \subseteq Live
        PROVE  TurnsInv'
    <3>1. \A r \in Requests : request[r].pc = "sends" => request[r].code \in Codes
      BY RequestFields
    <3> QED BY <2>2, <3>1
  <2>3. ASSUME NEW r \in Requests, Asks(r) PROVE TurnsInv'
    <3>1. \A s \in Requests : request[s] = Idle
      BY <2>1, <2>3 DEF Asks
    <3>2. /\ \A s \in Requests : s # r => request'[s] = Idle
          /\ request'[r] \in {Idle, [pc |-> "counts", waited |-> 0]}
          /\ cool' = 0 /\ Live' = Live
      BY <2>3, <3>1 DEF Asks, LooksUp, TypeOK, Live
    <3> QED BY <3>2 DEF Idle
  <2>4. ASSUME NEW r \in Requests, request[r] # Idle,
               \A s \in Requests : s # r => request'[s] = request[s]
        PROVE  \A s \in Requests : s # r => request'[s] = Idle
    BY <2>4
  <2>5. ASSUME NEW r \in Requests, Counts(r) PROVE TurnsInv'
    <3>1. \A s \in Requests : s # r => request'[s] = Idle
      BY <2>4, <2>5 DEF Counts, TypeOK, Idle
    <3>2. request'[r] = Idle \/ /\ request'[r].pc = "mints"
                                /\ request'[r].waited = request[r].waited
      BY <2>5, RequestFields DEF Counts, TypeOK, RequestState, Idle
    <3>3. Live' = Live /\ cool' = cool /\ request[r].waited = cool
      BY <2>5, RequestFields DEF Counts, Live
    <3> QED BY <3>1, <3>2, <3>3 DEF Idle
  <2>6. ASSUME NEW r \in Requests, Mints(r) PROVE TurnsInv'
    <3>1. \A s \in Requests : s # r => request'[s] = Idle
      BY <2>4, <2>6 DEF Mints, TypeOK, Idle
    <3>2. PICK c \in Codes :
            /\ code[c] = NoRow
            /\ code' = [d \in Codes |-> IF d = c THEN NewRow
                                        ELSE IF d \in Live THEN Consumed(code[d]) ELSE code[d]]
            /\ request' = [request EXCEPT ![r] = [pc |-> "sends", code |-> c, waited |-> 0]]
      BY <2>6 DEF Mints
    <3>3. \A d \in Live' : d = c
      <4>1. ASSUME NEW d \in Live, d # c PROVE code'[d].state = "consumed"
        <5>1. d \in Codes /\ code[d] \in Rows
          BY DEF Live, TypeOK, NoRow
        <5>2. code'[d] = Consumed(code[d])
          BY <3>2, <4>1, <5>1
        <5> QED BY <5>1, <5>2 DEF Consumed, Rows
      <4> QED BY <3>2, <4>1 DEF Live
    <3>5. request[r].waited = 0 /\ cool = 0 /\ cool' = 0
      BY <2>6, RequestFields DEF Mints, Idle
    <3>6. request'[r] = [pc |-> "sends", code |-> c, waited |-> 0]
      BY <3>2 DEF TypeOK
    <3> QED BY <3>1, <3>3, <3>5, <3>6 DEF Idle
  <2>7. ASSUME NEW r \in Requests, Texted(r) \/ Discards(r) PROVE TurnsInv'
    <3>1. \A s \in Requests : request'[s] = Idle
      BY <2>4, <2>7 DEF Texted, Discards, TypeOK, Idle
    <3>2. Live' \subseteq Live
      BY <2>7 DEF Texted, Discards, Live, NoRow
    <3> QED BY <3>1, <3>2 DEF Idle
  <2>8. CASE OverBudget
    <3>1. \A s \in Requests : request[s] = Idle
      BY <2>1, <2>8 DEF OverBudget
    <3> QED BY <2>8, <3>1 DEF OverBudget, Live, Idle
  <2>9. ASSUME NEW c \in Codes
        PROVE  \A d \in Codes : Burnt(c)[d].state = "live" => d \in Live
    BY <2>9 DEF Burnt, Consumed, TypeOK, NoRow, Rows, Live
  <2>10. ASSUME NEW t \in Typists, TypistStep(t) PROVE TurnsInv'
    <3>1. CASE \E c \in Codes, right \in BOOLEAN : Types(t, c, right)
      BY <3>1, <2>2 DEF Types, Live
    <3>2. CASE TooLate(t) \/ Burns(t) \/ Right(t)
      <4>1. typist[t].code \in Codes
        BY <3>2, TypistFields DEF TooLate, Burns, Right
      <4> QED BY <3>2, <4>1, <2>2, <2>9 DEF TooLate, Burns, Right, Live
    <3>3. CASE Wrong(t)
      <4>1. typist[t].code \in Codes
        BY <3>3, TypistFields DEF Wrong
      <4>2. \A d \in Codes : code'[d].state = code[d].state
        BY <3>3, <4>1 DEF Wrong, Missed, TypeOK, NoRow, Rows
      <4> QED BY <3>3, <4>2, <2>2 DEF Wrong, Live
    <3>4. CASE SignsIn(t)
      BY <3>4, <2>2 DEF SignsIn, Live
    <3> QED BY <2>10, <3>1, <3>2, <3>3, <3>4 DEF TypistStep
  <2>11. CASE Purge
    BY <2>11, <2>2 DEF Purge, Live, NoRow
  <2>12. CASE Tick
    <3>1. \A c \in Codes : code'[c].state = code[c].state
      BY <2>12 DEF Tick, TypeOK, Rows, NoRow
    <3>2. Live' = Live
      BY <3>1 DEF Live
    <3>3. ASSUME NEW r \in Requests
          PROVE  \/ request[r] = Idle /\ request'[r] = Idle
                 \/ /\ request[r].pc = "sends" /\ request'[r].pc = "sends"
                    /\ request[r] # Idle
                    /\ request'[r].code = request[r].code
                    /\ request'[r].waited = request[r].waited + 1
                    /\ request[r].waited < SendLimit
      <4>1. CASE request[r] = Idle
        BY <2>12, <4>1 DEF Tick, Waiting, Idle
      <4>2. CASE request[r] # Idle
        <5>1. Waiting(r) /\ request[r].waited < SendLimit
          BY <2>12, <4>2 DEF Tick
        <5>2. request[r] \in [pc : {"sends"}, code : Codes, waited : 0..SendLimit]
          BY <5>1 DEF TypeOK, RequestState, Waiting, Idle
        <5>3. request'[r] = [request[r] EXCEPT !.waited = @ + 1]
          BY <2>12, <5>1 DEF Tick
        <5> QED BY <4>2, <5>1, <5>2, <5>3
      <4> QED BY <4>1, <4>2
    <3>4. \A r \in Requests : request'[r] # Idle => request'[r].waited = cool'
      BY <2>12, <3>3 DEF Tick, TypeOK
    <3>5. \A r, s \in Requests : request'[r] # Idle /\ request'[s] # Idle => r = s
      BY <3>3
    <3>6. \A r \in Requests : request'[r].pc = "sends" =>
            \A c \in Live' : c = request'[r].code
      BY <3>2, <3>3, RequestFields DEF Idle
    <3> QED BY <3>2, <3>4, <3>5, <3>6
  <2>13. CASE Restart
    BY <2>13 DEF Restart, Live, Idle
  <2>14. CASE ForgetUser
    BY <2>14, <2>2 DEF ForgetUser, Live, NoRow
  <2>15. CASE UNCHANGED vars
    BY <2>15, <2>2 DEF vars, Live
  <2> QED BY <2>3, <2>5, <2>6, <2>7, <2>8, <2>10, <2>11, <2>12, <2>13, <2>14, <2>15
          DEF Next, RequestStep
<1> QED BY <1>1, <1>2, TypeCorrect, PTL DEF Spec

\* Only the most recent code works (IssueLoginCode's consume-and-insert, with
\* DiscardLoginCode and the typed codes interleaved).
THEOREM OnlyTheLatestWorks == Spec => []OneLiveCode
<1>1. TurnsInv => OneLiveCode
  BY DEF TurnsInv
<1> QED BY <1>1, TurnsHold, PTL

\* A text given up, however late its answer, takes back no code but its own,
\* because the SMS client gives up before the cooldown lets the next request in.
THEOREM FailuresTakeOnlyTheirOwn == Spec => CodesLast
<1> USE SignInAssumption
<1>1. TypeOK /\ TurnsInv /\ [Next]_vars =>
        [\A c \in Codes : code[c] # NoRow /\ code'[c] = NoRow =>
           Spent(c) \/ TextGivenUp(c) \/ (profile /\ ~profile')]_vars
  <2> SUFFICES ASSUME TypeOK, TurnsInv, Next, NEW c \in Codes,
                      code[c] # NoRow, code'[c] = NoRow
               PROVE  Spent(c) \/ TextGivenUp(c) \/ (profile /\ ~profile')
    OBVIOUS
  <2>1. code[c] \in Rows /\ code'[c] # code[c]
    BY DEF TypeOK
  <2>2. ASSUME NEW r \in Requests, RequestStep(r) PROVE TextGivenUp(c)
    <3>1. CASE Asks(r) \/ Counts(r) \/ Texted(r)
      BY <3>1, <2>1 DEF Asks, Counts, Texted
    <3>2. CASE Mints(r)
      <4>1. code'[c] = code[c] \/ code'[c] = Consumed(code[c]) \/ code'[c] = NewRow
        BY <3>2, <2>1 DEF Mints
      <4>2. NewRow # NoRow
        BY DEF NewRow, NoRow
      <4> QED BY <4>1, <4>2, <2>1, RowsStayRows
    <3>3. CASE Discards(r)
      <4>1. c \in Live
        BY <3>3, <2>1 DEF Discards
      <4>2. request[r].pc = "sends" /\ c = request[r].code
        BY <3>3, <4>1 DEF Discards, TurnsInv
      <4>3. request'[r] = Idle
        BY <3>3 DEF Discards, TypeOK
      <4> QED BY <4>2, <4>3 DEF TextGivenUp
    <3> QED BY <2>2, <3>1, <3>2, <3>3 DEF RequestStep
  <2>3. ASSUME NEW d \in Codes, code' = Burnt(d) PROVE FALSE
    <3>1. code'[c] = code[c] \/ code'[c] = Consumed(code[c])
      BY <2>3 DEF Burnt, TypeOK
    <3> QED BY <3>1, <2>1, RowsStayRows
  <2>4. ASSUME NEW t \in Typists, TypistStep(t) PROVE FALSE
    <3>1. CASE TooLate(t) \/ Burns(t) \/ Right(t)
      BY <3>1, <2>3, TypistFields DEF TooLate, Burns, Right
    <3>2. CASE Wrong(t)
      <4>1. code'[c] = code[c] \/ code'[c] = Missed(code[c])
        BY <3>2, <2>1 DEF Wrong, TypeOK
      <4> QED BY <4>1, <2>1, RowsStayRows
    <3>3. CASE SignsIn(t) \/ \E d \in Codes, right \in BOOLEAN : Types(t, d, right)
      BY <3>3, <2>1 DEF SignsIn, Types
    <3> QED BY <2>4, <3>1, <3>2, <3>3 DEF TypistStep
  <2>5. CASE OverBudget \/ Restart
    BY <2>1, <2>5 DEF OverBudget, Restart
  <2>6. CASE Tick
    <3>1. code[c].age < AgeCap => code'[c] = [code[c] EXCEPT !.age = @ + 1]
      BY <2>1, <2>6 DEF Tick
    <3>2. code[c].age = AgeCap => code'[c] = code[c]
      BY <2>1, <2>6 DEF Tick
    <3>3. code[c].age < AgeCap \/ code[c].age = AgeCap
      BY <2>1 DEF Rows, AgeCap
    <3> QED BY <2>1, <3>1, <3>2, <3>3, RowsStayRows
  <2>7. CASE Purge
    BY <2>1, <2>7 DEF Purge
  <2>8. CASE ForgetUser
    BY <2>8 DEF ForgetUser
  <2> QED BY <2>2, <2>4, <2>5, <2>6, <2>7, <2>8 DEF Next
<1> QED BY <1>1, TypeCorrect, TurnsHold, PTL DEF Spec, CodesLast

----------------------------------------------------------------------------
\* Ages only drop out of a window.
LEMMA OlderNoMore ==
    ASSUME NEW ages \in SUBSET (0..(Window - 1)), IsFiniteSet(ages)
    PROVE  IsFiniteSet(Older(ages)) /\ Cardinality(Older(ages)) <= Cardinality(ages)
<1> DEFINE f == [b \in Older(ages) |-> b - 1]
<1>1. f \in Injection(Older(ages), ages)
  <2>1. f \in [Older(ages) -> ages]
    BY DEF Older
  <2>2. \A a, b \in Older(ages) : f[a] = f[b] => a = b
    BY DEF Older
  <2> HIDE DEF f
  <2> QED BY <2>1, <2>2 DEF Injection, IsInjective
<1> QED BY <1>1, FS_Injection

\* The budget's hits are finitely many.
LEMMA BudgetFinite ==
    ASSUME TypeOK
    PROVE  IsFiniteSet(budget) /\ Cardinality(budget) \in Nat
<1>1. budget \in SUBSET (0..(Window - 1)) /\ IsFiniteSet(0..(Window - 1))
  BY FS_Interval, SignInAssumption DEF TypeOK
<1> QED BY <1>1, FS_Subset, FS_CardinalityType

\* Every text asked for has its hit in a budget that is never exceeded.
LEMMA BudgetInvHolds == Spec => []BudgetInv
<1> USE SignInAssumption
<1>1. Init => BudgetInv
  BY FS_EmptySet DEF Init, BudgetInv
<1>2. TypeOK /\ BudgetInv /\ [Next]_vars => BudgetInv'
  <2> SUFFICES ASSUME TypeOK, BudgetInv, [Next]_vars PROVE BudgetInv'
    OBVIOUS
  <2>1. ASSUME UNCHANGED <<asked, budget>>,
               \A r \in Requests : \/ request'[r] = Idle
                                   \/ request[r] # Idle /\ request'[r].waited = request[r].waited
        PROVE  BudgetInv'
    BY <2>1 DEF BudgetInv
  <2>2. ASSUME NEW r \in Requests, Asks(r) PROVE BudgetInv'
    <3>1. Cardinality(budget') <= Rate
      <4>1. \/ Cardinality(budget') = Cardinality(budget)
            \/ Cardinality(budget') = Cardinality(budget) + 1
        BY <2>2, BudgetFinite, FS_AddElement DEF Asks
      <4> QED BY <2>2, <4>1, BudgetFinite DEF Asks
    <3>2. \A s \in Requests :
            request'[s] = request[s] \/ request'[s] = [pc |-> "counts", waited |-> 0]
      BY <2>2 DEF Asks, LooksUp, TypeOK
    <3>3. asked' \subseteq budget' /\ budget' = budget \cup {0}
      BY <2>2 DEF Asks, BudgetInv
    <3> QED BY <3>1, <3>2, <3>3 DEF BudgetInv
  <2>3. ASSUME NEW r \in Requests, Counts(r) \/ Texted(r) \/ Discards(r) PROVE BudgetInv'
    <3>1. request'[r] = Idle \/ request'[r] = [request[r] EXCEPT !.pc = "mints"]
      BY <2>3 DEF Counts, Texted, Discards, TypeOK
    <3>2. request[r] # Idle
      BY <2>3 DEF Counts, Texted, Discards, Idle
    <3>3. request'[r] # Idle => request'[r].waited = request[r].waited
      <4>1. CASE Counts(r)
        <5>1. request[r] \in [pc : {"counts", "mints"}, waited : {0}]
          BY <4>1 DEF Counts, TypeOK, RequestState, Idle
        <5> QED BY <3>1, <5>1
      <4>2. CASE Texted(r) \/ Discards(r)
        BY <4>2 DEF Texted, Discards, TypeOK
      <4> QED BY <2>3, <4>1, <4>2
    <3>4. \A s \in Requests : s # r => request'[s] = request[s]
      BY <2>3 DEF Counts, Texted, Discards, TypeOK
    <3>5. UNCHANGED <<asked, budget>>
      BY <2>3 DEF Counts, Texted, Discards
    <3> QED BY <2>1, <3>2, <3>3, <3>4, <3>5
  <2>4. ASSUME NEW r \in Requests, Mints(r) PROVE BudgetInv'
    <3>1. request[r].waited = 0 /\ 0 \in budget
      BY <2>4, RequestFields DEF Mints, Idle, BudgetInv
    <3>2. \A s \in Requests : request'[s] = request[s] \/ request'[s].waited = 0
      BY <2>4 DEF Mints, TypeOK
    <3> QED BY <2>4, <3>1, <3>2 DEF Mints, BudgetInv
  <2>5. CASE Tick
    <3>1. Cardinality(budget') <= Rate
      <4>1. /\ IsFiniteSet(budget') /\ Cardinality(budget') <= Cardinality(budget)
        BY <2>5, OlderNoMore, BudgetFinite DEF Tick, TypeOK
      <4>2. Cardinality(budget') \in Nat
        BY <4>1, FS_CardinalityType
      <4> QED BY <4>1, <4>2, BudgetFinite DEF BudgetInv
    <3>2. asked' \subseteq budget'
      BY <2>5 DEF Tick, Older, BudgetInv
    <3>3. ASSUME NEW r \in Requests, request'[r] # Idle PROVE request'[r].waited \in budget'
      <4>1. Waiting(r) /\ request[r].waited < SendLimit
        BY <2>5, <3>3 DEF Tick, Waiting, Idle
      <4>2. request[r] \in [pc : {"sends"}, code : Codes, waited : 0..SendLimit]
        BY <4>1 DEF TypeOK, RequestState, Waiting, Idle
      <4>3. request'[r].waited = request[r].waited + 1
        BY <2>5, <4>1, <4>2 DEF Tick
      <4>4. request[r].waited \in budget
        BY <4>1 DEF Waiting, Idle, BudgetInv
      <4>5. request[r].waited + 1 \in Older(budget)
        BY <4>1, <4>2, <4>4 DEF Older
      <4> QED BY <2>5, <4>3, <4>5 DEF Tick
    <3> QED BY <3>1, <3>2, <3>3 DEF BudgetInv
  <2>6. CASE Restart
    BY <2>6, FS_EmptySet DEF Restart, BudgetInv
  <2>7. CASE UNCHANGED <<asked, budget, request>>
    BY <2>7, <2>1
  <2> QED BY <2>2, <2>3, <2>4, <2>5, <2>6, <2>7
          DEF Next, RequestStep, TypistStep, OverBudget, Types, TooLate, Wrong, Burns,
              Right, SignsIn, Purge, ForgetUser, vars
<1> QED BY <1>1, <1>2, TypeCorrect, PTL DEF Spec

\* A step that brings no code into the window, and no request past its count.
LEMMA NoNewCode ==
    ASSUME RateInv, Recent' \subseteq Recent,
           \A r \in Requests : request'[r].pc = "mints" => request[r].pc = "mints"
    PROVE  RateInv'
<1>1. IsFiniteSet(Recent) /\ Cardinality(Recent) \in Nat
  BY FS_CardinalityType DEF RateInv
<1>2. /\ IsFiniteSet(Recent') /\ Cardinality(Recent') <= Cardinality(Recent)
      /\ Cardinality(Recent') \in Nat
  BY <1>1, FS_Subset, FS_CardinalityType
<1>3. Rate \in Nat
  BY SignInAssumption
<1> QED BY <1>1, <1>2, <1>3 DEF RateInv

\* A row of the window that is burnt was in it before.
LEMMA BurntNoNewer ==
    ASSUME TypeOK, NEW c \in Codes, code' = Burnt(c)
    PROVE  Recent' \subseteq Recent
BY DEF TypeOK, Burnt, Consumed, Rows, Recent

\* Between a request's count and its code, nobody else's code comes in.
LEMMA RateInvHolds == Spec => []RateInv
<1> USE SignInAssumption
<1>1. Init => RateInv
  <2> SUFFICES ASSUME Init PROVE RateInv
    OBVIOUS
  <2>1. Recent = {} /\ \A r \in Requests : request[r].pc = "idle"
    BY DEF Init, Recent, Idle
  <2>2. IsFiniteSet({}) /\ Cardinality({}) = 0
    BY FS_EmptySet
  <2> QED BY <2>1, <2>2 DEF RateInv
<1>2. TypeOK /\ TurnsInv /\ RateInv /\ [Next]_vars => RateInv'
  <2> SUFFICES ASSUME TypeOK, TurnsInv, RateInv, [Next]_vars PROVE RateInv'
    OBVIOUS
  <2>a. /\ IsFiniteSet(Recent) /\ Cardinality(Recent) \in Nat
        /\ \A r \in Requests : request[r].pc = "mints" => Cardinality(Recent) < Rate
    BY FS_CardinalityType DEF RateInv
  <2>1. ASSUME UNCHANGED <<code, request>> PROVE RateInv'
    BY <2>1 DEF RateInv, Recent
  <2>2. ASSUME NEW r \in Requests, Asks(r) PROVE RateInv'
    <3>1. Recent' = Recent /\ \A s \in Requests : request'[s].pc = "mints" => request[s].pc = "mints"
      BY <2>2 DEF Asks, LooksUp, TypeOK, Recent
    <3> QED BY <3>1, NoNewCode
  <2>3. ASSUME NEW r \in Requests, Counts(r) PROVE RateInv'
    <3>1. Recent' = Recent
      BY <2>3 DEF Counts, Recent
    <3>2. CASE request' = [request EXCEPT ![r] = Idle]
      BY <3>1, <3>2, NoNewCode DEF TypeOK, Idle
    <3>3. CASE Cardinality(Recent) < Rate
      BY <2>a, <3>1, <3>3 DEF RateInv
    <3> QED BY <2>3, <3>2, <3>3 DEF Counts
  <2>4. ASSUME NEW r \in Requests, Mints(r) PROVE RateInv'
    <3>1. PICK c \in Codes :
            /\ code' = [d \in Codes |-> IF d = c THEN NewRow
                                        ELSE IF d \in Live THEN Consumed(code[d]) ELSE code[d]]
            /\ request' = [request EXCEPT ![r] = [pc |-> "sends", code |-> c, waited |-> 0]]
      BY <2>4 DEF Mints
    <3>2. \A d \in Codes : d # c =>
            /\ code'[d] = NoRow <=> code[d] = NoRow
            /\ code'[d].age = code[d].age
      <4> SUFFICES ASSUME NEW d \in Codes, d # c
                   PROVE  /\ code'[d] = NoRow <=> code[d] = NoRow
                          /\ code'[d].age = code[d].age
        OBVIOUS
      <4>1. CASE d \in Live
        <5>1. code[d] \in Rows
          BY <4>1 DEF Live, TypeOK, NoRow
        <5>2. Consumed(code[d]).age = code[d].age
          BY <5>1 DEF Consumed, Rows
        <5> QED BY <3>1, <4>1, <5>1, <5>2, RowsStayRows
      <4>2. CASE d \notin Live
        BY <3>1, <4>2
      <4> QED BY <4>1, <4>2
    <3>3. Recent' \subseteq Recent \cup {c}
      BY <3>2 DEF Recent
    <3>4. Cardinality(Recent) < Rate
      BY <2>a, <2>4 DEF Mints
    <3>5. /\ IsFiniteSet(Recent \cup {c})
          /\ \/ Cardinality(Recent \cup {c}) = Cardinality(Recent)
             \/ Cardinality(Recent \cup {c}) = Cardinality(Recent) + 1
      BY <2>a, FS_AddElement
    <3>6. /\ IsFiniteSet(Recent') /\ Cardinality(Recent') \in Nat
          /\ Cardinality(Recent') <= Cardinality(Recent \cup {c})
      BY <3>3, <3>5, FS_Subset, FS_CardinalityType
    <3>7. \A s \in Requests : request'[s].pc # "mints"
      <4>1. \A s \in Requests : s # r => request[s] = Idle
        BY <2>4 DEF Mints, TurnsInv, Idle
      <4> QED BY <3>1, <4>1 DEF TypeOK, Idle
    <3> QED BY <2>a, <3>4, <3>5, <3>6, <3>7 DEF RateInv
  <2>5. ASSUME NEW r \in Requests, Texted(r) PROVE RateInv'
    <3>1. Recent' = Recent /\ \A s \in Requests : request'[s] = request[s] \/ request'[s] = Idle
      BY <2>5 DEF Texted, TypeOK, Recent
    <3> QED BY <3>1, NoNewCode DEF Idle
  <2>6. ASSUME NEW r \in Requests, Discards(r) PROVE RateInv'
    <3>1. Recent' \subseteq Recent
      BY <2>6 DEF Discards, Recent
    <3>2. \A s \in Requests : request'[s] = request[s] \/ request'[s] = Idle
      BY <2>6 DEF Discards, TypeOK
    <3> QED BY <3>1, <3>2, NoNewCode DEF Idle
  <2>7. ASSUME NEW t \in Typists, TooLate(t) \/ Burns(t) \/ Right(t) PROVE RateInv'
    <3>1. typist[t].code \in Codes /\ UNCHANGED request /\ code' = Burnt(typist[t].code)
      BY <2>7, TypistFields DEF TooLate, Burns, Right
    <3>2. Recent' \subseteq Recent
      BY <3>1, BurntNoNewer
    <3> QED BY <3>1, <3>2, NoNewCode
  <2>8. ASSUME NEW t \in Typists, Wrong(t) PROVE RateInv'
    <3>1. typist[t].code \in Codes /\ UNCHANGED request
      BY <2>8, TypistFields DEF Wrong
    <3>2. Recent' \subseteq Recent
      BY <2>8, <3>1 DEF Wrong, Missed, TypeOK, Rows, Recent
    <3> QED BY <3>1, <3>2, NoNewCode
  <2>9. CASE Purge
    <3>1. Recent' \subseteq Recent
      BY <2>9 DEF Purge, Recent
    <3> QED BY <2>9, <3>1, NoNewCode DEF Purge
  <2>10. CASE Tick
    <3>1. ASSUME NEW c \in Codes, code'[c] # NoRow, code'[c].age < Window
          PROVE  code[c] # NoRow /\ code[c].age < Window
      <4>1. code[c] # NoRow /\ code[c] \in Rows
        BY <2>10, <3>1 DEF Tick, TypeOK
      <4>2. \/ code'[c].age = code[c].age
            \/ code'[c].age = code[c].age + 1
        BY <2>10, <4>1 DEF Tick, Rows
      <4> QED BY <3>1, <4>1, <4>2 DEF Rows, AgeCap
    <3>2. Recent' \subseteq Recent
      BY <3>1 DEF Recent
    <3>3. ASSUME NEW r \in Requests, request'[r].pc = "mints" PROVE request[r].pc = "mints"
      <4>1. request[r] = Idle \/ Waiting(r)
        BY <2>10 DEF Tick
      <4>2. Waiting(r) => request[r] \in [pc : {"sends"}, code : Codes, waited : 0..SendLimit]
        BY DEF Waiting, TypeOK, RequestState, Idle
      <4>3. request'[r].pc = request[r].pc
        BY <2>10, <4>1, <4>2 DEF Tick
      <4> QED BY <3>3, <4>3
    <3> QED BY <3>2, <3>3, NoNewCode
  <2>11. CASE Restart
    <3>1. Recent' = Recent /\ \A r \in Requests : request'[r] = Idle
      BY <2>11 DEF Restart, Recent
    <3> QED BY <3>1, NoNewCode DEF Idle
  <2>12. CASE ForgetUser
    <3>1. Recent' \subseteq Recent
      BY <2>12 DEF ForgetUser, Recent
    <3> QED BY <2>12, <3>1, NoNewCode DEF ForgetUser
  <2> QED BY <2>1, <2>2, <2>3, <2>4, <2>5, <2>6, <2>7, <2>8, <2>9, <2>10, <2>11, <2>12
          DEF Next, RequestStep, TypistStep, OverBudget, Types, SignsIn, vars
<1> QED BY <1>1, <1>2, TypeCorrect, TurnsHold, PTL DEF Spec

\* No process asks for more texts in a window than the rate allows, whatever it
\* takes back or forgets, and no more codes than that are on record, however often
\* the limiters in memory are lost.
THEOREM RateIsKept == Spec => []RateHolds
<1>1. TypeOK /\ BudgetInv /\ RateInv => RateHolds
  <2> SUFFICES ASSUME TypeOK, BudgetInv, RateInv PROVE RateHolds
    OBVIOUS
  <2>1. asked \in SUBSET budget /\ Cardinality(budget) <= Rate /\ Rate \in Nat
    BY SignInAssumption DEF BudgetInv
  <2>2. IsFiniteSet(asked) /\ Cardinality(asked) <= Cardinality(budget)
    BY <2>1, BudgetFinite, FS_Subset
  <2>3. Cardinality(asked) \in Nat
    BY <2>2, FS_CardinalityType
  <2> QED BY <2>1, <2>2, <2>3, BudgetFinite DEF RateHolds, RateInv
<1> QED BY <1>1, TypeCorrect, BudgetInvHolds, RateInvHolds, PTL
=============================================================================
