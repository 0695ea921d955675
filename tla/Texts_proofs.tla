--------------------------- MODULE Texts_proofs ---------------------------
(***************************************************************************)
(* Proofs about Texts: its type invariant, that a message takes one turn,  *)
(* that what is kept of that turn is what its deliveries are answered, and *)
(* that Texts implements Inbox, for any number of messages, handlers,      *)
(* deliveries and faults. Fairness plays no part in them.                  *)
(***************************************************************************)
EXTENDS Texts, SequenceTheorems, TLAPS

----------------------------------------------------------------------------
(* Types.                                                                  *)

\* Replacing an element, where there is one to replace, keeps a sequence typed.
LEMMA ReplacedTyped ==
    ASSUME NEW S, NEW seq \in Seq(S), NEW i, NEW e, i \in 1..Len(seq) => e \in S
    PROVE  [seq EXCEPT ![i] = e] \in Seq(S)
<1>1. CASE i \in 1..Len(seq)
  BY <1>1, ExceptSeq
<1>2. CASE i \notin 1..Len(seq)
  <2>1. seq \in [1..Len(seq) -> S]
    BY LenProperties
  <2>2. [seq EXCEPT ![i] = e] = seq
    BY <1>2, <2>1
  <2> QED BY <2>2
<1> QED BY <1>1, <1>2

\* Replacing what a function maps somebody to keeps it typed.
LEMMA UpdatedTyped ==
    ASSUME NEW D, NEW S, NEW f \in [D -> S], NEW d, NEW e, d \in D => e \in S
    PROVE  [f EXCEPT ![d] = e] \in [D -> S]
OBVIOUS

\* The bounds are numbers.
LEMMA Bounds ==
    /\ MaxRounds \in Nat \ {0} /\ TTL \in Nat /\ MaxClock \in Nat
    /\ MaxDeliveries \in Nat /\ MaxFaults \in Nat
BY TextsAssumption

\* What deliveries can be told.
Told == {Sorry} \cup Nat

\* A handler with nothing to do is a handler.
LEMMA IdleHandler == Idle \in Handler
BY Bounds DEF Idle, Handler, Keys, Pcs

\* Going on to another step, and answering, keep the handlers typed.
LEMMA GoesTyped ==
    ASSUME handler \in [Handlers -> Handler], NEW h \in Handlers, handler[h].pc # "idle",
           NEW pc \in Pcs, Goes(h, pc)
    PROVE  handler' \in [Handlers -> Handler]
<1>1. \A t \in Handler : t.pc # "idle" => [t EXCEPT !.pc = pc] \in Handler
  BY DEF Handler
<1> QED BY <1>1 DEF Goes

LEMMA AnswersTyped ==
    ASSUME handler \in [Handlers -> Handler], answers \in [Messages -> SUBSET Told],
           NEW h \in Handlers, NEW r \in Told, Answers(h, r)
    PROVE  handler' \in [Handlers -> Handler] /\ answers' \in [Messages -> SUBSET Told]
BY IdleHandler DEF Answers

\* A turn that begins is counted.
LEMMA TurnTyped ==
    ASSUME handler \in [Handlers -> Handler], turns \in [Messages -> Nat],
           NEW h \in Handlers, handler[h].pc # "idle", TurnBegins(h)
    PROVE  handler' \in [Handlers -> Handler] /\ turns' \in [Messages -> Nat]
<1>1. handler' \in [Handlers -> Handler]
  BY GoesTyped DEF TurnBegins, Pcs
<1>2. turns' = [turns EXCEPT ![handler[h].msg] = turns[handler[h].msg] + 1]
  BY DEF TurnBegins
<1>3. handler[h].msg \in Messages
  BY DEF Handler
<1>4. turns[handler[h].msg] + 1 \in Nat
  BY <1>3
<1>5. turns' \in [Messages -> Nat]
  BY <1>2, <1>4, UpdatedTyped
<1> QED BY <1>1, <1>5

\* Marking a question as put keeps the sessions typed.
LEMMA MarkTyped ==
    ASSUME sessions \in Seq(Session), NEW s, NEW k \in Keys, MarkAsked(s, k)
    PROVE  sessions' \in Seq(Session)
<1> DEFINE e == [sessions[s] EXCEPT !.items[k].asked = TRUE]
<1>1. \A r \in Session : [r EXCEPT !.items[k].asked = TRUE] \in Session
  BY DEF Session, Item
<1>2. s \in 1..Len(sessions) => e \in Session
  BY <1>1, ElementOfSeq
<1>3. sessions' = [sessions EXCEPT ![s] = e]
  BY DEF MarkAsked
<1> HIDE DEF e
<1> QED BY <1>2, <1>3, ReplacedTyped

\* The next question is one of the template's.
LEMMA NextIsKey == \A s : NextChecklistItem(s) \subseteq Keys
BY DEF NextChecklistItem, CheckinTemplate, Keys

\* A step that disturbs only the handlers.
LEMMA OnlyHandlers ==
    ASSUME TypeOK, handler' \in [Handlers -> Handler], faults' \in 0..MaxFaults,
           UNCHANGED <<clock, sessions, log>>
    PROVE  TypeOK'
BY DEF TypeOK, log

\* A step that answers a delivery.
LEMMA OnlyAnswers ==
    ASSUME TypeOK, handler' \in [Handlers -> Handler], faults' \in 0..MaxFaults,
           answers' \in [Messages -> SUBSET Told],
           UNCHANGED <<clock, sessions, response, sent, turns, blind>>
    PROVE  TypeOK'
BY DEF TypeOK, Told

\* A failure is counted.
LEMMA FailsTyped == TypeOK /\ Fails => faults' \in 0..MaxFaults
BY Bounds DEF TypeOK, Fails

\* The rows and the handlers keep their types.
THEOREM TypeCorrect == Spec => []TypeOK
<1>1. Init => TypeOK
  <2> SUFFICES ASSUME Init PROVE TypeOK
    OBVIOUS
  <2>1. sessions \in Seq(Session)
    BY EmptySeq DEF Init
  <2>2. handler \in [Handlers -> Handler]
    BY IdleHandler DEF Init
  <2> QED BY <2>1, <2>2, Bounds DEF Init, TypeOK, NoRow
<1>2. TypeOK /\ [Next]_vars => TypeOK'
  <2> SUFFICES ASSUME TypeOK, [Next]_vars PROVE TypeOK'
    OBVIOUS
  <2>a. /\ handler \in [Handlers -> Handler] /\ answers \in [Messages -> SUBSET Told]
        /\ turns \in [Messages -> Nat] /\ sessions \in Seq(Session)
        /\ response \in [Messages -> {NoRow} \cup Nat]
        /\ faults \in 0..MaxFaults /\ clock \in 0..MaxClock
        /\ Sorry \in Told /\ \A n \in Nat : n \in Told
    BY DEF TypeOK, Told
  <2>b. \A h \in Handlers : /\ handler[h].session \in Nat /\ handler[h].key \in Keys
                             /\ handler[h].round \in 0..MaxRounds - 1
                             /\ handler[h].carried \subseteq Keys
    BY <2>a DEF Handler
  <2>c. \A h \in Handlers : handler[h].pc # "idle" =>
           /\ handler[h].msg \in Messages /\ turns[handler[h].msg] \in Nat
           /\ response[handler[h].msg] \in {NoRow} \cup Nat
    BY <2>a DEF Handler
  <2>1. ASSUME NEW h \in Handlers, NEW m \in Messages, Arrives(h, m) PROVE TypeOK'
    <3> DEFINE t == [Idle EXCEPT !.msg = m, !.pc = IF m \in Saves THEN "ensure" ELSE "select"]
    <3>1. t \in Handler
      BY IdleHandler DEF Handler, Pcs
    <3>2. handler' \in [Handlers -> Handler]
      <4>1. handler' = handler \/ handler' = [handler EXCEPT ![h] = t]
        BY <2>1 DEF Arrives
      <4> HIDE DEF t
      <4> QED BY <2>a, <3>1, <4>1
    <3>3. faults' \in 0..MaxFaults
      BY <2>1, <2>a, FailsTyped DEF Arrives
    <3>4. answers' \in [Messages -> SUBSET Told]
      BY <2>1, <2>a DEF Arrives
    <3>5. sent' \in 0..MaxDeliveries
      BY <2>1, Bounds DEF Arrives, TypeOK
    <3> QED BY <2>1, <3>2, <3>3, <3>4, <3>5 DEF Arrives, TypeOK, Told
  <2>2. ASSUME NEW h \in Handlers, LookupFails(h) PROVE TypeOK'
    <3>1. handler' \in [Handlers -> Handler] /\ turns' \in [Messages -> Nat]
      BY <2>2, <2>a, TurnTyped DEF LookupFails
    <3>2. blind' \subseteq Messages
      BY <2>2, <2>c DEF LookupFails, TypeOK
    <3>3. faults' \in 0..MaxFaults
      BY <2>2, FailsTyped DEF LookupFails
    <3> QED BY <2>2, <3>1, <3>2, <3>3 DEF LookupFails, TypeOK
  <2>3. ASSUME NEW h \in Handlers, KeySelected(h) PROVE TypeOK'
    <3>1. CASE response[handler[h].msg] # NoRow
      <4>1. response[handler[h].msg] \in Nat
        BY <2>3, <2>c, <3>1 DEF KeySelected
      <4> QED BY <2>3, <2>a, <3>1, <4>1, AnswersTyped, OnlyAnswers DEF KeySelected
    <3>2. CASE response[handler[h].msg] = NoRow
      BY <2>3, <2>a, <3>2, GoesTyped, OnlyAnswers DEF KeySelected, Pcs
    <3> QED BY <3>1, <3>2
  <2>4. ASSUME NEW h \in Handlers, KeyInserted(h) PROVE TypeOK'
    <3> DEFINE m == handler[h].msg
    <3>0. m \in Messages
      BY <2>4, <2>c DEF KeyInserted
    <3>1. CASE response[m] = NoRow
      <4>1. response' = [response EXCEPT ![m] = Blank] /\ TurnBegins(h)
        BY <2>4, <3>1 DEF KeyInserted
      <4>2. response' \in [Messages -> {NoRow} \cup Nat]
        BY <2>a, <4>1 DEF Blank
      <4>3. handler' \in [Handlers -> Handler] /\ turns' \in [Messages -> Nat]
        BY <2>4, <2>a, <4>1, TurnTyped DEF KeyInserted
      <4> QED BY <2>4, <3>1, <4>2, <4>3 DEF KeyInserted, TypeOK
    <3>2. CASE response[m] # NoRow
      <4>1. response[m] \in Nat
        BY <2>a, <3>0, <3>2
      <4> QED BY <2>4, <2>a, <3>2, <4>1, AnswersTyped, OnlyAnswers DEF KeyInserted
    <3> QED BY <3>1, <3>2
  <2>5. ASSUME NEW h \in Handlers, ResponseStored(h) PROVE TypeOK'
    <3> DEFINE m == handler[h].msg
    <3>0. m \in Messages /\ turns[m] \in Nat
      BY <2>5, <2>c DEF ResponseStored
    <3>1. handler' \in [Handlers -> Handler] /\ answers' \in [Messages -> SUBSET Told]
      BY <2>5, <2>a, <3>0, AnswersTyped DEF ResponseStored
    <3>2. response' \in [Messages -> {NoRow} \cup Nat]
      BY <2>5, <2>a, <3>0 DEF ResponseStored
    <3>3. faults' \in 0..MaxFaults
      BY <2>5, <2>a, FailsTyped DEF ResponseStored
    <3> QED BY <2>5, <3>1, <3>2, <3>3 DEF ResponseStored, TypeOK, Told
  <2>6. ASSUME NEW h \in Handlers, Ensures(h) PROVE TypeOK'
    <3>1. \A t \in Handler, s \in Nat, pc \in {"select", "current"} : t.pc # "idle" =>
             [t EXCEPT !.session = s, !.pc = pc] \in Handler
      BY DEF Handler, Pcs
    <3>2. \A t \in Handler, c \in SUBSET Keys : t.pc # "idle" =>
             [t EXCEPT !.pc = "create", !.carried = c] \in Handler
      BY DEF Handler, Pcs
    <3>3. handler[h].pc # "idle" /\ handler[h] \in Handler
      BY <2>6, <2>a DEF Ensures
    <3>4. \/ \E s \in Nat, pc \in {"select", "current"} :
                handler' = [handler EXCEPT ![h] = [handler[h] EXCEPT !.session = s, !.pc = pc]]
          \/ \E c \in SUBSET Keys :
                handler' = [handler EXCEPT ![h] =
                              [handler[h] EXCEPT !.pc = "create", !.carried = c]]
      <4>0. CarriedForward \in SUBSET Keys /\ \A k : CarriedForward \ {k} \in SUBSET Keys
        BY DEF CarriedForward
      <4> DEFINE ch == IF handler[h].msg \in Saves THEN "call" ELSE "sms"
                 found == {s \in 1..Len(sessions) : sessions[s].channel = ch}
      <4>1. found \subseteq Nat
        OBVIOUS
      <4>2. \A c : handler' = [handler EXCEPT ![h].pc = "create", ![h].carried = c]
                     => handler' = [handler EXCEPT ![h] =
                                      [handler[h] EXCEPT !.pc = "create", !.carried = c]]
        BY <2>a
      <4>3. \/ \E s \in Nat, pc \in {"select", "current"} :
                 handler' = [handler EXCEPT ![h].session = s, ![h].pc = pc]
            \/ \E c \in SUBSET Keys :
                 handler' = [handler EXCEPT ![h].pc = "create", ![h].carried = c]
        BY <2>6, <4>0, <4>1 DEF Ensures
      <4>4. CASE \E s \in Nat, pc \in {"select", "current"} :
                    handler' = [handler EXCEPT ![h].session = s, ![h].pc = pc]
        <5>1. PICK s \in Nat, pc \in {"select", "current"} :
                 handler' = [handler EXCEPT ![h].session = s, ![h].pc = pc]
          BY <4>4
        <5>2. handler' = [handler EXCEPT ![h] = [handler[h] EXCEPT !.session = s, !.pc = pc]]
          BY <2>a, <5>1
        <5> QED BY <5>2
      <4>5. CASE \E c \in SUBSET Keys :
                    handler' = [handler EXCEPT ![h].pc = "create", ![h].carried = c]
        BY <4>2, <4>5
      <4> QED BY <4>3, <4>4, <4>5
    <3>5. handler' \in [Handlers -> Handler]
      <4>1. CASE \E s \in Nat, pc \in {"select", "current"} :
                    handler' = [handler EXCEPT ![h] = [handler[h] EXCEPT !.session = s, !.pc = pc]]
        <5>1. PICK s \in Nat, pc \in {"select", "current"} :
                 handler' = [handler EXCEPT ![h] = [handler[h] EXCEPT !.session = s, !.pc = pc]]
          BY <4>1
        <5>2. [handler[h] EXCEPT !.session = s, !.pc = pc] \in Handler
          BY <3>1, <3>3
        <5> QED BY <2>a, <5>1, <5>2
      <4>2. CASE \E c \in SUBSET Keys :
                    handler' = [handler EXCEPT ![h] =
                                  [handler[h] EXCEPT !.pc = "create", !.carried = c]]
        <5>1. PICK c \in SUBSET Keys :
                 handler' = [handler EXCEPT ![h] =
                               [handler[h] EXCEPT !.pc = "create", !.carried = c]]
          BY <4>2
        <5>2. [handler[h] EXCEPT !.pc = "create", !.carried = c] \in Handler
          BY <3>2, <3>3
        <5> QED BY <2>a, <5>1, <5>2
      <4> QED BY <3>4, <4>1, <4>2
    <3>6. faults' \in 0..MaxFaults
      BY <2>6, <2>a, FailsTyped DEF Ensures
    <3> QED BY <2>6, <3>5, <3>6, OnlyHandlers DEF Ensures
  <2>7. ASSUME NEW h \in Handlers, SessionCreated(h) PROVE TypeOK'
    <3> DEFINE saves == handler[h].msg \in Saves
               new == [channel |-> IF saves THEN "call" ELSE "sms",
                       items |-> [k \in Keys |-> IF k \in handler[h].carried
                         THEN [Unsettled EXCEPT !.status = "settled", !.at = clock]
                         ELSE Unsettled]]
               t == [handler[h] EXCEPT !.pc = IF saves THEN "select" ELSE "current",
                       !.session = Len(sessions) + 1, !.carried = {}]
    <3>1. new \in Session
      <4>1. Unsettled \in Item
        BY Bounds DEF Unsettled, Item
      <4>2. \A i \in Item : [i EXCEPT !.status = "settled", !.at = clock] \in Item
        BY <2>a DEF Item
      <4> QED BY <4>1, <4>2 DEF Session
    <3>2. sessions' \in Seq(Session)
      <4>1. sessions' = Append(sessions, new)
        BY <2>7 DEF SessionCreated
      <4> HIDE DEF new
      <4> QED BY <2>a, <3>1, <4>1, AppendProperties
    <3>3. t \in Handler
      <4>1. Len(sessions) + 1 \in Nat
        BY <2>a, LenProperties
      <4>2. handler[h].pc # "idle" /\ handler[h] \in Handler
        BY <2>7, <2>a DEF SessionCreated
      <4> QED BY <4>1, <4>2 DEF Handler, Pcs
    <3>4. handler' = [handler EXCEPT ![h] = t]
      BY <2>7 DEF SessionCreated
    <3>5. handler' \in [Handlers -> Handler]
      <4> HIDE DEF t
      <4> QED BY <2>a, <3>3, <3>4
    <3> QED BY <2>7, <3>2, <3>5 DEF SessionCreated, TypeOK, log
  <2>18. ASSUME NEW h \in Handlers, EnsureFails(h) PROVE TypeOK'
    <3>1. handler' \in [Handlers -> Handler] /\ answers' \in [Messages -> SUBSET Told]
      <4>1. CASE handler[h].msg \in Saves
        BY <2>18, <2>a, <4>1, AnswersTyped DEF EnsureFails
      <4>2. CASE handler[h].msg \notin Saves
        <5>1. /\ handler' = [handler EXCEPT ![h] =
                               [handler[h] EXCEPT !.pc = "model", !.carried = {}]]
              /\ UNCHANGED answers
          BY <2>18, <2>a, <4>2 DEF EnsureFails
        <5>2. [handler[h] EXCEPT !.pc = "model", !.carried = {}] \in Handler
          BY <2>18, <2>a DEF EnsureFails, Handler, Pcs
        <5> QED BY <2>a, <5>1, <5>2
      <4> QED BY <4>1, <4>2
    <3> QED BY <2>18, <3>1, FailsTyped, OnlyAnswers DEF EnsureFails
  <2>8. ASSUME NEW h \in Handlers, Interviews(h) PROVE TypeOK'
    <3>1. \A t \in Handler, k \in Keys : t.pc # "idle" =>
             [t EXCEPT !.pc = "write", !.key = k] \in Handler
      BY DEF Handler, Pcs
    <3>2. handler' \in [Handlers -> Handler]
      <4>1. ASSUME NEW k \in Keys, Takes(h, k) PROVE handler' \in [Handlers -> Handler]
        BY <2>8, <2>a, <3>1, <4>1 DEF Interviews, Takes
      <4>2. ASSUME NEW pc \in Pcs, Goes(h, pc) PROVE handler' \in [Handlers -> Handler]
        BY <2>8, <2>a, <4>2, GoesTyped DEF Interviews
      <4> QED BY <2>8, <4>1, <4>2, NextIsKey DEF Interviews, Pcs
    <3>3. sessions' \in Seq(Session)
      BY <2>8, <2>a, MarkTyped, NextIsKey DEF Interviews
    <3>4. faults' \in 0..MaxFaults
      BY <2>8, <2>a, FailsTyped DEF Interviews
    <3> QED BY <2>8, <3>2, <3>3, <3>4 DEF Interviews, TypeOK, log
  <2>9. ASSUME NEW h \in Handlers, AsksAgain(h) PROVE TypeOK'
    BY <2>9, <2>a, GoesTyped, OnlyHandlers DEF AsksAgain, Pcs
  <2>10. ASSUME NEW h \in Handlers, NEW k \in Keys, Saved(h, k) PROVE TypeOK'
    <3>1. \A t \in Handler : t.pc # "idle" => [t EXCEPT !.pc = "write", !.key = k] \in Handler
      BY DEF Handler, Pcs
    <3>2. turns[handler[h].msg] \in Nat
      BY <2>10, <2>c DEF Saved
    <3>3. handler' \in [Handlers -> Handler] /\ answers' \in [Messages -> SUBSET Told]
      <4>1. CASE Takes(h, k) /\ UNCHANGED answers
        <5>1. [handler[h] EXCEPT !.pc = "write", !.key = k] \in Handler
          BY <2>10, <2>a, <3>1 DEF Saved
        <5>2. handler' = [handler EXCEPT ![h] = [handler[h] EXCEPT !.pc = "write", !.key = k]]
          BY <2>a, <4>1 DEF Takes
        <5> QED BY <2>a, <4>1, <5>1, <5>2
      <4>2. CASE Answers(h, turns[handler[h].msg])
        BY <2>a, <3>2, <4>2, AnswersTyped
      <4> QED BY <2>10, <4>1, <4>2 DEF Saved
    <3> QED BY <2>10, <2>a, <3>3, OnlyAnswers DEF Saved
  <2>11. ASSUME NEW h \in Handlers, NEW status \in {"settled", "skipped"},
                AnswerWritten(h, status)
         PROVE  TypeOK'
    <3> DEFINE s == handler[h].session
               k == handler[h].key
               e == [sessions[s] EXCEPT !.items[k] =
                       [@ EXCEPT !.status = status, !.at = clock]]
    <3>1. \A r \in Session : [r EXCEPT !.items[k] = [@ EXCEPT !.status = status, !.at = clock]]
                               \in Session
      <4>1. \A i \in Item : [i EXCEPT !.status = status, !.at = clock] \in Item
        BY <2>a DEF Item
      <4>2. \A f \in [Keys -> Item] :
               [f EXCEPT ![k] = [@ EXCEPT !.status = status, !.at = clock]] \in [Keys -> Item]
        BY <2>b, <4>1
      <4> QED BY <4>2 DEF Session
    <3>2. s \in 1..Len(sessions) => e \in Session
      BY <2>a, <3>1, ElementOfSeq
    <3>3. sessions' = [sessions EXCEPT ![s] = e]
      BY <2>11 DEF AnswerWritten
    <3>4. sessions' \in Seq(Session)
      <4> HIDE DEF s, e
      <4> QED BY <2>a, <3>2, <3>3, ReplacedTyped
    <3>5. handler' \in [Handlers -> Handler]
      BY <2>11, <2>a, GoesTyped DEF AnswerWritten, Pcs
    <3> QED BY <2>11, <3>4, <3>5 DEF AnswerWritten, TypeOK, log
  <2>12. ASSUME NEW h \in Handlers, WriteFails(h) PROVE TypeOK'
    <3>1. turns[handler[h].msg] \in Nat
      BY <2>12, <2>c DEF WriteFails
    <3>2. handler' \in [Handlers -> Handler] /\ answers' \in [Messages -> SUBSET Told]
      BY <2>12, <2>a, <3>1, AnswersTyped, GoesTyped DEF WriteFails, Pcs
    <3> QED BY <2>12, <3>2, FailsTyped, OnlyAnswers DEF WriteFails
  <2>13. ASSUME NEW h \in Handlers, AsksNext(h) PROVE TypeOK'
    <3>1. handler' \in [Handlers -> Handler]
      BY <2>13, <2>a, GoesTyped DEF AsksNext, Pcs
    <3>2. sessions' \in Seq(Session)
      BY <2>13, <2>a, MarkTyped, NextIsKey DEF AsksNext
    <3>3. faults' \in 0..MaxFaults
      BY <2>13, <2>a, FailsTyped DEF AsksNext
    <3> QED BY <2>13, <3>1, <3>2, <3>3 DEF AsksNext, TypeOK, log
  <2>14. ASSUME NEW h \in Handlers, ModelAnswers(h) \/ RunsTools(h) PROVE TypeOK'
    <3>1. \A t \in Handler, pc \in {"model", "store"}, r \in 0..MaxRounds - 1 :
             t.pc # "idle" => [t EXCEPT !.pc = pc, !.round = r] \in Handler
      BY DEF Handler, Pcs
    <3>2. \E pc \in {"model", "store"}, r \in 0..MaxRounds - 1 :
             handler' = [handler EXCEPT ![h] = [handler[h] EXCEPT !.pc = pc, !.round = r]]
      <4>1. CASE ModelAnswers(h)
        <5>1. 0 \in 0..MaxRounds - 1
          BY Bounds
        <5>2. handler' = [handler EXCEPT ![h] = [handler[h] EXCEPT !.pc = "store", !.round = 0]]
          BY <2>a, <4>1 DEF ModelAnswers
        <5> QED BY <5>1, <5>2
      <4>2. CASE RunsTools(h)
        <5> DEFINE r == handler[h].round + 1
                   pc == IF r < MaxRounds THEN "model" ELSE "store"
                   n == IF r < MaxRounds THEN r ELSE 0
        <5>1. n \in 0..MaxRounds - 1 /\ pc \in {"model", "store"}
          BY <2>b, Bounds
        <5>2. handler' = [handler EXCEPT ![h] = [handler[h] EXCEPT !.pc = pc, !.round = n]]
          BY <2>a, <4>2 DEF RunsTools
        <5> HIDE DEF n, pc
        <5> QED BY <5>1, <5>2
      <4> QED BY <2>14, <4>1, <4>2
    <3>3. handler[h].pc # "idle"
      BY <2>14 DEF ModelAnswers, RunsTools
    <3>4. handler' \in [Handlers -> Handler]
      <4>1. PICK pc \in {"model", "store"}, r \in 0..MaxRounds - 1 :
               handler' = [handler EXCEPT ![h] = [handler[h] EXCEPT !.pc = pc, !.round = r]]
        BY <3>2
      <4>2. [handler[h] EXCEPT !.pc = pc, !.round = r] \in Handler
        BY <2>a, <3>1, <3>3
      <4> QED BY <2>a, <4>1, <4>2
    <3> QED BY <2>14, <2>a, <3>4, OnlyHandlers DEF ModelAnswers, RunsTools
  <2>15. CASE Crash
    <3>1. handler' \in [Handlers -> Handler]
      BY <2>15, IdleHandler DEF Crash
    <3> QED BY <2>15, <2>a, <3>1, OnlyHandlers DEF Crash
  <2>16. CASE Tick
    BY <2>16, Bounds DEF Tick, TypeOK, log
  <2>17. CASE UNCHANGED vars
    BY <2>17 DEF vars, TypeOK
  <2> QED BY <2>1, <2>2, <2>3, <2>4, <2>5, <2>6, <2>7, <2>8, <2>9, <2>10, <2>11, <2>12,
             <2>13, <2>14, <2>15, <2>16, <2>17, <2>18 DEF Next, Step
<1> QED BY <1>1, <1>2, PTL DEF Spec

----------------------------------------------------------------------------
(* Turns and what is kept of them.                                         *)

\* A message whose key could always be looked up: it took a turn only once its
\* row was there, and what the row keeps is that turn's.
KeyInv ==
    \A m \in Messages \ blind :
        /\ turns[m] <= 1
        /\ turns[m] > 0 => response[m] # NoRow
        /\ response[m] > Blank => response[m] = turns[m]

\* The rows are in step with the turns, whatever deliveries overlap.
LEMMA KeyInvHolds == Spec => []KeyInv
<1>1. Init => KeyInv
  <2> SUFFICES ASSUME Init, NEW m \in Messages \ blind
               PROVE  /\ turns[m] <= 1
                      /\ turns[m] > 0 => response[m] # NoRow
                      /\ response[m] > Blank => response[m] = turns[m]
    BY DEF KeyInv
  <2>1. turns[m] = 0 /\ response[m] = NoRow
    BY DEF Init
  <2>2. ~(NoRow > Blank)
    BY DEF NoRow, Blank
  <2>3. turns[m] <= 1 /\ ~(turns[m] > 0)
    BY <2>1
  <2> QED BY <2>1, <2>2, <2>3
<1>2. TypeOK /\ KeyInv /\ [Next]_vars => KeyInv'
  <2> SUFFICES ASSUME TypeOK, KeyInv, [Next]_vars PROVE KeyInv'
    OBVIOUS
  <2>a. /\ turns \in [Messages -> Nat] /\ response \in [Messages -> {NoRow} \cup Nat]
        /\ \A h \in Handlers : handler[h].pc # "idle" => handler[h].msg \in Messages
    BY DEF TypeOK, Handler
  <2>1. ASSUME UNCHANGED <<turns, response, blind>> PROVE KeyInv'
    BY <2>1 DEF KeyInv
  <2>2. ASSUME NEW h \in Handlers, LookupFails(h) PROVE KeyInv'
    <3>1. /\ turns' = [turns EXCEPT ![handler[h].msg] = turns[handler[h].msg] + 1]
          /\ blind' = blind \cup {handler[h].msg} /\ UNCHANGED response
      BY <2>2 DEF LookupFails, TurnBegins
    <3>2. \A m \in Messages \ blind' : m \in Messages \ blind /\ turns'[m] = turns[m]
      BY <2>a, <3>1
    <3> QED BY <3>1, <3>2 DEF KeyInv
  <2>3. ASSUME NEW h \in Handlers, KeyInserted(h) PROVE KeyInv'
    <3> DEFINE m == handler[h].msg
    <3>1. CASE response[m] # NoRow
      BY <2>1, <2>3, <3>1 DEF KeyInserted
    <3>2. CASE response[m] = NoRow
      <4>1. /\ turns' = [turns EXCEPT ![m] = turns[m] + 1]
            /\ response' = [response EXCEPT ![m] = Blank] /\ UNCHANGED blind
        BY <2>3, <3>2 DEF KeyInserted, TurnBegins
      <4>2. m \in Messages
        BY <2>3, <2>a DEF KeyInserted
      <4>3. m \notin blind => turns[m] = 0
        BY <2>a, <3>2, <4>2 DEF KeyInv
      <4> HIDE DEF m
      <4>4. /\ turns'[m] = turns[m] + 1 /\ response'[m] = Blank
            /\ \A n \in Messages \ {m} : turns'[n] = turns[n] /\ response'[n] = response[n]
        BY <2>a, <4>1, <4>2
      <4> QED BY <4>1, <4>3, <4>4 DEF KeyInv, NoRow, Blank
    <3> QED BY <3>1, <3>2
  <2>4. ASSUME NEW h \in Handlers, ResponseStored(h) PROVE KeyInv'
    <3> DEFINE m == handler[h].msg
    <3>1. UNCHANGED <<turns, blind>>
      BY <2>4 DEF ResponseStored
    <3>2. CASE UNCHANGED response
      BY <2>1, <3>1, <3>2
    <3>3. CASE response' = [response EXCEPT ![m] = IF @ = NoRow THEN @ ELSE turns[m]]
      <4>1. \A n \in Messages :
               \/ response'[n] = response[n]
               \/ response[n] # NoRow /\ response'[n] = turns[n]
        BY <2>a, <3>3
      <4>2. \A n \in Messages : turns[n] \in Nat
        BY <2>a
      <4> QED BY <3>1, <4>1, <4>2 DEF KeyInv, NoRow, Blank
    <3> QED BY <2>4, <3>2, <3>3 DEF ResponseStored
  <2> QED BY <2>1, <2>2, <2>3, <2>4
          DEF Next, Step, Arrives, KeySelected, Ensures, SessionCreated, EnsureFails, Interviews,
              AsksAgain, Saved, AnswerWritten, WriteFails, AsksNext, ModelAnswers, RunsTools, Crash,
              Tick, log, vars
<1> QED BY <1>1, <1>2, TypeCorrect, PTL DEF Spec

\* A message takes one turn, unless its key could not be looked up: no retry,
\* however it overlaps with the delivery it repeats or with a restart, records a
\* second answer.
THEOREM MessagesTakeOneTurn == Spec => []OneTurnPerMessage
<1>1. TypeOK /\ KeyInv => OneTurnPerMessage
  BY DEF TypeOK, KeyInv, OneTurnPerMessage
<1> QED BY <1>1, TypeCorrect, KeyInvHolds, PTL

\* Once the reply of a message's turn is kept, a delivery of it is answered with
\* that reply, or that a statement failed before its key was looked up.
THEOREM KeptRepliesReplayed == Spec => RepliesReplayed
<1> DEFINE Replayed == \A m \in Messages \ blind :
             response[m] > Blank =>
               answers'[m] \ answers[m] \subseteq
                 {response[m]} \cup IF faults' = faults THEN {} ELSE {Sorry}
<1>1. TypeOK /\ KeyInv /\ [Next]_vars => [Replayed]_vars
  <2> SUFFICES ASSUME TypeOK, KeyInv, [Next]_vars,
                      NEW m \in Messages \ blind, response[m] > Blank
               PROVE  \/ answers'[m] \ answers[m] \subseteq {response[m]}
                      \/ /\ faults' # faults
                         /\ answers'[m] \ answers[m] \subseteq {response[m]} \cup {Sorry}
    OBVIOUS
  <2>a. answers \in [Messages -> SUBSET Told] /\ turns[m] = response[m] /\ faults \in Nat
    BY Bounds DEF TypeOK, KeyInv, Told
  <2>1. CASE UNCHANGED answers
    BY <2>1
  <2>2. ASSUME NEW h \in Handlers,
               Answers(h, turns[handler[h].msg]) \/ Answers(h, response[handler[h].msg])
        PROVE  answers'[m] \ answers[m] \subseteq {response[m]}
    BY <2>2, <2>a DEF Answers
  <2>3. ASSUME NEW n, answers' = [answers EXCEPT ![n] = @ \cup {Sorry}], Fails
        PROVE  faults' # faults /\ answers'[m] \ answers[m] \subseteq {Sorry}
    BY <2>3, <2>a DEF Fails
  <2>4. ASSUME NEW h \in Handlers,
               KeySelected(h) \/ KeyInserted(h) \/ ResponseStored(h)
                 \/ WriteFails(h) \/ \E k \in Keys : Saved(h, k)
        PROVE  \/ UNCHANGED answers
               \/ Answers(h, turns[handler[h].msg]) \/ Answers(h, response[handler[h].msg])
    BY <2>4 DEF KeySelected, KeyInserted, ResponseStored, WriteFails, Saved, log
  <2>5. ASSUME NEW h \in Handlers,
               EnsureFails(h) \/ \E n \in Messages : Arrives(h, n)
        PROVE  UNCHANGED answers
                 \/ \E n : answers' = [answers EXCEPT ![n] = @ \cup {Sorry}] /\ Fails
    BY <2>5 DEF EnsureFails, Arrives, Answers
  <2>6. ASSUME NEW h \in Handlers,
               \/ LookupFails(h) \/ Ensures(h) \/ SessionCreated(h) \/ Interviews(h)
               \/ AsksAgain(h) \/ AsksNext(h) \/ ModelAnswers(h) \/ RunsTools(h)
               \/ \E status \in {"settled", "skipped"} : AnswerWritten(h, status)
        PROVE  UNCHANGED answers
    BY <2>6 DEF LookupFails, Ensures, SessionCreated, Interviews, AsksAgain, AsksNext,
                ModelAnswers, RunsTools, AnswerWritten, log
  <2>7. Crash \/ Tick \/ UNCHANGED vars => UNCHANGED answers
    BY DEF Crash, Tick, log, vars
  <2>8. CASE \E h \in Handlers : Step(h) \/ \E n \in Messages : Arrives(h, n)
    <3>1. PICK h \in Handlers : Step(h) \/ \E n \in Messages : Arrives(h, n)
      BY <2>8
    <3> QED BY <3>1, <2>1, <2>2, <2>3, <2>4, <2>5, <2>6 DEF Step
  <2> QED BY <2>1, <2>7, <2>8 DEF Next
<1> QED BY <1>1, TypeCorrect, KeyInvHolds, PTL DEF Spec, RepliesReplayed
----------------------------------------------------------------------------
(* The promises of Inbox.                                                  *)

\* A step of one handler that is no turn's beginning keeps BegunInv.
LEMMA BegunKept ==
    ASSUME BegunInv, NEW h \in Handlers, UNCHANGED <<turns, response, blind>>,
           \A g \in Handlers \ {h} : handler'[g] = handler[g],
           InTurn(h)' => InTurn(h) /\ handler'[h].msg = handler[h].msg
    PROVE  BegunInv'
<1> SUFFICES ASSUME NEW m \in Messages \ blind, NEW g \in Handlers,
                    handler'[g].msg = m, InTurn(g)'
             PROVE  handler[g].msg = m /\ InTurn(g)
  BY DEF BegunInv
<1>1. CASE g = h
  BY <1>1
<1>2. CASE g # h
  BY <1>2 DEF InTurn
<1> QED BY <1>1, <1>2

\* An answer ends the turn.
LEMMA AnswersEnd ==
    ASSUME TypeOK, NEW h \in Handlers, NEW r, Answers(h, r)
    PROVE  ~InTurn(h)' /\ \A g \in Handlers \ {h} : handler'[g] = handler[g]
BY DEF Answers, InTurn, Idle, TypeOK

\* Going on to another step, a handler keeps its message.
LEMMA GoesOnWith ==
    ASSUME TypeOK, NEW h \in Handlers, NEW pc, Goes(h, pc)
    PROVE  /\ handler'[h].pc = pc /\ handler'[h].msg = handler[h].msg
           /\ \A g \in Handlers \ {h} : handler'[g] = handler[g]
BY DEF Goes, TypeOK, Handler

\* Rows and handlers past their lookup speak of turns that have begun.
LEMMA BegunInvHolds == Spec => []BegunInv
<1>1. Init => BegunInv
  BY DEF Init, BegunInv, InTurn, Idle
<1>2. TypeOK /\ BegunInv /\ [Next]_vars => BegunInv'
  <2> SUFFICES ASSUME TypeOK, BegunInv, [Next]_vars PROVE BegunInv'
    OBVIOUS
  <2>a. /\ turns \in [Messages -> Nat] /\ response \in [Messages -> {NoRow} \cup Nat]
        /\ \A h \in Handlers : handler[h] \in Handler
        /\ \A h \in Handlers : handler[h].pc # "idle" => handler[h].msg \in Messages
    BY DEF TypeOK, Handler
  <2> USE DEF log
  <2>1. ASSUME NEW h \in Handlers, NEW m \in Messages, Arrives(h, m) PROVE BegunInv'
    <3>1. \/ ~InTurn(h)' /\ \A g \in Handlers \ {h} : handler'[g] = handler[g]
          \/ handler' = handler
      BY <2>1 DEF Arrives, InTurn, Idle, TypeOK
    <3> QED BY <2>1, <3>1, BegunKept DEF Arrives, InTurn
  <2>2. ASSUME NEW h \in Handlers, LookupFails(h) PROVE BegunInv'
    <3> DEFINE m == handler[h].msg
    <3>1. /\ turns' = [turns EXCEPT ![m] = turns[m] + 1] /\ UNCHANGED response
          /\ blind' = blind \cup {m} /\ \E pc : Goes(h, pc)
      BY <2>2 DEF LookupFails, TurnBegins
    <3>2. \A n \in Messages \ blind' : n # m /\ n \in Messages \ blind /\ turns'[n] = turns[n]
      BY <2>a, <3>1
    <3>3. /\ handler'[h].msg = m
          /\ \A g \in Handlers \ {h} : handler'[g] = handler[g]
      BY <3>1, GoesOnWith
    <3>4. \A g \in Handlers \ {h} : InTurn(g)' => InTurn(g)
      BY <3>3 DEF InTurn
    <3> HIDE DEF m
    <3> QED BY <3>1, <3>2, <3>3, <3>4 DEF BegunInv
  <2>3. ASSUME NEW h \in Handlers, KeySelected(h) PROVE BegunInv'
    <3>1. CASE \E r : Answers(h, r)
      BY <2>3, <3>1, AnswersEnd, BegunKept DEF KeySelected
    <3>2. CASE Goes(h, "insert")
      <4>1. ~InTurn(h)' /\ \A g \in Handlers \ {h} : handler'[g] = handler[g]
        BY <3>2, GoesOnWith DEF InTurn
      <4> QED BY <2>3, <4>1, BegunKept DEF KeySelected
    <3> QED BY <2>3, <3>1, <3>2 DEF KeySelected
  <2>4. ASSUME NEW h \in Handlers, KeyInserted(h) PROVE BegunInv'
    <3> DEFINE m == handler[h].msg
    <3>1. CASE response[m] # NoRow
      <4>1. Answers(h, response[m]) /\ UNCHANGED <<turns, response, blind>>
        BY <2>4, <3>1 DEF KeyInserted
      <4> QED BY <4>1, AnswersEnd, BegunKept
    <3>2. CASE response[m] = NoRow
      <4>1. /\ turns' = [turns EXCEPT ![m] = turns[m] + 1] /\ UNCHANGED blind
            /\ response' = [response EXCEPT ![m] = Blank] /\ \E pc : Goes(h, pc)
        BY <2>4, <3>2 DEF KeyInserted, TurnBegins
      <4>2. m \in Messages
        BY <2>4, <2>a DEF KeyInserted
      <4>3. /\ handler'[h].msg = m
            /\ \A g \in Handlers \ {h} : handler'[g] = handler[g]
        BY <4>1, GoesOnWith
      <4>4. \A g \in Handlers \ {h} : InTurn(g)' => InTurn(g)
        BY <4>3 DEF InTurn
      <4> HIDE DEF m
      <4>5. turns'[m] > 0
        BY <2>a, <4>1, <4>2
      <4>6. \A n \in Messages \ {m} : turns'[n] = turns[n] /\ response'[n] = response[n]
        BY <2>a, <4>1
      <4> QED BY <4>1, <4>3, <4>4, <4>5, <4>6 DEF BegunInv
    <3> QED BY <3>1, <3>2
  <2>5. ASSUME NEW h \in Handlers, ResponseStored(h) PROVE BegunInv'
    <3>1. ~InTurn(h)' /\ \A g \in Handlers \ {h} : handler'[g] = handler[g]
      BY <2>5, AnswersEnd DEF ResponseStored
    <3>2. UNCHANGED <<turns, blind>>
      BY <2>5 DEF ResponseStored
    <3>3. \A n \in Messages : response'[n] # NoRow => response[n] # NoRow
      BY <2>5, <2>a DEF ResponseStored
    <3>4. \A g \in Handlers : InTurn(g)' => InTurn(g) /\ handler'[g].msg = handler[g].msg
      BY <3>1 DEF InTurn
    <3> QED BY <3>2, <3>3, <3>4 DEF BegunInv
  <2>6. ASSUME NEW h \in Handlers, Ensures(h) \/ SessionCreated(h) PROVE BegunInv'
    <3>1. /\ handler[h].pc \in {"ensure", "create"}
          /\ UNCHANGED <<turns, response, blind>>
      BY <2>6 DEF Ensures, SessionCreated
    <3>2. /\ handler'[h].msg = handler[h].msg
          /\ handler[h].msg \in Saves => handler'[h].pc \in {"select", "create"}
          /\ \A g \in Handlers \ {h} : handler'[g] = handler[g]
      <4>1. CASE Ensures(h)
        <5>1. CASE \E s : handler' = [handler EXCEPT ![h].session = s,
                    ![h].pc = IF handler[h].msg \in Saves THEN "select" ELSE "current"]
          BY <2>a, <5>1 DEF TypeOK, Handler
        <5>2. CASE \E c : handler' = [handler EXCEPT ![h].pc = "create", ![h].carried = c]
          BY <2>a, <5>2 DEF TypeOK, Handler
        <5>3. "call" # "sms"
          OBVIOUS
        <5> QED BY <4>1, <5>1, <5>2, <5>3 DEF Ensures
      <4>2. CASE SessionCreated(h)
        BY <2>a, <4>2 DEF SessionCreated, TypeOK, Handler
      <4> QED BY <2>6, <4>1, <4>2
    <3>3. InTurn(h)' => InTurn(h)
      BY <3>1, <3>2 DEF InTurn
    <3> QED BY <3>1, <3>2, <3>3, BegunKept
  <2>10. ASSUME NEW h \in Handlers, EnsureFails(h) PROVE BegunInv'
    <3>1. UNCHANGED <<turns, response, blind>> /\ handler[h].pc \in {"ensure", "create"}
      BY <2>10 DEF EnsureFails
    <3>2. CASE handler[h].msg \in Saves
      BY <2>10, <3>1, <3>2, AnswersEnd, BegunKept DEF EnsureFails
    <3>3. CASE handler[h].msg \notin Saves
      <4>1. /\ InTurn(h) /\ handler'[h].msg = handler[h].msg
            /\ \A g \in Handlers \ {h} : handler'[g] = handler[g]
        BY <2>10, <2>a, <3>1, <3>3 DEF EnsureFails, InTurn, TypeOK, Handler
      <4> QED BY <3>1, <4>1, BegunKept
    <3> QED BY <3>2, <3>3
  <2>7. ASSUME NEW h \in Handlers,
               \/ Interviews(h) \/ AsksAgain(h) \/ WriteFails(h) \/ AsksNext(h)
               \/ ModelAnswers(h) \/ RunsTools(h)
               \/ \E k \in Keys : Saved(h, k)
               \/ \E status \in {"settled", "skipped"} : AnswerWritten(h, status)
        PROVE  BegunInv'
    <3>1. InTurn(h) /\ UNCHANGED <<turns, response, blind>>
      BY <2>7 DEF Interviews, AsksAgain, Saved, AnswerWritten, WriteFails, AsksNext, ModelAnswers,
                  RunsTools, InTurn
    <3>2. CASE \E r : Answers(h, r)
      BY <3>1, <3>2, AnswersEnd, BegunKept
    <3>3. CASE \E pc : Goes(h, pc)
      BY <3>1, <3>3, GoesOnWith, BegunKept
    <3>4. CASE (\E k : Takes(h, k)) \/ ModelAnswers(h) \/ RunsTools(h)
      <4>1. /\ handler'[h].msg = handler[h].msg
            /\ \A g \in Handlers \ {h} : handler'[g] = handler[g]
        BY <2>a, <3>4 DEF Takes, ModelAnswers, RunsTools, TypeOK, Handler
      <4> QED BY <3>1, <4>1, BegunKept
    <3> QED BY <2>7, <3>2, <3>3, <3>4
            DEF Interviews, AsksAgain, Saved, AnswerWritten, WriteFails, AsksNext
  <2>8. CASE Crash
    BY <2>8 DEF Crash, BegunInv, InTurn, Idle
  <2>9. CASE Tick \/ UNCHANGED vars
    BY <2>9 DEF Tick, vars, BegunInv, InTurn
  <2> QED BY <2>1, <2>2, <2>3, <2>4, <2>5, <2>6, <2>7, <2>8, <2>9, <2>10 DEF Next, Step
<1> QED BY <1>1, <1>2, TypeCorrect, PTL DEF Spec

\* Whatever changes of exempt messages only, and of what their rows keep, is
\* nothing to the inbox.
LEMMA InboxStutters ==
    ASSUME UNCHANGED blind,
           \A n \in Messages \ blind : /\ turns'[n] = turns[n] /\ answers'[n] = answers[n]
                                       /\ response'[n] > Blank <=> response[n] > Blank
    PROVE  UNCHANGED Served!vars
<1>1. [n \in Messages |-> IF n \in blind' THEN 0 ELSE turns'[n]]
        = [n \in Messages |-> IF n \in blind THEN 0 ELSE turns[n]]
  OBVIOUS
<1>2. {n \in Messages \ blind' : response'[n] > Blank} = {n \in Messages \ blind : response[n] > Blank}
  OBVIOUS
<1>3. [n \in Messages |-> IF n \in blind' THEN {} ELSE answers'[n]]
        = [n \in Messages |-> IF n \in blind THEN {} ELSE answers[n]]
  OBVIOUS
<1> QED BY <1>1, <1>2, <1>3 DEF Served!vars

\* An answer to a delivery of a message whose turn has begun is the turn's reply,
\* kept by then or not, or an empty one where nothing is kept.
LEMMA AnswersTell ==
    ASSUME TypeOK, KeyInv, NEW m \in Messages, NEW r, UNCHANGED <<turns, blind>>,
           answers' = [answers EXCEPT ![m] = @ \cup {r}],
           \A n \in Messages \ {m} : response'[n] = response[n],
           m \notin blind =>
             /\ turns[m] > 0
             /\ \/ r = turns[m] /\ (response'[m] = response[m] \/ response'[m] > Blank)
                \/ r = Blank /\ ~(response[m] > Blank) /\ response'[m] = response[m]
    PROVE  Served!Next \/ UNCHANGED Served!vars
<1>1. CASE m \in blind
  <2>1. \A n \in Messages \ blind : answers'[n] = answers[n] /\ response'[n] = response[n]
    BY <1>1 DEF TypeOK
  <2> QED BY <2>1, InboxStutters
<1>2. CASE m \notin blind
  <2> DEFINE work == [n \in Messages |-> IF n \in blind THEN 0 ELSE turns[n]]
             kept == {n \in Messages \ blind : response[n] > Blank}
             told == [n \in Messages |-> IF n \in blind THEN {} ELSE answers[n]]
  <2>1. turns[m] = 1
    BY <1>2 DEF TypeOK, KeyInv
  <2>2. work[m] = 1 /\ work' = work
    BY <1>2, <2>1
  <2>3. told' = [told EXCEPT ![m] = @ \cup {r}]
    BY <1>2 DEF TypeOK
  <2>4. CASE r = turns[m] /\ (response'[m] = response[m] \/ response'[m] > Blank)
    <3>1. kept' = kept \/ kept' = kept \cup {m}
      BY <1>2, <2>4
    <3>2. Served!Replies(m)
      BY <1>2, <2>1, <2>2, <2>3, <2>4, <3>1 DEF Served!Replies, Served!Tells
    <3> QED BY <3>2 DEF Served!Next
  <2>5. CASE r = Blank /\ ~(response[m] > Blank) /\ response'[m] = response[m]
    <3>1. kept' = kept /\ m \notin kept
      BY <2>5
    <3>2. Served!BrushesOff(m)
      BY <1>2, <2>2, <2>3, <2>5, <3>1 DEF Served!BrushesOff, Served!Tells, Blank
    <3> QED BY <3>2 DEF Served!Next
  <2> QED BY <1>2, <2>4, <2>5
<1> QED BY <1>1, <1>2

\* So is one to a delivery that fails before its key is looked up.
LEMMA SorryTells ==
    ASSUME TypeOK, NEW m \in Messages, UNCHANGED <<turns, blind, response>>,
           answers' = [answers EXCEPT ![m] = @ \cup {Sorry}]
    PROVE  Served!Next \/ UNCHANGED Served!vars
<1>1. CASE m \in blind
  <2>1. \A n \in Messages \ blind : answers'[n] = answers[n]
    BY <1>1 DEF TypeOK
  <2> QED BY <2>1, InboxStutters
<1>2. CASE m \notin blind
  <2> DEFINE told == [n \in Messages |-> IF n \in blind THEN {} ELSE answers[n]]
  <2>1. told' = [told EXCEPT ![m] = @ \cup {Sorry}]
    BY <1>2 DEF TypeOK
  <2>2. Served!Apologises(m)
    BY <1>2, <2>1 DEF Served!Apologises, Served!Tells
  <2> QED BY <2>2 DEF Served!Next
<1> QED BY <1>1, <1>2

\* The conversation keeps the promises of Inbox, for any handlers, deliveries,
\* failures and restarts (RememberWebhook and StoreWebhookResponse around a turn).
THEOREM TextsAreAnInbox == Spec => ImplementsInbox
<1>1. Init => Served!Init
  <2> SUFFICES ASSUME Init PROVE Served!Init
    OBVIOUS
  <2>1. ~(NoRow > Blank)
    BY DEF NoRow, Blank
  <2>2. \A m \in Messages : turns[m] = 0 /\ answers[m] = {} /\ ~(response[m] > Blank)
    BY <2>1 DEF Init
  <2> QED BY <2>2 DEF Init, Served!Init
<1>2. TypeOK /\ KeyInv /\ BegunInv /\ [Next]_vars => [Served!Next]_(Served!vars)
  <2> SUFFICES ASSUME TypeOK, KeyInv, BegunInv, [Next]_vars
               PROVE  Served!Next \/ UNCHANGED Served!vars
    OBVIOUS
  <2>a. /\ turns \in [Messages -> Nat] /\ response \in [Messages -> {NoRow} \cup Nat]
        /\ answers \in [Messages -> SUBSET Told]
        /\ \A h \in Handlers : handler[h].pc # "idle" => handler[h].msg \in Messages
    BY DEF TypeOK, Handler, Told
  <2>b. ASSUME UNCHANGED <<turns, response, blind, answers>> PROVE UNCHANGED Served!vars
    BY <2>b, InboxStutters
  <2>c. ASSUME NEW h \in Handlers, handler[h].msg \in Messages, response[handler[h].msg] # NoRow,
               Answers(h, response[handler[h].msg]), UNCHANGED <<turns, response, blind>>
        PROVE  Served!Next \/ UNCHANGED Served!vars
    <3> DEFINE m == handler[h].msg
    <3>1. m \notin blind => turns[m] > 0 /\ (response[m] > Blank => response[m] = turns[m])
      BY <2>c DEF BegunInv, KeyInv
    <3>2. response[m] = Blank \/ response[m] > Blank
      BY <2>a, <2>c DEF Blank
    <3>3. answers' = [answers EXCEPT ![m] = @ \cup {response[m]}]
      BY <2>c DEF Answers
    <3>4. response[m] = Blank => ~(response[m] > Blank)
      BY DEF Blank
    <3> HIDE DEF m
    <3> QED BY <2>c, <3>1, <3>2, <3>3, <3>4, AnswersTell DEF m
  <2>d. ASSUME NEW h \in Handlers, InTurn(h), Answers(h, turns[handler[h].msg]),
               UNCHANGED <<turns, response, blind>>
        PROVE  Served!Next \/ UNCHANGED Served!vars
    <3>1. handler[h].msg \in Messages
      BY <2>a, <2>d DEF InTurn
    <3>2. handler[h].msg \notin blind => turns[handler[h].msg] > 0
      BY <2>d, <3>1 DEF BegunInv
    <3> QED BY <2>d, <3>1, <3>2, AnswersTell DEF Answers
  <2>1. ASSUME NEW h \in Handlers, LookupFails(h) PROVE Served!Next
    <3>1. PICK m \in Messages :
            /\ blind' = blind \cup {m} /\ UNCHANGED <<response, answers>>
            /\ turns' = [turns EXCEPT ![m] = turns[m] + 1]
      BY <2>1, <2>a DEF LookupFails, TurnBegins
    <3>2. \A n \in Messages \ {m} : turns'[n] = turns[n] /\ (n \in blind' <=> n \in blind)
      BY <2>a, <3>1
    <3>3. Served!Exempts(m)
      BY <3>1, <3>2 DEF Served!Exempts
    <3> QED BY <3>3 DEF Served!Next
  <2>2. ASSUME NEW h \in Handlers, KeySelected(h) PROVE Served!Next \/ UNCHANGED Served!vars
    BY <2>2, <2>a, <2>b, <2>c DEF KeySelected
  <2>3. ASSUME NEW h \in Handlers, KeyInserted(h) PROVE Served!Next \/ UNCHANGED Served!vars
    <3>0. PICK m \in Messages : m = handler[h].msg
      BY <2>3, <2>a DEF KeyInserted
    <3>1. CASE response[m] # NoRow
      BY <2>3, <2>c, <3>0, <3>1 DEF KeyInserted
    <3>2. CASE response[m] = NoRow
      <4>1. /\ turns' = [turns EXCEPT ![m] = turns[m] + 1] /\ UNCHANGED <<blind, answers>>
            /\ response' = [response EXCEPT ![m] = Blank]
        BY <2>3, <3>0, <3>2 DEF KeyInserted, TurnBegins
      <4>2. /\ turns'[m] = turns[m] + 1
            /\ ~(response'[m] > Blank) /\ ~(response[m] > Blank)
            /\ \A n \in Messages \ {m} : turns'[n] = turns[n] /\ response'[n] = response[n]
        BY <2>a, <3>2, <4>1 DEF NoRow, Blank
      <4>3. CASE m \in blind
        BY <4>1, <4>2, <4>3, InboxStutters
      <4>4. CASE m \notin blind
        <5>1. turns[m] = 0 /\ turns'[m] = 1
          BY <2>a, <3>2, <4>2, <4>4 DEF KeyInv
        <5>2. Served!Begins(m)
          BY <4>1, <4>2, <4>4, <5>1 DEF Served!Begins
        <5> QED BY <5>2 DEF Served!Next
      <4> QED BY <4>3, <4>4
    <3> QED BY <3>1, <3>2
  <2>4. ASSUME NEW h \in Handlers, ResponseStored(h) PROVE Served!Next \/ UNCHANGED Served!vars
    <3> DEFINE m == handler[h].msg
    <3>1. InTurn(h) /\ m \in Messages
      BY <2>4, <2>a DEF ResponseStored, InTurn
    <3>2. m \notin blind => turns[m] > 0
      BY <3>1 DEF BegunInv
    <3>3. /\ UNCHANGED <<turns, blind>>
          /\ answers' = [answers EXCEPT ![m] = @ \cup {turns[m]}]
          /\ UNCHANGED response
             \/ response' = [response EXCEPT ![m] = IF @ = NoRow THEN @ ELSE turns[m]]
      BY <2>4 DEF ResponseStored, Answers
    <3> HIDE DEF m
    <3>4. \A n \in Messages \ {m} : response'[n] = response[n]
      BY <2>a, <3>3
    <3>5. response'[m] = response[m] \/ response'[m] = turns[m]
      BY <2>a, <3>1, <3>3
    <3>6. m \notin blind => response'[m] = response[m] \/ response'[m] > Blank
      BY <2>a, <3>2, <3>5 DEF Blank
    <3> QED BY <3>1, <3>2, <3>3, <3>4, <3>6, AnswersTell
  <2>5. ASSUME NEW h \in Handlers, NEW k \in Keys, Saved(h, k)
        PROVE  Served!Next \/ UNCHANGED Served!vars
    BY <2>5, <2>b, <2>d DEF Saved, InTurn
  <2>6. ASSUME NEW h \in Handlers, WriteFails(h) PROVE Served!Next \/ UNCHANGED Served!vars
    BY <2>6, <2>b, <2>d DEF WriteFails, InTurn
  <2>7. ASSUME NEW h \in Handlers, NEW m \in Messages, Arrives(h, m)
        PROVE  Served!Next \/ UNCHANGED Served!vars
    BY <2>7, <2>b, SorryTells DEF Arrives
  <2>8. ASSUME NEW h \in Handlers, EnsureFails(h) PROVE Served!Next \/ UNCHANGED Served!vars
    <3>1. handler[h].msg \in Messages
      BY <2>8, <2>a DEF EnsureFails
    <3> QED BY <2>8, <2>b, <3>1, SorryTells DEF EnsureFails, Answers
  <2> QED BY <2>b, <2>1, <2>2, <2>3, <2>4, <2>5, <2>6, <2>7, <2>8
          DEF Next, Step, Ensures, SessionCreated, Interviews, AsksAgain, AnswerWritten,
              AsksNext, ModelAnswers, RunsTools, Crash, Tick, log, vars
<1> QED BY <1>1, <1>2, TypeCorrect, KeyInvHolds, BegunInvHolds, PTL
       DEF Spec, ImplementsInbox, Served!Spec
=============================================================================
