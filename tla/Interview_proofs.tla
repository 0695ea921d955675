------------------------- MODULE Interview_proofs -------------------------
(***************************************************************************)
(* Proofs about Interview: its type invariant, that no turn, whatever it   *)
(* interleaves with, puts a question before every earlier one is settled,  *)
(* and that only a yes signs anybody up.                                   *)
(***************************************************************************)
EXTENDS Interview, SequenceTheorems, FiniteSetTheorems, TLAPS

----------------------------------------------------------------------------
(* Sequences and turns.                                                    *)

\* Replacing an element, where there is one to replace, keeps a sequence typed.
LEMMA ReplacedTyped ==
    ASSUME NEW S, NEW seq \in Seq(S), NEW i, NEW e, i \in 1..Len(seq) => e \in S
    PROVE  /\ [seq EXCEPT ![i] = e] \in Seq(S)
           /\ Len([seq EXCEPT ![i] = e]) = Len(seq)
           /\ \A j \in 1..Len(seq) : [seq EXCEPT ![i] = e][j] = IF j = i THEN e ELSE seq[j]
<1>1. CASE i \in 1..Len(seq)
  BY <1>1, ExceptSeq
<1>2. CASE i \notin 1..Len(seq)
  <2>1. seq \in [1..Len(seq) -> S]
    BY LenProperties
  <2>2. [seq EXCEPT ![i] = e] = seq
    BY <1>2, <2>1
  <2> QED BY <1>2, <2>2
<1> QED BY <1>1, <1>2

\* The bounds are numbers.
LEMMA Bounds == MaxTurns \in Nat /\ MaxSessions \in Nat /\ MaxOffers \in Nat
BY InterviewAssumption

\* What an idle worker holds is a turn.
LEMMA IdleTurn == Idle \in Turn
BY InterviewAssumption DEF Idle, Turn, AllReplies, Fresh, Statuses, Keys

\* A turn that ends, or becomes another, leaves the workers well typed.
LEMMA TurnsTyped ==
    ASSUME turn \in [Workers -> Turn], NEW w, NEW t \in Turn, Becomes(w, t)
    PROVE  turn' \in [Workers -> Turn]
BY DEF Becomes

LEMMA EndsTyped ==
    ASSUME turn \in [Workers -> Turn], NEW w, Ends(w)
    PROVE  turn' \in [Workers -> Turn]
BY TurnsTyped, IdleTurn DEF Ends

----------------------------------------------------------------------------
(* The parts of the type invariant.                                        *)

SessionsOK == sessions \in Seq(Session) /\ Len(sessions) <= MaxSessions
OrderOK == order \in [Kept -> SUBSET ((1..MaxSessions) \X (1..MaxSessions))]
OffersOK == offers \in Seq({"offered", "accepted"}) /\ Len(offers) <= MaxOffers
RestOK ==
    /\ known \subseteq Profile /\ onboarded \in BOOLEAN
    /\ turn \in [Workers -> Turn] /\ turns \in 0..MaxTurns /\ agreed \in Nat

\* The type invariant is the conjunction of its parts.
LEMMA Parts ==
    /\ TypeOK <=> SessionsOK /\ OrderOK /\ OffersOK /\ RestOK
    /\ SessionsOK' /\ OrderOK' /\ OffersOK' /\ RestOK' => TypeOK'
BY DEF TypeOK, SessionsOK, OrderOK, OffersOK, RestOK

\* Nothing that leaves the rows alone disturbs their types.
LEMMA RowsKept ==
    /\ SessionsOK /\ UNCHANGED sessions => SessionsOK'
    /\ OrderOK /\ UNCHANGED order => OrderOK'
    /\ OffersOK /\ UNCHANGED offers => OffersOK'
BY DEF SessionsOK, OrderOK, OffersOK

\* The ids of the sessions are among 1..MaxSessions.
LEMMA SessionIds ==
    ASSUME SessionsOK
    PROVE  /\ Len(sessions) \in 0..MaxSessions
           /\ \A s \in 1..Len(sessions) : sessions[s] \in Session
<1>1. Len(sessions) \in Nat
  BY LenProperties DEF SessionsOK
<1> QED BY <1>1, ElementOfSeq, InterviewAssumption DEF SessionsOK

\* What is carried forward is a status.
LEMMA CarriedTyped ==
    ASSUME SessionsOK, NEW k \in Keys
    PROVE  CarryForward(k) \in Statuses
<1>1. \A s \in Session : s.items[k].status \in Statuses
  BY DEF Session, Item
<1>2. LastSettled(k) \subseteq Statuses
  BY <1>1, SessionIds DEF LastSettled, StatusIn
<1> QED BY <1>2 DEF CarryForward, Statuses

\* The order of a question stays a relation between sessions.
LEMMA OrderTyped ==
    ASSUME SessionsOK, OrderOK, NEW k \in Kept, NEW s \in 1..MaxSessions
    PROVE  SettledLast(k, s) \subseteq (1..MaxSessions) \X (1..MaxSessions)
<1>1. 1..Len(sessions) \subseteq 1..MaxSessions
  BY SessionIds, Bounds
<1>2. order[k] \subseteq (1..MaxSessions) \X (1..MaxSessions)
  BY DEF OrderOK
<1> DEFINE P == {p \in order[k] : s \notin {p[1], p[2]}}
           Q == {<<s, r>> : r \in {q \in 1..Len(sessions) :
                                     q # s /\ StatusIn(q, k) # "unanswered"}}
<1>3. P \subseteq (1..MaxSessions) \X (1..MaxSessions)
  BY <1>2
<1>4. Q \subseteq (1..MaxSessions) \X (1..MaxSessions)
  BY <1>1
<1>5. SettledLast(k, s) = P \cup Q
  BY DEF SettledLast
<1> QED BY <1>3, <1>4, <1>5

\* A question that is put in a session keeps the rows it touches typed.
LEMMA AskTyped ==
    ASSUME SessionsOK, OffersOK, NEW s, NEW k \in Keys, Ask(s, k)
    PROVE  SessionsOK' /\ OffersOK'
<1> DEFINE e == [sessions[s] EXCEPT !.items[k].asked = TRUE]
<1>1. \A r \in Session : [r EXCEPT !.items[k].asked = TRUE] \in Session
  BY DEF Session, Item
<1>2. s \in 1..Len(sessions) => e \in Session
  BY <1>1, SessionIds
<1>3. sessions' = [sessions EXCEPT ![s] = e]
  BY DEF Ask
<1> HIDE DEF e
<1>4. SessionsOK'
  BY <1>2, <1>3, ReplacedTyped DEF SessionsOK
<1>5. OffersOK'
  <2>1. CASE UNCHANGED offers
    BY <2>1, RowsKept
  <2>2. CASE SuggestEvent
    <3>1. Append(offers, "offered") \in Seq({"offered", "accepted"})
      BY AppendProperties DEF OffersOK
    <3>2. Len(Append(offers, "offered")) = Len(offers) + 1 /\ Len(offers) \in Nat
      BY AppendProperties, LenProperties DEF OffersOK
    <3> QED BY <2>2, <3>1, <3>2, InterviewAssumption DEF SuggestEvent, OffersOK
  <2> QED BY <2>1, <2>2 DEF Ask
<1> QED BY <1>4, <1>5

----------------------------------------------------------------------------
(* Type correctness.                                                       *)

\* A turn that is past looking for its session has one.
InSession ==
    \A w \in Workers : turn[w].pc \in {"idle", "create", "row"} \/ turn[w].session # 0

IInv == TypeOK /\ InSession

\* A turn that becomes one in session leaves every other as it was.
LEMMA InSessionKept ==
    ASSUME TypeOK, InSession, NEW w \in Workers, NEW t, Becomes(w, t),
           t.pc \in {"idle", "create", "row"} \/ t.session # 0
    PROVE  InSession'
BY DEF TypeOK, InSession, Becomes

LEMMA InSessionEnds ==
    ASSUME TypeOK, InSession, NEW w \in Workers, Ends(w)
    PROVE  InSession'
BY InSessionKept DEF Ends, Idle

\* A turn's step that only reads the rows.
LEMMA OnlyTurn ==
    ASSUME TypeOK, turn' \in [Workers -> Turn], turns' \in 0..MaxTurns,
           UNCHANGED <<sessions, order, known, onboarded, offers, agreed>>
    PROVE  TypeOK'
BY Parts, RowsKept DEF RestOK, TypeOK

\* No step takes a turn past looking for its session without one.
LEMMA InSessionStep == TypeOK /\ InSession /\ [Next]_vars => InSession'
<1> SUFFICES ASSUME TypeOK, InSession, [Next]_vars PROVE InSession'
  OBVIOUS
<1>a. \A w \in Workers : turn[w] \in Turn
  BY DEF TypeOK
<1>1. ASSUME NEW w \in Workers, NEW kind \in {"text", "poll", "save"}, TurnBegins(w, kind)
      PROVE  InSession'
  <2> DEFINE t == [Idle EXCEPT !.kind = kind]
             c == [k \in Keys |-> CarryForward(k)]
             new == [t EXCEPT !.pc = "create", !.carried = c]
  <2>1. ASSUME NEW s \in OpenSessions(ChannelOf(kind)),
               Becomes(w, [t EXCEPT !.pc = "current", !.session = s])
        PROVE  InSession'
    <3>1. s # 0
      BY DEF OpenSessions
    <3>2. [t EXCEPT !.pc = "current", !.session = s].session = s
      BY DEF Idle
    <3> QED BY <2>1, <3>1, <3>2, InSessionKept
  <2>2. ASSUME Becomes(w, new) PROVE InSession'
    <3>1. new.pc = "create"
      BY DEF Idle
    <3> HIDE DEF new
    <3> QED BY <2>2, <3>1, InSessionKept
  <2> QED BY <1>1, <2>1, <2>2 DEF TurnBegins, Newest
<1>2. ASSUME NEW w \in Workers, NEW learned, RowLoaded(w, learned) PROVE InSession'
  <2> DEFINE t == [Idle EXCEPT !.pc = "row", !.row = known \cup learned]
  <2>1. t.pc = "row"
    BY DEF Idle
  <2>2. Becomes(w, t)
    BY <1>2 DEF RowLoaded
  <2> HIDE DEF t
  <2> QED BY <2>1, <2>2, InSessionKept
<1>3. ASSUME NEW w \in Workers, SessionCreated(w) PROVE InSession'
  <2> DEFINE t == [turn[w] EXCEPT !.pc = "current", !.session = Len(sessions) + 1,
                                  !.carried = Fresh]
  <2>1. Len(sessions) \in Nat
    BY LenProperties DEF TypeOK
  <2>2. t.session = Len(sessions) + 1
    BY <1>a DEF Turn
  <2>3. Becomes(w, t)
    BY <1>3 DEF SessionCreated
  <2> HIDE DEF t
  <2> QED BY <2>1, <2>2, <2>3, InSessionKept
<1>4. ASSUME NEW w \in Workers, NEW t, Becomes(w, t), t.session = turn[w].session,
             turn[w].pc \notin {"idle", "create", "row"}
      PROVE  InSession'
  BY <1>4, InSessionKept DEF InSession
<1>5. ASSUME NEW w \in Workers, TurnStep(w), ~SessionCreated(w) PROVE InSession'
  <2>1. CASE Ends(w)
    BY <2>1, InSessionEnds
  <2>2. CASE turn[w].pc \in {"write", "acknowledge", "accept"} /\ Becomes(w, Resume(turn[w]))
    <3>1. Resume(turn[w]).session = turn[w].session
      BY DEF Resume, Idle
    <3> QED BY <2>2, <3>1, <1>4
  <2>3. ASSUME turn[w].pc \in {"current", "acknowledge", "next", "mark"},
               NEW t, Becomes(w, t), t.session = turn[w].session
        PROVE  InSession'
    BY <2>3, <1>4
  <2>4. \A pc : [turn[w] EXCEPT !.pc = pc].session = turn[w].session
    BY <1>a DEF Turn
  <2>5. \A key, reply : [turn[w] EXCEPT !.pc = "write", !.key = key, !.reply = reply].session
                          = turn[w].session
    BY <1>a DEF Turn
  <2>6. \A i : [turn[w] EXCEPT !.pc = "accept", !.offer = i].session = turn[w].session
    BY <1>a DEF Turn
  <2>7. [turn[w] EXCEPT !.pc = "mark", !.kind = "text"].session = turn[w].session
    BY <1>a DEF Turn
  <2>8. CASE NothingLeft(w) \/ AsksCurrent(w) \/ Refused(w)
    BY <2>1, <2>3, <2>4, <2>8 DEF NothingLeft, AsksCurrent, Refused
  <2>9. CASE \E reply \in AllReplies : TakesReply(w, reply)
    BY <2>3, <2>5, <2>9 DEF TakesReply
  <2>10. CASE AnswerWritten(w)
    BY <2>1, <2>2, <2>10 DEF AnswerWritten
  <2>11. CASE FindsOffer(w) \/ AcceptsOffer(w)
    BY <2>2, <2>3, <2>6, <2>11 DEF FindsOffer, AcceptsOffer
  <2>12. CASE AsksNext(w) \/ CloseSession(w) \/ RowSaved(w)
    BY <2>1, <2>12 DEF AsksNext, CloseSession, RowSaved
  <2>13. CASE Finishes(w)
    BY <2>3, <2>7, <2>13 DEF Finishes
  <2>14. CASE MarkOnboarded(w)
    BY <2>3, <2>4, <2>14 DEF MarkOnboarded
  <2> QED BY <1>5, <2>8, <2>9, <2>10, <2>11, <2>12, <2>13, <2>14 DEF TurnStep
<1>6. CASE UNCHANGED turn
  BY <1>6 DEF InSession
<1>7. CASE Crash
  BY <1>7 DEF Crash, InSession, Idle
<1> QED BY <1>1, <1>2, <1>3, <1>5, <1>6, <1>7 DEF Next, SetName, vars

\* The introduction's rows and turns keep their types, and a turn that reads or
\* writes a session has one.
LEMMA IInvHolds == Spec => []IInv
<1>1. Init => IInv
  <2> SUFFICES ASSUME Init PROVE IInv
    OBVIOUS
  <2>1. SessionsOK
    BY EmptySeq, Bounds DEF Init, SessionsOK
  <2>2. OffersOK
    BY EmptySeq, Bounds DEF Init, OffersOK
  <2>3. OrderOK
    BY DEF Init, OrderOK
  <2>4. RestOK
    <3>1. turn \in [Workers -> Turn]
      BY IdleTurn DEF Init
    <3>2. turns \in 0..MaxTurns /\ agreed \in Nat
      BY Bounds DEF Init
    <3> QED BY <3>1, <3>2 DEF Init, RestOK
  <2>5. InSession
    BY DEF Init, InSession, Idle
  <2> QED BY <2>1, <2>2, <2>3, <2>4, <2>5, Parts DEF IInv
<1>2. IInv /\ [Next]_vars => TypeOK'
  <2> SUFFICES ASSUME TypeOK, InSession, [Next]_vars PROVE TypeOK'
    BY DEF IInv
  <2>a. SessionsOK /\ OrderOK /\ OffersOK /\ RestOK
    BY Parts
  <2>b. turn \in [Workers -> Turn] /\ turns \in 0..MaxTurns
    BY <2>a DEF RestOK
  <2>c. \A w \in Workers : /\ turn[w].session \in 0..MaxSessions /\ turn[w].key \in Keys
                           /\ turn[w].carried \in [Keys -> Statuses]
                           /\ turn[w].row \subseteq Profile /\ turn[w].reply \in AllReplies
    BY <2>b DEF Turn
  <2>1. ASSUME NEW w \in Workers, NEW kind \in {"text", "poll", "save"}, TurnBegins(w, kind)
        PROVE  TypeOK'
    <3> DEFINE found == OpenSessions(ChannelOf(kind))
               t == [Idle EXCEPT !.kind = kind]
               c == [k \in Keys |-> CarryForward(k)]
    <3>1. t \in Turn
      BY IdleTurn DEF Turn
    <3>2. c \in [Keys -> Statuses]
      BY <2>a, CarriedTyped
    <3>3. [t EXCEPT !.pc = "create", !.carried = c] \in Turn
      <4> HIDE DEF t, c
      <4> QED BY <3>1, <3>2 DEF Turn
    <3>4. found \subseteq 0..MaxSessions
      BY <2>a, SessionIds, Bounds DEF OpenSessions
    <3>5. \A i \in Newest(found) : [t EXCEPT !.pc = "current", !.session = i] \in Turn
      <4> HIDE DEF t, found
      <4> QED BY <3>1, <3>4 DEF Newest, Turn
    <3>6. turn' \in [Workers -> Turn]
      BY <2>1, <2>b, <3>3, <3>5, TurnsTyped DEF TurnBegins
    <3>7. turns' \in 0..MaxTurns
      <4>1. turns < MaxTurns /\ turns' = turns + 1
        BY <2>1 DEF TurnBegins
      <4> QED BY <2>b, <4>1, Bounds
    <3>8. UNCHANGED <<sessions, order, known, onboarded, offers, agreed>>
      BY <2>1 DEF TurnBegins
    <3> QED BY <3>6, <3>7, <3>8, OnlyTurn
  <2>2. ASSUME NEW w \in Workers, NEW learned \in SUBSET Profile, RowLoaded(w, learned)
        PROVE  TypeOK'
    <3>1. [Idle EXCEPT !.pc = "row", !.row = known \cup learned] \in Turn
      BY <2>a, IdleTurn DEF RestOK, Turn
    <3>2. turns' \in 0..MaxTurns
      BY <2>2, <2>b, Bounds DEF RowLoaded
    <3> QED BY <2>2, <2>b, <3>1, <3>2, TurnsTyped, OnlyTurn DEF RowLoaded
  <2>3. ASSUME NEW w \in Workers, SessionCreated(w) PROVE TypeOK'
    <3> DEFINE id == Len(sessions) + 1
               new == [channel |-> ChannelOf(turn[w].kind), open |-> TRUE,
                       items |-> [k \in Keys |-> [status |-> turn[w].carried[k],
                                                  asked |-> FALSE]]]
    <3>1. id \in 1..MaxSessions /\ id \in 0..MaxSessions
      BY <2>3, <2>a, SessionIds, Bounds DEF SessionCreated
    <3>2. new \in Session
      BY <2>c DEF Session, Item, ChannelOf, Channels
    <3>3. SessionsOK'
      <4>1. sessions' = Append(sessions, new)
        BY <2>3 DEF SessionCreated
      <4> HIDE DEF new
      <4> QED BY <3>1, <3>2, <4>1, <2>a, AppendProperties DEF SessionsOK
    <3>4. OrderOK'
      <4>1. \A k \in Kept : SettledLast(k, id) \subseteq (1..MaxSessions) \X (1..MaxSessions)
        BY <2>a, <3>1, OrderTyped
      <4> QED BY <2>3, <2>a, <4>1 DEF SessionCreated, OrderOK
    <3>5. turn' \in [Workers -> Turn]
      <4> DEFINE t == [turn[w] EXCEPT !.pc = "current", !.session = id, !.carried = Fresh]
      <4>1. Fresh \in [Keys -> Statuses]
        BY DEF Fresh, Statuses
      <4>2. \A r \in Turn : [r EXCEPT !.pc = "current", !.session = id, !.carried = Fresh]
                               \in Turn
        <5> HIDE DEF id
        <5> QED BY <3>1, <4>1 DEF Turn
      <4>3. Becomes(w, t)
        BY <2>3 DEF SessionCreated
      <4>4. t \in Turn
        BY <2>b, <4>2
      <4> HIDE DEF t
      <4> QED BY <2>b, <4>3, <4>4, TurnsTyped
    <3>6. RestOK' /\ OffersOK'
      BY <2>3, <2>a, <3>5, RowsKept DEF SessionCreated, RestOK
    <3> QED BY <3>3, <3>4, <3>6, Parts
  <2>4. ASSUME NEW w \in Workers, NothingLeft(w) PROVE TypeOK'
    <3>1. \A r \in Turn : [r EXCEPT !.pc = "mark"] \in Turn
      BY DEF Turn
    <3> QED BY <2>4, <2>b, <3>1, TurnsTyped, EndsTyped, OnlyTurn DEF NothingLeft
  <2>5. ASSUME NEW w \in Workers, AsksCurrent(w) \/ AsksNext(w) PROVE TypeOK'
    <3>1. SessionsOK' /\ OffersOK'
      BY <2>5, <2>a, AskTyped DEF AsksCurrent, AsksNext, NextChecklistItem, Keys
    <3>2. Ends(w) /\ UNCHANGED <<order, known, onboarded, turns, agreed>>
      BY <2>5 DEF AsksCurrent, AsksNext
    <3>3. RestOK' /\ OrderOK'
      BY <2>a, <3>2, EndsTyped, RowsKept DEF RestOK
    <3> QED BY <3>1, <3>3, Parts
  <2>6. ASSUME NEW w \in Workers, NEW reply \in AllReplies, TakesReply(w, reply)
        PROVE  TypeOK'
    <3>1. \A r \in Turn, k \in Keys :
             [r EXCEPT !.pc = "write", !.key = k, !.reply = reply] \in Turn
      BY DEF Turn
    <3>2. NextChecklistItem(turn[w].session) \subseteq Keys
      BY DEF NextChecklistItem, Keys
    <3>3. turn' \in [Workers -> Turn]
      BY <2>6, <2>b, <3>1, <3>2, TurnsTyped DEF TakesReply
    <3> QED BY <2>6, <2>b, <3>3, OnlyTurn DEF TakesReply
  <2>7. ASSUME NEW w \in Workers, Refused(w) PROVE TypeOK'
    BY <2>7, <2>b, EndsTyped, OnlyTurn DEF Refused
  <2>8. \A w \in Workers : Resume(turn[w]) \in Turn
    <3> SUFFICES ASSUME NEW w \in Workers PROVE Resume(turn[w]) \in Turn
      OBVIOUS
    <3>1. turn[w].kind \in {"text", "poll", "save"} /\ turn[w].session \in 0..MaxSessions
      BY <2>b DEF Turn
    <3> QED BY <3>1, IdleTurn DEF Resume, Turn
  <2>9. ASSUME NEW w \in Workers, AnswerWritten(w) PROVE TypeOK'
    <3> DEFINE t == turn[w]
               status == StatusOf(t.kind, t.reply)
    <3>1. CASE t.reply = "unusable"
      BY <2>9, <2>b, <3>1, EndsTyped, OnlyTurn DEF AnswerWritten
    <3>2. CASE t.reply # "unusable"
      <4>1. /\ sessions' = [sessions EXCEPT ![t.session].items[t.key].status = status]
            /\ order' = [k \in Kept |-> IF k = t.key THEN SettledLast(k, t.session)
                                        ELSE order[k]]
            /\ known' = IF t.key \in Profile /\ status = "answered"
                        THEN known \cup {t.key} ELSE known
            /\ agreed' = IF t.reply = "yes" THEN agreed + 1 ELSE agreed
            /\ Becomes(w, Resume(t))
            /\ UNCHANGED <<onboarded, offers, turns>>
        BY <2>9, <3>2 DEF AnswerWritten
      <4>2. SessionsOK'
        <5> DEFINE e == [sessions[t.session] EXCEPT !.items[t.key].status = status]
        <5>1. status \in Statuses
          BY DEF StatusOf, Statuses
        <5>2. \A r \in Session : [r EXCEPT !.items[t.key].status = status] \in Session
          <6> HIDE DEF status
          <6>1. \A i \in Item : [i EXCEPT !.status = status] \in Item
            BY <5>1 DEF Item
          <6>2. \A f \in [Keys -> Item] : [f EXCEPT ![t.key].status = status] \in [Keys -> Item]
            BY <2>c, <6>1
          <6> QED BY <6>2 DEF Session
        <5>3. t.session \in 1..Len(sessions) => e \in Session
          BY <2>a, <5>2, SessionIds
        <5>4. sessions' = [sessions EXCEPT ![t.session] = e]
          BY <4>1
        <5> HIDE DEF e
        <5> QED BY <2>a, <5>3, <5>4, ReplacedTyped DEF SessionsOK
      <4>3. OrderOK'
        <5>1. t.session \in 1..MaxSessions
          BY <2>9, <2>c, Bounds DEF AnswerWritten, InSession
        <5>2. \A k \in Kept :
                 SettledLast(k, t.session) \subseteq (1..MaxSessions) \X (1..MaxSessions)
          BY <2>a, <5>1, OrderTyped
        <5> HIDE DEF t
        <5> QED BY <2>a, <4>1, <5>2 DEF OrderOK
      <4>4. RestOK'
        BY <2>a, <2>8, <4>1, TurnsTyped DEF RestOK
      <4>5. OffersOK'
        BY <2>a, <4>1, RowsKept
      <4> QED BY <4>2, <4>3, <4>4, <4>5, Parts
    <3> QED BY <3>1, <3>2
  <2>10. ASSUME NEW w \in Workers, FindsOffer(w) PROVE TypeOK'
    <3>1. LastOffered \subseteq 0..MaxOffers
      <4>1. Len(offers) \in 0..MaxOffers
        BY <2>a, LenProperties, Bounds DEF OffersOK
      <4> QED BY <4>1, Bounds DEF LastOffered
    <3>2. \A r \in Turn, i \in 0..MaxOffers : [r EXCEPT !.pc = "accept", !.offer = i] \in Turn
      BY DEF Turn
    <3>3. turn' \in [Workers -> Turn]
      BY <2>10, <2>b, <2>8, <3>1, <3>2, TurnsTyped DEF FindsOffer
    <3> QED BY <2>10, <2>b, <3>3, OnlyTurn DEF FindsOffer
  <2>11. ASSUME NEW w \in Workers, AcceptsOffer(w) PROVE TypeOK'
    <3>1. OffersOK'
      <4>1. offers' = [offers EXCEPT ![turn[w].offer] = "accepted"]
        BY <2>11 DEF AcceptsOffer
      <4> QED BY <2>a, <4>1, ReplacedTyped DEF OffersOK
    <3>2. RestOK' /\ OrderOK' /\ SessionsOK'
      BY <2>11, <2>a, <2>8, TurnsTyped, RowsKept DEF AcceptsOffer, RestOK
    <3> QED BY <3>1, <3>2, Parts
  <2>12. ASSUME NEW w \in Workers, Finishes(w) PROVE TypeOK'
    <3>1. \A r \in Turn : [r EXCEPT !.pc = "mark", !.kind = "text"] \in Turn
      BY DEF Turn
    <3> QED BY <2>12, <2>b, <3>1, TurnsTyped, OnlyTurn DEF Finishes
  <2>13. ASSUME NEW w \in Workers, MarkOnboarded(w) PROVE TypeOK'
    <3>1. \A r \in Turn : [r EXCEPT !.pc = "close"] \in Turn
      BY DEF Turn
    <3>2. RestOK'
      BY <2>13, <2>a, <3>1, TurnsTyped DEF MarkOnboarded, RestOK
    <3> QED BY <2>13, <2>a, <3>2, Parts, RowsKept DEF MarkOnboarded
  <2>14. ASSUME NEW w \in Workers, CloseSession(w) PROVE TypeOK'
    <3> DEFINE s == turn[w].session
               e == [sessions[s] EXCEPT !.open = FALSE]
    <3>1. \A r \in Session : [r EXCEPT !.open = FALSE] \in Session
      BY DEF Session
    <3>2. s \in 1..Len(sessions) => e \in Session
      BY <2>a, <3>1, SessionIds
    <3>3. sessions' = [sessions EXCEPT ![s] = e]
      BY <2>14 DEF CloseSession
    <3>4. SessionsOK'
      <4> HIDE DEF s, e
      <4> QED BY <2>a, <3>2, <3>3, ReplacedTyped DEF SessionsOK
    <3>5. RestOK' /\ OrderOK' /\ OffersOK'
      BY <2>14, <2>a, EndsTyped, RowsKept DEF CloseSession, RestOK
    <3> QED BY <3>4, <3>5, Parts
  <2>15. ASSUME NEW w \in Workers, RowSaved(w) PROVE TypeOK'
    <3>1. RestOK'
      BY <2>15, <2>a, <2>c, EndsTyped DEF RowSaved, RestOK
    <3> QED BY <2>15, <2>a, <3>1, Parts, RowsKept DEF RowSaved
  <2>16. CASE SetName
    <3> DEFINE unnamed == {s \in 1..Len(sessions) : StatusIn(s, "name") = "unanswered"}
               named == [s \in 1..Len(sessions) |-> IF s \in unnamed
                           THEN [sessions[s] EXCEPT !.items["name"].status = "answered"]
                           ELSE sessions[s]]
    <3>1. SessionsOK'
      <4>1. \A s \in 1..Len(sessions) : named[s] \in Session
        <5>1. \A r \in Session : [r EXCEPT !.items["name"].status = "answered"] \in Session
          BY DEF Session, Item, Statuses
        <5> QED BY <2>a, <5>1, SessionIds
      <4>2. named \in Seq(Session) /\ Len(named) = Len(sessions)
        <5>1. Len(sessions) \in Nat
          BY <2>a, SessionIds
        <5>2. named \in [1..Len(sessions) -> Session]
          BY <4>1
        <5> QED BY <5>1, <5>2
      <4>3. sessions' = named
        BY <2>16 DEF SetName
      <4> QED BY <2>a, <4>2, <4>3 DEF SessionsOK
    <3>2. OrderOK'
      <4>1. 1..Len(sessions) \subseteq 1..MaxSessions
        BY <2>a, SessionIds, Bounds
      <4>2. order' = [order EXCEPT !["name"] = @ \cup
              {p \in unnamed \X (1..Len(sessions)) : p[2] \in unnamed => p[2] < p[1]}]
        BY <2>16 DEF SetName
      <4>3. {p \in unnamed \X (1..Len(sessions)) : p[2] \in unnamed => p[2] < p[1]}
               \subseteq (1..MaxSessions) \X (1..MaxSessions)
        BY <4>1
      <4> QED BY <2>a, <4>2, <4>3 DEF OrderOK
    <3>3. RestOK' /\ OffersOK'
      BY <2>16, <2>a, InterviewAssumption, RowsKept DEF SetName, RestOK
    <3> QED BY <3>1, <3>2, <3>3, Parts
  <2>17. CASE Crash
    <3>1. turn' \in [Workers -> Turn]
      BY <2>17, IdleTurn DEF Crash
    <3> QED BY <2>17, <2>b, <3>1, OnlyTurn DEF Crash
  <2>18. CASE UNCHANGED vars
    BY <2>18, <2>b, OnlyTurn DEF vars
  <2> QED BY <2>1, <2>2, <2>3, <2>4, <2>5, <2>6, <2>7, <2>9, <2>10, <2>11, <2>12, <2>13,
             <2>14, <2>15, <2>16, <2>17, <2>18 DEF Next, TurnStep
<1>3. IInv /\ [Next]_vars => IInv'
  BY <1>2, InSessionStep DEF IInv
<1> QED BY <1>1, <1>3, PTL DEF Spec

\* The introduction's rows and turns keep their types.
THEOREM TypeCorrect == Spec => []TypeOK
<1>1. IInv => TypeOK
  BY DEF IInv
<1> QED BY <1>1, IInvHolds, PTL

----------------------------------------------------------------------------
(* Questions in order.                                                     *)

Asked(s, k) == sessions[s].items[k].asked

\* A step that puts no question and unsettles none, but in a session that has
\* none put, keeps the questions in order.
LEMMA OrderKept ==
    ASSUME OneQuestionAtATime,
           \A s \in 1..Len(sessions') :
              \/ \A k \in Keys : ~Asked(s, k)'
              \/ /\ s \in 1..Len(sessions)
                 /\ \A k \in Keys :
                      /\ Asked(s, k)' => Asked(s, k)
                      /\ StatusIn(s, k) # "unanswered" => StatusIn(s, k)' # "unanswered"
    PROVE  OneQuestionAtATime'
<1>1. \A i \in 1..Len(Template) : Template[i] \in Keys
  BY DEF Keys
<1> QED BY <1>1 DEF OneQuestionAtATime, Asked, StatusIn

\* Putting the first question that is not settled keeps them in order.
LEMMA AskKeepsOrder ==
    ASSUME SessionsOK, OneQuestionAtATime, NEW t \in 0..MaxSessions,
           NEW k \in NextChecklistItem(t), Ask(t, k)
    PROVE  OneQuestionAtATime'
<1>1. PICK n \in 1..Len(Template) :
         k = Template[n] /\ \A h \in 1..(n - 1) : StatusIn(t, Template[h]) # "unanswered"
  BY DEF NextChecklistItem
<1>2. \A i \in 1..Len(Template) : Template[i] \in Keys /\ (Template[i] = k => i = n)
  BY <1>1, InterviewAssumption DEF Keys
<1> DEFINE e == [sessions[t] EXCEPT !.items[k].asked = TRUE]
<1>3. sessions' = [sessions EXCEPT ![t] = e]
  BY DEF Ask
<1>4. \A r \in Session : [r EXCEPT !.items[k].asked = TRUE] \in Session
  BY DEF Session, Item
<1>5. t \in 1..Len(sessions) => e \in Session
  BY <1>4, SessionIds
<1>6. \A r \in Session, j \in Keys :
         /\ [r EXCEPT !.items[k].asked = TRUE].items[j].status = r.items[j].status
         /\ j # k => [r EXCEPT !.items[k].asked = TRUE].items[j].asked = r.items[j].asked
  BY DEF Session, Item
<1>7. t \in 1..Len(sessions) => \A j \in Keys :
         /\ e.items[j].status = sessions[t].items[j].status
         /\ j # k => e.items[j].asked = sessions[t].items[j].asked
  BY <1>6, SessionIds
<1> HIDE DEF e
<1>8. /\ Len(sessions') = Len(sessions)
      /\ \A s \in 1..Len(sessions) : sessions'[s] = IF s = t THEN e ELSE sessions[s]
  BY <1>3, <1>5, ReplacedTyped DEF SessionsOK
<1>9. \A s \in 1..Len(sessions), j \in Keys :
         /\ StatusIn(s, j)' = StatusIn(s, j)
         /\ Asked(s, j)' => Asked(s, j) \/ (s = t /\ j = k)
  BY <1>7, <1>8 DEF StatusIn, Asked
<1> SUFFICES ASSUME NEW s \in 1..Len(sessions), NEW i \in 1..Len(Template),
                    NEW j \in 1..Len(Template), i < j, Asked(s, Template[j])'
             PROVE  StatusIn(s, Template[i])' # "unanswered"
  BY <1>8 DEF OneQuestionAtATime, Asked
<1>10. CASE s = t /\ j = n
  <2>1. i \in 1..(n - 1)
    BY <1>10
  <2> QED BY <1>1, <1>2, <1>9, <1>10, <2>1
<1>11. CASE ~(s = t /\ j = n)
  BY <1>2, <1>9, <1>11 DEF OneQuestionAtATime, Asked
<1> QED BY <1>10, <1>11

\* No turn, over whichever channel and whatever it interleaves with, puts a
\* question before every earlier one of its session is settled.
THEOREM QuestionsInOrder == Spec => []OneQuestionAtATime
<1>1. Init => OneQuestionAtATime
  BY EmptySeq DEF Init, OneQuestionAtATime
<1>2. TypeOK /\ OneQuestionAtATime /\ [Next]_vars => OneQuestionAtATime'
  <2> SUFFICES ASSUME TypeOK, OneQuestionAtATime, [Next]_vars PROVE OneQuestionAtATime'
    OBVIOUS
  <2>a. SessionsOK /\ \A w \in Workers : turn[w] \in Turn
    BY Parts DEF TypeOK
  <2>b. \A w \in Workers : turn[w].session \in 0..MaxSessions /\ turn[w].key \in Keys
    BY <2>a DEF Turn
  <2>1. CASE UNCHANGED sessions
    BY <2>1 DEF OneQuestionAtATime, StatusIn
  <2>2. ASSUME NEW w \in Workers, SessionCreated(w) PROVE OneQuestionAtATime'
    <3> DEFINE new == [channel |-> ChannelOf(turn[w].kind), open |-> TRUE,
                       items |-> [k \in Keys |-> [status |-> turn[w].carried[k],
                                                  asked |-> FALSE]]]
    <3>1. \A k \in Keys : ~new.items[k].asked
      OBVIOUS
    <3>2. new \in Session
      BY <2>a DEF Turn, Session, Item, ChannelOf, Channels
    <3>3. sessions' = Append(sessions, new)
      BY <2>2 DEF SessionCreated
    <3> HIDE DEF new
    <3>4. /\ Len(sessions') = Len(sessions) + 1 /\ Len(sessions) \in Nat
          /\ \A s \in 1..Len(sessions) : sessions'[s] = sessions[s]
          /\ sessions'[Len(sessions) + 1] = new
      BY <2>a, <3>2, <3>3, AppendProperties, LenProperties DEF SessionsOK
    <3>5. \A s \in 1..Len(sessions') : s \in 1..Len(sessions) \/ s = Len(sessions) + 1
      BY <3>4
    <3> QED BY <3>1, <3>4, <3>5, OrderKept DEF Asked, StatusIn
  <2>3. ASSUME NEW w \in Workers, AsksCurrent(w) \/ AsksNext(w) PROVE OneQuestionAtATime'
    BY <2>3, <2>a, <2>b, AskKeepsOrder DEF AsksCurrent, AsksNext
  <2>4. ASSUME NEW w \in Workers, AnswerWritten(w) PROVE OneQuestionAtATime'
    <3> DEFINE t == turn[w].session
               q == turn[w].key
               status == StatusOf(turn[w].kind, turn[w].reply)
               e == [sessions[t] EXCEPT !.items[q].status = status]
    <3>1. status \in Statuses /\ status # "unanswered"
      BY DEF StatusOf, Statuses
    <3>2. CASE sessions' = [sessions EXCEPT ![t].items[q].status = status]
      <4> HIDE DEF status
      <4>1. \A r \in Session : LET n == [r EXCEPT !.items[q].status = status] IN
               /\ n \in Session
               /\ \A k \in Keys : /\ n.items[k].asked = r.items[k].asked
                                  /\ n.items[k].status = r.items[k].status
                                       \/ n.items[k].status = status
        BY <2>b, <3>1 DEF Session, Item
      <4>2. t \in 1..Len(sessions) =>
               /\ e \in Session
               /\ \A k \in Keys : /\ e.items[k].asked = sessions[t].items[k].asked
                                  /\ e.items[k].status = sessions[t].items[k].status
                                       \/ e.items[k].status = status
        BY <2>a, <4>1, SessionIds
      <4>3. sessions' = [sessions EXCEPT ![t] = e]
        BY <3>2
      <4> HIDE DEF e, t
      <4>4. /\ Len(sessions') = Len(sessions)
            /\ \A s \in 1..Len(sessions) : sessions'[s] = IF s = t THEN e ELSE sessions[s]
        BY <2>a, <4>2, <4>3, ReplacedTyped DEF SessionsOK
      <4> QED BY <3>1, <4>2, <4>4, OrderKept DEF Asked, StatusIn
    <3> QED BY <2>1, <2>4, <3>2 DEF AnswerWritten
  <2>5. ASSUME NEW w \in Workers, CloseSession(w) PROVE OneQuestionAtATime'
    <3> DEFINE t == turn[w].session
               e == [sessions[t] EXCEPT !.open = FALSE]
    <3>1. \A r \in Session : /\ [r EXCEPT !.open = FALSE] \in Session
                             /\ [r EXCEPT !.open = FALSE].items = r.items
      BY DEF Session
    <3>2. t \in 1..Len(sessions) => e \in Session /\ e.items = sessions[t].items
      BY <2>a, <3>1, SessionIds
    <3>3. sessions' = [sessions EXCEPT ![t] = e]
      BY <2>5 DEF CloseSession
    <3> HIDE DEF e, t
    <3>4. /\ Len(sessions') = Len(sessions)
          /\ \A s \in 1..Len(sessions) : sessions'[s] = IF s = t THEN e ELSE sessions[s]
      BY <2>a, <3>2, <3>3, ReplacedTyped DEF SessionsOK
    <3> QED BY <3>2, <3>4, OrderKept DEF Asked, StatusIn
  <2>6. CASE SetName
    <3>1. \A r \in Session : \A k \in Keys :
             LET n == [r EXCEPT !.items["name"].status = "answered"] IN
             /\ n.items[k].asked = r.items[k].asked
             /\ n.items[k].status = r.items[k].status \/ n.items[k].status = "answered"
      BY DEF Session, Item
    <3>2. Len(sessions) \in Nat
      BY <2>a, SessionIds
    <3>3. /\ Len(sessions') = Len(sessions)
          /\ \A s \in 1..Len(sessions) :
               \/ sessions'[s] = [sessions[s] EXCEPT !.items["name"].status = "answered"]
               \/ sessions'[s] = sessions[s]
      BY <2>6, <3>2 DEF SetName
    <3>4. \A s \in 1..Len(sessions), k \in Keys :
             /\ sessions'[s].items[k].asked = sessions[s].items[k].asked
             /\ \/ sessions'[s].items[k].status = sessions[s].items[k].status
                \/ sessions'[s].items[k].status = "answered"
      <4> SUFFICES ASSUME NEW s \in 1..Len(sessions), NEW k \in Keys
                   PROVE  /\ sessions'[s].items[k].asked = sessions[s].items[k].asked
                          /\ \/ sessions'[s].items[k].status = sessions[s].items[k].status
                             \/ sessions'[s].items[k].status = "answered"
        OBVIOUS
      <4>1. sessions[s] \in Session
        BY <2>a, SessionIds
      <4>2. CASE sessions'[s] = [sessions[s] EXCEPT !.items["name"].status = "answered"]
        BY <3>1, <4>1, <4>2
      <4>3. CASE sessions'[s] = sessions[s]
        BY <4>3
      <4> QED BY <3>3, <4>2, <4>3
    <3> QED BY <3>3, <3>4, OrderKept DEF Asked, StatusIn
  <2> QED BY <2>1, <2>2, <2>3, <2>4, <2>5, <2>6
          DEF Next, TurnStep, TurnBegins, RowLoaded, NothingLeft, TakesReply, Refused,
              FindsOffer, AcceptsOffer, Finishes, MarkOnboarded, RowSaved, Crash, vars
<1> QED BY <1>1, <1>2, TypeCorrect, PTL DEF Spec
----------------------------------------------------------------------------
(* Signed up on a yes.                                                     *)

ActsOnYes(t) == t.pc \in {"acknowledge", "accept"}

\* Finitely many events are signed up for.
LEMMA SignedUpFinite ==
    ASSUME OffersOK
    PROVE  IsFiniteSet(SignedUp) /\ Cardinality(SignedUp) \in Nat
<1>1. Len(offers) \in Nat
  BY LenProperties DEF OffersOK
<1>2. IsFiniteSet(1..Len(offers))
  BY <1>1, FS_Interval
<1>3. IsFiniteSet(SignedUp)
  BY <1>2, FS_Subset DEF SignedUp
<1> QED BY <1>3, FS_CardinalityType

\* A worker that is given a turn acts on a yes afterwards or does not.
LEMMA AcceptingBecomes ==
    ASSUME TypeOK, NEW w \in Workers, NEW t, Becomes(w, t)
    PROVE  Accepting' = IF ActsOnYes(t) THEN Accepting \cup {w} ELSE Accepting \ {w}
BY DEF TypeOK, Becomes, Accepting, ActsOnYes

\* No more signed up for, and no more turns acting on a yes.
LEMMA SignUpKept ==
    ASSUME TypeOK, SignUpInv, OffersOK', UNCHANGED agreed,
           SignedUp' \subseteq SignedUp, Accepting' \subseteq Accepting
    PROVE  SignUpInv'
<1>1. IsFiniteSet(Accepting) /\ Cardinality(Accepting) \in Nat
  BY FS_CardinalityType DEF SignUpInv
<1>2. /\ IsFiniteSet(Accepting') /\ Cardinality(Accepting') <= Cardinality(Accepting)
      /\ Cardinality(Accepting') \in Nat
  BY <1>1, FS_Subset, FS_CardinalityType
<1>3. IsFiniteSet(SignedUp) /\ Cardinality(SignedUp) \in Nat
  BY SignedUpFinite, Parts
<1>4. Cardinality(SignedUp') <= Cardinality(SignedUp) /\ Cardinality(SignedUp') \in Nat
  BY <1>3, FS_Subset, FS_CardinalityType
<1>5. agreed \in Nat
  BY DEF TypeOK
<1> QED BY <1>1, <1>2, <1>3, <1>4, <1>5 DEF SignUpInv

\* A turn that moves on, or ends, without acting on a yes.
LEMMA SignUpMoves ==
    ASSUME TypeOK, SignUpInv, UNCHANGED <<offers, agreed>>,
           NEW w \in Workers, NEW t, Becomes(w, t), ~ActsOnYes(t)
    PROVE  SignUpInv'
<1>1. SignedUp' = SignedUp /\ OffersOK'
  BY Parts, RowsKept DEF SignedUp
<1>2. Accepting' \subseteq Accepting
  BY AcceptingBecomes
<1> QED BY <1>1, <1>2, SignUpKept

LEMMA SignUpEnds ==
    ASSUME TypeOK, SignUpInv, UNCHANGED <<offers, agreed>>, NEW w \in Workers, Ends(w)
    PROVE  SignUpInv'
<1>1. ~ActsOnYes(Idle)
  BY DEF ActsOnYes, Idle
<1> QED BY <1>1, SignUpMoves DEF Ends

\* A new suggestion is nothing anybody is signed up for.
LEMMA AskSignsNobodyUp ==
    ASSUME OffersOK, NEW s, NEW k, Ask(s, k)
    PROVE  SignedUp' = SignedUp
<1>1. CASE UNCHANGED offers
  BY <1>1 DEF SignedUp
<1>2. CASE SuggestEvent
  <2>1. Len(offers) \in Nat
    BY LenProperties DEF OffersOK
  <2>2. /\ Len(offers') = Len(offers) + 1
        /\ \A i \in 1..Len(offers) : offers'[i] = offers[i]
        /\ offers'[Len(offers) + 1] = "offered"
    BY <1>2, AppendProperties DEF SuggestEvent, OffersOK
  <2> QED BY <2>1, <2>2 DEF SignedUp
<1> QED BY <1>1, <1>2 DEF Ask

\* Each yes is an event accepted, or a turn still acting on it, or nothing.
LEMMA SignUpInvHolds == Spec => []SignUpInv
<1>1. Init => SignUpInv
  <2> SUFFICES ASSUME Init PROVE SignUpInv
    OBVIOUS
  <2>1. SignedUp = {} /\ Accepting = {} /\ agreed = 0
    BY EmptySeq DEF Init, SignedUp, Accepting, Idle
  <2>2. IsFiniteSet({}) /\ Cardinality({}) = 0
    BY FS_EmptySet
  <2> QED BY <2>1, <2>2 DEF SignUpInv
<1>2. TypeOK /\ TypeOK' /\ SignUpInv /\ [Next]_vars => SignUpInv'
  <2> SUFFICES ASSUME TypeOK, TypeOK', SignUpInv, [Next]_vars PROVE SignUpInv'
    OBVIOUS
  <2>a. OffersOK /\ OffersOK' /\ \A w \in Workers : turn[w] \in Turn
    BY DEF TypeOK, OffersOK
  <2>b. /\ IsFiniteSet(Accepting) /\ Cardinality(Accepting) \in Nat
        /\ IsFiniteSet(SignedUp) /\ Cardinality(SignedUp) \in Nat
        /\ agreed \in Nat /\ Cardinality(SignedUp) + Cardinality(Accepting) <= agreed
    BY <2>a, SignedUpFinite, FS_CardinalityType DEF SignUpInv, TypeOK
  <2>c. \A t : /\ Resume(t).pc = IF t.pc = "write" /\ t.key = "event_offer" /\ IsYes(t.reply)
                                   THEN "acknowledge" ELSE "next"
    BY DEF Resume, Idle
  <2>1. ASSUME NEW w \in Workers, NEW kind \in {"text", "poll", "save"}, TurnBegins(w, kind)
        PROVE  SignUpInv'
    <3> DEFINE t == [Idle EXCEPT !.kind = kind]
               c == [t EXCEPT !.pc = "create", !.carried = [k \in Keys |-> CarryForward(k)]]
               r(i) == [t EXCEPT !.pc = "current", !.session = i]
    <3>1. ~ActsOnYes(c) /\ \A i : ~ActsOnYes(r(i))
      BY DEF ActsOnYes, Idle
    <3>2. Becomes(w, c) \/ \E i : Becomes(w, r(i))
      BY <2>1 DEF TurnBegins
    <3>3. UNCHANGED <<offers, agreed>>
      BY <2>1 DEF TurnBegins
    <3> HIDE DEF c, r
    <3> QED BY <3>1, <3>2, <3>3, SignUpMoves
  <2>2. ASSUME NEW w \in Workers, SessionCreated(w) PROVE SignUpInv'
    <3> DEFINE t == [turn[w] EXCEPT !.pc = "current", !.session = Len(sessions) + 1,
                                    !.carried = Fresh]
    <3>1. ~ActsOnYes(t)
      BY <2>a DEF ActsOnYes, Turn
    <3>2. Becomes(w, t)
      BY <2>2 DEF SessionCreated
    <3> HIDE DEF t
    <3> QED BY <2>2, <3>1, <3>2, SignUpMoves DEF SessionCreated
  <2>3. ASSUME NEW w \in Workers, NothingLeft(w) \/ Finishes(w) \/ MarkOnboarded(w)
        PROVE  SignUpInv'
    <3> DEFINE m == [turn[w] EXCEPT !.pc = "mark"]
               f == [turn[w] EXCEPT !.pc = "mark", !.kind = "text"]
               c == [turn[w] EXCEPT !.pc = "close"]
    <3>1. ~ActsOnYes(m) /\ ~ActsOnYes(f) /\ ~ActsOnYes(c)
      BY <2>a DEF ActsOnYes, Turn
    <3>2. Becomes(w, m) \/ Becomes(w, f) \/ Becomes(w, c) \/ Ends(w)
      BY <2>3 DEF NothingLeft, Finishes, MarkOnboarded
    <3>3. UNCHANGED <<offers, agreed>>
      BY <2>3 DEF NothingLeft, Finishes, MarkOnboarded
    <3> HIDE DEF m, f, c
    <3> QED BY <3>1, <3>2, <3>3, SignUpMoves, SignUpEnds
  <2>4. ASSUME NEW w \in Workers, AsksCurrent(w) \/ AsksNext(w) PROVE SignUpInv'
    <3>1. Ends(w) /\ UNCHANGED agreed /\ \E s, k : Ask(s, k)
      BY <2>4 DEF AsksCurrent, AsksNext
    <3>2. SignedUp' = SignedUp
      BY <2>a, <3>1, AskSignsNobodyUp
    <3>3. Accepting' \subseteq Accepting
      BY <3>1, AcceptingBecomes DEF Ends, ActsOnYes, Idle
    <3> QED BY <2>a, <3>1, <3>2, <3>3, SignUpKept
  <2>5. ASSUME NEW w \in Workers, NEW reply \in AllReplies, TakesReply(w, reply)
        PROVE  SignUpInv'
    <3> DEFINE t(k) == [turn[w] EXCEPT !.pc = "write", !.key = k, !.reply = reply]
    <3>1. \A k : ~ActsOnYes(t(k))
      BY <2>a DEF ActsOnYes, Turn
    <3>2. \E k : Becomes(w, t(k))
      BY <2>5 DEF TakesReply
    <3> HIDE DEF t
    <3> QED BY <2>5, <3>1, <3>2, SignUpMoves DEF TakesReply
  <2>6. ASSUME NEW w \in Workers, Refused(w) \/ CloseSession(w) \/ RowSaved(w)
        PROVE  SignUpInv'
    BY <2>6, SignUpEnds DEF Refused, CloseSession, RowSaved
  <2>7. ASSUME NEW w \in Workers, AnswerWritten(w) PROVE SignUpInv'
    <3>1. SignedUp' = SignedUp /\ UNCHANGED offers
      BY <2>7 DEF AnswerWritten, SignedUp
    <3>2. CASE Ends(w) /\ UNCHANGED agreed
      BY <3>1, <3>2, SignUpEnds
    <3>3. CASE /\ Becomes(w, Resume(turn[w]))
               /\ agreed' = IF turn[w].reply = "yes" THEN agreed + 1 ELSE agreed
      <4>1. CASE turn[w].reply # "yes"
        <5>1. ~ActsOnYes(Resume(turn[w])) /\ UNCHANGED agreed
          BY <2>c, <3>3, <4>1 DEF ActsOnYes, IsYes
        <5> QED BY <3>1, <3>3, <5>1, SignUpMoves
      <4>2. CASE turn[w].reply = "yes"
        <5>1. Accepting' \subseteq Accepting \cup {w}
          BY <3>3, AcceptingBecomes
        <5>2. /\ IsFiniteSet(Accepting \cup {w})
              /\ Cardinality(Accepting \cup {w}) = Cardinality(Accepting)
                   \/ Cardinality(Accepting \cup {w}) = Cardinality(Accepting) + 1
          BY <2>b, FS_AddElement
        <5>3. /\ IsFiniteSet(Accepting') /\ Cardinality(Accepting') \in Nat
              /\ Cardinality(Accepting') <= Cardinality(Accepting \cup {w})
          BY <5>1, <5>2, FS_Subset, FS_CardinalityType
        <5>4. agreed' = agreed + 1
          BY <3>3, <4>2
        <5> QED BY <2>b, <3>1, <5>2, <5>3, <5>4 DEF SignUpInv
      <4> QED BY <4>1, <4>2
    <3> QED BY <2>7, <3>2, <3>3 DEF AnswerWritten
  <2>8. ASSUME NEW w \in Workers, FindsOffer(w) PROVE SignUpInv'
    <3> DEFINE t(i) == [turn[w] EXCEPT !.pc = "accept", !.offer = i]
    <3>1. w \in Accepting /\ SignedUp' = SignedUp /\ UNCHANGED agreed
      BY <2>8 DEF FindsOffer, Accepting, SignedUp
    <3>2. (\E i : Becomes(w, t(i))) \/ Becomes(w, Resume(turn[w]))
      BY <2>8 DEF FindsOffer
    <3> HIDE DEF t
    <3>3. \E r : Becomes(w, r)
      BY <3>2
    <3>4. Accepting' \subseteq Accepting
      BY <3>1, <3>3, AcceptingBecomes
    <3> QED BY <2>a, <3>1, <3>4, SignUpKept
  <2>9. ASSUME NEW w \in Workers, AcceptsOffer(w) PROVE SignUpInv'
    <3>1. /\ w \in Accepting /\ UNCHANGED agreed /\ Becomes(w, Resume(turn[w]))
          /\ ~ActsOnYes(Resume(turn[w]))
      BY <2>9, <2>c DEF AcceptsOffer, Accepting, ActsOnYes
    <3>2. Accepting' = Accepting \ {w}
      BY <3>1, AcceptingBecomes
    <3>3. /\ IsFiniteSet(Accepting')
          /\ Cardinality(Accepting') = Cardinality(Accepting) - 1
      BY <2>b, <3>1, <3>2, FS_RemoveElement
    <3>4. PICK i : offers' = [offers EXCEPT ![i] = "accepted"]
      BY <2>9 DEF AcceptsOffer
    <3>5. SignedUp' \subseteq SignedUp \cup {i}
      <4>1. /\ Len(offers') = Len(offers)
            /\ \A j \in 1..Len(offers) : offers'[j] = IF j = i THEN "accepted" ELSE offers[j]
        BY <2>a, <3>4, ReplacedTyped DEF OffersOK
      <4> QED BY <4>1 DEF SignedUp
    <3>6. /\ IsFiniteSet(SignedUp \cup {i})
          /\ Cardinality(SignedUp \cup {i}) = Cardinality(SignedUp)
               \/ Cardinality(SignedUp \cup {i}) = Cardinality(SignedUp) + 1
      BY <2>b, FS_AddElement
    <3>7. /\ Cardinality(SignedUp') <= Cardinality(SignedUp \cup {i})
          /\ Cardinality(SignedUp') \in Nat
      BY <2>a, <3>5, <3>6, FS_Subset, SignedUpFinite, FS_CardinalityType
    <3> QED BY <2>b, <3>1, <3>3, <3>6, <3>7 DEF SignUpInv
  <2>10. ASSUME NEW w \in Workers, NEW learned \in SUBSET Profile, RowLoaded(w, learned)
         PROVE  SignUpInv'
    <3> DEFINE t == [Idle EXCEPT !.pc = "row", !.row = known \cup learned]
    <3>1. ~ActsOnYes(t)
      BY DEF ActsOnYes, Idle
    <3>2. Becomes(w, t)
      BY <2>10 DEF RowLoaded
    <3> HIDE DEF t
    <3> QED BY <2>10, <3>1, <3>2, SignUpMoves DEF RowLoaded
  <2>11. CASE UNCHANGED <<offers, turn, agreed>>
    BY <2>a, <2>11, SignUpKept DEF SignedUp, Accepting
  <2>12. CASE Crash
    <3>1. Accepting' = {} /\ SignedUp' = SignedUp
      BY <2>12 DEF Crash, Accepting, Idle, SignedUp
    <3> QED BY <2>a, <2>12, <3>1, SignUpKept DEF Crash
  <2> QED BY <2>1, <2>2, <2>3, <2>4, <2>5, <2>6, <2>7, <2>8, <2>9, <2>10, <2>11, <2>12
          DEF Next, TurnStep, SetName, vars
<1> QED BY <1>1, <1>2, TypeCorrect, PTL DEF Spec

\* Whatever turns race to accept the events on offer, nobody is signed up for
\* more of them than the yeses they gave.
THEOREM SignUpsFollowYeses == Spec => []SignedUpOnlyOnYes
<1>1. TypeOK /\ SignUpInv => SignedUpOnlyOnYes
  <2> SUFFICES ASSUME TypeOK, SignUpInv PROVE SignedUpOnlyOnYes
    OBVIOUS
  <2>1. Cardinality(SignedUp) \in Nat /\ Cardinality(Accepting) \in Nat /\ agreed \in Nat
    BY SignedUpFinite, Parts, FS_CardinalityType DEF SignUpInv, TypeOK
  <2> QED BY <2>1 DEF SignUpInv, SignedUpOnlyOnYes
<1> QED BY <1>1, TypeCorrect, SignUpInvHolds, PTL
=============================================================================
