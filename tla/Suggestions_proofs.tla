------------------------- MODULE Suggestions_proofs -------------------------
(***************************************************************************)
(* Proofs about Suggestions, for any number of people, workers, events,    *)
(* exports, seeds and offers.                                              *)
(***************************************************************************)
EXTENDS Suggestions, FiniteSetTheorems, TLAPS

\* The rows a worker starts out with are of the right kind.
LEMMA IdleTask == Idle \in Task
<1>1. (CHOOSE u \in Users : TRUE) \in Users /\ (CHOOSE e \in Titles : TRUE) \in Titles
  BY SuggestionsAssumption
<1>2. 1 \in 1..MaxSeeds /\ 0 \in 0..MaxOffers
  BY SuggestionsAssumption
<1> QED BY <1>1, <1>2 DEF Idle, NoRow, Task, Row

\* What a worker is given, however its statements go: a task, or rest.
LEMMA EndsWell ==
    ASSUME task \in [Workers -> Task], NEW w \in Workers, Ends(w)
    PROVE  task' \in [Workers -> Task]
BY IdleTask DEF Ends, Becomes

\* Every variable keeps its type.
THEOREM TypeCorrect == Spec => []TypeOK
<1> USE SuggestionsAssumption
<1>1. Init => TypeOK
  BY IdleTask DEF Init, TypeOK
<1>2. TypeOK /\ [Next]_vars => TypeOK'
  <2> SUFFICES ASSUME TypeOK, [Next]_vars PROVE TypeOK'
    OBVIOUS
  <2> USE DEF TypeOK
  <2>1. ASSUME NEW w \in Workers, NEW u \in Users, Asks(w, u) PROVE TypeOK'
    <3>1. [Idle EXCEPT !.pc = "match", !.user = u, !.interests = interests[u]] \in Task
      BY IdleTask DEF Task
    <3> QED BY <2>1, <3>1 DEF Asks, Becomes, catalogue
  <2>2. ASSUME NEW w \in Workers, NEW u \in Users, SaysYes(w, u) \/ YesRetried(w, u)
        PROVE  TypeOK'
    <3>1. [Idle EXCEPT !.pc = "open", !.user = u] \in Task
      BY IdleTask DEF Task
    <3> QED BY <2>2, <3>1 DEF SaysYes, YesRetried, Becomes, catalogue
  <2>3. ASSUME NEW w \in Workers, NoMatch(w) \/ OfferFails(w) PROVE TypeOK'
    BY <2>3, EndsWell DEF NoMatch, OfferFails, catalogue
  <2>4. ASSUME NEW w \in Workers, Picks(w) PROVE TypeOK'
    <3>1. PICK r \in MatchEvent(CandidateEvents(task[w].user), task[w].interests) :
             Becomes(w, [task[w] EXCEPT !.pc = "offer", !.event = r, !.interests = {},
                                        !.since = offered])
      BY <2>4 DEF Picks
    <3>2. r \in Row
      BY DEF MatchEvent, CandidateEvents
    <3>3. \A t \in Task :
             [t EXCEPT !.pc = "offer", !.event = r, !.interests = {}, !.since = offered] \in Task
      BY <3>2 DEF Task
    <3>4. task' \in [Workers -> Task]
      BY <3>1, <3>3 DEF Becomes
    <3> QED BY <2>4, <3>4 DEF Picks, catalogue
  <2>5. ASSUME NEW w \in Workers, Offered(w) PROVE TypeOK'
    <3>1. offered + 1 \in 1..MaxOffers
      BY <2>5 DEF Offered
    <3>2. [id |-> offered + 1, user |-> task[w].user, event |-> task[w].event,
           status |-> "offered", since |-> task[w].since] \in Suggestion
      BY <3>1 DEF Task, Suggestion
    <3> QED BY <2>5, <3>1, <3>2, EndsWell DEF Offered, catalogue
  <2>6. ASSUME NEW w \in Workers, Opens(w) PROVE TypeOK'
    <3>1. CASE Ends(w)
      BY <2>6, <3>1, EndsWell DEF Opens, catalogue
    <3>2. ASSUME NEW s \in OnOffer(task[w].user),
                 Becomes(w, [task[w] EXCEPT !.pc = "accept", !.id = s.id])
          PROVE  TypeOK'
      <4>1. s.id \in 0..MaxOffers
        BY DEF OnOffer, Suggestion
      <4>2. \A t \in Task : [t EXCEPT !.pc = "accept", !.id = s.id] \in Task
        BY <4>1 DEF Task
      <4>3. task' \in [Workers -> Task]
        BY <3>2, <4>2 DEF Becomes
      <4> QED BY <2>6, <4>3 DEF Opens, catalogue
    <3> QED BY <2>6, <3>1, <3>2 DEF Opens
  <2>7. ASSUME NEW w \in Workers, Accepts(w) PROVE TypeOK'
    <3>1. \A s \in suggestions : [s EXCEPT !.status = "accepted"] \in Suggestion
      BY DEF Suggestion
    <3>2. suggestions' \subseteq Suggestion
      BY <2>7, <3>1 DEF Accepts
    <3> QED BY <2>7, <3>2, EndsWell DEF Accepts, catalogue
  <2>8. ASSUME NEW u \in Users, Forgets(u) PROVE TypeOK'
    BY <2>8 DEF Forgets
  <2>9. ASSUME NEW u \in Users, NEW I \in Profiles, Learns(u, I) PROVE TypeOK'
    BY <2>9 DEF Learns
  <2>10. ASSUME NEW export \in Exports, NEW force \in BOOLEAN, Seeds(export, force)
         PROVE  TypeOK'
    <3>1. seeds + 1 \in 1..MaxSeeds
      BY <2>10 DEF Seeds
    <3>2. Kept(force) \subseteq Row
      BY DEF Kept, Suggestion
    <3>3. export \subseteq Titles
      OBVIOUS
    <3>4. events' \subseteq Row
      BY <2>10, <3>1, <3>2, <3>3 DEF Seeds, Row
    <3> QED BY <2>10, <3>1, <3>4 DEF Seeds
  <2>11. CASE Crash
    BY <2>11, IdleTask DEF Crash, catalogue
  <2>12. CASE Tick
    BY <2>12 DEF Tick
  <2>13. CASE UNCHANGED vars
    BY <2>13 DEF vars
  <2> QED BY <2>1, <2>2, <2>3, <2>4, <2>5, <2>6, <2>7, <2>8, <2>9, <2>10, <2>11,
             <2>12, <2>13 DEF Next
<1> QED BY <1>1, <1>2, PTL DEF Spec

----------------------------------------------------------------------------
\* An offer of an event is made again only to somebody who was looking when it
\* was made first.
LEMMA AfreshInvHolds == Spec => []AfreshInv
<1> USE SuggestionsAssumption
<1>1. Init => AfreshInv
  BY DEF Init, AfreshInv, OfferedAfresh, Idle
<1>2. TypeOK /\ AfreshInv /\ [Next]_vars => AfreshInv'
  <2> SUFFICES ASSUME TypeOK, AfreshInv, [Next]_vars PROVE AfreshInv'
    OBVIOUS
  <2>a. \A s \in suggestions : s.id \in Nat /\ s.since \in Nat
    BY DEF TypeOK, Suggestion
  <2>b. offered \in Nat /\ \A w \in Workers : task[w] \in Task /\ task[w].since \in Nat
    BY DEF TypeOK, Task
  <2>c. Idle.pc = "idle" /\ Idle.since = 0
    BY DEF Idle
  <2>1. ASSUME NEW w \in Workers, UNCHANGED <<suggestions, offered>>,
               NEW t, Becomes(w, t), t.pc # "offer", t.since <= offered
        PROVE  AfreshInv'
    <3>1. task' = [task EXCEPT ![w] = t]
      BY <2>1 DEF Becomes
    <3> QED BY <2>1, <3>1 DEF AfreshInv, OfferedAfresh, TypeOK
  <2>2. ASSUME NEW w \in Workers, UNCHANGED <<suggestions, offered>>, Ends(w)
        PROVE  AfreshInv'
    BY <2>1, <2>2, <2>b, <2>c DEF Ends
  <2>3. ASSUME NEW w \in Workers, NEW u \in Users,
               Asks(w, u) \/ SaysYes(w, u) \/ YesRetried(w, u)
        PROVE  AfreshInv'
    <3>1. PICK t : Becomes(w, t) /\ t.pc \in {"match", "open"} /\ t.since = 0
      <4> DEFINE a == [Idle EXCEPT !.pc = "match", !.user = u, !.interests = interests[u]]
                 o == [Idle EXCEPT !.pc = "open", !.user = u]
      <4>1. a.pc = "match" /\ a.since = 0 /\ o.pc = "open" /\ o.since = 0
        BY DEF Idle
      <4>2. Becomes(w, a) \/ Becomes(w, o)
        BY <2>3 DEF Asks, SaysYes, YesRetried
      <4> HIDE DEF a, o
      <4> QED BY <4>1, <4>2
    <3>2. UNCHANGED <<suggestions, offered>>
      BY <2>3 DEF Asks, SaysYes, YesRetried
    <3> QED BY <2>1, <2>b, <3>1, <3>2
  <2>4. ASSUME NEW w \in Workers, NoMatch(w) \/ OfferFails(w) PROVE AfreshInv'
    BY <2>2, <2>4 DEF NoMatch, OfferFails
  <2>5. ASSUME NEW w \in Workers, Picks(w) PROVE AfreshInv'
    <3>1. PICK r \in MatchEvent(CandidateEvents(task[w].user), task[w].interests) :
             task' = [task EXCEPT ![w] = [task[w] EXCEPT !.pc = "offer", !.event = r,
                                           !.interests = {}, !.since = offered]]
      BY <2>5 DEF Picks, Becomes
    <3>2. \A s \in suggestions : ~(s.user = task[w].user /\ s.event = r)
      BY DEF MatchEvent, CandidateEvents
    <3>3. task'[w].user = task[w].user /\ task'[w].event = r /\ task'[w].since = offered
      BY <2>b, <3>1 DEF TypeOK, Task
    <3>4. \A x \in Workers \ {w} : task'[x] = task[x]
      BY <3>1 DEF TypeOK
    <3>5. UNCHANGED <<suggestions, offered>>
      BY <2>5 DEF Picks
    <3> QED BY <2>b, <3>2, <3>3, <3>4, <3>5 DEF AfreshInv, OfferedAfresh
  <2>6. ASSUME NEW w \in Workers, Offered(w) PROVE AfreshInv'
    <3> DEFINE new == [id |-> offered + 1, user |-> task[w].user, event |-> task[w].event,
                       status |-> "offered", since |-> task[w].since]
    <3>1. /\ suggestions' = suggestions \cup {new} /\ offered' = offered + 1
          /\ task' = [task EXCEPT ![w] = Idle] /\ task[w].pc = "offer"
      BY <2>6 DEF Offered, Ends, Becomes
    <3>2. /\ new.id = offered + 1 /\ new.user = task[w].user
          /\ new.event = task[w].event /\ new.since = task[w].since
      OBVIOUS
    <3> HIDE DEF new
    <3>3. \A s \in suggestions : s.user = new.user /\ s.event = new.event => new.since < s.id
      BY <3>1, <3>2 DEF AfreshInv
    <3>4. \A x \in Workers : task'[x].pc = "offer" => task'[x] = task[x]
      BY <2>c, <3>1 DEF TypeOK
    <3>5. \A x \in Workers : task'[x].since <= offered'
      BY <2>b, <2>c, <3>1 DEF TypeOK, AfreshInv
    <3>6. \A x \in Workers, s \in suggestions' :
             task'[x].pc = "offer" /\ task'[x].user = s.user /\ task'[x].event = s.event
               => task'[x].since < s.id
      BY <2>b, <3>1, <3>2, <3>4 DEF AfreshInv
    <3>7. OfferedAfresh'
      <4> SUFFICES ASSUME NEW s \in suggestions', NEW t \in suggestions', s.user = t.user,
                          s.event = t.event, s.id < t.id
                   PROVE  t.since < s.id
        BY DEF OfferedAfresh
      <4>1. t \in suggestions => s \in suggestions
        BY <2>a, <2>b, <3>1, <3>2 DEF AfreshInv
      <4>2. t = new => s \in suggestions
        BY <2>b, <3>1, <3>2
      <4> QED BY <3>1, <3>3, <4>1, <4>2 DEF AfreshInv, OfferedAfresh
    <3>8. \A s \in suggestions' : s.id <= offered'
      BY <2>a, <2>b, <3>1, <3>2 DEF AfreshInv
    <3> QED BY <3>5, <3>6, <3>7, <3>8 DEF AfreshInv
  <2>7. ASSUME NEW w \in Workers, Opens(w) PROVE AfreshInv'
    <3>1. CASE Ends(w)
      BY <2>2, <2>7, <3>1 DEF Opens
    <3>2. ASSUME NEW s \in OnOffer(task[w].user),
                 Becomes(w, [task[w] EXCEPT !.pc = "accept", !.id = s.id])
          PROVE  AfreshInv'
      <4> DEFINE t == [task[w] EXCEPT !.pc = "accept", !.id = s.id]
      <4>1. t.pc = "accept" /\ t.since <= offered
        BY <2>b DEF AfreshInv, Task
      <4> HIDE DEF t
      <4>2. Becomes(w, t)
        BY <3>2 DEF t
      <4> QED BY <2>1, <2>7, <4>1, <4>2 DEF Opens
    <3> QED BY <2>7, <3>1, <3>2 DEF Opens
  <2>8. ASSUME NEW w \in Workers, Accepts(w) PROVE AfreshInv'
    <3>1. \A s \in suggestions' : \E q \in suggestions :
             s.id = q.id /\ s.user = q.user /\ s.event = q.event /\ s.since = q.since
      BY <2>8 DEF Accepts, TypeOK, Suggestion
    <3>2. UNCHANGED offered /\ task' = [task EXCEPT ![w] = Idle]
      BY <2>8 DEF Accepts, Ends, Becomes
    <3>3. \A x \in Workers : task'[x] = task[x] \/ task'[x] = Idle
      BY <3>2 DEF TypeOK
    <3> QED BY <2>b, <2>c, <3>1, <3>2, <3>3 DEF AfreshInv, OfferedAfresh
  <2>9. ASSUME NEW u \in Users, Forgets(u) PROVE AfreshInv'
    <3>1. suggestions' \subseteq suggestions /\ UNCHANGED <<offered, task>>
      BY <2>9 DEF Forgets
    <3> QED BY <3>1 DEF AfreshInv, OfferedAfresh
  <2>10. ASSUME UNCHANGED <<suggestions, offered, task>> PROVE AfreshInv'
    BY <2>10 DEF AfreshInv, OfferedAfresh
  <2>11. CASE Crash
    BY <2>b, <2>c, <2>11 DEF Crash, AfreshInv, OfferedAfresh
  <2> QED BY <2>3, <2>4, <2>5, <2>6, <2>7, <2>8, <2>9, <2>10, <2>11
         DEF Next, Learns, Seeds, Tick, vars
<1> QED BY <1>1, <1>2, TypeCorrect, PTL DEF Spec

\* Two offers of one event to one person were looked for side by side.
THEOREM OffersAreAfresh == Spec => []OfferedAfresh
<1>1. AfreshInv => OfferedAfresh
  BY DEF AfreshInv
<1> QED BY <1>1, AfreshInvHolds, PTL

\* No reseed, erasure or late insert leaves a suggestion that refers to an event
\* or a person that is gone.
THEOREM NoSuggestionIsOrphaned == Spec => []NothingOrphaned
<1>1. Init => NothingOrphaned
  BY DEF Init, NothingOrphaned
<1>2. TypeOK /\ NothingOrphaned /\ [Next]_vars => NothingOrphaned'
  <2> SUFFICES ASSUME TypeOK, NothingOrphaned, [Next]_vars PROVE NothingOrphaned'
    OBVIOUS
  <2> USE DEF NothingOrphaned
  <2>1. ASSUME UNCHANGED <<suggestions, events, people>> PROVE NothingOrphaned'
    BY <2>1
  <2>2. ASSUME NEW w \in Workers, Offered(w) PROVE NothingOrphaned'
    BY <2>2 DEF Offered, catalogue
  <2>3. ASSUME NEW w \in Workers, Accepts(w) PROVE NothingOrphaned'
    <3>1. \A s \in suggestions' : \E q \in suggestions : s.user = q.user /\ s.event = q.event
      BY <2>3 DEF Accepts, TypeOK, Suggestion
    <3> QED BY <2>3, <3>1 DEF Accepts, catalogue
  <2>4. ASSUME NEW u \in Users, Forgets(u) PROVE NothingOrphaned'
    BY <2>4 DEF Forgets
  <2>5. ASSUME NEW export \in Exports, NEW force \in BOOLEAN, Seeds(export, force)
        PROVE  NothingOrphaned'
    <3>1. {s.event : s \in suggestions} \subseteq events'
      BY <2>5 DEF Seeds, Kept
    <3> QED BY <2>5, <3>1 DEF Seeds
  <2> QED BY <2>1, <2>2, <2>3, <2>4, <2>5
         DEF Next, Asks, SaysYes, YesRetried, NoMatch, Picks, OfferFails, Opens, Learns,
             Crash, Tick, catalogue, vars
<1> QED BY <1>1, <1>2, TypeCorrect, PTL DEF Spec
----------------------------------------------------------------------------
\* What a step does to the counts of one person, when neither what they are
\* signed up for nor what is under way grows.
LEMMA NothingGrows ==
    ASSUME NEW u \in Users, TypeOK, SignUpInv,
           (yeses[u])' = yeses[u], (retried[u])' = retried[u],
           SignedUpFor(u)' \subseteq SignedUpFor(u), UnderWay(u)' \subseteq UnderWay(u)
    PROVE  /\ IsFiniteSet(SignedUpFor(u)') /\ IsFiniteSet(UnderWay(u)')
           /\ (retried[u])' = 0 =>
                Cardinality(SignedUpFor(u)') + Cardinality(UnderWay(u)') <= (yeses[u])'
<1>1. IsFiniteSet(SignedUpFor(u)) /\ IsFiniteSet(UnderWay(u))
  BY DEF SignUpInv
<1>2. /\ IsFiniteSet(SignedUpFor(u)')
      /\ Cardinality(SignedUpFor(u)') <= Cardinality(SignedUpFor(u))
  BY <1>1, FS_Subset
<1>3. /\ IsFiniteSet(UnderWay(u)')
      /\ Cardinality(UnderWay(u)') <= Cardinality(UnderWay(u))
  BY <1>1, FS_Subset
<1>4. /\ Cardinality(SignedUpFor(u)) \in Nat /\ Cardinality(UnderWay(u)) \in Nat
      /\ Cardinality(SignedUpFor(u)') \in Nat /\ Cardinality(UnderWay(u)') \in Nat
  BY <1>1, <1>2, <1>3, FS_CardinalityType
<1>5. yeses[u] \in Nat /\ retried[u] \in Nat
  BY SuggestionsAssumption DEF TypeOK
<1>6. retried[u] = 0 => Cardinality(SignedUpFor(u)) + Cardinality(UnderWay(u)) <= yeses[u]
  BY DEF SignUpInv
<1> HIDE DEF SignedUpFor, UnderWay
<1> QED BY <1>2, <1>3, <1>4, <1>5, <1>6

\* A yes that came once is one event, or is under way, or came to nothing.
LEMMA SignUpInvHolds == Spec => []SignUpInv
<1> USE SuggestionsAssumption
<1>1. Init => SignUpInv
  <2> SUFFICES ASSUME Init PROVE SignUpInv
    OBVIOUS
  <2>1. \A u \in Users : SignedUpFor(u) = {} /\ UnderWay(u) = {} /\ yeses[u] = 0
    BY DEF Init, SignedUpFor, UnderWay, Idle
  <2>2. IsFiniteSet({}) /\ Cardinality({}) = 0
    BY FS_EmptySet
  <2>3. suggestions = {}
    BY DEF Init
  <2>4. \A u \in Users : /\ IsFiniteSet(SignedUpFor(u)) /\ Cardinality(SignedUpFor(u)) = 0
                         /\ IsFiniteSet(UnderWay(u)) /\ Cardinality(UnderWay(u)) = 0
    BY <2>1, <2>2
  <2> QED BY <2>1, <2>3, <2>4 DEF SignUpInv
<1>2. TypeOK /\ AfreshInv /\ SignUpInv /\ [Next]_vars => SignUpInv'
  <2> SUFFICES ASSUME TypeOK, AfreshInv, SignUpInv, [Next]_vars PROVE SignUpInv'
    OBVIOUS
  <2>a. \A s, t \in suggestions : s.id = t.id => s = t
    BY DEF SignUpInv
  <2>b. \A s \in suggestions : s \in Suggestion /\ s.id \in Nat /\ s.id <= offered
    BY DEF TypeOK, Suggestion, AfreshInv
  <2>c. Idle.pc = "idle" /\ offered \in Nat /\ task \in [Workers -> Task]
    BY DEF Idle, TypeOK
  <2>d. \A w, x \in Workers : Ends(w) => task'[x] = task[x] \/ task'[x].pc = "idle"
    BY <2>c DEF Ends, Becomes
  \* Steps that leave no more under way, and no more accepted, for anybody.
  <2>0. ASSUME UNCHANGED <<yeses, retried>>,
               \A s, t \in suggestions' : s.id = t.id => s = t,
               \A u \in Users : /\ SignedUpFor(u)' \subseteq SignedUpFor(u)
                                /\ UnderWay(u)' \subseteq UnderWay(u)
        PROVE  SignUpInv'
    <3>1. \A u \in Users :
            /\ IsFiniteSet(SignedUpFor(u)') /\ IsFiniteSet(UnderWay(u)')
            /\ (retried[u])' = 0 =>
                 Cardinality(SignedUpFor(u)') + Cardinality(UnderWay(u)') <= (yeses[u])'
      BY <2>0, NothingGrows
    <3> QED BY <2>0, <3>1 DEF SignUpInv
  \* And those among them that leave the table of suggestions alone.
  <2>1. ASSUME UNCHANGED <<suggestions, yeses, retried>>,
               \A x \in Workers : \/ task'[x] = task[x]
                                  \/ task'[x].pc \notin {"open", "accept"}
                                  \/ /\ task[x].pc \in {"open", "accept"}
                                     /\ task'[x].user = task[x].user
        PROVE  SignUpInv'
    <3>1. \A u \in Users : SignedUpFor(u)' = SignedUpFor(u)
      BY <2>1 DEF SignedUpFor
    <3>2. \A u \in Users : UnderWay(u)' \subseteq UnderWay(u)
      BY <2>1 DEF UnderWay
    <3> QED BY <2>0, <2>1, <2>a, <3>1, <3>2
  <2>2. ASSUME NEW w \in Workers, NEW u \in Users, Asks(w, u) PROVE SignUpInv'
    <3> DEFINE a == [Idle EXCEPT !.pc = "match", !.user = u, !.interests = interests[u]]
    <3>1. a.pc = "match"
      BY DEF Idle
    <3>2. \A x \in Workers : task'[x] = task[x] \/ task'[x] = a
      BY <2>2, <2>c DEF Asks, Becomes
    <3> HIDE DEF a
    <3>3. \A x \in Workers : task'[x] = task[x] \/ task'[x].pc = "match"
      BY <3>1, <3>2
    <3> QED BY <2>1, <2>2, <3>3 DEF Asks
  <2>3. ASSUME NEW w \in Workers, NoMatch(w) \/ OfferFails(w) PROVE SignUpInv'
    BY <2>1, <2>3, <2>d DEF NoMatch, OfferFails
  <2>4. ASSUME NEW w \in Workers, Picks(w) PROVE SignUpInv'
    <3>1. PICK r :
             task' = [task EXCEPT ![w] = [task[w] EXCEPT !.pc = "offer", !.event = r,
                                           !.interests = {}, !.since = offered]]
      BY <2>4 DEF Picks, Becomes
    <3>2. \A x \in Workers : task'[x] = task[x] \/ task'[x].pc = "offer"
      BY <2>c, <3>1 DEF Task
    <3> QED BY <2>1, <2>4, <3>2 DEF Picks
  <2>5. ASSUME NEW w \in Workers, Offered(w) PROVE SignUpInv'
    <3> DEFINE new == [id |-> offered + 1, user |-> task[w].user, event |-> task[w].event,
                       status |-> "offered", since |-> task[w].since]
    <3>1. suggestions' = suggestions \cup {new} /\ Ends(w) /\ UNCHANGED <<yeses, retried>>
      BY <2>5 DEF Offered
    <3>2. new.id = offered + 1 /\ new.status = "offered"
      OBVIOUS
    <3> HIDE DEF new
    <3>3. \A s, t \in suggestions' : s.id = t.id => s = t
      BY <2>a, <2>b, <2>c, <3>1, <3>2
    <3>4. \A x \in Users : SignedUpFor(x)' \subseteq SignedUpFor(x)
      BY <3>1, <3>2 DEF SignedUpFor
    <3>5. \A x \in Users : UnderWay(x)' \subseteq UnderWay(x)
      BY <2>d, <3>1 DEF UnderWay
    <3> QED BY <2>0, <3>1, <3>3, <3>4, <3>5
  <2>6. ASSUME NEW w \in Workers, NEW u \in Users, SaysYes(w, u) \/ YesRetried(w, u)
        PROVE  SignUpInv'
    <3> DEFINE o == [Idle EXCEPT !.pc = "open", !.user = u]
    <3>1. o.pc = "open" /\ o.user = u
      BY DEF Idle
    <3>2. /\ task' = [task EXCEPT ![w] = o] /\ task[w].pc = "idle"
          /\ suggestions' = suggestions
      BY <2>6 DEF SaysYes, YesRetried, Becomes
    <3> HIDE DEF o
    <3>3. \A x \in Users : SignedUpFor(x)' = SignedUpFor(x)
      BY <3>2 DEF SignedUpFor
    <3>4. \A x \in Users \ {u} : UnderWay(x)' = UnderWay(x)
      BY <2>c, <3>1, <3>2 DEF UnderWay
    <3>5. UnderWay(u)' = UnderWay(u) \cup {w} /\ w \notin UnderWay(u)
      BY <2>c, <3>1, <3>2 DEF UnderWay
    <3>6. \A x \in Users : IsFiniteSet(SignedUpFor(x)) /\ IsFiniteSet(UnderWay(x))
      BY DEF SignUpInv
    <3>7. IsFiniteSet(UnderWay(u)') /\ Cardinality(UnderWay(u)') = Cardinality(UnderWay(u)) + 1
      BY <3>5, <3>6, FS_AddElement
    <3>8. \A x \in Users : Cardinality(SignedUpFor(x)) \in Nat /\ Cardinality(UnderWay(x)) \in Nat
      BY <3>6, FS_CardinalityType
    <3>9. /\ (retried[u])' = 0 => retried[u] = 0 /\ (yeses[u])' = yeses[u] + 1
          /\ \A x \in Users \ {u} : (yeses[x])' = yeses[x] /\ (retried[x])' = retried[x]
          /\ yeses[u] \in Nat
      BY <2>6 DEF SaysYes, YesRetried, TypeOK
    <3>10. \A x \in Users : retried[x] = 0 =>
             Cardinality(SignedUpFor(x)) + Cardinality(UnderWay(x)) <= yeses[x]
      BY DEF SignUpInv
    <3>11. (retried[u])' = 0 =>
             Cardinality(SignedUpFor(u)') + Cardinality(UnderWay(u)') <= (yeses[u])'
      BY <3>3, <3>7, <3>8, <3>9, <3>10
    <3>12. \A x \in Users \ {u} : (retried[x])' = 0 =>
             Cardinality(SignedUpFor(x)') + Cardinality(UnderWay(x)') <= (yeses[x])'
      BY <3>3, <3>4, <3>9, <3>10
    <3>13. \A x \in Users : IsFiniteSet(SignedUpFor(x)') /\ IsFiniteSet(UnderWay(x)')
      BY <3>3, <3>4, <3>6, <3>7
    <3> QED BY <2>a, <3>2, <3>11, <3>12, <3>13 DEF SignUpInv
  <2>7. ASSUME NEW w \in Workers, Opens(w) PROVE SignUpInv'
    <3>1. CASE Ends(w)
      BY <2>1, <2>7, <2>d, <3>1 DEF Opens
    <3>2. ASSUME NEW s, Becomes(w, [task[w] EXCEPT !.pc = "accept", !.id = s.id])
          PROVE  SignUpInv'
      <4>1. task'[w].user = task[w].user /\ task[w].pc = "open"
        BY <2>7, <2>c, <3>2 DEF Becomes, Task, Opens
      <4>2. \A x \in Workers \ {w} : task'[x] = task[x]
        BY <2>c, <3>2 DEF Becomes
      <4> QED BY <2>1, <2>7, <4>1, <4>2 DEF Opens
    <3> QED BY <2>7, <3>1, <3>2 DEF Opens
  <2>8. ASSUME NEW w \in Workers, Accepts(w) PROVE SignUpInv'
    <3>0. PICK u \in Users : u = task[w].user
      BY <2>c DEF Task
    <3> DEFINE Done(s) == IF s.id = task[w].id /\ s.user = u
                            THEN [s EXCEPT !.status = "accepted"] ELSE s
    <3>1. /\ suggestions' = {Done(s) : s \in suggestions} /\ task[w].pc = "accept"
          /\ task' = [task EXCEPT ![w] = Idle] /\ UNCHANGED <<yeses, retried>>
      BY <2>8, <3>0 DEF Accepts, Ends, Becomes
    <3>2. \A s \in suggestions : /\ Done(s).id = s.id /\ Done(s).user = s.user
                                 /\ Done(s) # s => s.user = u /\ s.id = task[w].id
      BY <2>b DEF Suggestion
    <3> HIDE DEF Done
    <3>4. \A s, t \in suggestions' : s.id = t.id => s = t
      BY <2>a, <3>1, <3>2
    <3>5. \A x \in Users \ {u} : SignedUpFor(x)' \subseteq SignedUpFor(x)
      BY <3>1, <3>2 DEF SignedUpFor
    <3>6. \A x \in Users \ {u} : UnderWay(x)' \subseteq UnderWay(x)
      BY <2>c, <3>1 DEF UnderWay
    <3>7. \A x \in Users \ {u} :
            /\ IsFiniteSet(SignedUpFor(x)') /\ IsFiniteSet(UnderWay(x)')
            /\ (retried[x])' = 0 =>
                 Cardinality(SignedUpFor(x)') + Cardinality(UnderWay(x)') <= (yeses[x])'
      BY <3>1, <3>5, <3>6, NothingGrows
    <3>8. UnderWay(u)' = UnderWay(u) \ {w} /\ w \in UnderWay(u)
      BY <2>c, <3>0, <3>1 DEF UnderWay
    <3>9. \E s : SignedUpFor(u)' \subseteq SignedUpFor(u) \cup {s}
      <4>1. CASE \E s \in suggestions : Done(s) # s
        <5>1. PICK s \in suggestions : Done(s) # s
          BY <4>1
        <5>2. \A t \in suggestions : t # s => Done(t) = t
          BY <2>a, <3>2, <5>1
        <5>3. SignedUpFor(u)' \subseteq SignedUpFor(u) \cup {Done(s)}
          BY <3>1, <5>2 DEF SignedUpFor
        <5> QED BY <5>3
      <4>2. CASE \A s \in suggestions : Done(s) = s
        <5>1. SignedUpFor(u)' \subseteq SignedUpFor(u)
          BY <3>1, <4>2 DEF SignedUpFor
        <5> QED BY <5>1
      <4> QED BY <4>1, <4>2
    <3>10. PICK s : SignedUpFor(u)' \subseteq SignedUpFor(u) \cup {s}
      BY <3>9
    <3>11. IsFiniteSet(SignedUpFor(u)) /\ IsFiniteSet(UnderWay(u))
      BY DEF SignUpInv
    <3>12. /\ IsFiniteSet(SignedUpFor(u) \cup {s})
           /\ Cardinality(SignedUpFor(u) \cup {s}) <= Cardinality(SignedUpFor(u)) + 1
           /\ Cardinality(SignedUpFor(u)) \in Nat
           /\ Cardinality(SignedUpFor(u) \cup {s}) \in Nat
      <4>1. Cardinality(SignedUpFor(u)) \in Nat
        BY <3>11, FS_CardinalityType
      <4>2. /\ IsFiniteSet(SignedUpFor(u) \cup {s})
            /\ \/ Cardinality(SignedUpFor(u) \cup {s}) = Cardinality(SignedUpFor(u))
               \/ Cardinality(SignedUpFor(u) \cup {s}) = Cardinality(SignedUpFor(u)) + 1
        BY <3>11, FS_AddElement
      <4> QED BY <4>1, <4>2
    <3>13. /\ IsFiniteSet(SignedUpFor(u)')
           /\ Cardinality(SignedUpFor(u)') <= Cardinality(SignedUpFor(u) \cup {s})
      BY <3>10, <3>12, FS_Subset
    <3>14. /\ IsFiniteSet(UnderWay(u)') /\ Cardinality(UnderWay(u)) \in Nat
           /\ Cardinality(UnderWay(u)') = Cardinality(UnderWay(u)) - 1
      BY <3>8, <3>11, FS_RemoveElement, FS_CardinalityType
    <3>15. Cardinality(SignedUpFor(u)') \in Nat /\ yeses[u] \in Nat
      BY <3>13, FS_CardinalityType DEF TypeOK
    <3>16. retried[u] = 0 => Cardinality(SignedUpFor(u)) + Cardinality(UnderWay(u)) <= yeses[u]
      BY DEF SignUpInv
    <3>17. (retried[u])' = 0 =>
             Cardinality(SignedUpFor(u)') + Cardinality(UnderWay(u)') <= (yeses[u])'
      BY <3>1, <3>12, <3>13, <3>14, <3>15, <3>16
    <3> QED BY <3>4, <3>7, <3>13, <3>14, <3>17 DEF SignUpInv
  <2>9. ASSUME NEW u \in Users, Forgets(u) PROVE SignUpInv'
    <3>1. suggestions' \subseteq suggestions /\ UNCHANGED <<task, yeses, retried>>
      BY <2>9 DEF Forgets
    <3>2. \A x \in Users : /\ SignedUpFor(x)' \subseteq SignedUpFor(x)
                           /\ UnderWay(x)' = UnderWay(x)
      BY <3>1 DEF SignedUpFor, UnderWay
    <3> QED BY <2>0, <2>a, <3>1, <3>2
  <2>10. ASSUME UNCHANGED <<suggestions, task, yeses, retried>> PROVE SignUpInv'
    BY <2>1, <2>10
  <2>11. CASE Crash
    <3>1. \A x \in Workers : task'[x].pc = "idle"
      BY <2>c, <2>11 DEF Crash
    <3> QED BY <2>1, <2>11, <3>1 DEF Crash
  <2> QED BY <2>2, <2>3, <2>4, <2>5, <2>6, <2>7, <2>8, <2>9, <2>10, <2>11
         DEF Next, Learns, Seeds, Tick, vars
<1> QED BY <1>1, <1>2, TypeCorrect, AfreshInvHolds, PTL DEF Spec

\* However offers and yeses of any number of workers overlap, nobody whose yeses
\* all arrived once is signed up for more events than they said yes to.
THEOREM SignUpsFollowYeses == Spec => []SignedUpOnYes
<1>1. TypeOK /\ SignUpInv => SignedUpOnYes
  <2> SUFFICES ASSUME TypeOK, SignUpInv, NEW u \in Users, retried[u] = 0
               PROVE  Cardinality(SignedUpFor(u)) <= yeses[u]
    BY DEF SignedUpOnYes
  <2>1. /\ IsFiniteSet(SignedUpFor(u)) /\ IsFiniteSet(UnderWay(u))
        /\ Cardinality(SignedUpFor(u)) + Cardinality(UnderWay(u)) <= yeses[u]
    BY DEF SignUpInv
  <2>2. Cardinality(SignedUpFor(u)) \in Nat /\ Cardinality(UnderWay(u)) \in Nat
    BY <2>1, FS_CardinalityType
  <2>3. yeses[u] \in Nat
    BY SuggestionsAssumption DEF TypeOK
  <2> QED BY <2>1, <2>2, <2>3
<1> QED BY <1>1, TypeCorrect, SignUpInvHolds, PTL
----------------------------------------------------------------------------
\* A day is no later in whole days than a later instant.
LEMMA DivMonotone ==
    ASSUME NEW a \in Int, NEW b \in Int, NEW d \in Nat \ {0}, a <= b
    PROVE  a \div d \in Int /\ b \div d \in Int /\ a \div d <= b \div d
<1>1. /\ a \div d \in Int /\ d * (a \div d) <= a
      /\ b \div d \in Int /\ b < d * (b \div d) + d
  BY SMT
<1>2. d * (a \div d) < d * (b \div d) + d
  BY <1>1, SMT
<1> DEFINE m == a \div d
           n == b \div d
<1>3. m \in Int /\ n \in Int /\ d * m < d * n + d
  BY <1>1, <1>2
<1> HIDE DEF m, n
<1>4. m <= n
  <2> SUFFICES ASSUME m > n PROVE FALSE
    BY <1>3
  <2>1. m >= n + 1
    BY <1>3
  <2>2. d * m >= d * (n + 1)
    BY <1>3, <2>1, SMT
  <2> QED BY <1>3, <2>2, SMT
<1> QED BY <1>3, <1>4 DEF m, n

\* What is on file is a finite list, and so is what an event matches of it.
LEMMA HitsFinite ==
    ASSUME NEW I \in Profiles \cup {{}}, NEW e \in Titles
    PROVE  IsFiniteSet(Hits(e, I))
<1> DEFINE J == {j \in I : ~j.no}
           f == [i \in J |-> i.word]
<1>1. IsFiniteSet(J)
  <2>1. IsFiniteSet(I)
    BY SuggestionsAssumption, FS_EmptySet
  <2> QED BY <2>1, FS_Subset
<1>2. f \in Surjection(J, Wanted(I))
  BY DEF Surjection, Wanted
<1>3. IsFiniteSet(Wanted(I))
  <2> HIDE DEF f, J
  <2> QED BY <1>1, <1>2, FS_Surjection
<1> QED BY <1>3, FS_Subset DEF Hits

\* Who matches all that another event matches, in as good a place and no later,
\* scores no less, and scores the same only by matching the same.
LEMMA ScoreOrder ==
    ASSUME NEW I \in Profiles \cup {{}}, NEW e \in Titles, NEW f \in Titles, NEW now \in Nat,
           Hits(f, I) \subseteq Hits(e, I), Details[e].city = Details[f].city,
           Details[e].starts <= Details[f].starts
    PROVE  /\ Score(e, I, now) \in Nat /\ Score(f, I, now) \in Nat
           /\ Score(e, I, now) >= Score(f, I, now)
           /\ Score(e, I, now) = Score(f, I, now) => Hits(e, I) = Hits(f, I)
<1> DEFINE a == Cardinality(Hits(e, I))
           b == Cardinality(Hits(f, I))
           m == (Details[e].starts - now) \div Day
           n == (Details[f].starts - now) \div Day
           Near(d) == IF d <= Soon THEN 2 ELSE IF d <= Later THEN 1 ELSE 0
           place == IF Details[e].city = "online" THEN 1 ELSE 2
<1>1. /\ a \in Nat /\ b \in Nat /\ b <= a
      /\ a = b => Hits(e, I) = Hits(f, I)
  BY HitsFinite, FS_Subset, FS_CardinalityType
<1>2. /\ Details[e].starts - now \in Int /\ Details[f].starts - now \in Int
      /\ Details[e].starts - now <= Details[f].starts - now
      /\ Day \in Nat \ {0} /\ Soon \in Nat /\ Later \in Nat
  BY SuggestionsAssumption
<1>3. m \in Int /\ n \in Int /\ m <= n
  BY <1>2, DivMonotone
<1>4. /\ Score(e, I, now) = (IF Wanted(I) = {} THEN 1 ELSE 3 * a) + place + Near(m)
      /\ Score(f, I, now) = (IF Wanted(I) = {} THEN 1 ELSE 3 * b) + place + Near(n)
  BY DEF Score
<1>5. Wanted(I) = {} => Hits(e, I) = {} /\ Hits(f, I) = {}
  BY DEF Hits
<1>6. place \in Nat
  OBVIOUS
<1> HIDE DEF a, b, m, n, place
<1>7. Near(m) \in Nat /\ Near(n) \in Nat /\ Near(n) <= Near(m)
  BY <1>2, <1>3
<1> HIDE DEF Near
<1> QED BY <1>1, <1>4, <1>5, <1>6, <1>7

\* A score is a number.
LEMMA ScoreTyped ==
    ASSUME NEW I \in Profiles \cup {{}}, NEW e \in Titles, NEW now \in Nat
    PROVE  Score(e, I, now) \in Nat
<1>1. Details[e].starts <= Details[e].starts
  BY SuggestionsAssumption
<1> QED BY <1>1, ScoreOrder

\* Whoever is offered an event is offered one that may be, and the best of those
\* read: none that may be offered scores more, and one passed over has some
\* disadvantage to it (RankEvents, scoreEvent, MatchEvent).
THEOREM TheBestIsOffered == Spec => BestIsOffered
<1> DEFINE Passed(w) ==
      task[w].pc = "match" /\ task'[w].pc = "offer" =>
         LET I == task[w].interests
             best == task'[w].event.title
         IN /\ Eligible(best, I, clock)
            /\ \A r \in CandidateEvents(task[w].user) : Eligible(r.title, I, clock) =>
                 /\ Score(r.title, I, clock) <= Score(best, I, clock)
                 /\ /\ Hits(best, I) \subseteq Hits(r.title, I)
                    /\ Details[r.title].city = Details[best].city
                    /\ Details[r.title].starts <= Details[best].starts
                    => /\ Hits(r.title, I) = Hits(best, I)
                       /\ Details[r.title].starts = Details[best].starts
<1>1. TypeOK /\ [Next]_vars => [\A w \in Workers : Passed(w)]_vars
  <2> SUFFICES ASSUME TypeOK, Next, NEW w \in Workers,
                      task[w].pc = "match", task'[w].pc = "offer"
               PROVE  Passed(w)
    BY Zenon
  <2>a. task \in [Workers -> Task] /\ task[w] \in Task
    BY DEF TypeOK
  <2>1. Picks(w)
    <3>1. ASSUME NEW x \in Workers, NEW t, Becomes(x, t), t.pc # "offer" PROVE FALSE
      BY <2>a, <3>1 DEF Becomes
    <3>2. ASSUME NEW x \in Workers, Ends(x) PROVE FALSE
      BY <3>1, <3>2 DEF Ends, Idle
    <3>3. ASSUME NEW x \in Workers, NEW u \in Users, Asks(x, u) PROVE FALSE
      <4> DEFINE t == [Idle EXCEPT !.pc = "match", !.user = u, !.interests = interests[u]]
      <4>1. t.pc # "offer"
        BY DEF Idle
      <4>2. Becomes(x, t)
        BY <3>3 DEF Asks
      <4> HIDE DEF t
      <4> QED BY <3>1, <4>1, <4>2
    <3>4. ASSUME NEW x \in Workers, NEW u \in Users, SaysYes(x, u) \/ YesRetried(x, u)
          PROVE  FALSE
      <4> DEFINE t == [Idle EXCEPT !.pc = "open", !.user = u]
      <4>1. t.pc # "offer"
        BY DEF Idle
      <4>2. Becomes(x, t)
        BY <3>4 DEF SaysYes, YesRetried
      <4> HIDE DEF t
      <4> QED BY <3>1, <4>1, <4>2
    <3>5. ASSUME NEW x \in Workers, Opens(x) PROVE FALSE
      <4>1. task'[x].pc = "offer" => x # w
        BY <2>a, <3>2, <3>5 DEF Opens, Becomes
      <4>2. x # w => task'[w] = task[w]
        BY <2>a, <3>2, <3>5 DEF Opens, Becomes
      <4> QED BY <4>1, <4>2
    <3>6. ASSUME NEW x \in Workers, Picks(x) PROVE x = w
      BY <2>a, <3>6 DEF Picks, Becomes
    <3>7. ~UNCHANGED task
      OBVIOUS
    <3>8. ~Crash
      BY DEF Crash, Idle
    <3> QED BY <3>2, <3>3, <3>4, <3>5, <3>6, <3>7, <3>8
           DEF Next, NoMatch, Offered, OfferFails, Accepts, Forgets, Learns, Seeds, Tick
  <2> DEFINE I == task[w].interests
             C == CandidateEvents(task[w].user)
  <2>2. PICK r \in MatchEvent(C, I) : task'[w].event = r
    BY <2>1, <2>a DEF Picks, Becomes, Task
  <2>3. /\ r.title \in Titles /\ Eligible(r.title, I, clock)
        /\ \A q \in C : q.title \in Titles
    BY DEF MatchEvent, CandidateEvents, TypeOK, Row
  <2>4. I \in Profiles \cup {{}} /\ clock \in Nat
    BY <2>a, SuggestionsAssumption DEF Task, TypeOK
  <2>5. \A q \in C : Eligible(q.title, I, clock) =>
          /\ ~(Score(q.title, I, clock) > Score(r.title, I, clock))
          /\ ~(/\ Score(q.title, I, clock) = Score(r.title, I, clock)
               /\ Details[q.title].starts < Details[r.title].starts)
    BY DEF MatchEvent
  <2>6. ASSUME NEW q \in C, Eligible(q.title, I, clock)
        PROVE  Score(q.title, I, clock) <= Score(r.title, I, clock)
    <3>1. Score(q.title, I, clock) \in Nat /\ Score(r.title, I, clock) \in Nat
      BY <2>3, <2>4, <2>6, ScoreTyped
    <3> QED BY <2>5, <2>6, <3>1
  <2>7. ASSUME NEW q \in C, Eligible(q.title, I, clock),
               Hits(r.title, I) \subseteq Hits(q.title, I),
               Details[q.title].city = Details[r.title].city,
               Details[q.title].starts <= Details[r.title].starts
        PROVE  /\ Hits(q.title, I) = Hits(r.title, I)
               /\ Details[q.title].starts = Details[r.title].starts
    <3>1. /\ Score(q.title, I, clock) \in Nat /\ Score(r.title, I, clock) \in Nat
          /\ Score(q.title, I, clock) >= Score(r.title, I, clock)
          /\ Score(q.title, I, clock) = Score(r.title, I, clock)
               => Hits(q.title, I) = Hits(r.title, I)
      BY <2>3, <2>4, <2>7, ScoreOrder
    <3>2. Details[q.title].starts \in Nat /\ Details[r.title].starts \in Nat
      BY <2>3, SuggestionsAssumption
    <3> HIDE DEF I, C
    <3> QED BY <2>5, <2>7, <3>1, <3>2
  <2> QED BY <2>2, <2>3, <2>6, <2>7
<1>2. [][\A w \in Workers : Passed(w)]_vars => BestIsOffered
  BY PTL DEF BestIsOffered
<1> QED BY <1>1, <1>2, TypeCorrect, PTL DEF Spec
=============================================================================
