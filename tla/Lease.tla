------------------------------- MODULE Lease -------------------------------
(***************************************************************************)
(* What the live-call slot promises, whoever asks for it and whatever      *)
(* fails: a key is leased for a term. One request at a time uses a key in  *)
(* its term, and nobody else gets it before the term is over, or the key   *)
(* let go of; whoever outstays the term has no claim any more. Where a key *)
(* was let go of under its user it is broken, and nothing is promised of   *)
(* it.                                                                     *)
(***************************************************************************)
EXTENDS Naturals

CONSTANTS Keys, Requests, Term

VARIABLES
    using,  \* per key: the requests that use it in their term
    age,    \* per key: how old its lease is, or Free
    broken  \* the keys let go of while they were used

vars == <<using, age, broken>>

Free == Term + 1

Init ==
    /\ using = [k \in Keys |-> {}]
    /\ age = [k \in Keys |-> Free]
    /\ broken = {}

Claims(k, r) ==
    /\ k \notin broken /\ age[k] = Free /\ using[k] = {}
    /\ using' = [using EXCEPT ![k] = {r}]
    /\ age' = [age EXCEPT ![k] = 0]
    /\ UNCHANGED broken

\* Some are done; that alone does not free what they claimed.
Ends(K) ==
    /\ using' = [k \in Keys |-> IF k \in K THEN {} ELSE using[k]]
    /\ UNCHANGED <<age, broken>>

\* Time passes. A lease that has lasted its term ends, for its user too.
Passes ==
    /\ age' = [k \in Keys |-> IF age[k] = Free THEN Free ELSE age[k] + 1]
    /\ using' = [k \in Keys |-> IF age'[k] = Free THEN {} ELSE using[k]]
    /\ UNCHANGED broken

\* A user lets go.
Releases(k) ==
    /\ using' = [using EXCEPT ![k] = {}]
    /\ age' = [age EXCEPT ![k] = Free]
    /\ UNCHANGED broken

\* Somebody else lets go of it under the user.
Breaks(k) ==
    /\ using[k] # {}
    /\ using' = [using EXCEPT ![k] = {}]
    /\ age' = [age EXCEPT ![k] = Free]
    /\ broken' = broken \cup {k}

Next ==
    \/ \E k \in Keys : Releases(k) \/ Breaks(k) \/ \E r \in Requests : Claims(k, r)
    \/ \E K \in SUBSET Keys : Ends(K)
    \/ Passes

Spec == Init /\ [][Next]_vars
=============================================================================
