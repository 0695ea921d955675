------------------------------- MODULE Inbox -------------------------------
(***************************************************************************)
(* What the webhooks promise whoever delivers a message, however often and *)
(* however deliveries overlap: it is worked off once at most. Before that  *)
(* begins a delivery is told nothing but, if it fails at once, how sorry   *)
(* they are; after that it may be told the one reply, or 0 for an empty    *)
(* answer as long as the reply is not kept. Of a message that is exempt    *)
(* nothing is promised: whether it was known could not be found out, and   *)
(* working it off again was preferred to losing it.                        *)
(***************************************************************************)
EXTENDS Naturals

CONSTANTS
    Messages,
    Sorry  \* an answer of its own, to a delivery that came to nothing

VARIABLES
    work,  \* per message: how often it was begun to be worked off
    kept,  \* messages whose reply is kept
    told,  \* per message: what its deliveries were told
    exempt

vars == <<work, kept, told, exempt>>

Init ==
    /\ work = [m \in Messages |-> 0]
    /\ kept = {}
    /\ told = [m \in Messages |-> {}]
    /\ exempt = {}

Tells(m, r) == told' = [told EXCEPT ![m] = @ \cup {r}]

Begins(m) ==
    /\ m \notin exempt /\ work[m] = 0
    /\ work' = [work EXCEPT ![m] = 1]
    /\ UNCHANGED <<kept, told, exempt>>

\* The reply is told, for the first time or again, and kept or not.
Replies(m) ==
    /\ m \notin exempt /\ work[m] = 1
    /\ Tells(m, 1)
    /\ kept' \in {kept, kept \cup {m}}
    /\ UNCHANGED <<work, exempt>>

\* The reply is not there yet, or lost.
BrushesOff(m) ==
    /\ m \notin exempt \cup kept /\ work[m] = 1
    /\ Tells(m, 0)
    /\ UNCHANGED <<work, kept, exempt>>

\* The delivery fails before anything is known of its message.
Apologises(m) ==
    /\ m \notin exempt
    /\ Tells(m, Sorry)
    /\ UNCHANGED <<work, kept, exempt>>

Exempts(m) ==
    /\ exempt' = exempt \cup {m}
    /\ work' = [work EXCEPT ![m] = 0]
    /\ kept' = kept \ {m}
    /\ told' = [told EXCEPT ![m] = {}]

Next == \E m \in Messages :
    Begins(m) \/ Replies(m) \/ BrushesOff(m) \/ Apologises(m) \/ Exempts(m)

Spec == Init /\ [][Next]_vars
=============================================================================
