---------------------------- MODULE MCInterview ----------------------------
(***************************************************************************)
(* Interview for TLC: two workers serve one person's turns over three      *)
(* questions - one that is a profile column, the one asked anew in every   *)
(* session, and the one the scheduler acts on - with the replies that send *)
(* each of them down a path of its own.                                    *)
(***************************************************************************)
EXTENDS Interview, TLC

CONSTANTS w1, w2

MCWorkers == {w1, w2}
MCTemplate == <<"name", "event_offer", "checkin_consent">>
MCProfile == {"name"}
MCReplies == [k \in Keys |-> CASE k = "name" -> {"words", "unusable", "skip"}
                               [] k = "event_offer" -> {"yes", "no"}
                               [] OTHER -> {"words", "skip"}]
Symmetry == Permutations(MCWorkers)
=============================================================================
