----------------------------- MODULE MCSignals -----------------------------
(***************************************************************************)
(* Signals for TLC: one kind of observation, two requests, which may be    *)
(* two deliveries of one observation or bring one each, two people in turn *)
(* behind the number, and two consent decisions under way at once. An      *)
(* observation is believed for an hour and kept for no longer, and its     *)
(* source's clock may run an hour ahead.                                   *)
(***************************************************************************)
EXTENDS Signals, TLC

CONSTANTS d1, d2, near, far

MCKinds == {"commitments"}
MCTTL == [k \in MCKinds |-> 1]
MCKeep == [k \in MCKinds |-> 1]
MCKeys == {near, far}
MCKindOf == [k \in MCKeys |-> "commitments"]
MCDeliveries == {d1, d2}
MCSymmetry == Permutations(MCDeliveries) \cup Permutations(MCKeys)
=============================================================================
