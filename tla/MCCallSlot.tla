----------------------------- MODULE MCCallSlot -----------------------------
(***************************************************************************)
(* CallSlot for TLC: one person and two requests to ring them, the fewest  *)
(* with a race for the slot and a release that comes late.                 *)
(***************************************************************************)
EXTENDS CallSlot

CONSTANTS ada, c1, c2

MCUsers == {ada}
MCCalls == {c1, c2}
MCUserOf == [c \in MCCalls |-> ada]
=============================================================================
