------------------------------ MODULE MCSignIn ------------------------------
(***************************************************************************)
(* SignIn for TLC: two requests and one typed code at once, up to three    *)
(* codes in the table. A tick is 15 s, the SMS timeout; the window and the *)
(* lifetime of a code are shortened, in their order, and so is the rate:   *)
(* two cooldowns still fit into a window.                                  *)
(***************************************************************************)
EXTENDS SignIn, TLC

CONSTANTS r1, r2, t1, c1, c2, c3

MCRequests == {r1, r2}
MCTypists == {t1}
MCCodes == {c1, c2, c3}
MCSymmetry == Permutations(MCRequests) \cup Permutations(MCCodes)
=============================================================================
