------------------------------ MODULE MCTexts ------------------------------
(***************************************************************************)
(* Texts for TLC: two texts and a save between two handlers, in three      *)
(* deliveries, so that one of them may come again while another is under   *)
(* way. Where only texts are asked about, four of them.                    *)
(***************************************************************************)
EXTENDS Texts

MCMessages == {"SM1", "SM2", "save1"}
MCSaves == {"save1"}
MCTexts4 == {"SM1", "SM2", "SM3", "SM4"}
MCNoSaves == {}
MCHandlers == {"h1", "h2"}
=============================================================================
