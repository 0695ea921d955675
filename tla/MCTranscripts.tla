--------------------------- MODULE MCTranscripts ---------------------------
(***************************************************************************)
(* Transcripts for TLC: one call, the number it was placed to and a second *)
(* number, and one profile more than there are numbers, so that either can *)
(* be forgotten and sign up again.                                         *)
(***************************************************************************)
EXTENDS Transcripts

MCCalls == {"c1"}
MCNumbers == {"n1", "n2"}
MCNumberOf == [c \in MCCalls |-> "n1"]
=============================================================================
