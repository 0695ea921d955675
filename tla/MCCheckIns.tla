---------------------------- MODULE MCCheckIns ----------------------------
(***************************************************************************)
(* CheckIns for TLC: two people, one handler beside the scheduler, and two *)
(* hours that no two frequencies treat alike.                              *)
(***************************************************************************)
EXTENDS CheckIns

MCUsers == {1, 2}
MCWorkers == {"w1"}
MCHours == <<"weekday20", "weekend9">>
MCFrequencies == {"twice-daily", "daily"}
=============================================================================
