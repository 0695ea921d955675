-------------------------- MODULE MCCalendarCache --------------------------
(***************************************************************************)
(* CalendarCache for TLC: two callers, each with a feed of its own if it   *)
(* likes, and two fetches, which nothing but the in-flight map keeps from  *)
(* being fetches of one feed.                                              *)
(***************************************************************************)
EXTENDS CalendarCache

MCUrls == {"ada.ics", "grace.ics"}
MCCallers == {"p1", "p2"}
MCFetches == {"f1", "f2"}
=============================================================================
