---------------------------- MODULE MCScheduler ----------------------------
(* Small instances of Scheduler.  A minute is two ticks, so that a round   *)
(* can start, answer and end on both sides of a minute's edge.             *)
EXTENDS Scheduler

TwoSources == {1, 2}
TwoCards   == {1, 2}
OneCard    == {1}
OneSource  == {1}
\* A start on a minute's edge, and one in the middle of a minute.
EdgeAndMiddle == {2 * Minute, 2 * Minute + 1}
=============================================================================
