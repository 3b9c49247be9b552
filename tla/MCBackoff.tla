----------------------------- MODULE MCBackoff -----------------------------
(***************************************************************************)
(* Intervals short enough for TLC: the ticks are half seconds, and three   *)
(* doublings lead from the first interval beyond the longest one.          *)
(***************************************************************************)
EXTENDS Backoff

MCSecond == 2
MCTenSeconds == 5
MCSixHours == 10 * MCSecond
=============================================================================
