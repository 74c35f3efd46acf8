------------------------- MODULE MCFixedRunConflict -------------------------
(* Instances of FixedRunConflict for TLC: a day of six ticks of four hours, *)
(* the local clock two ticks (eight hours) ahead.                           *)
EXTENDS FixedRunConflict

\* Windows that start in the first two days, or around the end of the week.
MCFroms == 0..11 \cup 36..44
=============================================================================
