-------------------------- MODULE FixedRunConflict --------------------------
(***************************************************************************)
(* The clash test between a booking window and the weekly fixed runs of a  *)
(* vehicle (FleetRepository.ReserveAsync, and twice in                     *)
(* ApprovalRepository.DecideAsync, for the vehicle and for the driver),    *)
(* against what it is meant to decide.                                     *)
(*                                                                         *)
(* Reservations are kept in UTC, fixed runs as a week day with two times   *)
(* of the local clock, so the query moves the window by eight hours and    *)
(* compares its week day and its clock times with those of the run.        *)
(* Times are ticks; a day has Day ticks, the local clock is Shift ahead.   *)
(* Time 0 is a Sunday midnight, UTC.                                       *)
(***************************************************************************)
EXTENDS Integers

CONSTANTS Day, Shift,
          Froms, Lengths,   \* the windows looked at: from, and until - from
          Starts, Ends,     \* the runs looked at
          Open              \* reserved_until IS NULL

ASSUME ClockAssumption == Day \in Nat \ {0} /\ Shift \in 0..(Day - 1)
ASSUME InputAssumption ==
         /\ Froms \subseteq Nat /\ Lengths \subseteq Nat \ {0}
         /\ Starts \subseteq 0..(Day - 1) /\ Ends \subseteq 0..(Day - 1)
         /\ Open \notin Nat

VARIABLES run,      \* [day, start, end]: a row of tbl_fixed_vehicle_schedules
          from, until,
          answer    \* "none", or what the query says

vars == <<run, from, until, answer>>

DayOfWeek(t) == ((t + Shift) \div Day) % 7
ClockTime(t) == (t + Shift) % Day

\* Mutant: the window is compared without the shift to local time.
ConflictUtc(r, f, u) ==
  /\ r.day = (f \div Day) % 7
  /\ r.start < (IF u = Open THEN Day ELSE u % Day)
  /\ r.end > f % Day

\* day_of_week = DAYOFWEEK(from), start_time < TIME(until), end_time >
\* TIME(from), all in local time; an open end counts as 23:59:59.
Conflict(r, f, u) ==
  /\ r.day = DayOfWeek(f)
  /\ r.start < (IF u = Open THEN Day ELSE ClockTime(u))
  /\ r.end > ClockTime(f)

Init ==
  /\ run \in [day : 0..6, start : Starts, end : Ends]
  /\ from \in Froms
  /\ until \in {from + n : n \in Lengths} \cup {Open}
  /\ answer = "none"

Query ==
  /\ answer = "none"
  /\ answer' = IF Conflict(run, from, until) THEN "conflict" ELSE "free"
  /\ UNCHANGED <<run, from, until>>

Spec == Init /\ [][Query]_vars
-----------------------------------------------------------------------------
(* What the query is meant to decide *)

\* One occurrence of the run, on local day k, meets the window (both moved to
\* local time).  A run that ends before it starts runs past midnight.
Meets(r, f, u, k) ==
  LET begins == k * Day + r.start
      ends   == k * Day + r.end + (IF r.end <= r.start THEN Day ELSE 0)
  IN /\ k % 7 = r.day
     /\ f + Shift < ends
     /\ u = Open \/ begins < u + Shift

\* The occurrences that can meet a window of the instance: from the day before
\* it starts up to a week after its last day.
Horizon(f) == ((f + Shift) \div Day - 1)..((f + Shift) \div Day + 14)
Clash(r, f, u) == \E k \in Horizon(f) : Meets(r, f, u, k)

Asked == answer # "none"
SameLocalDay == until # Open /\ (from + Shift) \div Day = (until + Shift) \div Day
DayRun == run.start < run.end

\* For a trip within one local day and a run within one day the query is
\* exact: it refuses a clash and nothing else.
ExactWithinOneDay ==
  Asked /\ SameLocalDay /\ DayRun => (answer = "conflict" <=> Clash(run, from, until))

\* The query never refuses a window that is free, whatever the window and the
\* run: what it gets wrong is only what it overlooks.
NoFalseAlarm == answer = "conflict" => Clash(run, from, until)

\* "The system refuses to forward an assignment when the selected vehicle or
\* the selected driver is already booked in any requested window, including
\* recurring fixed runs": for HRAD's windows, which always have an end, and
\* runs within one day, no clash is overlooked.
NoClashOverlooked ==
  Asked /\ until # Open /\ DayRun /\ Clash(run, from, until) => answer = "conflict"
=============================================================================
