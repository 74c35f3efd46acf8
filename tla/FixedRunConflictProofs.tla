----------------------- MODULE FixedRunConflictProofs -----------------------
(***************************************************************************)
(* What the clash test decides right, for a day of any length, any shift of *)
(* the local clock and any window and fixed run.                            *)
(***************************************************************************)
EXTENDS FixedRunConflict, TLAPS

DayNumber(t) == (t + Shift) \div Day

\* Asked about a window and a run of the inputs, the query has answered or not.
AnswerInv ==
  /\ run \in [day : 0..6, start : Starts, end : Ends]
  /\ from \in Froms /\ until \in {from + n : n \in Lengths} \cup {Open}
  /\ answer \in {"none", "conflict", "free"}
  /\ answer # "none" => (answer = "conflict" <=> Conflict(run, from, until))
-----------------------------------------------------------------------------
(* The local clock                                                          *)

LEMMA Product == ASSUME NEW a \in Int, NEW b \in Int PROVE a * Day \in Int /\ (a < b => a * Day + Day <= b * Day)
<1>1. Day \in Nat /\ Day > 0
  BY ClockAssumption
<1>2. a < b => (a + 1) * Day <= b * Day
  BY <1>1
<1>3. (a + 1) * Day = a * Day + Day
  BY <1>1
<1>4. QED BY <1>1, <1>2, <1>3

\* A time is the days before it and the clock.
LEMMA TimeOfDay ==
  ASSUME NEW t \in Nat
  PROVE  /\ DayNumber(t) \in Nat /\ ClockTime(t) \in 0 .. Day - 1
         /\ t + Shift = DayNumber(t) * Day + ClockTime(t)
<1>1. Day \in Nat /\ Day > 0 /\ Shift \in Nat /\ t + Shift \in Nat
  BY ClockAssumption
<1>2. QED BY <1>1 DEF DayNumber, ClockTime
-----------------------------------------------------------------------------
(* The test and the occurrences of a run                                    *)

Window(f, u) == f \in Nat /\ (u = Open \/ (u \in Nat /\ f < u))
Run(r) == r.day \in 0 .. 6 /\ r.start \in 0 .. Day - 1 /\ r.end \in 0 .. Day - 1

\* What the test finds is the occurrence of the day on which the window starts.
LEMMA ConflictMeets ==
  ASSUME NEW r, NEW f, NEW u, Run(r), Window(f, u), Conflict(r, f, u)
  PROVE  Meets(r, f, u, DayNumber(f))
<1> DEFINE k == DayNumber(f)
<1>1. Day \in Nat /\ Day > 0 /\ Shift \in Nat /\ f \in Nat
  BY ClockAssumption DEF Window
<1>2. k \in Nat /\ ClockTime(f) \in 0 .. Day - 1 /\ f + Shift = k * Day + ClockTime(f) /\ k * Day \in Int
  BY <1>1, TimeOfDay, Product
<1>3. k % 7 = r.day
  BY DEF Conflict, DayOfWeek, DayNumber
<1>4. f + Shift < k * Day + r.end + (IF r.end <= r.start THEN Day ELSE 0)
  BY <1>1, <1>2 DEF Conflict, Run
<1>5. CASE u = Open
  BY <1>3, <1>4, <1>5 DEF Meets
<1>6. CASE u # Open
  <2> DEFINE m == DayNumber(u)
  <2>1. u \in Nat /\ f < u /\ r.start < ClockTime(u)
    BY <1>6 DEF Window, Conflict
  <2>2. m \in Nat /\ ClockTime(u) \in 0 .. Day - 1 /\ u + Shift = m * Day + ClockTime(u) /\ m * Day \in Int
    BY <2>1, TimeOfDay, Product
  <2> HIDE DEF k, m
  <2>3. ~(m < k)
    <3>1. m < k => m * Day + Day <= k * Day
      BY <1>2, <2>2, Product
    <3>2. QED BY <1>1, <1>2, <2>1, <2>2, <3>1
  <2>4. k * Day + r.start < u + Shift
    <3>1. k < m => k * Day + Day <= m * Day
      BY <1>2, <2>2, Product
    <3>2. CASE k = m
      BY <1>2, <2>1, <2>2, <3>2 DEF Run
    <3>3. CASE k < m
      BY <1>1, <1>2, <2>2, <3>1, <3>3 DEF Run
    <3>4. QED BY <1>2, <2>2, <2>3, <3>2, <3>3
  <2>5. QED BY <1>3, <1>4, <2>4 DEF Meets, k
<1>7. QED BY <1>5, <1>6

\* Within one local day, a run within one day meets the window on that day or never.
LEMMA MeetsConflict ==
  ASSUME NEW r, NEW f, NEW u, NEW k \in Int, Run(r), r.start < r.end, Window(f, u), u # Open,
         DayNumber(f) = DayNumber(u), Meets(r, f, u, k)
  PROVE  Conflict(r, f, u)
<1> DEFINE d == DayNumber(f)
<1>1. Day \in Nat /\ Day > 0 /\ Shift \in Nat /\ f \in Nat /\ u \in Nat
  BY ClockAssumption DEF Window
<1>2. /\ d \in Nat /\ d * Day \in Int
      /\ ClockTime(f) \in 0 .. Day - 1 /\ f + Shift = d * Day + ClockTime(f)
      /\ ClockTime(u) \in 0 .. Day - 1 /\ u + Shift = d * Day + ClockTime(u)
  BY <1>1, TimeOfDay, Product
<1>3. /\ k % 7 = r.day /\ k * Day \in Int
      /\ f + Shift < k * Day + r.end /\ k * Day + r.start < u + Shift
  BY <1>1, Product DEF Meets, Run
<1> HIDE DEF d
<1>4. (k < d => k * Day + Day <= d * Day) /\ (d < k => d * Day + Day <= k * Day)
  BY <1>2, Product
<1>5. k = d
  BY <1>1, <1>2, <1>3, <1>4 DEF Run
<1>6. QED BY <1>1, <1>2, <1>3, <1>5 DEF Conflict, DayOfWeek, DayNumber, Run, d
-----------------------------------------------------------------------------
LEMMA AnswerCorrect == Spec => []AnswerInv
<1>1. Init => AnswerInv
  BY DEF Init, AnswerInv
<1>2. AnswerInv /\ [Query]_vars => AnswerInv'
  BY DEF AnswerInv, Query, vars, Conflict, DayOfWeek, ClockTime
<1>3. QED BY <1>1, <1>2, PTL DEF Spec

LEMMA Inputs ==
  ASSUME AnswerInv
  PROVE  Run(run) /\ Window(from, until) /\ DayNumber(from) \in Horizon(from)
<1>1. Run(run)
  BY InputAssumption DEF AnswerInv, Run
<1>2. from \in Nat
  BY InputAssumption DEF AnswerInv
<1>3. Window(from, until)
  BY <1>2, InputAssumption DEF AnswerInv, Window
<1>4. DayNumber(from) \in Horizon(from)
  BY <1>2, TimeOfDay DEF Horizon, DayNumber
<1>5. QED BY <1>1, <1>3, <1>4

\* A refused window meets an occurrence of the run: the shift to local time, the
\* week and the end counted as 23:59:59 lead to no false alarm (ReserveAsync,
\* DecideAsync), whatever the length of the window.
THEOREM AlarmCorrect == Spec => []NoFalseAlarm
<1>1. AnswerInv => NoFalseAlarm
  BY Inputs, ConflictMeets DEF AnswerInv, NoFalseAlarm, Clash
<1>2. QED BY <1>1, AnswerCorrect, PTL

\* Within one local day, for a run within one day, the query refuses a window
\* exactly if it clashes.
THEOREM ExactCorrect == Spec => []ExactWithinOneDay
<1>1. AnswerInv => ExactWithinOneDay
  <2> SUFFICES ASSUME AnswerInv, Asked, SameLocalDay, DayRun
               PROVE  answer = "conflict" <=> Clash(run, from, until)
    BY DEF ExactWithinOneDay
  <2>1. answer = "conflict" <=> Conflict(run, from, until)
    BY DEF AnswerInv, Asked
  <2>2. Conflict(run, from, until) => Clash(run, from, until)
    BY Inputs, ConflictMeets DEF Clash
  <2>3. ASSUME NEW k \in Horizon(from), Meets(run, from, until, k)
        PROVE  Conflict(run, from, until)
    <3>1. k \in Int /\ DayNumber(from) \in Nat
      BY TimeOfDay, Inputs DEF Horizon, Window, DayNumber
    <3>2. until # Open /\ DayNumber(from) = DayNumber(until) /\ run.start < run.end
      BY DEF SameLocalDay, DayNumber, DayRun
    <3>3. QED BY <2>3, <3>1, <3>2, Inputs, MeetsConflict
  <2>4. QED BY <2>1, <2>2, <2>3 DEF Clash
<1>2. QED BY <1>1, AnswerCorrect, PTL
=============================================================================
