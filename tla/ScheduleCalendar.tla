-------------------------- MODULE ScheduleCalendar --------------------------
(***************************************************************************)
(* The vehicle schedule calendar of the page (calendar.js): the month that  *)
(* is looked at, the schedule loaded last, the grid drawn from it, and the  *)
(* day grid that gives every trip of a day its cells.                       *)
(*                                                                          *)
(* scheduleData is one variable for the month, the guest's view and the     *)
(* Excel export; every load overwrites it when it is answered, whatever is  *)
(* looked at by then.                                                       *)
(***************************************************************************)
EXTENDS Naturals, Sequences, FiniteSets, SequencesExt

CONSTANTS
  Bookings,     \* what /fleet/schedule may list: [day, from, until, vehicle, kind,
                \* priority, columns]; the priority is schedEventDisplayPriority (0 is a
                \* fixed run), the columns are those of schedEventMatchesVehicle
  Vehicles,
  Tabs,         \* the columns of each tab of the day grid: vehicles and trucks
  Slots,        \* its rows: a sequence of [from, until], in order
  Months, GridDays,  \* [Months -> the days drawn in the month's grid]
  Today, Horizon,    \* 7: days ahead that fixed runs are shown
  Week,         \* the days of the week that is exported
  Fetches       \* bound: loads of the schedule at once

Anything == "any vehicle"
NoFetch == [for |-> "nothing", days |-> {}]

ASSUME CalendarAssumption ==
         /\ IsFiniteSet(Bookings) /\ IsFiniteSet(Vehicles) /\ Tabs \subseteq SUBSET Vehicles
         /\ \A b \in Bookings : /\ b.kind \in {"trip", "MORNING MEETING", "LUNCH BREAK"}
                                /\ b.from \in Nat /\ b.priority \in 0 .. 2
         /\ GridDays \in [Months -> SUBSET Nat] /\ Today \in Nat /\ Anything \notin Vehicles

VARIABLES
  who,          \* nobody, a user, or a guest (isGuestCalendarView)
  booked,       \* the server's schedule
  opening,      \* the calendar's section is shown and not yet initialized
  month,        \* scheduleCurrentMonth
  schedule,     \* scheduleData
  archived,     \* scheduleFilters.showArchived
  onlyVehicle,  \* scheduleFilters.vehicleId
  grid,         \* the month grid on the page: its title and its entries
  day,          \* the day modal: its entries, its columns and its blocks
  fetching      \* [Fetches -> loads of the schedule under way]

calendarVars == <<who, booked, opening, month, schedule, archived, onlyVehicle, grid, day, fetching>>
-----------------------------------------------------------------------------
(* What is shown.                                                           *)

\* Mutant: the tick box alone decides on past entries.
VisibleIfArchived(b) ==
  /\ onlyVehicle \in {Anything, b.vehicle}
  /\ b.priority = 0 => b.day <= Today + Horizon
  /\ b.day < Today => archived

\* schedFilteredData
Visible(b) ==
  /\ onlyVehicle \in {Anything, b.vehicle}
  /\ b.priority = 0 => b.day <= Today + Horizon
  /\ b.day < Today => who # "guest" /\ archived

\* renderScheduleCalendar
Grid(entries) == [title |-> month, entries |-> {b \in entries : b.day \in GridDays[month] /\ Visible(b)}]

\* Mutant: a booking takes a slot it only touches.
TouchedCells(b) == {i \in DOMAIN Slots : b.from <= Slots[i].until /\ b.until > Slots[i].from}

\* schedEventRangeForSlots: the rows a booking meets; none before, after or
\* between the slots, or when it ends on another day (the schedule lists clock
\* times).
Cells(b) == {i \in DOMAIN Slots : b.from < Slots[i].until /\ b.until > Slots[i].from}

\* A block of the grid: an entry and the columns it takes.  It is drawn if its
\* rows are free in its columns, else left out.
Drawn(blocks, p) ==
  IF Cells(p.of) = {} \/ \E a \in blocks : /\ Cells(a.of) \cap Cells(p.of) # {}
                                           /\ a.columns \cap p.columns # {}
  THEN blocks ELSE blocks \cup {p}

OfKind(entries, kind) == {b \in entries : b.kind = kind}

\* schedCompareEvents, without the labels it compares last.
Preferred(a, b) == a.priority < b.priority \/ (a.priority = b.priority /\ a.from < b.from)

\* dayEvents.find: the first of its kind, if there is one; it takes all columns.
FirstOf(entries, kind, tab) ==
  LET all == OfKind(entries, kind)
  IN  IF all = {} THEN <<>>
      ELSE <<[of |-> CHOOSE b \in all : \A a \in all : ~Preferred(a, b), columns |-> tab]>>

\* A trip is placed in every column it matches: in several, in one or in none.
TripParts(entries, tab) ==
  {p \in [of : OfKind(entries, "trip"), columns : {{v} : v \in tab}] : p.columns \subseteq p.of.columns}

\* The trips of a column are sorted by start; the sort is stable, so those that
\* start together stay in the order of schedCompareEvents.
Earlier(p, q) ==
  \/ p.of.from < q.of.from
  \/ p.of.from = q.of.from /\ p.of.priority < q.of.priority

\* Each part once, none before an earlier one.  The code goes column by column;
\* parts in different columns do not compete, so one sequence does for all.
InOrder(parts) ==
  CHOOSE s \in Surjection(1 .. Cardinality(parts), parts) :
    \A i, j \in DOMAIN s : i < j => ~Earlier(s[j], s[i])

\* schedBuildDayMatrix, and the same placement in the sheets of the export: the
\* day's meeting and lunch break, then every trip.
DayBlocks(entries, tab) ==
  FoldLeft(Drawn, {}, FirstOf(entries, "MORNING MEETING", tab)
                        \o FirstOf(entries, "LUNCH BREAK", tab)
                        \o InOrder(TripParts(entries, tab)))
-----------------------------------------------------------------------------
NoDay == [entries |-> {}, columns |-> {}, blocks |-> {}]

CalendarInit ==
  /\ who = "nobody" /\ booked \in SUBSET Bookings
  /\ opening = FALSE /\ month \in Months
  /\ schedule = {} /\ archived = FALSE /\ onlyVehicle = Anything
  /\ grid = [title |-> month, entries |-> {}] /\ day = NoDay
  /\ fetching = [k \in Fetches |-> NoFetch]

\* A reservation is made or cancelled, a fixed run saved or deleted.
Rebook ==
  /\ \E b \in Bookings : booked' = IF b \in booked THEN booked \ {b} ELSE booked \cup {b}
  /\ UNCHANGED <<who, opening, month, schedule, archived, onlyVehicle, grid, day, fetching>>

\* A user signs in, or a guest takes "View schedule"; both are led to the page,
\* which still has the grid of whoever was there before.
Arrive(w) ==
  /\ who = "nobody"
  /\ who' = w
  /\ opening' = (w = "guest")
  /\ UNCHANGED <<booked, month, schedule, archived, onlyVehicle, grid, day, fetching>>

\* logout, also the guest's "Back to Login".
Exit ==
  /\ who # "nobody"
  /\ who' = "nobody"
  /\ UNCHANGED <<booked, opening, month, schedule, archived, onlyVehicle, grid, day, fetching>>

\* switchSection shows the calendar and waits for a refresh of the page.
OpenCalendar ==
  /\ who # "nobody"
  /\ opening' = TRUE
  /\ UNCHANGED <<who, booked, month, schedule, archived, onlyVehicle, grid, day, fetching>>

Unsent == {k \in Fetches : fetching[k] = NoFetch}

\* A load is sent.
Fetch(what, days) ==
  /\ Unsent # {}
  /\ fetching' = [fetching EXCEPT ![CHOOSE k \in Unsent : TRUE] = [for |-> what, days |-> days]]

\* initializeScheduleCalendar, after the refresh.  Nobody is refused at once
\* (isDatabaseSession), and the grid is drawn from what there is.
Opened ==
  /\ opening
  /\ opening' = FALSE
  /\ IF who = "nobody" THEN grid' = Grid(schedule) /\ UNCHANGED fetching
                       ELSE Fetch("month", GridDays[month]) /\ UNCHANGED grid
  /\ UNCHANGED <<who, booked, month, schedule, archived, onlyVehicle, day>>

\* navigateScheduleMonth, or a date filter in another month.
Navigate ==
  /\ who # "nobody"
  /\ \E m \in Months \ {month} : month' = m /\ Fetch("month", GridDays[m])
  /\ UNCHANGED <<who, booked, opening, schedule, archived, onlyVehicle, grid, day>>

\* applyScheduleFilters and clearScheduleFilters; a guest has no tick box.
ChangeFilters ==
  /\ who # "nobody"
  /\ archived' \in (IF who = "guest" THEN {archived} ELSE BOOLEAN)
  /\ onlyVehicle' \in Vehicles \cup {Anything}
  /\ UNCHANGED <<who, booked, opening, month, schedule, day, fetching>>
  /\ grid' = Grid(schedule)'

\* exportScheduleExcel asks for its week.
Export ==
  /\ who # "nobody"
  /\ Fetch("export", Week)
  /\ UNCHANGED <<who, booked, opening, month, schedule, archived, onlyVehicle, grid, day>>

\* Mutant: a load that fails leaves the grid as it is.
AnswerIfLoaded(k) ==
  /\ fetching[k] # NoFetch
  /\ fetching' = [fetching EXCEPT ![k] = NoFetch]
  /\ \/ /\ schedule' = {b \in booked : b.day \in fetching[k].days}
        /\ grid' = IF fetching[k].for = "month" THEN Grid(schedule') ELSE grid
     \/ schedule' = {} /\ UNCHANGED grid
  /\ UNCHANGED <<who, booked, opening, month, archived, onlyVehicle, day>>

\* loadScheduleData answers, or fails and leaves an empty schedule.  The month
\* is drawn; the export writes its week and leaves the grid alone.
AnswerFetch(k) ==
  /\ fetching[k] # NoFetch
  /\ fetching' = [fetching EXCEPT ![k] = NoFetch]
  /\ schedule' \in {{b \in booked : b.day \in fetching[k].days}, {}}
  /\ grid' = IF fetching[k].for = "month" THEN Grid(schedule') ELSE grid
  /\ UNCHANGED <<who, booked, opening, month, archived, onlyVehicle, day>>

\* openScheduleDayModal, with the grid of a tab; setScheduleDayGridType opens the
\* day anew with the other one.
OpenDay ==
  /\ who # "nobody"
  /\ \E d \in GridDays[month], tab \in Tabs :
       LET entries == {b \in schedule : b.day = d /\ Visible(b)}
       IN  day' = [entries |-> entries, columns |-> tab, blocks |-> DayBlocks(entries, tab)]
  /\ UNCHANGED <<who, booked, opening, month, schedule, archived, onlyVehicle, grid, fetching>>

CalendarNext ==
  \/ Rebook \/ Exit \/ OpenCalendar \/ Opened \/ Navigate \/ ChangeFilters \/ Export \/ OpenDay
  \/ \E w \in {"user", "guest"} : Arrive(w)
  \/ \E k \in Fetches : AnswerFetch(k)

CalendarSpec == CalendarInit /\ [][CalendarNext]_calendarVars

\* The refresh ends, and a load is answered or fails.
CalendarFairness ==
  /\ WF_calendarVars(Opened)
  /\ \A k \in Fetches : WF_calendarVars(AnswerFetch(k))
-----------------------------------------------------------------------------
CalendarTypeOK ==
  /\ who \in {"nobody", "user", "guest"} /\ booked \subseteq Bookings
  /\ {opening, archived} \subseteq BOOLEAN /\ month \in Months
  /\ schedule \subseteq Bookings /\ onlyVehicle \in Vehicles \cup {Anything}
  /\ grid.title \in Months /\ grid.entries \subseteq Bookings
  /\ day.entries \subseteq Bookings /\ day.columns \subseteq Vehicles
  /\ day.blocks \subseteq [of : day.entries, columns : SUBSET day.columns]
  /\ \A k \in Fetches : fetching[k].for \in {"nothing", "month", "export"}

\* "the public calendar always hides them": once the guest's calendar has
\* loaded no past entry is in it, whatever a user of the same tab had ticked,
\* loaded or left under way before.
GuestSeesNoPast ==
  (who = "guest" /\ ~opening /\ \A k \in Fetches : fetching[k].for # "month")
    => \A b \in grid.entries : b.day >= Today

\* Two bookings that meet one slot (stated of their times, apart from Cells).
ShareSlot(a, b) ==
  \E i \in DOMAIN Slots : \A x \in {a, b} : x.from < Slots[i].until /\ x.until > Slots[i].from

\* The day grid shows no two bookings in one cell, and leaves a trip out of a
\* column that it matches only if no slot has it or the cell is taken by the
\* meeting, the lunch break or a trip that starts no later.
DayGridIsFair ==
  /\ \A p \in day.blocks : \A q \in day.blocks \ {p} :
       ShareSlot(p.of, q.of) => p.columns \cap q.columns = {}
  /\ \A q \in TripParts(day.entries, day.columns) \ day.blocks :
       ShareSlot(q.of, q.of) =>
         \E p \in day.blocks : /\ ShareSlot(p.of, q.of) /\ q.columns \subseteq p.columns
                               /\ p.of.kind = "trip" => p.of.from <= q.of.from

\* The title over the grid comes to say the month the buttons count from, also
\* when a load fails or is overtaken by another.
TitleSettles == (grid.title # month) ~> (grid.title = month)
=============================================================================
