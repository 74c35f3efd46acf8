------------------------------ MODULE MCPages ------------------------------
(***************************************************************************)
(* An instance for TLC of the parts of the page that share no state: the    *)
(* session and its bell, the scanner page, the request forms and the        *)
(* schedule calendar.  Interleaving them would only multiply their states,  *)
(* so a behaviour runs one of them, and of the forms and the calendar one   *)
(* concern at a time; the others keep their first state.                    *)
(***************************************************************************)
EXTENDS BrowserSession, ScannerPage, RequestForms, ScheduleCalendar

VARIABLE page  \* what this behaviour is about

FormPages == {"person", "material", "items", "trip"}
CalendarPages == {"month", "day"}

MCNotesOf == [u \in Users |-> Notes]
-----------------------------------------------------------------------------
(* The schedule: today is the 3rd.                                          *)

Trip(day_, from, until, vehicle, priority, columns) ==
  [day |-> day_, from |-> from, until |-> until, vehicle |-> vehicle, kind |-> "trip",
   priority |-> priority, columns |-> columns]
Meeting(from, until, kind) == [Trip(3, from, until, "van", 0, {"van"}) EXCEPT !.kind = kind]

\* A past trip, and a fixed run beyond the horizon that is in the grids of both
\* months.
MonthBookings == {Trip(1, 2, 4, "van", 2, {"van"}), Trip(32, 2, 4, "truck", 0, {"truck"})}

\* Trips of one vehicle that touch, overlap, miss every slot or start
\* together, a fixed run that two columns match, the meeting, the break, a
\* pending trip of the other tab, and a trip of a vehicle without a column.
DayBookings ==
  {Trip(3, from, until, "van", 2, {"van"}) : from \in {1, 3, 4}, until \in {2, 4, 5, 7}}
    \cup {Trip(3, 3, 6, "van", 0, {"van", "minivan"}), Trip(3, 2, 4, "truck", 1, {"truck"}),
          Trip(3, 2, 4, "gone", 2, {}),
          Meeting(2, 5, "MORNING MEETING"), Meeting(6, 9, "LUNCH BREAK")}

MCTabs == {{"van", "minivan"}, {"truck"}}

MCBookings == MonthBookings \cup DayBookings
MCSlots == <<[from |-> 2, until |-> 4], [from |-> 4, until |-> 6], [from |-> 8, until |-> 10]>>
MCGridDays == [m \in Months |-> IF m = 1 THEN 1 .. 33 ELSE 30 .. 60]
MCWeek == 2 .. 7

FewBookings == 3  \* bound: bookings of the day
-----------------------------------------------------------------------------
(* What the pages leave out.                                                *)

ReadyMaterial == [FirstMaterial EXCEPT !.carrier = Me, !.photos = {1}]

MaxEntries == 2  \* bound: sign-ins and reloads together

\* In the last session the bell is not opened and no password is changed.
SessionStep ==
  /\ Next
  /\ Len(holder') + reloads' <= MaxEntries
  /\ Len(holder) = MaxLogins =>
       \A k \in Free : task'[k].todo \notin {OpenPanel, MarkAll, ChangePassword}

FormStep ==
  /\ FormsNext
  /\ page = "person" => shown' = "person"
  /\ page # "trip" => trip' \in {FirstTrip, [FirstTrip EXCEPT !.timeIn = TRUE]}
  /\ page # "items" => material' \in {FirstMaterial, [FirstMaterial EXCEPT !.carrier = Me], ReadyMaterial}
  /\ page # "person" => asked' = asked
  /\ page \in {"material", "items"} => companions'["person"] = companions["person"] /\ trip' = trip
  /\ page \in {"trip", "items"} => companions' = companions /\ adding' = adding
  /\ page = "trip" => material' = material

CalendarStep ==
  /\ CalendarNext
  /\ page = "month" => /\ booked' \subseteq MonthBookings /\ day' = day
                       /\ onlyVehicle' \in {Anything, "van"}
  /\ page = "day" => /\ who' = "user" /\ booked' = booked
                     /\ month' = month /\ archived' = archived /\ onlyVehicle' = onlyVehicle
                     /\ \A k \in Fetches : fetching'[k].for # "export"

PagesInit ==
  /\ Init /\ ScannerInit /\ FormsInit /\ CalendarInit
  /\ page \in {"session", "scanner"} \cup FormPages \cup CalendarPages
  /\ page \notin CalendarPages => month = 1
  /\ page # "day" => booked = {}
  /\ page = "day" => month = 1 /\ booked \subseteq DayBookings /\ Cardinality(booked) <= FewBookings

pagesVars == <<vars, scannerVars, formsVars, calendarVars, page>>

PagesNext ==
  /\ UNCHANGED page
  /\ \/ page = "session" /\ SessionStep /\ UNCHANGED <<scannerVars, formsVars, calendarVars>>
     \/ page = "scanner" /\ ScannerNext /\ UNCHANGED <<vars, formsVars, calendarVars>>
     \/ page \in FormPages /\ FormStep /\ UNCHANGED <<vars, scannerVars, calendarVars>>
     \/ page \in CalendarPages /\ CalendarStep /\ UNCHANGED <<vars, scannerVars, formsVars>>
  /\ pagesVars' # pagesVars

PagesSpec ==
  /\ PagesInit /\ [][PagesNext]_pagesVars
  /\ SessionFairness /\ ScannerFairness /\ CalendarFairness
=============================================================================
