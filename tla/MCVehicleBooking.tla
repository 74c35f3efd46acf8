-------------------------- MODULE MCVehicleBooking --------------------------
(* Instances of VehicleBooking for TLC. *)
EXTENDS VehicleBooking

CONSTANTS v1, v2, d1

\* Three passes, two vehicles, one driver.  The windows overlap, touch and
\* leave a gap; {morning, evening} is a split schedule.
morning == [from |-> 1, until |-> 3]
midday  == [from |-> 2, until |-> 4]
evening == [from |-> 4, until |-> 99]
MCWindows == {morning, midday, evening}

MCJobs ==
  [kind : {"create"}, pass : {1, 2}, vehicle : {v1}, driver : {d1},
   windows : {{midday}, {evening}}]
  \cup [kind : {"assign"}, pass : {1, 2}, vehicle : {v1, v2},
        driver : {d1}, windows : {{morning, evening}, {midday}}]
  \cup [kind : {"assign"}, pass : {3}, vehicle : {v1}, driver : {NoDriver},
        windows : {{midday}}]

=============================================================================
