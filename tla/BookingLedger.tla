---------------------------- MODULE BookingLedger ----------------------------
(***************************************************************************)
(* What booking a vehicle promises: a pass books a vehicle for some        *)
(* windows in one step, and only while no other pass has it then, as far   *)
(* as the request knows.  A request that looked at the bookings before     *)
(* relies on what it saw; one that did not is told what is booked now.     *)
(***************************************************************************)
CONSTANTS Passes, Vehicles, Windows, Requests, Overlap(_, _)
VARIABLES booked,   \* set of [pass, vehicle, window]
          seen      \* {what each request saw when it looked}, or {}

SlotsOf(p) == {s \in booked : s.pass = p}

Available(known, p, v, ws) ==
  \A s \in known, w \in ws :
    s.pass # p /\ s.vehicle = v => ~Overlap(s.window, w)

Init ==
  /\ booked = {}
  /\ seen = [t \in Requests |-> {}]

Look(t) ==
  /\ seen' = [seen EXCEPT ![t] = {booked}]
  /\ UNCHANGED booked

Forget(t) ==
  /\ seen' = [seen EXCEPT ![t] = {}]
  /\ UNCHANGED booked

\* The pass gets the new windows in place of those it had.
Book(t, p, v, ws) ==
  /\ Available(IF seen[t] = {} THEN booked ELSE UNION seen[t], p, v, ws)
  /\ booked' = (booked \ SlotsOf(p)) \cup
                 {[pass |-> p, vehicle |-> v, window |-> w] : w \in ws}
  /\ seen' = [seen EXCEPT ![t] = {}]

Free(p) ==
  /\ booked' = booked \ SlotsOf(p)
  /\ UNCHANGED seen

Next ==
  \/ \E t \in Requests :
       \/ Look(t) \/ Forget(t)
       \/ \E p \in Passes, v \in Vehicles, ws \in SUBSET Windows : Book(t, p, v, ws)
  \/ \E p \in Passes : Free(p)

Spec == Init /\ [][Next]_<<booked, seen>>
=============================================================================
