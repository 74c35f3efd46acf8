--------------------------- MODULE VehicleBooking ---------------------------
(***************************************************************************)
(* Booking a vehicle and a driver, at the level of the database locks.     *)
(*                                                                         *)
(* Two transactions book: FleetRepository.ReserveAsync when a request is   *)
(* created, and the HRAD branch of ApprovalRepository.DecideAsync, which   *)
(* replaces what the pass had.  Both read the vehicle row joined with its  *)
(* status row FOR UPDATE, then run plain counting SELECTs, then write,     *)
(* then commit.  The join locks two rows: the vehicle, and the one row     *)
(* AVAILABLE of tbl_vehicle_statuses (the only selectable status).  No     *)
(* driver row is ever locked.                                              *)
(*                                                                         *)
(* Plain SELECTs of a transaction all read one view of the database        *)
(* (REPEATABLE READ), taken by the first read that locks nothing.  In      *)
(* ReserveAsync that is a counting SELECT, after the locks.  DecideAsync   *)
(* has an earlier candidate: the subqueries on the actor's permissions in  *)
(* its very first statement, which lock nothing.  For an HRAD step they    *)
(* need not be evaluated, but a server that reads their constant table     *)
(* (tbl_permissions, by a unique key) while it plans the statement takes   *)
(* the view there.  Both happen in BeginAssign.                            *)
(*                                                                         *)
(* Only rows whose status blocks availability are kept in "rows": a        *)
(* cancelled or returned reservation never blocks again.  A refusal for    *)
(* another reason (vehicle not selectable, clash with a fixed run) is a    *)
(* Rollback; FixedRunConflict models the fixed runs.                       *)
(***************************************************************************)
EXTENDS Naturals

CONSTANTS
  Passes, Vehicles, Drivers,
  NoDriver,    \* no driver is named
  Windows,     \* [from, until]; an open end is a large "until"
  Jobs,        \* the bookings requests may ask for (a subset of AllJobs)
  NoJob,       \* an idle transaction
  Txs,         \* transactions running at one time
  NoTx         \* the holder of a free lock

AllJobs == [kind : {"create", "assign"}, pass : Passes, vehicle : Vehicles,
            driver : Drivers \cup {NoDriver}, windows : SUBSET Windows]
Rows == [pass : Passes, vehicle : Vehicles, driver : Drivers \cup {NoDriver},
         window : Windows]

ASSUME WindowsAssumption == Windows \subseteq [from : Nat, until : Nat]
ASSUME JobsAssumption == Jobs \subseteq AllJobs /\ NoJob \notin AllJobs
ASSUME NamesAssumption == NoTx \notin Txs /\ NoDriver \notin Drivers

VARIABLES
  rows,    \* committed blocking reservation rows
  stage,   \* how far each pass is
  job,     \* what each transaction is booking
  pc,      \* how far each transaction is
  view,    \* {the rows that each transaction's early view shows}, or {}
  passLock, vehicleLock, statusLock,  \* holders of the row locks
  unseen   \* history: the passes whose bookings a pass was booked without seeing

vars == <<rows, stage, job, pc, view, passLock, vehicleLock, statusLock, unseen>>

Init ==
  /\ rows = {}
  /\ stage = [p \in Passes |-> "draft"]
  /\ job = [t \in Txs |-> NoJob]
  /\ pc = [t \in Txs |-> "idle"]
  /\ view = [t \in Txs |-> {}]
  /\ passLock = [p \in Passes |-> NoTx]
  /\ vehicleLock = [v \in Vehicles |-> NoTx]
  /\ statusLock = NoTx
  /\ unseen = [p \in Passes |-> {}]

\* Mutant: only a start inside the other interval counts.
StartsInside(w, x) == w.from <= x.from /\ x.from < w.until

\* reserved_from < @ReservedUntil AND reserved_until > @ReservedFrom.
Overlap(w, x) == w.from < x.until /\ x.from < w.until

RowsOf(p) == {r \in rows : r.pass = p}
-----------------------------------------------------------------------------
\* ReserveAsync starts, once, for a draft that names a vehicle.
BeginCreate(t, j) ==
  /\ pc[t] = "idle"
  /\ j.kind = "create"
  /\ stage[j.pass] = "draft"
  /\ stage' = [stage EXCEPT ![j.pass] = "creating"]
  /\ job' = [job EXCEPT ![t] = j]
  /\ pc' = [pc EXCEPT ![t] = "wantVehicle"]
  /\ UNCHANGED <<rows, view, passLock, vehicleLock, statusLock, unseen>>

\* A form without a vehicle goes on to its approvals with nothing booked.
SubmitWithoutVehicle(p) ==
  /\ stage[p] = "draft"
  /\ stage' = [stage EXCEPT ![p] = "waiting"]
  /\ UNCHANGED <<rows, job, pc, view, passLock, vehicleLock, statusLock, unseen>>

\* DecideAsync starts for HRAD: it locks the request row first.  The same
\* statement may take the view, or leave it to the counting SELECTs.
BeginAssign(t, j) ==
  /\ pc[t] = "idle"
  /\ j.kind = "assign"
  /\ stage[j.pass] = "waiting"
  /\ passLock[j.pass] = NoTx
  /\ passLock' = [passLock EXCEPT ![j.pass] = t]
  /\ job' = [job EXCEPT ![t] = j]
  /\ pc' = [pc EXCEPT ![t] = "wantVehicle"]
  /\ \E early \in {{rows}, {}} : view' = [view EXCEPT ![t] = early]
  /\ UNCHANGED <<rows, stage, vehicleLock, statusLock, unseen>>

LockVehicle(t) ==
  /\ pc[t] = "wantVehicle"
  /\ vehicleLock[job[t].vehicle] = NoTx
  /\ vehicleLock' = [vehicleLock EXCEPT ![job[t].vehicle] = t]
  /\ pc' = [pc EXCEPT ![t] = "wantStatus"]
  /\ UNCHANGED <<rows, stage, job, view, passLock, statusLock, unseen>>

\* Mutant: SELECT ... FOR UPDATE on the vehicle alone, without the join.
SkipStatusRow(t) ==
  /\ pc[t] = "wantStatus"
  /\ pc' = [pc EXCEPT ![t] = "locked"]
  /\ UNCHANGED <<rows, stage, job, view, passLock, vehicleLock, statusLock, unseen>>

\* The joined status row, in the same statement.
LockStatusRow(t) ==
  /\ pc[t] = "wantStatus"
  /\ statusLock = NoTx
  /\ statusLock' = t
  /\ pc' = [pc EXCEPT ![t] = "locked"]
  /\ UNCHANGED <<rows, stage, job, view, passLock, vehicleLock, unseen>>

\* Among the rows shown to the transaction, the reservations of other passes
\* on the vehicle, or with the driver.  A pass that is being created has no
\* rows of its own, so the exclusion of the own pass, which only DecideAsync's
\* query has, changes nothing for it.
VehicleConflict(shown, j) ==
  \E r \in shown, w \in j.windows :
    r.pass # j.pass /\ r.vehicle = j.vehicle /\ Overlap(r.window, w)

\* Mutant: the driver check looks at the assigned vehicle only.
DriverConflictOnVehicle(shown, j) ==
  /\ j.kind = "assign"
  /\ j.driver # NoDriver
  /\ \E r \in shown, w \in j.windows :
       r.pass # j.pass /\ r.vehicle = j.vehicle /\ r.driver = j.driver /\ Overlap(r.window, w)

\* Only the HRAD branch looks at the driver.
DriverConflict(shown, j) ==
  /\ j.kind = "assign"
  /\ j.driver # NoDriver
  /\ \E r \in shown, w \in j.windows :
       r.pass # j.pass /\ r.driver = j.driver /\ Overlap(r.window, w)

Conflict(shown, j) == VehicleConflict(shown, j) \/ DriverConflict(shown, j)

\* What the counting SELECTs of a transaction see: its view, which they take
\* themselves, of the committed rows, if no earlier statement did.
Shown(t) == IF view[t] = {} THEN rows ELSE UNION view[t]

ReleaseLocks(t) ==
  /\ passLock' = [p \in Passes |-> IF passLock[p] = t THEN NoTx ELSE passLock[p]]
  /\ vehicleLock' = [v \in Vehicles |-> IF vehicleLock[v] = t THEN NoTx ELSE vehicleLock[v]]
  /\ statusLock' = IF statusLock = t THEN NoTx ELSE statusLock

\* Mutant: the counting SELECTs run in a transaction that ends with them.
CheckAndUnlock(t) ==
  /\ pc[t] = "locked"
  /\ pc' = [pc EXCEPT ![t] =
       IF Conflict(Shown(t), job[t]) THEN "refused" ELSE "free"]
  /\ UNCHANGED <<rows, stage, job, view, unseen>>
  /\ ReleaseLocks(t)

\* All counting SELECTs read one view, so together they are one read.
Check(t) ==
  /\ pc[t] = "locked"
  /\ pc' = [pc EXCEPT ![t] =
       IF Conflict(Shown(t), job[t]) THEN "refused" ELSE "free"]
  /\ UNCHANGED <<rows, stage, job, view, passLock, vehicleLock, statusLock, unseen>>

NewRows(j) == {[pass |-> j.pass, vehicle |-> j.vehicle, driver |-> j.driver,
                window |-> w] : w \in j.windows}

\* Mutant: the rows of the earlier request are left beside the new ones.
RowsAdded(j) == rows \cup NewRows(j)

\* DecideAsync deletes the rows of the pass first; ReserveAsync has none.
RowsAfter(j) == (rows \ RowsOf(j.pass)) \cup NewRows(j)

\* The passes whose committed rows the transaction's view does not show.
Unseen(t) == {r.pass : r \in rows \ Shown(t)} \ {job[t].pass}

\* The pass p has new rows, or none: what was known of its old ones is void.
Rebooked(p, missed) ==
  [q \in Passes |-> IF q = p THEN missed ELSE unseen[q] \ {p}]

Commit(t) ==
  /\ pc[t] = "free"
  /\ rows' = RowsAfter(job[t])
  /\ stage' = [stage EXCEPT ![job[t].pass] =
                 IF job[t].kind = "create" THEN "waiting" ELSE "assigned"]
  /\ pc' = [pc EXCEPT ![t] = "idle"]
  /\ job' = [job EXCEPT ![t] = NoJob]
  /\ view' = [view EXCEPT ![t] = {}]
  /\ unseen' = Rebooked(job[t].pass, Unseen(t))
  /\ ReleaseLocks(t)

\* Mutant: the connection goes back to the pool with its transaction open.
RollbackForgotten(t) ==
  /\ pc[t] # "idle"
  /\ stage' = [stage EXCEPT ![job[t].pass] = IF @ = "creating" THEN "over" ELSE @]
  /\ pc' = [pc EXCEPT ![t] = "idle"]
  /\ job' = [job EXCEPT ![t] = NoJob]
  /\ UNCHANGED <<rows, view, passLock, vehicleLock, statusLock, unseen>>

\* Mutant: the job is forgotten while its transaction still runs.
RollbackHalf(t) ==
  /\ pc[t] # "idle"
  /\ stage' = [stage EXCEPT ![job[t].pass] = IF @ = "creating" THEN "over" ELSE @]
  /\ job' = [job EXCEPT ![t] = NoJob]
  /\ UNCHANGED <<rows, pc, view, unseen>>
  /\ ReleaseLocks(t)

\* Refused, failed, timed out on a lock, or cut off: nothing is kept.  A
\* creation that ends here leaves a draft that is never submitted.
Rollback(t) ==
  /\ pc[t] # "idle"
  /\ stage' = [stage EXCEPT ![job[t].pass] = IF @ = "creating" THEN "over" ELSE @]
  /\ pc' = [pc EXCEPT ![t] = "idle"]
  /\ job' = [job EXCEPT ![t] = NoJob]
  /\ view' = [view EXCEPT ![t] = {}]
  /\ UNCHANGED <<rows, unseen>>
  /\ ReleaseLocks(t)

\* The pass stops blocking: rejected, back at the gate, or deleted.  Each of
\* these locks the request row.
Release(p) ==
  /\ stage[p] \in {"waiting", "assigned"}
  /\ passLock[p] = NoTx
  /\ rows' = rows \ RowsOf(p)
  /\ stage' = [stage EXCEPT ![p] = "over"]
  /\ unseen' = Rebooked(p, {})
  /\ UNCHANGED <<job, pc, view, passLock, vehicleLock, statusLock>>

Step(t) ==
  \/ \E j \in Jobs : BeginCreate(t, j) \/ BeginAssign(t, j)
  \/ LockVehicle(t) \/ LockStatusRow(t) \/ Check(t) \/ Commit(t) \/ Rollback(t)

Next ==
  \/ \E t \in Txs : Step(t)
  \/ \E p \in Passes : SubmitWithoutVehicle(p) \/ Release(p)

\* The server runs every statement of a transaction it has begun, and InnoDB
\* grants a lock to its waiters in turn.
Fairness == \A t \in Txs :
  /\ WF_vars(Check(t)) /\ WF_vars(Commit(t))
  /\ WF_vars(Rollback(t) /\ pc[t] = "refused")
  /\ SF_vars(LockVehicle(t)) /\ SF_vars(LockStatusRow(t))

Spec == Init /\ [][Next]_vars
FairSpec == Spec /\ Fairness
-----------------------------------------------------------------------------
(* Properties *)

\* Type correctness.
TypeOK ==
  /\ rows \in SUBSET Rows
  /\ stage \in [Passes -> {"draft", "creating", "waiting", "assigned", "over"}]
  /\ job \in [Txs -> AllJobs \cup {NoJob}]
  /\ pc \in [Txs -> {"idle", "wantVehicle", "wantStatus", "locked", "free", "refused"}]
  /\ \A t \in Txs : pc[t] # "idle" => job[t] \in AllJobs
  /\ view \in [Txs -> SUBSET SUBSET Rows]
  /\ passLock \in [Passes -> Txs \cup {NoTx}]
  /\ vehicleLock \in [Vehicles -> Txs \cup {NoTx}]
  /\ statusLock \in Txs \cup {NoTx}
  /\ unseen \in [Passes -> SUBSET Passes]

\* One of the two passes was booked by an assignment whose view was older than
\* the booking of the other.
MissedOneAnother(p, q) == p \in unseen[q] \/ q \in unseen[p]

\* However creations and HRAD assignments interleave, two passes have one
\* vehicle at one time only if an assignment's view, taken before it held its
\* locks, missed the other booking.  Every other order of statements is caught
\* by the locks and the counting SELECTs.
VehicleSharedOnlyUnseen ==
  \A r, q \in rows :
    /\ r.vehicle = q.vehicle /\ r.pass # q.pass
    /\ Overlap(r.window, q.window)
    => MissedOneAnother(r.pass, q.pass)

\* The same of the drivers HRAD assigns.  No driver row is locked: this rests
\* on the status row that the vehicle query locks too.
DriverSharedOnlyUnseen ==
  \A r, q \in rows :
    /\ r.driver = q.driver /\ r.driver # NoDriver /\ r.pass # q.pass
    /\ stage[r.pass] = "assigned" /\ stage[q.pass] = "assigned"
    /\ Overlap(r.window, q.window)
    => MissedOneAnother(r.pass, q.pass)

\* Two creations never promise one vehicle at one time: ReserveAsync reads
\* nothing before it holds its locks.
NoCreationOverlap ==
  \A r, q \in rows :
    /\ r.vehicle = q.vehicle /\ r.pass # q.pass
    /\ stage[r.pass] = "waiting" /\ stage[q.pass] = "waiting"
    => ~Overlap(r.window, q.window)

\* What PHASE_18_PLAN.md says of the assignment: it blocks a double-booked
\* driver, not just the vehicle.  Refuted: an assignment that waits for the
\* vehicle or the status row while another one commits does not see that
\* booking if its first statement took its view.
NoDoubleBooking ==
  \A r, q \in rows :
    /\ r.pass # q.pass /\ stage[r.pass] = "assigned" /\ stage[q.pass] = "assigned"
    /\ Overlap(r.window, q.window)
    => r.vehicle # q.vehicle /\ (r.driver # q.driver \/ r.driver = NoDriver)

\* A pass that HRAD assigned has the windows of that assignment and no other:
\* one vehicle, one driver, what was booked at creation gone.
OneAssignmentPerPass ==
  \A r, q \in rows :
    r.pass = q.pass => r.vehicle = q.vehicle /\ r.driver = q.driver

\* Every booking transaction ends: no cycle of waiting, no lock left behind.
BookingsEnd == \A t \in Txs : pc[t] # "idle" ~> pc[t] = "idle"

\* Whatever the transactions do, the committed rows change as in the ledger: a
\* booking is made in one step, against what is booked then or against what its
\* request saw when it looked.
Slots(rs) == {[pass |-> r.pass, vehicle |-> r.vehicle, window |-> r.window] : r \in rs}
Ledger == INSTANCE BookingLedger
  WITH Requests <- Txs, booked <- Slots(rows),
       seen <- [t \in Txs |-> {Slots(rs) : rs \in view[t]}]
ImplementsLedger == Ledger!Spec

\* The invariant behind the three properties on overlaps: who has passed a
\* check still holds the locks, and the check still holds, of what its counting
\* SELECTs saw.
LocksProtectChecks ==
  \A t \in Txs :
    /\ pc[t] \in {"wantStatus", "locked", "free", "refused"} =>
         vehicleLock[job[t].vehicle] = t
    /\ pc[t] \in {"locked", "free", "refused"} => statusLock = t
    /\ pc[t] = "free" => ~Conflict(Shown(t), job[t])
=============================================================================
