------------------------ MODULE VehicleBookingProofs ------------------------
(***************************************************************************)
(* Theorems about VehicleBooking, for every set of passes, vehicles,       *)
(* drivers, windows, jobs and transactions.                                *)
(***************************************************************************)
EXTENDS VehicleBooking, TLAPS

-----------------------------------------------------------------------------
(* Type correctness *)

\* The variables stay in their types; a transaction under way has a job.
THEOREM TypeCorrect == Spec => []TypeOK
<1> USE NamesAssumption, JobsAssumption
<1>1. Init => TypeOK
  BY DEF Init, TypeOK
<1>2. TypeOK /\ [Next]_vars => TypeOK'
  <2> SUFFICES ASSUME TypeOK, [Next]_vars PROVE TypeOK'
    OBVIOUS
  <2>1. ASSUME NEW t \in Txs, NEW j \in Jobs, BeginCreate(t, j) \/ BeginAssign(t, j)
        PROVE  TypeOK'
    <3>1. j \in AllJobs /\ j.pass \in Passes
      BY DEF AllJobs
    <3>2. view' \in [Txs -> SUBSET SUBSET Rows]
      BY <2>1 DEF TypeOK, BeginCreate, BeginAssign
    <3>3. QED BY <2>1, <3>1, <3>2 DEF TypeOK, BeginCreate, BeginAssign
  <2>2. ASSUME NEW t \in Txs, LockVehicle(t) \/ LockStatusRow(t) \/ Check(t)
        PROVE  TypeOK'
    BY <2>2 DEF TypeOK, LockVehicle, LockStatusRow, Check
  <2>3. ASSUME NEW t \in Txs, ReleaseLocks(t)
        PROVE  /\ passLock' \in [Passes -> Txs \cup {NoTx}]
               /\ vehicleLock' \in [Vehicles -> Txs \cup {NoTx}]
               /\ statusLock' \in Txs \cup {NoTx}
    BY <2>3 DEF TypeOK, ReleaseLocks
  <2>4. ASSUME NEW t \in Txs, Commit(t) PROVE TypeOK'
    <3>1. job[t] \in AllJobs
      BY <2>4 DEF TypeOK, Commit
    <3>2. rows' \in SUBSET Rows
      BY <2>4, <3>1 DEF TypeOK, Commit, RowsAfter, RowsOf, NewRows, Rows, AllJobs
    <3>3. unseen' \in [Passes -> SUBSET Passes]
      <4>1. Unseen(t) \in SUBSET Passes
        BY DEF TypeOK, Unseen, Rows
      <4>2. QED BY <2>4, <4>1 DEF TypeOK, Commit, Rebooked
    <3>4. QED BY <2>3, <2>4, <3>2, <3>3 DEF TypeOK, Commit
  <2>5. ASSUME NEW t \in Txs, Rollback(t) PROVE TypeOK'
    BY <2>3, <2>5 DEF TypeOK, Rollback
  <2>6. ASSUME NEW p \in Passes, SubmitWithoutVehicle(p) \/ Release(p) PROVE TypeOK'
    <3>1. unseen' \in [Passes -> SUBSET Passes]
      BY <2>6 DEF TypeOK, SubmitWithoutVehicle, Release, Rebooked
    <3>2. QED BY <2>6, <3>1 DEF TypeOK, SubmitWithoutVehicle, Release, RowsOf
  <2>7. CASE UNCHANGED vars
    BY <2>7 DEF TypeOK, vars
  <2>8. QED BY <2>1, <2>2, <2>4, <2>5, <2>6, <2>7 DEF Next, Step
<1>3. QED BY <1>1, <1>2, PTL DEF Spec
-----------------------------------------------------------------------------
(* The locks *)

\* Booked windows and asked windows are intervals of natural numbers.
LEMMA OverlapSymmetric ==
  ASSUME NEW w \in Windows, NEW x \in Windows
  PROVE  Overlap(w, x) = Overlap(x, w)
BY WindowsAssumption DEF Overlap

\* A transaction that has read the status row for update is alone: while it
\* checks, decides and writes, no other one does.
LEMMA StatusRowExclusive ==
  ASSUME LocksProtectChecks, NEW t \in Txs, NEW u \in Txs,
         pc[t] \in {"locked", "free", "refused"}, pc[u] \in {"locked", "free", "refused"}
  PROVE  t = u
BY DEF LocksProtectChecks

\* What a transaction past its check saw does not change but for rows that go.
LEMMA FewerRows ==
  ASSUME NEW t, ~Conflict(Shown(t), job[t]), rows' \subseteq rows,
         view'[t] = view[t], job'[t] = job[t]
  PROVE  ~Conflict(Shown(t), job[t])'
<1>1. Shown(t)' \subseteq Shown(t)
  BY DEF Shown
<1>2. QED BY <1>1 DEF Conflict, VehicleConflict, DriverConflict

\* Who has passed the availability check still holds the vehicle row and the
\* status row, and the check still holds of what it saw.
THEOREM LocksCorrect == Spec => []LocksProtectChecks
<1> USE NamesAssumption
<1>1. Init => LocksProtectChecks
  BY DEF Init, LocksProtectChecks
<1>2. TypeOK /\ LocksProtectChecks /\ [Next]_vars => LocksProtectChecks'
  <2> SUFFICES ASSUME TypeOK, LocksProtectChecks, [Next]_vars, NEW u \in Txs
               PROVE  (/\ pc[u] \in {"wantStatus", "locked", "free", "refused"} =>
                            vehicleLock[job[u].vehicle] = u
                       /\ pc[u] \in {"locked", "free", "refused"} => statusLock = u
                       /\ pc[u] = "free" => ~Conflict(Shown(u), job[u]))'
    BY DEF LocksProtectChecks
  <2> DEFINE Held == /\ pc[u] \in {"wantStatus", "locked", "free", "refused"} =>
                          vehicleLock[job[u].vehicle] = u
                     /\ pc[u] \in {"locked", "free", "refused"} => statusLock = u
                     /\ pc[u] = "free" => ~Conflict(Shown(u), job[u])
  <2>0. Held
    BY DEF LocksProtectChecks
  <2>a. pc[u] # "idle" => job[u].vehicle \in Vehicles
    BY DEF TypeOK, AllJobs
  <2>1. ASSUME NEW t \in Txs, NEW j \in Jobs, BeginCreate(t, j) \/ BeginAssign(t, j)
        PROVE  Held'
    <3>1. CASE t = u
      BY <2>1, <3>1 DEF TypeOK, BeginCreate, BeginAssign
    <3>2. CASE t # u
      <4>1. /\ pc'[u] = pc[u] /\ job'[u] = job[u] /\ view'[u] = view[u]
            /\ UNCHANGED <<rows, vehicleLock, statusLock>>
        BY <2>1, <3>2 DEF TypeOK, BeginCreate, BeginAssign
      <4>2. QED BY <2>0, <4>1, FewerRows
    <3>3. QED BY <3>1, <3>2
  <2>2. ASSUME NEW t \in Txs, LockVehicle(t) PROVE Held'
    <3>1. UNCHANGED <<rows, job, view, statusLock>>
      BY <2>2 DEF LockVehicle
    <3>2. CASE t = u
      BY <2>2, <2>a, <3>1, <3>2 DEF TypeOK, LockVehicle
    <3>3. CASE t # u
      <4>1. pc'[u] = pc[u]
        BY <2>2, <3>3 DEF TypeOK, LockVehicle
      <4>2. vehicleLock[job[u].vehicle] = u => vehicleLock'[job[u].vehicle] = u
        BY <2>2 DEF TypeOK, LockVehicle
      <4>3. QED BY <2>0, <3>1, <4>1, <4>2, FewerRows
    <3>4. QED BY <3>2, <3>3
  <2>3. ASSUME NEW t \in Txs, LockStatusRow(t) PROVE Held'
    <3>1. UNCHANGED <<rows, job, view, vehicleLock>> /\ statusLock' = t /\ statusLock = NoTx
      BY <2>3 DEF LockStatusRow
    <3>2. CASE t = u
      BY <2>0, <2>3, <3>1, <3>2 DEF TypeOK, LockStatusRow
    <3>3. CASE t # u
      <4>1. pc'[u] = pc[u] /\ pc[u] \notin {"locked", "free", "refused"}
        BY <2>0, <2>3, <3>1, <3>3 DEF TypeOK, LockStatusRow
      <4>2. QED BY <2>0, <3>1, <4>1
    <3>4. QED BY <3>2, <3>3
  <2>4. ASSUME NEW t \in Txs, Check(t) PROVE Held'
    <3>1. UNCHANGED <<rows, job, view, vehicleLock, statusLock>>
      BY <2>4 DEF Check
    <3>2. CASE t = u
      <4>1. pc'[u] = "free" => ~Conflict(Shown(u), job[u])'
        <5>1. pc'[u] = "free" => ~Conflict(Shown(u), job[u])
          BY <2>4, <3>2 DEF TypeOK, Check
        <5>2. QED BY <3>1, <5>1, FewerRows
      <4>2. QED BY <2>0, <2>4, <3>1, <3>2, <4>1 DEF TypeOK, Check
    <3>3. CASE t # u
      <4>1. pc'[u] = pc[u]
        BY <2>4, <3>3 DEF TypeOK, Check
      <4>2. QED BY <2>0, <3>1, <4>1, FewerRows
    <3>4. QED BY <3>2, <3>3
  <2>5. ASSUME NEW t \in Txs, Commit(t) \/ Rollback(t) PROVE Held'
    <3>1. ReleaseLocks(t) /\ pc'[t] = "idle"
      BY <2>5 DEF TypeOK, Commit, Rollback
    <3>2. CASE t = u
      BY <3>1, <3>2
    <3>3. CASE t # u
      <4>1. pc'[u] = pc[u] /\ job'[u] = job[u] /\ view'[u] = view[u]
        BY <2>5, <3>3 DEF TypeOK, Commit, Rollback
      <4>2. /\ statusLock = u => statusLock' = u
            /\ pc[u] # "idle" /\ vehicleLock[job[u].vehicle] = u =>
                 vehicleLock'[job[u].vehicle] = u
        BY <2>a, <3>1, <3>3 DEF ReleaseLocks
      <4>3. pc[u] = "free" => rows' \subseteq rows
        <5>1. CASE Commit(t)
          BY <3>3, <5>1, StatusRowExclusive DEF Commit
        <5>2. CASE Rollback(t)
          BY <5>2 DEF Rollback
        <5>3. QED BY <2>5, <5>1, <5>2
      <4>4. QED BY <2>0, <4>1, <4>2, <4>3, FewerRows
    <3>4. QED BY <3>2, <3>3
  <2>6. ASSUME NEW p \in Passes, SubmitWithoutVehicle(p) \/ Release(p) PROVE Held'
    <3>1. UNCHANGED <<job, pc, view, vehicleLock, statusLock>> /\ rows' \subseteq rows
      BY <2>6 DEF SubmitWithoutVehicle, Release
    <3>2. QED BY <2>0, <3>1, FewerRows
  <2>7. CASE UNCHANGED vars
    BY <2>0, <2>7, FewerRows DEF vars
  <2>8. QED BY <2>1, <2>2, <2>3, <2>4, <2>5, <2>6, <2>7 DEF Next, Step
<1>3. QED BY <1>1, <1>2, TypeCorrect, PTL DEF Spec
-----------------------------------------------------------------------------
(* No deadlock, and no lock left behind *)

\* A lock is held by a transaction that is under way and has come to it: the
\* request row by the assignment of that pass, a vehicle row by a transaction
\* that books the vehicle, the status row by one that has all its locks.
HoldersGoOn ==
  /\ \A p \in Passes : passLock[p] # NoTx =>
       pc[passLock[p]] # "idle" /\ job[passLock[p]].kind = "assign" /\ job[passLock[p]].pass = p
  /\ \A v \in Vehicles : vehicleLock[v] # NoTx =>
       /\ pc[vehicleLock[v]] \in {"wantStatus", "locked", "free", "refused"}
       /\ job[vehicleLock[v]].vehicle = v
  /\ statusLock # NoTx => pc[statusLock] \in {"locked", "free", "refused"}

\* The next statement of a transaction under way waits for no lock.
CanGoOn(t) ==
  \/ pc[t] = "wantVehicle" /\ vehicleLock[job[t].vehicle] = NoTx
  \/ pc[t] = "wantStatus" /\ statusLock = NoTx
  \/ pc[t] \in {"locked", "free", "refused"}

\* Transactions never wait for each other in a cycle.
NobodyStuck == (\E t \in Txs : pc[t] # "idle") => \E t \in Txs : CanGoOn(t)

\* No transaction leaves a lock behind: whatever way it ended (committed,
\* refused, cut off), the locks are those of transactions still under way.
THEOREM HoldersCorrect == Spec => []HoldersGoOn
<1> USE NamesAssumption
<1>1. Init => HoldersGoOn
  BY DEF Init, HoldersGoOn
<1>2. TypeOK /\ HoldersGoOn /\ [Next]_vars => HoldersGoOn'
  <2> SUFFICES ASSUME TypeOK, HoldersGoOn, [Next]_vars PROVE HoldersGoOn'
    OBVIOUS
  <2>1. ASSUME NEW t \in Txs, NEW j \in Jobs, BeginCreate(t, j) PROVE HoldersGoOn'
    <3>1. UNCHANGED <<passLock, vehicleLock, statusLock>> /\ pc[t] = "idle"
      BY <2>1 DEF BeginCreate
    <3>2. \A u \in Txs : pc[u] # "idle" => pc'[u] = pc[u] /\ job'[u] = job[u]
      BY <2>1 DEF TypeOK, BeginCreate
    <3>3. QED BY <3>1, <3>2 DEF TypeOK, HoldersGoOn
  <2>2. ASSUME NEW t \in Txs, NEW j \in Jobs, BeginAssign(t, j) PROVE HoldersGoOn'
    <3>1. UNCHANGED <<vehicleLock, statusLock>>
      BY <2>2 DEF BeginAssign
    <3>2. \A u \in Txs : pc[u] # "idle" => pc'[u] = pc[u] /\ job'[u] = job[u]
      BY <2>2 DEF TypeOK, BeginAssign
    <3>3. pc'[t] # "idle" /\ job'[t].kind = "assign" /\ job'[t].pass = j.pass
      BY <2>2 DEF TypeOK, BeginAssign
    <3>4. \A p \in Passes : passLock'[p] = IF p = j.pass THEN t ELSE passLock[p]
      BY <2>2 DEF TypeOK, BeginAssign
    <3>5. QED BY <3>1, <3>2, <3>3, <3>4 DEF TypeOK, HoldersGoOn
  <2>3. ASSUME NEW t \in Txs, LockVehicle(t) PROVE HoldersGoOn'
    <3>1. UNCHANGED <<job, passLock, statusLock>>
      BY <2>3 DEF LockVehicle
    <3>2. \A u \in Txs : pc'[u] = IF u = t THEN "wantStatus" ELSE pc[u]
      BY <2>3 DEF TypeOK, LockVehicle
    <3>3. \A v \in Vehicles : vehicleLock'[v] = IF v = job[t].vehicle THEN t ELSE vehicleLock[v]
      BY <2>3 DEF TypeOK, LockVehicle
    <3>4. pc[t] = "wantVehicle"
      BY <2>3 DEF LockVehicle
    <3>5. QED BY <3>1, <3>2, <3>3, <3>4 DEF TypeOK, HoldersGoOn
  <2>4. ASSUME NEW t \in Txs, LockStatusRow(t) PROVE HoldersGoOn'
    <3>1. UNCHANGED <<job, passLock, vehicleLock>> /\ statusLock' = t
      BY <2>4 DEF LockStatusRow
    <3>2. \A u \in Txs : pc'[u] = IF u = t THEN "locked" ELSE pc[u]
      BY <2>4 DEF TypeOK, LockStatusRow
    <3>3. QED BY <3>1, <3>2 DEF TypeOK, HoldersGoOn
  <2>5. ASSUME NEW t \in Txs, Check(t) PROVE HoldersGoOn'
    <3>1. UNCHANGED <<job, passLock, vehicleLock, statusLock>>
      BY <2>5 DEF Check
    <3>2. pc'[t] \in {"free", "refused"} /\ \A u \in Txs \ {t} : pc'[u] = pc[u]
      BY <2>5 DEF TypeOK, Check
    <3>3. QED BY <3>1, <3>2 DEF TypeOK, HoldersGoOn
  <2>6. ASSUME NEW t \in Txs, Commit(t) \/ Rollback(t) PROVE HoldersGoOn'
    <3>1. ReleaseLocks(t)
      BY <2>6 DEF Commit, Rollback
    <3>2. \A u \in Txs \ {t} : pc'[u] = pc[u] /\ job'[u] = job[u]
      BY <2>6 DEF TypeOK, Commit, Rollback
    <3>3. /\ \A p \in Passes : passLock'[p] # NoTx => passLock'[p] = passLock[p] /\ passLock[p] # t
          /\ \A v \in Vehicles : vehicleLock'[v] # NoTx =>
               vehicleLock'[v] = vehicleLock[v] /\ vehicleLock[v] # t
          /\ statusLock' # NoTx => statusLock' = statusLock /\ statusLock # t
      BY <3>1 DEF ReleaseLocks
    <3>4. QED BY <3>2, <3>3 DEF TypeOK, HoldersGoOn
  <2>7. ASSUME NEW p \in Passes, SubmitWithoutVehicle(p) \/ Release(p) PROVE HoldersGoOn'
    BY <2>7 DEF SubmitWithoutVehicle, Release, HoldersGoOn
  <2>8. CASE UNCHANGED vars
    BY <2>8 DEF HoldersGoOn, vars
  <2>9. QED BY <2>1, <2>2, <2>3, <2>4, <2>5, <2>6, <2>7, <2>8 DEF Next, Step
<1>3. QED BY <1>1, <1>2, TypeCorrect, PTL DEF Spec

\* No deadlock: while any booking is under way, the next statement of some
\* booking waits for no lock, for any number of transactions and vehicles.
\* Every transaction takes its locks in one order (request row, vehicle row,
\* status row), and the holder of the last one waits for nothing.  This is
\* what BookingsEnd rests on.
THEOREM NoDeadlock == Spec => []NobodyStuck
<1>1. TypeOK /\ HoldersGoOn => NobodyStuck
  <2> SUFFICES ASSUME TypeOK, HoldersGoOn, NEW t \in Txs, pc[t] # "idle"
               PROVE  \E u \in Txs : CanGoOn(u)
    BY DEF NobodyStuck
  <2> USE NamesAssumption
  <2>1. ASSUME NEW u \in Txs, pc[u] = "wantStatus" PROVE \E w \in Txs : CanGoOn(w)
    <3>1. statusLock # NoTx => statusLock \in Txs /\ CanGoOn(statusLock)
      BY DEF TypeOK, HoldersGoOn, CanGoOn
    <3>2. statusLock = NoTx => CanGoOn(u)
      BY <2>1 DEF CanGoOn
    <3>3. QED BY <3>1, <3>2
  <2>2. CASE pc[t] = "wantVehicle" /\ vehicleLock[job[t].vehicle] # NoTx
    <3>1. job[t].vehicle \in Vehicles
      BY <2>2 DEF TypeOK, AllJobs
    <3> DEFINE u == vehicleLock[job[t].vehicle]
    <3>2. u \in Txs /\ pc[u] \in {"wantStatus", "locked", "free", "refused"}
      BY <2>2, <3>1 DEF TypeOK, HoldersGoOn
    <3>3. pc[u] # "wantStatus" => CanGoOn(u)
      BY <3>2 DEF CanGoOn
    <3> HIDE DEF u
    <3>4. QED BY <2>1, <3>2, <3>3
  <2>3. CASE pc[t] = "wantVehicle" /\ vehicleLock[job[t].vehicle] = NoTx
    BY <2>3 DEF CanGoOn
  <2>4. CASE pc[t] = "wantStatus"
    BY <2>1, <2>4
  <2>5. CASE pc[t] \in {"locked", "free", "refused"}
    BY <2>5 DEF CanGoOn
  <2>6. QED BY <2>2, <2>3, <2>4, <2>5 DEF TypeOK
<1>2. QED BY <1>1, HoldersCorrect, TypeCorrect, PTL
-----------------------------------------------------------------------------
(* The bookings *)

\* Every step but a commit only removes rows and assigns no pass, and forgets of
\* no pass that still has rows what it was booked without seeing.
LEMMA OnlyCommitBooks ==
  ASSUME TypeOK, [Next]_vars
  PROVE  \/ \E t \in Txs : Commit(t)
         \/ /\ rows' \subseteq rows
            /\ \A p \in Passes : stage'[p] = "assigned" => stage[p] = "assigned"
            /\ \A r, q \in rows' : r.pass \in unseen[q.pass] => r.pass \in unseen'[q.pass]
<1>1. ASSUME NEW t \in Txs, NEW j \in Jobs, BeginCreate(t, j) \/ BeginAssign(t, j)
      PROVE  /\ UNCHANGED <<rows, unseen>>
             /\ \A p \in Passes : stage'[p] = "assigned" => stage[p] = "assigned"
  BY <1>1 DEF TypeOK, BeginCreate, BeginAssign
<1>2. ASSUME NEW t \in Txs, LockVehicle(t) \/ LockStatusRow(t) \/ Check(t)
      PROVE  UNCHANGED <<rows, stage, unseen>>
  BY <1>2 DEF LockVehicle, LockStatusRow, Check
<1>3. ASSUME NEW t \in Txs, Rollback(t)
      PROVE  /\ UNCHANGED <<rows, unseen>>
             /\ \A p \in Passes : stage'[p] = "assigned" => stage[p] = "assigned"
  BY <1>3 DEF TypeOK, Rollback
<1>4. ASSUME NEW p \in Passes, SubmitWithoutVehicle(p)
      PROVE  /\ UNCHANGED <<rows, unseen>>
             /\ \A q \in Passes : stage'[q] = "assigned" => stage[q] = "assigned"
  BY <1>4 DEF TypeOK, SubmitWithoutVehicle
<1>5. ASSUME NEW p \in Passes, Release(p)
      PROVE  /\ rows' \subseteq rows
             /\ \A q \in Passes : stage'[q] = "assigned" => stage[q] = "assigned"
             /\ \A r, q \in rows' : r.pass \in unseen[q.pass] => r.pass \in unseen'[q.pass]
  <2>1. \A r \in rows' : r.pass \in Passes \ {p}
    BY <1>5 DEF TypeOK, Release, RowsOf, Rows
  <2>2. \A q \in Passes \ {p} : unseen'[q] = unseen[q] \ {p}
    BY <1>5 DEF Release, Rebooked
  <2>3. \A q \in Passes : stage'[q] = "assigned" => stage[q] = "assigned"
    BY <1>5 DEF TypeOK, Release
  <2>4. QED BY <1>5, <2>1, <2>2, <2>3 DEF Release
<1>6. QED BY <1>1, <1>2, <1>3, <1>4, <1>5 DEF Next, Step, vars

\* A commit leaves the rows of other passes alone, and what those were booked
\* without seeing of each other; the rows of its own pass are those of its job,
\* which conflict with no row it was shown.  The passes of the rows it was not
\* shown are written down as unseen.
LEMMA CommitBooks ==
  ASSUME TypeOK, LocksProtectChecks, NEW t \in Txs, Commit(t)
  PROVE  /\ job[t] \in AllJobs
         /\ ~Conflict(Shown(t), job[t])
         /\ \A r \in rows' : \/ r \in rows \ RowsOf(job[t].pass)
                             \/ r \in NewRows(job[t])
         /\ \A p \in Passes \ {job[t].pass} :
              stage'[p] = stage[p] /\ unseen'[p] = unseen[p] \ {job[t].pass}
         /\ stage'[job[t].pass] = IF job[t].kind = "create" THEN "waiting" ELSE "assigned"
         /\ \A r \in rows \ RowsOf(job[t].pass) :
              r \in Shown(t) \/ r.pass \in unseen'[job[t].pass]
<1>1. job[t] \in AllJobs /\ job[t].pass \in Passes
  BY DEF TypeOK, Commit, AllJobs
<1>2. ~Conflict(Shown(t), job[t])
  BY DEF LocksProtectChecks, Commit
<1>3. /\ \A p \in Passes \ {job[t].pass} :
           stage'[p] = stage[p] /\ unseen'[p] = unseen[p] \ {job[t].pass}
      /\ stage'[job[t].pass] = IF job[t].kind = "create" THEN "waiting" ELSE "assigned"
      /\ unseen'[job[t].pass] = Unseen(t)
  BY <1>1 DEF TypeOK, Commit, Rebooked
<1>4. \A r \in rows \ RowsOf(job[t].pass) : r \in Shown(t) \/ r.pass \in Unseen(t)
  BY DEF Unseen, RowsOf
<1>5. \A r \in rows' : r \in rows \ RowsOf(job[t].pass) \/ r \in NewRows(job[t])
  BY DEF Commit, RowsAfter
<1>6. QED BY <1>1, <1>2, <1>3, <1>4, <1>5

\* Two passes have one vehicle at one time only behind an assignment's back: the
\* view of one of them was older than the booking of the other.
THEOREM VehicleCorrect == Spec => []VehicleSharedOnlyUnseen
<1>1. Init => VehicleSharedOnlyUnseen
  BY DEF Init, VehicleSharedOnlyUnseen
<1>2. TypeOK /\ TypeOK' /\ LocksProtectChecks /\ VehicleSharedOnlyUnseen /\ [Next]_vars
        => VehicleSharedOnlyUnseen'
  <2> SUFFICES ASSUME TypeOK, TypeOK', LocksProtectChecks, VehicleSharedOnlyUnseen, [Next]_vars,
                      NEW r \in rows', NEW q \in rows',
                      r.vehicle = q.vehicle, r.pass # q.pass, Overlap(r.window, q.window)
               PROVE  MissedOneAnother(r.pass, q.pass)'
    BY DEF VehicleSharedOnlyUnseen, Overlap, MissedOneAnother
  <2>1. /\ r.window \in Windows /\ q.window \in Windows
        /\ r.pass \in Passes /\ q.pass \in Passes
    BY DEF TypeOK, Rows
  <2>2. ASSUME NEW t \in Txs, Commit(t) PROVE MissedOneAnother(r.pass, q.pass)'
    <3> DEFINE j == job[t]
    <3>0. ASSUME NEW a \in rows \ RowsOf(j.pass), NEW b \in NewRows(j),
                 a.vehicle = b.vehicle, Overlap(a.window, b.window)
          PROVE  a.pass \in unseen'[b.pass]
      <4>1. a.pass # j.pass /\ b.pass = j.pass /\ b.vehicle = j.vehicle /\ b.window \in j.windows
        BY DEF RowsOf, NewRows
      <4>2. a \notin Shown(t)
        BY <2>2, <3>0, <4>1, CommitBooks DEF Conflict, VehicleConflict
      <4>3. QED BY <2>2, <4>1, <4>2, CommitBooks
    <3>1. CASE r \in rows \ RowsOf(j.pass) /\ q \in rows \ RowsOf(j.pass)
      <4>1. MissedOneAnother(r.pass, q.pass) /\ r.pass # j.pass /\ q.pass # j.pass
        BY <3>1 DEF VehicleSharedOnlyUnseen, RowsOf
      <4>2. QED BY <2>1, <2>2, <4>1, CommitBooks DEF MissedOneAnother
    <3>2. CASE r \in rows \ RowsOf(j.pass) /\ q \in NewRows(j)
      BY <3>0, <3>2 DEF MissedOneAnother
    <3>3. CASE r \in NewRows(j) /\ q \in rows \ RowsOf(j.pass)
      <4>1. Overlap(q.window, r.window)
        BY <2>1, OverlapSymmetric
      <4>2. QED BY <3>0, <3>3, <4>1 DEF MissedOneAnother
    <3>4. CASE r \in NewRows(j) /\ q \in NewRows(j)
      BY <3>4 DEF NewRows
    <3>5. QED BY <2>2, <3>1, <3>2, <3>3, <3>4, CommitBooks
  <2>3. CASE /\ rows' \subseteq rows
             /\ \A a, b \in rows' : a.pass \in unseen[b.pass] => a.pass \in unseen'[b.pass]
    <3>1. MissedOneAnother(r.pass, q.pass)
      BY <2>3 DEF VehicleSharedOnlyUnseen
    <3>2. QED BY <2>3, <3>1 DEF MissedOneAnother
  <2>4. QED BY <2>2, <2>3, OnlyCommitBooks
<1>3. QED BY <1>1, <1>2, TypeCorrect, LocksCorrect, PTL DEF Spec

\* The same of the drivers that HRAD assigns, though no driver row is ever locked.
THEOREM DriverCorrect == Spec => []DriverSharedOnlyUnseen
<1>1. Init => DriverSharedOnlyUnseen
  BY DEF Init, DriverSharedOnlyUnseen
<1>2. TypeOK /\ TypeOK' /\ LocksProtectChecks /\ DriverSharedOnlyUnseen /\ [Next]_vars
        => DriverSharedOnlyUnseen'
  <2> SUFFICES ASSUME TypeOK, TypeOK', LocksProtectChecks, DriverSharedOnlyUnseen, [Next]_vars,
                      NEW r \in rows', NEW q \in rows',
                      r.driver = q.driver, r.driver # NoDriver, r.pass # q.pass,
                      stage'[r.pass] = "assigned", stage'[q.pass] = "assigned",
                      Overlap(r.window, q.window)
               PROVE  MissedOneAnother(r.pass, q.pass)'
    BY DEF DriverSharedOnlyUnseen, Overlap, MissedOneAnother
  <2>1. /\ r.window \in Windows /\ q.window \in Windows
        /\ r.pass \in Passes /\ q.pass \in Passes
    BY DEF TypeOK, Rows
  <2>2. ASSUME NEW t \in Txs, Commit(t) PROVE MissedOneAnother(r.pass, q.pass)'
    <3> DEFINE j == job[t]
    <3>0. ASSUME NEW a \in rows \ RowsOf(j.pass), NEW b \in NewRows(j),
                 a.driver = b.driver, b.driver # NoDriver, stage'[b.pass] = "assigned",
                 Overlap(a.window, b.window)
          PROVE  a.pass \in unseen'[b.pass]
      <4>1. a.pass # j.pass /\ b.pass = j.pass /\ b.driver = j.driver /\ b.window \in j.windows
        BY DEF RowsOf, NewRows
      <4>2. j.kind = "assign"
        BY <2>2, <3>0, <4>1, CommitBooks DEF AllJobs
      <4>3. a \notin Shown(t)
        BY <2>2, <3>0, <4>1, <4>2, CommitBooks DEF Conflict, DriverConflict
      <4>4. QED BY <2>2, <4>1, <4>3, CommitBooks
    <3>1. CASE r \in rows \ RowsOf(j.pass) /\ q \in rows \ RowsOf(j.pass)
      <4>1. r.pass # j.pass /\ q.pass # j.pass
        BY <3>1 DEF RowsOf
      <4>2. stage[r.pass] = "assigned" /\ stage[q.pass] = "assigned"
        BY <2>1, <2>2, <4>1, CommitBooks
      <4>3. MissedOneAnother(r.pass, q.pass)
        BY <3>1, <4>2 DEF DriverSharedOnlyUnseen
      <4>4. QED BY <2>1, <2>2, <4>1, <4>3, CommitBooks DEF MissedOneAnother
    <3>2. CASE r \in rows \ RowsOf(j.pass) /\ q \in NewRows(j)
      BY <3>0, <3>2 DEF MissedOneAnother
    <3>3. CASE r \in NewRows(j) /\ q \in rows \ RowsOf(j.pass)
      <4>1. Overlap(q.window, r.window)
        BY <2>1, OverlapSymmetric
      <4>2. QED BY <3>0, <3>3, <4>1 DEF MissedOneAnother
    <3>4. CASE r \in NewRows(j) /\ q \in NewRows(j)
      BY <3>4 DEF NewRows
    <3>5. QED BY <2>2, <3>1, <3>2, <3>3, <3>4, CommitBooks
  <2>3. CASE /\ rows' \subseteq rows
             /\ \A p \in Passes : stage'[p] = "assigned" => stage[p] = "assigned"
             /\ \A a, b \in rows' : a.pass \in unseen[b.pass] => a.pass \in unseen'[b.pass]
    <3>1. MissedOneAnother(r.pass, q.pass)
      BY <2>1, <2>3 DEF DriverSharedOnlyUnseen
    <3>2. QED BY <2>3, <3>1 DEF MissedOneAnother
  <2>4. QED BY <2>2, <2>3, OnlyCommitBooks
<1>3. QED BY <1>1, <1>2, TypeCorrect, LocksCorrect, PTL DEF Spec

\* Only an assignment under way has looked before its locks.
OnlyAssignmentsLook ==
  \A t \in Txs : view[t] # {} => pc[t] # "idle" /\ job[t].kind = "assign"

\* A creation's counting SELECTs see every committed row.
LEMMA CreationsSeeAll == Spec => []OnlyAssignmentsLook
<1>1. Init => OnlyAssignmentsLook
  BY DEF Init, OnlyAssignmentsLook
<1>2. TypeOK /\ OnlyAssignmentsLook /\ [Next]_vars => OnlyAssignmentsLook'
  <2> SUFFICES ASSUME TypeOK, OnlyAssignmentsLook, [Next]_vars, NEW u \in Txs, view'[u] # {}
               PROVE  pc'[u] # "idle" /\ job'[u].kind = "assign"
    BY DEF OnlyAssignmentsLook
  <2>1. ASSUME NEW t \in Txs, NEW j \in Jobs, BeginCreate(t, j)
        PROVE  pc'[u] # "idle" /\ job'[u].kind = "assign"
    BY <2>1 DEF TypeOK, OnlyAssignmentsLook, BeginCreate
  <2>2. ASSUME NEW t \in Txs, NEW j \in Jobs, BeginAssign(t, j)
        PROVE  pc'[u] # "idle" /\ job'[u].kind = "assign"
    BY <2>2 DEF TypeOK, OnlyAssignmentsLook, BeginAssign
  <2>3. ASSUME NEW t \in Txs, LockVehicle(t) \/ LockStatusRow(t) \/ Check(t)
        PROVE  pc'[u] # "idle" /\ job'[u].kind = "assign"
    BY <2>3 DEF TypeOK, OnlyAssignmentsLook, LockVehicle, LockStatusRow, Check
  <2>4. ASSUME NEW t \in Txs, Commit(t) \/ Rollback(t)
        PROVE  pc'[u] # "idle" /\ job'[u].kind = "assign"
    <3>1. u # t /\ view'[u] = view[u]
      BY <2>4 DEF TypeOK, Commit, Rollback
    <3>2. QED BY <2>4, <3>1 DEF TypeOK, OnlyAssignmentsLook, Commit, Rollback
  <2>5. ASSUME NEW p \in Passes, SubmitWithoutVehicle(p) \/ Release(p)
        PROVE  pc'[u] # "idle" /\ job'[u].kind = "assign"
    BY <2>5 DEF OnlyAssignmentsLook, SubmitWithoutVehicle, Release
  <2>6. CASE UNCHANGED vars
    BY <2>6 DEF OnlyAssignmentsLook, vars
  <2>7. QED BY <2>1, <2>2, <2>3, <2>4, <2>5, <2>6 DEF Next, Step
<1>3. QED BY <1>1, <1>2, TypeCorrect, PTL DEF Spec

\* Two creations never promise one vehicle at one time, wherever DecideAsync's
\* view is taken.  A draft has no rows, so a pass comes to wait with rows only
\* by the commit of its creation.
THEOREM CreationCorrect == Spec => []NoCreationOverlap
<1> DEFINE DraftsAreFree == \A r \in rows : stage[r.pass] # "draft"
           Inv == NoCreationOverlap /\ DraftsAreFree
<1>1. Init => Inv
  BY DEF Init, NoCreationOverlap
<1>2. TypeOK /\ TypeOK' /\ LocksProtectChecks /\ OnlyAssignmentsLook /\ Inv /\ [Next]_vars => Inv'
  <2> SUFFICES ASSUME TypeOK, TypeOK', LocksProtectChecks, OnlyAssignmentsLook, Inv, [Next]_vars
               PROVE  Inv'
    OBVIOUS
  <2>0. \A r \in rows : r.pass \in Passes
    BY DEF TypeOK, Rows
  <2>1. ASSUME NEW t \in Txs, Commit(t) PROVE Inv'
    <3> DEFINE j == job[t]
    <3>0. /\ \A n \in NewRows(j) : n.pass = j.pass /\ n.vehicle = j.vehicle /\ n.window \in j.windows
          /\ j.kind \in {"create", "assign"}
          /\ \A p \in Passes \ {j.pass} : stage'[p] = stage[p]
          /\ stage'[j.pass] = IF j.kind = "create" THEN "waiting" ELSE "assigned"
      BY <2>1, CommitBooks DEF NewRows, AllJobs
    <3>1. DraftsAreFree'
      BY <2>0, <2>1, <3>0, CommitBooks DEF RowsOf
    <3>2. ASSUME NEW r \in rows \ RowsOf(j.pass), NEW q \in NewRows(j),
                 stage'[q.pass] = "waiting", r.vehicle = q.vehicle
          PROVE  ~Overlap(r.window, q.window)
      <4>1. j.kind = "create"
        BY <3>0, <3>2
      <4>2. Shown(t) = rows
        BY <4>1 DEF OnlyAssignmentsLook, Shown
      <4>3. QED BY <2>1, <3>0, <3>2, <4>2, CommitBooks DEF RowsOf, Conflict, VehicleConflict
    <3>3. SUFFICES ASSUME NEW r \in rows', NEW q \in rows',
                          r.vehicle = q.vehicle, r.pass # q.pass,
                          stage'[r.pass] = "waiting", stage'[q.pass] = "waiting"
                   PROVE  ~Overlap(r.window, q.window)
      BY <3>1 DEF NoCreationOverlap, Overlap
    <3>4. r.window \in Windows /\ q.window \in Windows
      BY DEF TypeOK, Rows
    <3>5. CASE r \in rows \ RowsOf(j.pass) /\ q \in rows \ RowsOf(j.pass)
      BY <2>0, <3>0, <3>3, <3>5 DEF NoCreationOverlap, RowsOf
    <3>6. CASE r \in rows \ RowsOf(j.pass) /\ q \in NewRows(j)
      BY <3>2, <3>3, <3>6
    <3>7. CASE r \in NewRows(j) /\ q \in rows \ RowsOf(j.pass)
      <4>1. ~Overlap(q.window, r.window)
        BY <3>2, <3>3, <3>7
      <4>2. QED BY <3>4, <4>1, OverlapSymmetric
    <3>8. CASE r \in NewRows(j) /\ q \in NewRows(j)
      BY <3>0, <3>3, <3>8
    <3>9. QED BY <2>1, <3>5, <3>6, <3>7, <3>8, CommitBooks
  <2>2. CASE /\ rows' \subseteq rows
             /\ \A r \in rows' : /\ stage'[r.pass] # "draft"
                                 /\ stage'[r.pass] = "waiting" => stage[r.pass] = "waiting"
    BY <2>2 DEF NoCreationOverlap, Overlap
  <2>3. ASSUME NEW t \in Txs, NEW k \in Jobs, BeginCreate(t, k) \/ BeginAssign(t, k)
        PROVE  Inv'
    BY <2>0, <2>2, <2>3 DEF TypeOK, BeginCreate, BeginAssign
  <2>4. ASSUME NEW t \in Txs, LockVehicle(t) \/ LockStatusRow(t) \/ Check(t) PROVE Inv'
    BY <2>2, <2>4 DEF LockVehicle, LockStatusRow, Check
  <2>5. ASSUME NEW t \in Txs, Rollback(t) PROVE Inv'
    BY <2>0, <2>2, <2>5 DEF TypeOK, Rollback
  <2>6. ASSUME NEW p \in Passes, SubmitWithoutVehicle(p) \/ Release(p) PROVE Inv'
    BY <2>0, <2>2, <2>6 DEF TypeOK, SubmitWithoutVehicle, Release, RowsOf
  <2>7. CASE UNCHANGED vars
    BY <2>2, <2>7 DEF vars
  <2>8. QED BY <2>1, <2>3, <2>4, <2>5, <2>6, <2>7 DEF Next, Step
<1>3. QED BY <1>1, <1>2, TypeCorrect, LocksCorrect, CreationsSeeAll, PTL DEF Spec

\* A pass has one vehicle and one driver, whatever it had before HRAD assigned.
THEOREM AssignmentCorrect == Spec => []OneAssignmentPerPass
<1>1. Init => OneAssignmentPerPass
  BY DEF Init, OneAssignmentPerPass
<1>2. TypeOK /\ LocksProtectChecks /\ OneAssignmentPerPass /\ [Next]_vars
        => OneAssignmentPerPass'
  <2> SUFFICES ASSUME TypeOK, LocksProtectChecks, OneAssignmentPerPass, [Next]_vars,
                      NEW r \in rows', NEW q \in rows', r.pass = q.pass
               PROVE  r.vehicle = q.vehicle /\ r.driver = q.driver
    BY DEF OneAssignmentPerPass
  <2>1. ASSUME NEW t \in Txs, Commit(t)
        PROVE  r.vehicle = q.vehicle /\ r.driver = q.driver
    <3>1. CASE r.pass = job[t].pass
      <4>1. r \in NewRows(job[t]) /\ q \in NewRows(job[t])
        BY <2>1, <3>1, CommitBooks DEF RowsOf
      <4>2. QED BY <4>1 DEF NewRows
    <3>2. CASE r.pass # job[t].pass
      BY <2>1, <3>2, CommitBooks DEF NewRows, OneAssignmentPerPass
    <3>3. QED BY <3>1, <3>2
  <2>2. CASE rows' \subseteq rows
    BY <2>2 DEF OneAssignmentPerPass
  <2>3. QED BY <2>1, <2>2, OnlyCommitBooks
<1>3. QED BY <1>1, <1>2, TypeCorrect, LocksCorrect, PTL DEF Spec
-----------------------------------------------------------------------------
(* The ledger *)

\* The slots of two sets of rows.
LEMMA SlotsOfUnion ==
  ASSUME NEW A, NEW B
  PROVE  Slots(A \cup B) = Slots(A) \cup Slots(B)
BY DEF Slots

\* A look that shows nothing of pass p's vehicle shows it in no slot.
LEMMA NoConflictAvailable ==
  ASSUME NEW rs, NEW j, ~VehicleConflict(rs, j)
  PROVE  Ledger!Available(Slots(rs), j.pass, j.vehicle, j.windows)
<1>1. SUFFICES ASSUME NEW s \in Slots(rs), NEW w \in j.windows,
                      s.pass # j.pass, s.vehicle = j.vehicle
               PROVE  ~Overlap(s.window, w)
  BY DEF Ledger!Available
<1>2. PICK r \in rs : s = [pass |-> r.pass, vehicle |-> r.vehicle, window |-> r.window]
  BY DEF Slots
<1>3. r.pass # j.pass /\ r.vehicle = j.vehicle /\ r.window = s.window
  BY <1>1, <1>2
<1>4. QED BY <1>3 DEF VehicleConflict

\* The committed reservation rows change as the ledger allows: a pass gets its
\* windows in one step, and only when no other pass has the vehicle then, in what
\* is booked or in what the request saw when it looked.
THEOREM LedgerCorrect == Spec => ImplementsLedger
<1> DEFINE booked == Slots(rows)
           seen == [t \in Txs |-> {Slots(rs) : rs \in view[t]}]
<1>1. Init => Ledger!Init
  BY DEF Init, Ledger!Init, Slots
<1>2. TypeOK /\ LocksProtectChecks /\ [Next]_vars => [Ledger!Next]_<<booked, seen>>
  <2> SUFFICES ASSUME TypeOK, LocksProtectChecks, [Next]_vars
               PROVE  Ledger!Next \/ UNCHANGED <<booked, seen>>
    OBVIOUS
  <2>0. ASSUME NEW p
        PROVE  /\ Ledger!SlotsOf(p) = Slots(RowsOf(p))
               /\ booked \ Ledger!SlotsOf(p) = Slots(rows \ RowsOf(p))
    <3>1. Ledger!SlotsOf(p) = Slots(RowsOf(p))
      BY DEF Ledger!SlotsOf, RowsOf, Slots
    <3>2. QED BY <3>1 DEF RowsOf, Slots
  <2>1. ASSUME NEW t \in Txs
        PROVE  /\ view' = [view EXCEPT ![t] = {}] => seen' = [seen EXCEPT ![t] = {}]
               /\ view' = [view EXCEPT ![t] = {rows}] => seen' = [seen EXCEPT ![t] = {booked}]
    <3>1. {Slots(rs) : rs \in {}} = {} /\ {Slots(rs) : rs \in {rows}} = {booked}
      OBVIOUS
    <3>2. QED BY <3>1 DEF TypeOK
  <2>2. ASSUME NEW t \in Txs, Commit(t) PROVE Ledger!Next
    <3> DEFINE j == job[t]
    <3>1. /\ j.pass \in Passes /\ j.vehicle \in Vehicles /\ j.windows \in SUBSET Windows
          /\ ~VehicleConflict(Shown(t), j)
      BY <2>2, CommitBooks DEF AllJobs, Conflict
    <3>2. Ledger!Available(IF seen[t] = {} THEN booked ELSE UNION seen[t],
                           j.pass, j.vehicle, j.windows)
      <4>1. (IF seen[t] = {} THEN booked ELSE UNION seen[t]) = Slots(Shown(t))
        <5>1. CASE view[t] = {}
          BY <5>1 DEF Shown
        <5>2. CASE view[t] # {}
          <6>1. UNION seen[t] = Slots(UNION view[t])
            BY DEF Slots
          <6>2. seen[t] # {}
            BY <5>2
          <6>3. QED BY <5>2, <6>1, <6>2 DEF Shown
        <5>3. QED BY <5>1, <5>2
      <4>2. QED BY <3>1, <4>1, NoConflictAvailable
    <3>3. booked' = (booked \ Ledger!SlotsOf(j.pass)) \cup
                      {[pass |-> j.pass, vehicle |-> j.vehicle, window |-> w] : w \in j.windows}
      <4>1. rows' = (rows \ RowsOf(j.pass)) \cup NewRows(j)
        BY <2>2 DEF Commit, RowsAfter
      <4>2. Slots(NewRows(j)) =
              {[pass |-> j.pass, vehicle |-> j.vehicle, window |-> w] : w \in j.windows}
        <5> DEFINE row(w) == [pass |-> j.pass, vehicle |-> j.vehicle, driver |-> j.driver,
                              window |-> w]
                   slot(r) == [pass |-> r.pass, vehicle |-> r.vehicle, window |-> r.window]
        <5>1. NewRows(j) = {row(w) : w \in j.windows} /\ \A rs : Slots(rs) = {slot(r) : r \in rs}
          BY DEF NewRows, Slots
        <5>2. \A w \in j.windows :
                slot(row(w)) = [pass |-> j.pass, vehicle |-> j.vehicle, window |-> w]
          OBVIOUS
        <5> HIDE DEF row, slot, j
        <5>3. QED BY <5>1, <5>2
      <4>3. booked' = Slots(rows \ RowsOf(j.pass)) \cup Slots(NewRows(j))
        BY <4>1, SlotsOfUnion DEF Slots
      <4>4. QED BY <2>0, <4>2, <4>3
    <3>4. seen' = [seen EXCEPT ![t] = {}]
      BY <2>1, <2>2 DEF Commit
    <3> HIDE DEF j
    <3>5. QED BY <3>1, <3>2, <3>3, <3>4 DEF Ledger!Next, Ledger!Book
  <2>3. ASSUME NEW p \in Passes, Release(p) PROVE Ledger!Next
    <3>1. rows' = rows \ RowsOf(p) /\ view' = view
      BY <2>3 DEF Release
    <3>2. booked' = booked \ Ledger!SlotsOf(p)
      BY <2>0, <3>1 DEF Slots
    <3>3. QED BY <3>1, <3>2 DEF Ledger!Next, Ledger!Free
  <2>4. ASSUME NEW t \in Txs, NEW j \in Jobs, BeginAssign(t, j) PROVE Ledger!Next
    <3>1. rows' = rows
      BY <2>4 DEF BeginAssign
    <3>2. PICK early \in {{rows}, {}} : view' = [view EXCEPT ![t] = early]
      BY <2>4 DEF BeginAssign
    <3>3. CASE early = {rows}
      <4>1. seen' = [seen EXCEPT ![t] = {booked}]
        BY <2>1, <3>2, <3>3
      <4>2. QED BY <3>1, <4>1 DEF Ledger!Next, Ledger!Look
    <3>4. CASE early = {}
      <4>1. seen' = [seen EXCEPT ![t] = {}]
        BY <2>1, <3>2, <3>4
      <4>2. QED BY <3>1, <4>1 DEF Ledger!Next, Ledger!Forget
    <3>5. QED BY <3>2, <3>3, <3>4
  <2>5. ASSUME NEW t \in Txs, Rollback(t) PROVE Ledger!Next
    <3>1. rows' = rows /\ seen' = [seen EXCEPT ![t] = {}]
      BY <2>1, <2>5 DEF Rollback
    <3>2. QED BY <3>1 DEF Ledger!Next, Ledger!Forget
  <2>6. CASE UNCHANGED <<rows, view>>
    BY <2>6
  <2>7. QED
    BY <2>2, <2>3, <2>4, <2>5, <2>6
    DEF Next, Step, BeginCreate, LockVehicle, LockStatusRow, Check, SubmitWithoutVehicle, vars
<1>3. QED BY <1>1, <1>2, TypeCorrect, LocksCorrect, PTL DEF Spec, ImplementsLedger, Ledger!Spec
=============================================================================
