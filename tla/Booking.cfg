CONSTANTS
  v1 = v1
  v2 = v2
  d1 = d1
  NoDriver = NoDriver
  NoJob = NoJob
  NoTx = NoTx
  Passes = {1, 2, 3}
  Vehicles = {v1, v2}
  Drivers = {d1}
  Windows <- MCWindows
  Jobs <- MCJobs
  Txs = {t1, t2}
SPECIFICATION FairSpec
INVARIANTS TypeOK VehicleSharedOnlyUnseen DriverSharedOnlyUnseen LocksProtectChecks NoCreationOverlap OneAssignmentPerPass
PROPERTIES BookingsEnd ImplementsLedger
CHECK_DEADLOCK FALSE
