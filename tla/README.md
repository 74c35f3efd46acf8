# Verification of the gate pass system

TLA+ specifications of FormRequestSystem, the gate pass application in this
repository: an ASP.NET Core API (`src/Backend`) over a MariaDB database
(`src/Database`) with a browser front end (`src/Frontend`). Employees file gate
passes for persons and materials, superiors, HRAD and PAS decide them, HRAD
assigns vehicles and drivers, and guards record at the gate who goes out and
comes back.

Several API processes may run beside each other; all shared state is in the
database. So the questions worth asking are about what concurrent requests do
to that state: which transactions there are, what they lock, what is read
before a lock and used after it, and what remains when one step of several
fails. The models of the server keep exactly that.

A page of the front end runs on one thread, so nothing interrupts its code
between two `await`s. But an asynchronous function goes on, when its call is
answered, with whatever the shared variables of the page hold by then. The
models of the pages call the rest of such a function a task (a call, a
submission, a load, a chain of frames); tasks are answered in any order, and
the user acts in between.

## The system's parts

| Part | State | Operations | Hard behaviour |
|---|---|---|---|
| Creation (`GatePassService`, `GatePassRepository`, `procedures.sql`) | request row, approval steps, reservation, control number | `CreateAsync`, `CreateMaterialAsync`: find approvers, draft, reserve, write the route, submit | four to five separate transactions; a failure or a deletion in between |
| Decision (`ApprovalService`, `ApprovalRepository`) | step and request status, who decided, QR token, reservations | `DecideAsync`: approve, reject, hold | context read without a lock, then one transaction; several approvers may share a step |
| Booking (`FleetRepository.ReserveAsync`, HRAD branch of `DecideAsync`) | reservations, row locks | lock the vehicle, count conflicts, insert, commit or roll back | check then act; drivers have no lock of their own |
| Fixed runs (`tbl_fixed_vehicle_schedules`) | weekly runs in local time | the clash query of both bookings; save, delete | UTC against local time, midnight |
| Gate (`SecurityService`, `SecurityRepository`) | pass status, scan rows, QR expiry | `ScanAsync`, `GetQrTokenAsync` | cooldown, expiry, badge matching several passes |
| Control numbers (`procedures.sql`) | one counter per date | both create procedures | concurrent creations, roll back, the 1000th form of a day |
| Administration (`AdminRepository`) | accounts, roles, departments | save, archive | checks and writes in separate statements |
| Fleet master data (`FleetRepository`) | vehicles, drivers, default drivers | save, archive | the same |
| Authentication (`AuthService`, `JwtTokenService`, `UserRepository`) | password hash and its time, failed logins, lockout | login, change password | token version to the second, lockout window |
| Signatures, notifications, dashboard, audit | files, audit rows | upload, queries, audit insert | audit after commit |
| Session and bell (`auth.js`, `app.js`, `navigation.js`, `api-client.js`) | the token in sessionStorage, `currentUser`, `seenNotificationIds`, the badge | sign in and out, restore, refresh, poll, mark as read | answers that overtake each other or belong to the session before |
| Document window (`modal.js`, `approvals.js`, `signature.js`) | `currentViewedPassId`, the form's fields, the buttons, the attached signature | `viewPass`, approve, reject, hold, confirm a scan | one window filled in several awaited parts; decisions that outlive it |
| Scanner page (`scanner.js`) | stream, `qrCameraScanning`, the frame asked for, codes cooling down | start, stop, switch the camera, look up a code | starts, frames and look-ups that go on after Stop |
| Request forms (`gatepass.js`, `material-gatepass.js`) | rows of companions, trip fields, items and photos | edit, submit with uploads, reset | what a row shows against what it remembers; resets during a submission |
| Calendar (`calendar.js`) | `scheduleData`, month, filters, grid, day grid | navigate, filter, open a day, export, guest view | one variable for all loads |

They interact through the database: creation calls booking; the HRAD decision
replaces the booking; every decision moves the reservation; the scan reads
what the decisions left and moves pass and reservation together; the test
delete removes a pass under all of them; archiving an account changes who may
be found as an approver but no route already written.

What makes each part correct:

* Creation and decision: a pass is released only with all its approvals, in
  order, by people entitled to give them; decisions stand; a creation that
  stops half-way leaves nothing that can be decided or scanned.
* Booking: no vehicle and no driver twice at one time (the code falls short of it in one
  case, the run `Booking_early`); a pass has one assignment; every transaction ends.
* Fixed runs: the query finds a clash if there is one, and only then.
* Gate: a code reaches its own pass; no accidental double scan; nobody is
  locked out; an expired code is not taken.
* Control numbers: unique, without gaps, refused only when used up.
* Administration, fleet data: nothing active refers to something archived.
* Sessions: a token issued before a password change is not accepted after it; the page
  ends a session the server has ended, alerts once, and shows the true count.
* Pages: what is decided, sent or said to be scanning is what the user sees.

`PROJECT.json` lists every component with its sources, and every hazard with
the line where it bites and the properties that answer it.

## Modules

### GatePassWorkflow

The life of a request. One database transaction is one action, because
`SP_SubmitGatePass`, `DecideAsync` and `ScanAsync` begin by locking
the request row (`FOR UPDATE`) and so take turns on it. The test delete does not:
it begins with a plain `SELECT COUNT` and deletes the rows of the children before
the request row. It is one action all the same. Its deletes lock the rows, and the gaps, in which
the others write, so each of them comes wholly before or wholly after it, or one
of the two is chosen as a deadlock's victim; and a child row inserted behind it
makes its last statement fail on the foreign key. What does interleave is
modelled step by step: the transactions of one `CreateAsync` call (`CreateDraft`,
`ReserveVehicle`, `CreateApprovalRoute`, `Submit`, each with `AbandonCreation`
as its alternative) and the two halves of a decision (`ReadContext` without a
lock; then `Approve`, `Reject`, `Hold`, `RefuseVehicle` or `DecideUnavailable`).

| Variable | Code |
|---|---|
| `form` | form fields of `tbl_gate_pass_requests`, reduced to requester, form type, company vehicle, vehicle named, returns |
| `status` | `gate_pass_status_code` |
| `step`, `assigned` | `approval_status_code`, `assigned_approver_user_id` of the steps |
| `decider` | `changed_by_user_id` of the history row of the decision |
| `resv` | `reservation_status_code` of the pass's reservations |
| `qr` | `qr_token_hash IS NOT NULL` |
| `creation` | the program counter of the `CreateAsync` call |
| `call` | decision requests, with the step their context showed |
| `active` | accounts that are active and hold their roles |

Left open, as nondeterminism: which of several candidates
`FindApproverAsync` returns (its ordering is a matter of preference), and whether
a booking is refused (`RefuseVehicle`, `AbandonCreation`). The step PRESIDENT and the statuses
CANCELLED, EXPIRED and OVERDUE exist in the seed data, but no code under `src/`
writes them.

`GatePassContract` is the abstract specification: a request is opened with a
set of offices, cleared by the consent of the last of them and by nothing
else, and leaves only when cleared. `GatePassRefinement` maps the workflow to it.

### VehicleBooking

The two booking transactions at the level of row locks and snapshot reads.
`LockVehicle` and `LockStatusRow` are the two rows that the joined
`SELECT ... FOR UPDATE` locks. The second one, the row AVAILABLE of
`tbl_vehicle_statuses`, is shared by all vehicles and is what keeps two
assignments of one driver apart. `Check` is all counting queries together: they
are plain reads of one view of the database (REPEATABLE READ; the code names
no isolation level). The view is taken by the first read of the transaction
that locks nothing. In `ReserveAsync` that is a counting query. The first
statement of `DecideAsync` locks the request and step rows, but its EXISTS
subqueries on the actor's permissions lock nothing, and one of them reads
`tbl_permissions` by a unique key: a constant table, which the server may read
while planning the statement. Both outcomes are possible, so `BeginAssign` chooses
between them: the view is taken there (`view` holds the rows committed then), or
left to the counting queries, which run under the locks. `unseen` is a history
variable: for every pass the other passes whose committed bookings the view of its own
booking did not show. The safety properties are stated with it and hold of both
outcomes: two bookings clash only if one of them was made without seeing the other.
`Commit` replaces the pass's rows, `Rollback` stands for a
refusal, an error, a lock timeout or a lost connection. `BookingLedger` is the
abstract specification, a ledger that makes every booking in one step, judged by what is
booked then or by what was booked when its request looked.

### GateScan

`ScanAsync` is one transaction that starts by locking the rows it reads, so it is one
action with three outcomes (`Accept`, `RejectAttempt`, `CoolDown`). Time is kept
as ages that saturate, so the model runs for ever in finitely many states.
The outcomes REQUIREMENTS_INCOMPLETE and INVALID_STATE cannot occur for a scannable
status once the approvals are in (`RouteMatchesStatus` of GatePassWorkflow), so they are
not repeated here.

### FixedRunConflict

The clash query as an operator, against its meaning (`Clash`): some weekly
occurrence of the run meets the window on the local time line.

### ControlNumbers

The counter row, locked until the creating transaction ends, the truncating
`LPAD`, and the UNIQUE index on `control_no`. `gate_pass_no` is made of the date and the same
sequence, cut to six digits (`procedures.sql` 127-132, 294-299), where `control_no` has three; it is
unique whenever the shorter one is, and not modelled.

### BrowserSession

A tab from sign-in to sign-out, with the server as it meets it. The n-th sign-in
gets token n, so a token names its session.

| Variable | Code |
|---|---|
| `holder`, `valid`, `sent`, `read` | the server: issued tokens, those it takes, notifications |
| `token` | `gatePassAccessToken` in sessionStorage |
| `user` | `currentUser`, as the session whose answer set it |
| `appShown`, `entering` | `appView` is visible; the 300 ms timer of `showAuthenticatedApp` |
| `seen`, `initial`, `badge` | `seenNotificationIds`, `isInitialNotificationLoad`, `notificationBadge` |
| `task` | asynchronous functions: calls still to make, token the first was sent with, its answer |
| `toasted`, `again` | history: toasts shown since the state was cleared |

`Serve` is the server taking a call (`ServeLogin`, `ServePassword`, `ServeUnread`, `ServeMarkRead`, or a refusal:
`RefuseToken` is `OnTokenValidated` of `Program.cs`), `Answer` the page taking the answer.
Calls of which only the outcome matters are taken and answered in one step
(`Plain`). A call keeps the token it was sent with; the next call of the same
task takes the one of that time, as `request` does.

### ReviewModal

`viewPass` in its awaited parts (`Open`, `TakeDetail`, `ShowWindow`,
`TakeGuardSignatures`), `closeModal` with its timer, the signature composer,
and the four decisions from button to `finally` (`StartApproval`, `TakeUpload`,
`TakeDecision` or `TakeScan`, `TakeLists`, `TakeRest`; `FailDecision`).
`viewed` and `doc` are `currentViewedPassId` and the pass whose fields are in
the form; they differ only by `closeModal`, which clears the first.
`confirms` is the pass inside the closure behind a guard's button, `uploaded`
is `lastSignatureUpload`. An image of the model stands for the picture with the width and offset it was placed with,
which together are the key of an upload. `stage` reduces the server to what a decision needs
to be taken or refused (`Awaited`, `AfterDecision`, `MayPass`, `AfterScan`). Once a pass has been
scanned, the signatures of its guards are awaited before the buttons are set, whoever is looking.

### ScannerPage

`startQrCamera` waits for a stream, for the video and for the list of devices
(`TakeStream`, `TakePlay`, `TakeList`); a chain of frames waits for the
detector (`ReadFrame`, `TakeFrame`) and then for up to three look-ups
(`TakeEmployee`, `TakeQueue`, `TakeHistory`). `handle` is the chain named by
`qrCameraAnimationFrame`, the only one `stopQrCamera` can cancel.

### RequestForms

A list of companions is a sequence of rows, each with the text it shows and the
employee it remembers (`dataset.employeeId`); the operators on it (`Selected`,
`Typed`, `Toggled`, `Confirmed`, ...) are named after what `gatepass.js` and
`material-gatepass.js` do with a row, and both forms share them. `trip` and
`material` are the remaining fields as far as other fields depend on them.
`sending` is a submission between its uploads and its request.

### ScheduleCalendar

`scheduleData`, the loads under way and the grid drawn from it, for users and
guests; and the day grid as a fold over the day's bookings in the order
`schedBuildDayMatrix` places them: a booking has a priority (`schedEventDisplayPriority`) and the columns
that `schedEventMatchesVehicle` gives it, several or none, and is drawn once in each of them that its tab has (`TripParts`).
The code places column by column; blocks of different columns do not compete, so one sequence stands for all.

### MC modules

`MCGatePassWorkflow`, `MCVehicleBooking`, `MCGateScan`, `MCFixedRunConflict` and
`MCReviewModal` give the constants of the instances; ControlNumbers needs none.
`MCPages` instantiates BrowserSession, ScannerPage, RequestForms and
ScheduleCalendar together. These share no variable, so a behaviour runs one of
them (`page`) while the others keep their first state, and nothing is lost.

## Runs

Passing runs:

| Run | Question | Instance and why it is enough |
|---|---|---|
| `Workflow` | Is the route kept whatever interleaves? | One pass, since no action relates two passes here; five accounts whose roles overlap (a superior who notes for PAS, an assigner who is a superior); five forms, one for each shape of route; two concurrent decision requests, enough for each to make the other's context stale, and interchangeable (symmetry); two approvers that may be archived and restored at any time. 162,780 states. |
| `Booking` | Can two bookings slip past each other? | Three passes, two vehicles, one driver, two transactions; windows that overlap, touch and leave a gap, and a split schedule; views taken early or late. Two transactions exhibit every race of check and commit; the third pass lets a booking meet rows of both. Two bookings clash only over a view older than the other booking; creations are safe from each other, since they read nothing before their locks; a pass keeps one assignment; every transaction ends. 220,094 states. |
| `Scan` | Do scans do what guards expect? | Three passes of one employee, one of them one-way and one with a second employee authorized to carry it, ordered so that the badge has to choose; four codes; a cooldown and a QR life of one tick, so that both expire within a visit. 396,475 states. |
| `FixedRun` | Is the clash query right? | Days of six ticks with the clock two ahead, in the proportion of 24 and 8 hours; windows of up to two days, starting on two days or around the end of the week; all week days. 32,928 states. |
| `Numbers` | Are control numbers right? | Two dates, two transactions, the limit 1000 scaled to 10 and a counter that passes it, one deletion per date. 59,593 states. |
| `Review` | Is what is decided what is shown? | Two documents, two openings, two decisions, two signatures: enough for a document to load under another one, for a window to close under a decision and be reopened, and for a retry with another image. 2,464,298 states. |
| `Pages` | Do the other pages keep their shared variables straight? | Session: one user, one notification, two sign-ins or a reload, two tasks. Scanner: one code of each kind, two chains, two cameras. Forms: two employees, of whom the directory's first page has one, two rows, two items. Calendar: two months, two loads at once, days of up to three bookings that touch, overlap, miss all slots, fill a row, match two vehicles or none, and tie in time with another priority. 329,106 states. |

The violation runs each show one disagreement of the code with what its
documents say (`PROJECT.json`, "findings", quotes both):

* `Workflow_oneway` (`VehicleFreeWhenTripIsOver`): a one-way company trip is CLOSED
  on its way out, in the transaction that sets its reservation IN_USE; nothing
  ever releases the vehicle. With an open-ended window it is blocked for good.
* `Booking_early` (`NoDoubleBooking`): an assignment takes its view with its first
  statement, waits for the vehicle or the status row while another one commits, counts the
  rows of before, and assigns the same vehicle and driver. Moving the authority subqueries out of
  the first statement, or counting with a locking read, would make the code safe on every server.
* `FixedRun_overlooked` (`NoClashOverlooked`): windows that pass local midnight
  escape the query.
* `Review_guard` (`GuardScansShownPass`): the window shows a second pass while its
  buttons still confirm the first.
* `Forms_return` (`TimeInAskedOnReturn`): after a one-way request the emptied form
  says "I will return" and keeps the time in disabled.

More remarks read from the models, without a run:

* A hold is sent to the approve endpoint and refused for want of the vehicle one is
  waiting for (`ApprovalService.cs:51`; `RefuseVehicle` of GatePassWorkflow).
* Two HRAD assigners are meant to be equal, and both see the pass, but only the one
  written into the step may decide (`ApprovalRepository.cs:259`).
* The cooldown is per code, not per pass: a badge may follow a QR code at once
  (`SecurityRepository.cs:149`).
* A 401 answered to a call of the session before ends the new one (`AnswerExpired`),
  and its unread notifications may be taken for the new user's (`AnswerUnread`).
* A restore after a reload whose answer comes after a new sign-in makes `currentUser` the former session's user
  while the token is the new one's (`auth.js:171`, `AnswerRestore`). It takes three tasks at once; the run `Pages` has two.
* `approveCurrentPass` keeps as the default the image attached when the approval is answered,
  not the one it was sent with (`TakeDecision` of ReviewModal).

### Bounds

Imposed by the models, not the code:

* `MaxSequence` and `MaxDeleted` in ControlNumbers; the saturation of ages in GateScan;
  the sets of forms, choices, jobs and codes in the MC modules.
* BrowserSession: `MaxLogins`, `MaxReloads` and `Tasks` (calls under way at once); in
  MCPages `MaxEntries` (sign-ins and reloads together), and in the last session of a
  behaviour the bell is not opened and no password is changed (`SessionStep`).
* ReviewModal: `MaxOpens`, `MaxDecisions`, `MaxImages`, `MaxTimers` (a decision taken
  while that many timers run adds none).
* ScannerPage: `Loops`, `MaxStarts`. One assumption about time: a look-up is answered before the 30 seconds
  of its code are over (`CoolDown`).
* RequestForms: `Limit` and `MaxItems` are 19 and 20 in the code and 2 here; `MaxAdding`, `MaxAsked`.
  `FormStep` of MCPages looks at one concern of the forms at a time: companions with a
  submission, items with photos, or the trip.
* ScheduleCalendar: `Fetches`, `FewBookings`; `CalendarStep` separates the month from the day.

Deadlock is checked in `Workflow` and `Scan`. `Booking` and `Booking_early` may stop when all
passes are over, `Numbers` at its bounds, `FixedRun` after its one query, `Review` and
`Pages` when their bounds on starts, openings and sign-ins are used up, and
`Workflow_oneway` when the only pass has been deleted.

## Fairness

* `BookingsEnd` (VehicleBooking): weak fairness of the statements of a begun
  transaction, because the server executes what it has begun (after a refusal that
  is the roll back); strong fairness
  of taking a lock, because InnoDB queues the waiters of a row. Starting a
  transaction is not fair.
* `OutsiderGetsIn` (GateScan): time passes, and a guard goes on typing the number
  of a pass whose holder stands before him. No fairness is assumed of QR codes, badges, approvals or
  refreshes. The property says the cooldown, which rejected attempts start anew, cannot
  shut out a person who keeps trying.
* `ButtonComesBack` (ReviewModal): weak fairness of `Answer`, since every call is
  answered or fails.
* `BadgeSettles`, `ExpiredSessionEnds` (BrowserSession, `SessionFairness`): calls are taken
  and answered, timers run, and the calls for unread notifications do not all fail. The
  poll is strongly fair because the bound on tasks may put it off for a while. The tab is
  taken to be visible: a hidden one skips its polls and settles when it is looked at again.
* `ScannerGoesOn` (`ScannerFairness`): a video plays or fails, a list of devices and
  every look-up is answered. Streams may be refused or wait for the guard's permission for ever.
* `TitleSettles` (`CalendarFairness`): the refresh ends and every load is answered or fails.

No progress of people in the workflow is assumed, and no liveness is stated of it.

## Proofs

Checked by TLAPS, for all values of the constants that satisfy the named
assumptions of the modules (types of the constants; sentinels outside the
sets they extend; superiors, noters and assigners among the users; PAS noters
and fleet managers hold the assignment of their step; finite tables of bookings
and notifications; clock times that are numbers). Every property that is not
liveness is a theorem; what its run shows on a small instance, the theorem shows for all.

`GatePassWorkflowProofs`:

* `TypeCorrect`: `Spec => []TypeOK`.
* `RouteCorrect`: `RouteMatchesStatus`, with `TypeOK` inductive. It says, for every
  status, how far the steps of the route are: all pending in a submitted draft,
  approved before the awaited step and pending after it, all approved once
  released, approved up to the rejection and skipped behind it. Neither
  `ReleasedOnlyWhenApproved` nor `DecidedInOrder` is inductive alone: `Approve`
  looks only at the later pending steps, so the argument needs that the
  earlier ones are approved, which the status says. Lemmas: `FirstIsLeast`
  (what ORDER BY ... LIMIT 1 returns), `RouteFrame` (a pass an action leaves
  alone keeps the invariant), `DecidedStep` (a decision concerns the one step the status awaits).
* `ReleaseCorrect`, `OrderCorrect`, `DecisionsStandCorrect`: consequences of it.
* `ApproverCorrect`: `DecidedByRightfulApprover`, strengthened by `Rightful`, which
  speaks of the assigned approver of every step from the draft on, because what a later
  decision may rely on was fixed at creation.
* `ReservationCorrect`: `ReservationFollowsPass`, strengthened by `ReservationMatches`, which
  speaks of all statuses; it needs that HRAD comes before PAS on the route of a company trip.
* `ContractCorrect`: `Spec => ImplementsContract`. `BarStep` reduces each step to the pass it
  concerns, `BarStutter` handles the steps the contract does not see.

`VehicleBookingProofs`:

* `TypeCorrect`; `LocksCorrect`: `LocksProtectChecks`. A transaction past its check
  holds the vehicle's lock and the status row's, and what it checked still
  holds; only `Commit` adds rows (`OnlyCommitBooks`) and it needs the status row, so no other transaction can invalidate
  the check.
* `VehicleCorrect` (`VehicleSharedOnlyUnseen`) and `DriverCorrect` (`DriverSharedOnlyUnseen`) follow with it,
  wherever the views are taken: a booking that its check did see does not clash, and one that it did not see
  is in `unseen`. `LedgerCorrect` shows `Spec => ImplementsLedger`, with the early views as what the ledger's requests have seen.
* `CreationCorrect` (`NoCreationOverlap`) needs that a draft has no rows and that a creation has no early view
  (`CreationsSeeAll`). `AssignmentCorrect` is `OneAssignmentPerPass`.
* `HoldersCorrect` (`HoldersGoOn`): every lock is held by a transaction that is under way and has
  come to it, so no ending leaves a lock behind. `NoDeadlock` (`NobodyStuck`) follows: while a
  booking is under way, the next statement of some booking waits for nothing. The argument
  is the order of the locks: request row, vehicle row, status row, and the holder of the last one waits for no
  other. With the fairness above this is why `BookingsEnd` holds.

`ReviewModalProofs` (invariant `ReviewInv`):

* `OneApprovalCorrect`: `OneApprovalAtATime`. Inductive as `ButtonHeld`: at most one approval is under way and
  the button is disabled just then. Nothing but the button keeps a second
  one out, since closing the window stops no decision.
* `AttachedCorrect`: `SentAsAttached`. An upload is used again only for the image it was made of (`Reuse`), and a
  new one is of the image chosen at the press (`StoredKeeps`), whatever was attached since.
* `ShownCorrect`: `DecisionOnShownDocument`, from `ViewedIsDocument`: `currentViewedPassId` is the pass of the
  fields on screen or nothing, never that of a document still loading.
* `TypeCorrect` for the module's `TypeOK`, which the others use.

`ControlNumbersProofs` (invariant `NumbersInv`): `UniqueCorrect`, `GapsCorrect` and `RefusalCorrect`. A transaction
that took a number holds the counter row of its date and has the next number (`HoldsCounter`), so two
never work on one date (`OneHolder`); a form that passed the unique index is still free
when it commits (`InsertedIsFree`), and committed forms lie at or below the counter (`FormsCounted`).
`TypeCorrect` says that every number has the width of the column and none is zero. It assumes a format of at
least ten numbers (it has 1000) and a counter that stays below ten times that, the range in which `LPad` of the
model cuts as the database does.

`GateScanProofs` (invariant `ScanInv`):

* `NoDoubleScanCorrect`: `NoDoubleScanOfOneCode`, strengthened by `CodeIsYounger`: the last scan of the code a pass
  went out by is at most as old as the way out. Ages are capped just above the cooldown,
  which keeps the comparison meaningful.
* `ScansBelongCorrect`: `ScansBelongToPass`, from `RowsMatchStatus`; lemma `TargetMatches`: the row the
  queries choose is one the code belongs to.
* `QrCorrect`: `QrTakenWhileValid`, an action property that follows from the typed state; `TypeCorrect` for `TypeOK`.

`FixedRunConflictProofs`: `AlarmCorrect` (`NoFalseAlarm`) and `ExactCorrect` (`ExactWithinOneDay`), for a day of any
length and any shift. `TimeOfDay` splits a time into day and time of day; `ConflictMeets` turns what the
query accepts into an occurrence that meets the window, and `MeetsConflict` goes back within one local day. Beyond
one day the way back fails, which is the run `FixedRun_overlooked`.

`FoldLemmas`: induction over the natural numbers for sets (from the least element of a set of
numbers, since the library's induction theorems take operators), and `FoldExists`: the result of a fold over a sequence
is the last value of a function defined index by index, about which induction can speak. GateScan's
badge, the companion rows and the day grid all are folds.

`PagesProofs`, session:

* `NeverToastedTwice`: `NoToastTwice`, strengthened to `ToastsRemembered`: every toast shown
  is in `seen`, and before the first load of a session there is none. The state is
  cleared as a whole (`ClearedMemory`), and only `AnswerUnread` shows toasts
  (`UnreadKeepsMemory`, `OtherAnswersKeepMemory`).
* `SessionTyped`: `TypeOK`, inductive as `SessionInv`. The call a task waits for decides the type of
  its answer (`TaskTypes`), so the proof shows that no continuation takes an answer of
  another call (`TaskGoesOn`, `AnsweredTyped`).

`PagesProofs`, scanner:

* `ScannerReads`: `ActiveMeansReading`, inductive as `CameraInv`: the stream the page knows is running, and
  while it scans some chain is at a frame or a start is just about to begin one.
* `OneLookup`: `OneLookupPerCode`, inductive as `CoolingInv`: a code that is looked up is cooling down, so no
  other chain takes it. The theorem rests on the guard of `CoolDown`: a look-up is answered within the 30 seconds of the cooldown.
* `NoCameraForgotten` (`CameraIsAwaited`): while a guard is signed in, a camera that runs and is not read waits for its video or for a
  look-up that goes on afterwards: the safety half of `ScannerGoesOn`. `ScannerTyped` for the types.

`PagesProofs`, forms:

* `CompanionsCorrect`: `CompanionsAsShown`, inductive as `CompanionsInv`: every list is `Good`, that is, its rows
  remember what they show and its notice says whom they cover. One lemma for each handler of a row (`ToggledGood`, `TypedGood`,
  `SelectedGood`, `RemovedGood`, `AppendedGood`), and `ConfirmedGood` for the confirmation, which is a fold over the rows: after the rows up
  to i the list is still good, by `Confirm1Good`.
* `NoticeCorrect` (`NoticeTellsWhoGoes`) follows. `SomebodyAlwaysGoes`: a list that was confirmed always names somebody, so
  the last check of `submitGatePass` on the companions repeats the ones before it.
* `FormsTyped`: the types of both forms.

`PagesProofs`, calendar:

* `GuestIsShown`: `GuestSeesNoPast`. Loads and drawings for whoever used the tab before cannot break it, because each
  drawing asks `Visible` anew (lemma `NotPast`), and a guest's arrival begins a load.

* `NoTitleForgotten` (`TitleIsAwaited`): while the grid shows another month than the buttons count from, a load that
  will draw it is under way: the safety half of `TitleSettles`.
* `DayGridCorrect`: `DayGridIsFair`. `OrderExists` shows that the parts of the trips have an order, so `InOrder` is one;
  `QueueProperties` what is placed, `DrawnPlaces` one placement, `AllPlaced` the fold. `CalendarTyped` for the types.

Only model-checked, because the provers know neither fairness nor ENABLED: the liveness properties
`OutsiderGetsIn`, `BookingsEnd`, `ButtonComesBack`, `ScannerGoesOn`, `BadgeSettles`, `ExpiredSessionEnds` and
`TitleSettles`. Of four of them the half that is safety is proved, that nothing is left waiting for nobody: `NoDeadlock`,
`NoCameraForgotten`, `NoTitleForgotten`, and `ButtonHeld` in `OneApprovalCorrect`.

The proofs corrected the models in three places, each a choice that TLA+ leaves open and TLC had made silently.
`Scope` of RequestForms and `Rest` of BrowserSession were a `CASE` whose guards overlap, where
the code's order of tests decides; `InOrder` of ScheduleCalendar now says that bookings that tie may come in either order.

## Not modelled

* Deadlock victims inside InnoDB: a victim rolls back, which is `Rollback` in
  VehicleBooking and a step that does not happen elsewhere.
* The audit log, notifications, dashboards, the calendar and all other queries: they change
  nothing the models keep. The audit row is written after the decision has committed, so a crash
  may lose it (hazard list).
* What becomes of a material pass's QR token: like every final approval, that of a material
  pass stores one, and the gate takes it. `src/Database/README.md:46-47` still says material
  passes never receive one; that page is older than the code.
* Signatures: a missing or foreign signature fails the decision, which then changes nothing.
* Password hashing, token signing, signature images, the employee importer, deployment, vendored code.
* Of the pages: HRAD's schedule and availability panel inside the document window
  (`modal.js` 265-640), the fixed-schedule form (`calendar.js` 1440-1767), the administration
  pages (each operation is one call and a reload of its list), the user manual, the mode
  without a database, and everything that only draws: printing, clones, image filters,
  pagination, the layout of the Excel sheets.
* The models of the server do not rely on what the pages allow: requests may come at any
  time and in any order, which includes whatever stale or repeated requests a page can send.

## Plan

Done: the modules above; the server in the order of its importance, then the pages.

Next, modules:

1. `AdminIntegrity`: users, roles, departments, drivers and vehicles with the
   checks of their archive operations as separate statements
   (`AdminRepository` 415-456, 489-616, 660-854; `FleetRepository` 63-367). Abstract
   statement: nothing active refers to something archived. Two administrators,
   one item of each kind. Saving fixed runs (`FleetRepository` 599-699) against bookings.
2. `Sessions`, the server's side: failed attempts and lockout, and the version claim of
   the token, with time in the granularity of the column.
3. A composition of GatePassWorkflow with VehicleBooking: the reservation status of the one is the
   rows of the other.

Next, proofs: that no archived item is referred to, once `AdminIntegrity` is there and as far as it is true; and the
composition of workflow and booking, from `ReservationCorrect` and `AssignmentCorrect`.
