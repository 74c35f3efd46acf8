-------------------------- MODULE GatePassWorkflow --------------------------
(***************************************************************************)
(* The life of a gate-pass request, from the form to the gate: the service *)
(* call that creates it (several separate database transactions), the      *)
(* approval route, the decisions taken on it by concurrent HTTP requests,  *)
(* the two scans at the gate, and the maintenance delete.                  *)
(*                                                                         *)
(* One database transaction is one action: DecideAsync, ScanAsync and      *)
(* SP_SubmitGatePass start by locking the request row (FOR UPDATE), so two *)
(* of them never interleave on the same pass.  What does interleave is     *)
(* modelled step by step: the transactions of one CreateAsync call, and    *)
(* the unlocked context read of a decision with its later transaction.     *)
(*                                                                         *)
(* Which vehicle is booked, and when it is free, is VehicleBooking's       *)
(* business; here a booking either succeeds or is refused.  Which pass a   *)
(* scanned code resolves to is GateScan's.                                 *)
(***************************************************************************)
EXTENDS Naturals

CONSTANTS
  Passes,         \* gate_pass_id values that may be created
  Users,          \* user accounts
  NoUser,         \* nobody (no approver, no decision yet)
  Superiors,      \* accounts with the IMMEDIATE_SUPERIOR role
  Assignees,      \* [StepCodes -> SUBSET Users]: tbl_approval_assignments
  PasNoters,      \* PAS assignment and the gatepass.note.pas permission
  FleetManagers,  \* HRAD_ASSIGN assignment and the fleet.manage permission
  FormChoices,    \* the forms users fill in (a subset of ValidForms)
  NoForm,         \* the form of a pass that does not exist
  Requests,       \* decision requests the server handles at one time
  Choices,        \* what a decision request may ask (a subset of AllChoices)
  Archivable,     \* accounts an administrator may archive and restore
  NoCall          \* an idle decision request

StepCodes == {"SUPERIOR", "HRAD_ASSIGN", "PAS"}
Rank == [SUPERIOR |-> 1, HRAD_ASSIGN |-> 2, PAS |-> 3]
PendingOf == [SUPERIOR    |-> "PENDING_SUPERIOR",
              HRAD_ASSIGN |-> "PENDING_HRAD_ASSIGN",
              PAS         |-> "PENDING_PAS"]

\* Mutant: ORDER BY sequence_no DESC.
Last(S) == CHOOSE s \in S : \A t \in S : Rank[t] <= Rank[s]

\* The first step of a set of steps (ORDER BY sequence_no LIMIT 1).
First(S) == CHOOSE s \in S : \A t \in S : Rank[s] <= Rank[t]

\* A material form never returns and books no vehicle when it is created; a
\* vehicle is named only by a form that uses a company vehicle.
Forms == [requester : Users, material : BOOLEAN, company : BOOLEAN,
          vehicle : BOOLEAN, returns : BOOLEAN]
ValidForms == {f \in Forms : /\ f.material => ~f.returns /\ ~f.vehicle
                             /\ f.vehicle => f.company}

\* The body of a decision request: the endpoint it is sent to, the hold flag,
\* and whether a vehicle with a valid schedule comes with it.
AllChoices == [approve : BOOLEAN, hold : BOOLEAN, vehicle : BOOLEAN]

Answers == {"WAITING", "APPROVAL_NOT_AVAILABLE", "VEHICLE_REQUIRED",
            "VEHICLE_UNAVAILABLE", "HELD", "DECIDED"}
Calls == [pass : Passes, user : Users, choice : AllChoices,
          seen : StepCodes, answer : Answers]

ASSUME UsersAssumption == NoUser \notin Users
ASSUME AssigneesAssumption ==
         /\ Assignees \in [StepCodes -> SUBSET Users]
         /\ Superiors \subseteq Users
         /\ PasNoters \subseteq Assignees["PAS"]
         /\ Archivable \subseteq Users
         /\ FleetManagers \subseteq Assignees["HRAD_ASSIGN"]
ASSUME FormsAssumption == FormChoices \subseteq ValidForms /\ NoForm \notin Forms
ASSUME CallsAssumption == Choices \subseteq AllChoices /\ NoCall \notin Calls

VARIABLES
  form,      \* the request row's form fields
  status,    \* gate_pass_status_code ("NONE" before, "DELETED" after the row)
  step,      \* approval_status_code of each step ("NONE": no such row)
  assigned,  \* assigned_approver_user_id of each step
  decider,   \* changed_by_user_id of the history row of each step's decision
  resv,      \* reservation_status_code of the pass's reservations
  qr,        \* qr_token_hash is set
  creation,  \* where the CreateAsync call for the pass is
  call,      \* the decision requests
  active     \* accounts that are ACTIVE and hold their roles

vars == <<form, status, step, assigned, decider, resv, qr, creation, call, active>>

PassStatuses == {"NONE", "DRAFT", "PENDING_SUPERIOR", "PENDING_HRAD_ASSIGN",
                 "ON_HOLD", "PENDING_PAS", "APPROVED", "REJECTED", "OUTSIDE",
                 "RETURNED", "CLOSED", "DELETED"}
StepStatuses == {"NONE", "PENDING", "APPROVED", "REJECTED", "SKIPPED"}
ReservationStatuses == {"NONE", "PENDING", "RESERVED", "IN_USE", "RETURNED",
                        "CANCELLED"}
Blocking == {"PENDING", "RESERVED", "IN_USE"}
Released == {"APPROVED", "OUTSIDE", "RETURNED", "CLOSED"}
-----------------------------------------------------------------------------
(* Creating a request *)

\* The steps of the route, in the order of their ranks.
Route(f) ==
  (IF f.requester \in Superiors THEN {} ELSE {"SUPERIOR"})
    \cup (IF f.company THEN {"HRAD_ASSIGN"} ELSE {})
    \cup {"PAS"}

\* FindApproverAsync: the ordering by department, priority and workload is
\* left open, so any candidate may be the one it returns.
Candidates(s, f) == (Assignees[s] \cap active) \ {f.requester}

Init ==
  /\ form = [p \in Passes |-> NoForm]
  /\ status = [p \in Passes |-> "NONE"]
  /\ step = [p \in Passes |-> [s \in StepCodes |-> "NONE"]]
  /\ assigned = [p \in Passes |-> [s \in StepCodes |-> NoUser]]
  /\ decider = [p \in Passes |-> [s \in StepCodes |-> NoUser]]
  /\ resv = [p \in Passes |-> "NONE"]
  /\ qr = [p \in Passes |-> FALSE]
  /\ creation = [p \in Passes |-> "idle"]
  /\ call = [d \in Requests |-> NoCall]
  /\ active = Users

\* The approvers are looked up, then the draft row is inserted.  The approvers
\* found are kept by the call until the route is written: "assigned" holds
\* them from here on, the steps exist only when their status is not "NONE".
CreateDraft(p, f, approvers) ==
  /\ creation[p] = "idle"
  /\ \A s \in StepCodes : IF s \in Route(f) THEN approvers[s] \in Candidates(s, f)
                                            ELSE approvers[s] = NoUser
  /\ form' = [form EXCEPT ![p] = f]
  /\ status' = [status EXCEPT ![p] = "DRAFT"]
  /\ assigned' = [assigned EXCEPT ![p] = approvers]
  /\ creation' = [creation EXCEPT ![p] = "drafted"]
  /\ UNCHANGED <<step, decider, resv, qr, call, active>>

\* ReserveAsync: only when the form names a company vehicle.
ReserveVehicle(p) ==
  /\ creation[p] = "drafted"
  /\ status[p] = "DRAFT"
  /\ form[p].vehicle
  /\ resv' = [resv EXCEPT ![p] = "PENDING"]
  /\ creation' = [creation EXCEPT ![p] = "reserved"]
  /\ UNCHANGED <<form, status, step, assigned, decider, qr, call, active>>

CreateApprovalRoute(p) ==
  /\ status[p] = "DRAFT"
  /\ creation[p] = IF form[p].vehicle THEN "reserved" ELSE "drafted"
  /\ step' = [step EXCEPT ![p] = [s \in StepCodes |->
                IF s \in Route(form[p]) THEN "PENDING" ELSE "NONE"]]
  /\ creation' = [creation EXCEPT ![p] = "routed"]
  /\ UNCHANGED <<form, status, assigned, decider, resv, qr, call, active>>

Submit(p) ==
  /\ creation[p] = "routed"
  /\ status[p] = "DRAFT"
  /\ status' = [status EXCEPT ![p] = PendingOf[First(Route(form[p]))]]
  /\ creation' = [creation EXCEPT ![p] = "done"]
  /\ UNCHANGED <<form, step, assigned, decider, resv, qr, call, active>>

\* The call ends early: the vehicle is unavailable, a statement fails (the row
\* was deleted meanwhile), the client disconnects or the process stops.  What
\* the earlier transactions committed stays.
AbandonCreation(p) ==
  /\ creation[p] \in {"drafted", "reserved", "routed"}
  /\ creation' = [creation EXCEPT ![p] = "failed"]
  /\ UNCHANGED <<form, status, step, assigned, decider, resv, qr, call, active>>
-----------------------------------------------------------------------------
(* Deciding *)

\* GetDecisionContextAsync, without a lock: the step a user is shown.
InContext(u, p, s) ==
  /\ form[p] # NoForm
  /\ form[p].requester # u
  /\ step[p][s] = "PENDING"
  /\ \/ status[p] = PendingOf[s]
     \/ status[p] = "ON_HOLD" /\ s = "HRAD_ASSIGN"
  /\ \/ assigned[p][s] = u
     \/ s = "PAS" /\ u \in PasNoters \cap active
     \/ s = "HRAD_ASSIGN" /\ u \in FleetManagers \cap active

\* Mutant: the join forgets that the step must still be pending.
AwaitedOrDecidedSteps(p) ==
  {s \in StepCodes : /\ step[p][s] # "NONE"
                     /\ status[p] \in {PendingOf[s], "ON_HOLD"}}

\* DecideAsync, first query: the pending step the request row waits for.
AwaitedSteps(p) ==
  {s \in StepCodes : /\ step[p][s] = "PENDING"
                     /\ status[p] \in {PendingOf[s], "ON_HOLD"}}

\* Mutant: whoever may note for PAS decides any step, his own pass included.
CanActAnyStep(u, p, s) ==
  \/ assigned[p][s] = u
  \/ u \in PasNoters \cap active

\* DecideAsync, CanAct, and the self-approval check that follows it.
CanAct(u, p, s) ==
  /\ \/ assigned[p][s] = u
     \/ s = "PAS" /\ u \in PasNoters \cap active
  /\ form[p].requester # u

Waiting(d) == call[d] # NoCall /\ call[d].answer = "WAITING"

PassUnchanged ==
  UNCHANGED <<form, status, step, assigned, decider, resv, qr, creation, active>>

\* ApprovalService.DecideAsync up to the repository call.  A user who is not
\* shown the pass is refused and nothing changes, which is no step here; an
\* approval of the HRAD step without a vehicle is refused; any other request
\* goes on with the step it saw.
ReadContext(d, p, u, c) ==
  LET shown == {s \in StepCodes : InContext(u, p, s)}
      refused == c.approve /\ First(shown) = "HRAD_ASSIGN"
                   /\ ~(form[p].company /\ c.vehicle)
  IN /\ ~Waiting(d)
     /\ shown # {}
     /\ call' = [call EXCEPT ![d] =
          [pass |-> p, user |-> u, choice |-> c, seen |-> First(shown),
           answer |-> IF refused THEN "VEHICLE_REQUIRED" ELSE "WAITING"]]
     /\ PassUnchanged

Answer(d, a) == call' = [call EXCEPT ![d].answer = a]

\* The common part of a decision that goes through: request d decides step s
\* of pass p.
Deciding(d, p, s) ==
  /\ Waiting(d)
  /\ p = call[d].pass
  /\ AwaitedSteps(p) # {}
  /\ s = First(AwaitedSteps(p))
  /\ CanAct(call[d].user, p, s)

\* The repository finds no pending step, or not one this user may decide.
DecideUnavailable(d) ==
  /\ Waiting(d)
  /\ ~ \E s \in StepCodes : Deciding(d, call[d].pass, s)
  /\ Answer(d, "APPROVAL_NOT_AVAILABLE")
  /\ PassUnchanged

\* HRAD sets the request aside.  The flag wins over the endpoint: a "reject"
\* that carries it holds the request as well.
Hold(d, p, s) ==
  /\ Deciding(d, p, s)
  /\ s = "HRAD_ASSIGN"
  /\ call[d].choice.hold
  /\ status' = [status EXCEPT ![p] = "ON_HOLD"]
  /\ Answer(d, "HELD")
  /\ UNCHANGED <<form, step, assigned, decider, resv, qr, creation, active>>

\* HRAD approves, but without a vehicle, or the vehicle, its driver or the
\* schedule is refused: the transaction is rolled back.
RefuseVehicle(d, p, s) ==
  /\ Deciding(d, p, s)
  /\ s = "HRAD_ASSIGN"
  /\ call[d].choice.approve
  /\ ~call[d].choice.hold
  /\ Answer(d, "VEHICLE_UNAVAILABLE")
  /\ PassUnchanged

\* Mutant: a rejection leaves the reservation as it is.
SettledOnApproval(r, new) ==
  IF r = "PENDING" /\ new = "APPROVED" THEN "RESERVED" ELSE r

\* The reservations of a pass after a decision that gives it status new.
Settled(r, new) ==
  CASE r = "PENDING" /\ new = "APPROVED" -> "RESERVED"
    [] r = "PENDING" /\ new = "REJECTED" -> "CANCELLED"
    [] OTHER -> r

LaterPending(p, s) == {t \in StepCodes : /\ step[p][t] = "PENDING"
                                         /\ Rank[t] > Rank[s]}

\* Mutant: a company trip is released as soon as HRAD has assigned a vehicle.
NextStatusAfterHrad(p, s) ==
  IF LaterPending(p, s) = {} \/ s = "HRAD_ASSIGN" THEN "APPROVED"
  ELSE PendingOf[First(LaterPending(p, s))]

\* Mutant: the step code is stored without the PENDING_ prefix.
NextStatusBare(p, s) == IF LaterPending(p, s) = {} THEN "APPROVED"
                        ELSE First(LaterPending(p, s))

NextStatus(p, s) == IF LaterPending(p, s) = {} THEN "APPROVED"
                    ELSE PendingOf[First(LaterPending(p, s))]

\* The approval of step s.  For HRAD it also replaces the reservations by the
\* assigned windows; a PAS noting records who noted.
Approve(d, p, s) ==
  LET u   == call[d].user
      new == NextStatus(p, s)
      booked == IF s = "HRAD_ASSIGN" THEN "PENDING" ELSE resv[p]
  IN /\ Deciding(d, p, s)
     /\ call[d].choice.approve
     /\ s = "HRAD_ASSIGN" => /\ ~call[d].choice.hold
                             /\ form[p].company /\ call[d].choice.vehicle
     /\ step' = [step EXCEPT ![p][s] = "APPROVED"]
     /\ assigned' = IF s = "PAS" THEN [assigned EXCEPT ![p][s] = u] ELSE assigned
     /\ decider' = [decider EXCEPT ![p][s] = u]
     /\ status' = [status EXCEPT ![p] = new]
     /\ qr' = [qr EXCEPT ![p] = @ \/ new = "APPROVED"]
     /\ resv' = [resv EXCEPT ![p] = Settled(booked, new)]
     /\ Answer(d, "DECIDED")
     /\ UNCHANGED <<form, creation, active>>

\* The rejection of step s skips the pending steps after it and cancels a
\* pending reservation.
Reject(d, p, s) ==
  LET u == call[d].user
  IN /\ Deciding(d, p, s)
     /\ ~call[d].choice.approve
     /\ ~(s = "HRAD_ASSIGN" /\ call[d].choice.hold)
     /\ step' = [step EXCEPT ![p] = [t \in StepCodes |->
                   IF t = s THEN "REJECTED"
                   ELSE IF t \in LaterPending(p, s) THEN "SKIPPED"
                   ELSE step[p][t]]]
     /\ assigned' = IF s = "PAS" THEN [assigned EXCEPT ![p][s] = u] ELSE assigned
     /\ decider' = [decider EXCEPT ![p][s] = u]
     /\ status' = [status EXCEPT ![p] = "REJECTED"]
     /\ resv' = [resv EXCEPT ![p] = Settled(resv[p], "REJECTED")]
     /\ Answer(d, "DECIDED")
     /\ UNCHANGED <<form, qr, creation, active>>

\* The client goes away or the process stops between the two steps.
DropCall(d) ==
  /\ Waiting(d)
  /\ call' = [call EXCEPT ![d] = NoCall]
  /\ PassUnchanged
-----------------------------------------------------------------------------
(* The gate, and administration *)

NothingPending(p) == \A s \in StepCodes : step[p][s] # "PENDING"

\* Every reservation of the pass takes the new status, whatever it was.
MoveReservations(p, r) ==
  resv' = [resv EXCEPT ![p] = IF @ = "NONE" THEN "NONE" ELSE r]

TimeOut(p) ==
  /\ status[p] = "APPROVED"
  /\ NothingPending(p)
  /\ status' = [status EXCEPT ![p] = IF form[p].returns THEN "OUTSIDE" ELSE "CLOSED"]
  /\ MoveReservations(p, "IN_USE")
  /\ UNCHANGED <<form, step, assigned, decider, qr, creation, call, active>>

TimeIn(p) ==
  /\ status[p] = "OUTSIDE"
  /\ NothingPending(p)
  /\ status' = [status EXCEPT ![p] = "RETURNED"]
  /\ MoveReservations(p, "RETURNED")
  /\ UNCHANGED <<form, step, assigned, decider, qr, creation, call, active>>

\* DeleteForTestingAsync: the row and all its children, in any status.
Delete(p) ==
  /\ status[p] \notin {"NONE", "DELETED"}
  /\ form' = [form EXCEPT ![p] = NoForm]
  /\ status' = [status EXCEPT ![p] = "DELETED"]
  /\ step' = [step EXCEPT ![p] = [s \in StepCodes |-> "NONE"]]
  /\ assigned' = [assigned EXCEPT ![p] = [s \in StepCodes |-> NoUser]]
  /\ decider' = [decider EXCEPT ![p] = [s \in StepCodes |-> NoUser]]
  /\ resv' = [resv EXCEPT ![p] = "NONE"]
  /\ qr' = [qr EXCEPT ![p] = FALSE]
  /\ UNCHANGED <<creation, call, active>>

\* ArchiveUserAsync deactivates the account and its roles; SaveUserAsync can
\* bring both back.  Routes already written are not touched.
ArchiveUser(u) ==
  /\ u \in active
  /\ active' = active \ {u}
  /\ UNCHANGED <<form, status, step, assigned, decider, resv, qr, creation, call>>

RestoreUser(u) ==
  /\ u \in Users \ active
  /\ active' = active \cup {u}
  /\ UNCHANGED <<form, status, step, assigned, decider, resv, qr, creation, call>>
-----------------------------------------------------------------------------
Create(p) ==
  \/ \E f \in FormChoices, approvers \in [StepCodes -> Users \cup {NoUser}] :
        CreateDraft(p, f, approvers)
  \/ ReserveVehicle(p)
  \/ CreateApprovalRoute(p)
  \/ Submit(p)
  \/ AbandonCreation(p)

Decide(d) ==
  \/ \E p \in Passes, u \in Users, c \in Choices : ReadContext(d, p, u, c)
  \/ DecideUnavailable(d)
  \/ \E p \in Passes, s \in StepCodes :
       Hold(d, p, s) \/ RefuseVehicle(d, p, s) \/ Approve(d, p, s) \/ Reject(d, p, s)
  \/ DropCall(d)

Next ==
  \/ \E p \in Passes : Create(p) \/ TimeOut(p) \/ TimeIn(p) \/ Delete(p)
  \/ \E d \in Requests : Decide(d)
  \/ \E u \in Archivable : ArchiveUser(u) \/ RestoreUser(u)

Spec == Init /\ [][Next]_vars
-----------------------------------------------------------------------------
(* Properties *)

\* Type correctness of the request row, its steps and the calls in flight.
TypeOK ==
  /\ form \in [Passes -> ValidForms \cup {NoForm}]
  /\ status \in [Passes -> PassStatuses]
  /\ step \in [Passes -> [StepCodes -> StepStatuses]]
  /\ assigned \in [Passes -> [StepCodes -> Users \cup {NoUser}]]
  /\ decider \in [Passes -> [StepCodes -> Users \cup {NoUser}]]
  /\ resv \in [Passes -> ReservationStatuses]
  /\ qr \in [Passes -> BOOLEAN]
  /\ creation \in [Passes -> {"idle", "drafted", "reserved", "routed",
                              "done", "failed"}]
  /\ call \in [Requests -> Calls \cup {NoCall}]
  /\ active \in SUBSET Users

Exists(p) == status[p] \notin {"NONE", "DELETED"}
Decided == {"APPROVED", "REJECTED"}
Before(p, s) == {t \in Route(form[p]) : Rank[t] < Rank[s]}
After(p, s) == {t \in Route(form[p]) : Rank[t] > Rank[s]}

\* A pass that may leave the gate, or has left it, carries the approval of
\* every step of its route; so does its QR token.  (DecideAsync sets APPROVED
\* only when no later step is pending; ScanAsync goes on from there.)
ReleasedOnlyWhenApproved ==
  \A p \in Passes :
    status[p] \in Released \/ qr[p] =>
      \A s \in Route(form[p]) : step[p][s] = "APPROVED"

\* Whoever decided a step is the approver the step names, is not the
\* requester, and holds that step's assignment: shared PAS noting, stale
\* contexts and repeated submissions never lend somebody else's authority.
\* (CanAct, and assigned_approver_user_id := actor in DecideAsync.)
DecidedByRightfulApprover ==
  \A p \in Passes, s \in StepCodes :
    step[p][s] \in Decided =>
      /\ decider[p][s] = assigned[p][s]
      /\ decider[p][s] \in Assignees[s] \ {form[p].requester}

\* The route is decided in order: nothing is decided before the steps ahead of
\* it are approved, and a step is skipped only behind a rejection.
DecidedInOrder ==
  \A p \in Passes, s \in StepCodes :
    /\ step[p][s] \in Decided =>
         \A t \in Before(p, s) : step[p][t] = "APPROVED"
    /\ step[p][s] = "SKIPPED" => \E t \in Before(p, s) : step[p][t] = "REJECTED"

\* The vehicle follows the pass: a company trip is booked from HRAD's approval
\* on and in use while it is out; a pass that was rejected or came back blocks
\* no vehicle; a trip without a company vehicle never has one.
ReservationFollowsPass ==
  \A p \in Passes :
    /\ Exists(p) /\ form[p].company =>
         /\ status[p] = "PENDING_PAS" => resv[p] = "PENDING"
         /\ status[p] = "APPROVED"    => resv[p] = "RESERVED"
         /\ status[p] = "OUTSIDE"     => resv[p] = "IN_USE"
    /\ status[p] \in {"REJECTED", "RETURNED"} => resv[p] \notin Blocking
    /\ ~Exists(p) \/ ~form[p].company => resv[p] = "NONE"

\* A decision stands: no later request, hold, scan or retry changes a decided
\* or skipped step or who decided it; only deleting the pass removes it.
\* (MIGRATION_PLAN.md: "Approval rows should be immutable once approved".)
DecisionsStand ==
  [][\A p \in Passes, s \in StepCodes :
       step[p][s] \in Decided \cup {"SKIPPED"} /\ status'[p] # "DELETED" =>
         step'[p][s] = step[p][s] /\ decider'[p][s] = decider[p][s]]_vars

\* The invariant the proofs use: the status of a pass says exactly how far its
\* route is.  Route, status, creation and QR token are written by different
\* transactions (CreateApprovalRouteAsync, SubmitAsync, DecideAsync,
\* ScanAsync), and each relies on what the earlier ones left.
RouteMatches(p) ==
  /\ ~Exists(p) => \A s \in StepCodes : step[p][s] = "NONE"
  /\ Exists(p) => /\ form[p] # NoForm
                  /\ \A s \in StepCodes \ Route(form[p]) : step[p][s] = "NONE"
  /\ creation[p] = "idle" <=> status[p] = "NONE"
  /\ status[p] = "DRAFT" =>
       \/ \A s \in StepCodes : step[p][s] = "NONE"
       \/ \A s \in Route(form[p]) : step[p][s] = "PENDING"
  /\ status[p] = "DRAFT" /\ creation[p] = "routed" =>
       \A s \in Route(form[p]) : step[p][s] = "PENDING"
  /\ \A s \in StepCodes :
       status[p] = PendingOf[s] \/ (status[p] = "ON_HOLD" /\ s = "HRAD_ASSIGN") =>
         /\ s \in Route(form[p])
         /\ step[p][s] = "PENDING"
         /\ \A t \in Before(p, s) : step[p][t] = "APPROVED"
         /\ \A t \in After(p, s) : step[p][t] = "PENDING"
  /\ status[p] \in Released =>
       \A s \in Route(form[p]) : step[p][s] = "APPROVED"
  /\ status[p] = "REJECTED" =>
       \E s \in Route(form[p]) :
         /\ step[p][s] = "REJECTED"
         /\ \A t \in Before(p, s) : step[p][t] = "APPROVED"
         /\ \A t \in After(p, s) : step[p][t] = "SKIPPED"
  /\ qr[p] => status[p] \in Released

RouteMatchesStatus == \A p \in Passes : RouteMatches(p)
-----------------------------------------------------------------------------
(* What the documents say and the code does not do *)

\* "Vehicle usage should be derived from active approved/outside requests": a
\* trip that is over blocks no vehicle, the one-way trip included.
VehicleFreeWhenTripIsOver ==
  \A p \in Passes : status[p] \in {"RETURNED", "CLOSED"} => resv[p] \notin Blocking
=============================================================================
