----------------------- MODULE GatePassWorkflowProofs -----------------------
(***************************************************************************)
(* Theorems about GatePassWorkflow, for every set of passes, users, roles, *)
(* forms and requests, and that it implements GatePassContract: each step  *)
(* of the workflow is a step of the contract or a stutter under the        *)
(* mapping of GatePassRefinement.                                          *)
(***************************************************************************)
EXTENDS GatePassRefinement, TLAPS

-----------------------------------------------------------------------------
(* The operators the model is built from *)

\* ORDER BY sequence_no LIMIT 1 returns the least of the steps there are.
LEMMA FirstIsLeast ==
  ASSUME NEW S \in SUBSET StepCodes, S # {}
  PROVE  /\ First(S) \in S
         /\ First(S) \in StepCodes
         /\ \A t \in S : Rank[First(S)] <= Rank[t]
<1>1. \E s \in S : \A t \in S : Rank[s] <= Rank[t]
  <2>1. CASE "SUPERIOR" \in S
    BY <2>1 DEF StepCodes, Rank
  <2>2. CASE "SUPERIOR" \notin S /\ "HRAD_ASSIGN" \in S
    BY <2>2 DEF StepCodes, Rank
  <2>3. CASE "SUPERIOR" \notin S /\ "HRAD_ASSIGN" \notin S
    <3>1. S = {"PAS"}
      BY <2>3 DEF StepCodes
    <3>2. QED BY <3>1 DEF Rank
  <2>4. QED BY <2>1, <2>2, <2>3
<1>2. QED BY <1>1 DEF First

\* A route consists of steps, and PAS is always one of them.
LEMMA RouteSteps ==
  ASSUME NEW f
  PROVE  Route(f) \in SUBSET StepCodes /\ "PAS" \in Route(f)
BY DEF Route, StepCodes

\* Each step has its own pending status, which is no other status.
LEMMA PendingStatuses ==
  ASSUME NEW s \in StepCodes
  PROVE  /\ PendingOf[s] \in PassStatuses \ (Released \cup
              {"NONE", "DRAFT", "ON_HOLD", "REJECTED", "DELETED"})
         /\ \A t \in StepCodes : PendingOf[s] = PendingOf[t] => s = t
BY DEF StepCodes, PendingOf, PassStatuses, Released

\* The status a pass gets by an approval.
LEMMA NextStatusType ==
  ASSUME NEW p, NEW s
  PROVE  NextStatus(p, s) \in PassStatuses
<1>1. LaterPending(p, s) \in SUBSET StepCodes
  BY DEF LaterPending
<1>2. CASE LaterPending(p, s) = {}
  BY <1>2 DEF NextStatus, PassStatuses
<1>3. CASE LaterPending(p, s) # {}
  BY <1>1, <1>3, FirstIsLeast, PendingStatuses DEF NextStatus
<1>4. QED BY <1>2, <1>3
-----------------------------------------------------------------------------
(* Type correctness *)

\* The variables stay in their types: the request row, its steps and its
\* reservation hold only codes of the reference tables, and a decision request
\* in flight always names a pass, a user and the step it was shown.
THEOREM TypeCorrect == Spec => []TypeOK
<1>1. Init => TypeOK
  BY DEF Init, TypeOK, PassStatuses, StepStatuses, ReservationStatuses
<1>2. TypeOK /\ [Next]_vars => TypeOK'
  <2> SUFFICES ASSUME TypeOK, [Next]_vars PROVE TypeOK'
    OBVIOUS
  <2>1. ASSUME NEW p \in Passes, NEW f \in FormChoices,
               NEW approvers \in [StepCodes -> Users \cup {NoUser}],
               CreateDraft(p, f, approvers)
        PROVE  TypeOK'
    BY <2>1, FormsAssumption DEF TypeOK, CreateDraft, PassStatuses
  <2>2. ASSUME NEW p \in Passes, ReserveVehicle(p) PROVE TypeOK'
    BY <2>2 DEF TypeOK, ReserveVehicle, ReservationStatuses
  <2>3. ASSUME NEW p \in Passes, CreateApprovalRoute(p) PROVE TypeOK'
    BY <2>3 DEF TypeOK, CreateApprovalRoute, StepStatuses
  <2>4. ASSUME NEW p \in Passes, Submit(p) PROVE TypeOK'
    <3>1. PendingOf[First(Route(form[p]))] \in PassStatuses
      BY RouteSteps, FirstIsLeast, PendingStatuses
    <3>2. QED BY <2>4, <3>1 DEF TypeOK, Submit
  <2>5. ASSUME NEW p \in Passes, AbandonCreation(p) PROVE TypeOK'
    BY <2>5 DEF TypeOK, AbandonCreation
  <2>6. ASSUME NEW d \in Requests, NEW p \in Passes, NEW u \in Users,
               NEW c \in Choices, ReadContext(d, p, u, c)
        PROVE  TypeOK'
    <3> DEFINE shown == {s \in StepCodes : InContext(u, p, s)}
    <3>1. First(shown) \in StepCodes
      BY <2>6, FirstIsLeast DEF ReadContext
    <3>2. c \in AllChoices
      BY CallsAssumption
    <3>3. PICK a \in {"VEHICLE_REQUIRED", "WAITING"} :
            call' = [call EXCEPT ![d] = [pass |-> p, user |-> u, choice |-> c,
                                         seen |-> First(shown), answer |-> a]]
      BY <2>6 DEF ReadContext
    <3>4. [pass |-> p, user |-> u, choice |-> c, seen |-> First(shown),
           answer |-> a] \in Calls
      BY <3>1, <3>2, <3>3 DEF Calls, Answers
    <3>5. call' \in [Requests -> Calls \cup {NoCall}]
      BY <3>3, <3>4 DEF TypeOK
    <3>6. QED BY <2>6, <3>5 DEF TypeOK, ReadContext, PassUnchanged
  <2>7. ASSUME NEW d \in Requests, NEW a \in Answers, Waiting(d), Answer(d, a)
        PROVE  call' \in [Requests -> Calls \cup {NoCall}]
    BY <2>7 DEF TypeOK, Waiting, Answer, Calls
  <2>8. ASSUME NEW d \in Requests, DecideUnavailable(d) PROVE TypeOK'
    <3>1. "APPROVAL_NOT_AVAILABLE" \in Answers
      BY DEF Answers
    <3>2. QED BY <2>7, <2>8, <3>1 DEF TypeOK, DecideUnavailable, PassUnchanged
  <2>9. ASSUME NEW d \in Requests, NEW p \in Passes, NEW s \in StepCodes,
               Hold(d, p, s)
        PROVE  TypeOK'
    <3>1. "HELD" \in Answers
      BY DEF Answers
    <3>2. QED BY <2>7, <2>9, <3>1 DEF TypeOK, Hold, Deciding, PassStatuses
  <2>10. ASSUME NEW d \in Requests, NEW p \in Passes, NEW s \in StepCodes,
                RefuseVehicle(d, p, s)
         PROVE  TypeOK'
    <3>1. "VEHICLE_UNAVAILABLE" \in Answers
      BY DEF Answers
    <3>2. QED BY <2>7, <2>10, <3>1 DEF TypeOK, RefuseVehicle, Deciding, PassUnchanged
  <2>11. ASSUME NEW r \in ReservationStatuses, NEW new
         PROVE  Settled(r, new) \in ReservationStatuses
    BY DEF Settled, ReservationStatuses
  <2>12. ASSUME NEW d \in Requests, NEW p \in Passes, NEW s \in StepCodes,
                Approve(d, p, s)
         PROVE  TypeOK'
    <3>1. "DECIDED" \in Answers /\ "PENDING" \in ReservationStatuses
            /\ "APPROVED" \in StepStatuses
      BY DEF Answers, ReservationStatuses, StepStatuses
    <3>2. call[d].user \in Users
      BY <2>12 DEF TypeOK, Approve, Deciding, Waiting, Calls
    <3>3. call' \in [Requests -> Calls \cup {NoCall}]
      BY <2>7, <2>12, <3>1 DEF Approve, Deciding
    <3>4. status' \in [Passes -> PassStatuses]
      BY <2>12, NextStatusType DEF TypeOK, Approve
    <3>5. resv' \in [Passes -> ReservationStatuses]
      BY <2>11, <2>12, <3>1 DEF TypeOK, Approve
    <3>6. /\ step' \in [Passes -> [StepCodes -> StepStatuses]]
          /\ assigned' \in [Passes -> [StepCodes -> Users \cup {NoUser}]]
          /\ decider' \in [Passes -> [StepCodes -> Users \cup {NoUser}]]
          /\ qr' \in [Passes -> BOOLEAN]
      BY <2>12, <3>1, <3>2 DEF TypeOK, Approve
    <3>7. QED BY <2>12, <3>3, <3>4, <3>5, <3>6 DEF TypeOK, Approve
  <2>13. ASSUME NEW d \in Requests, NEW p \in Passes, NEW s \in StepCodes,
                Reject(d, p, s)
         PROVE  TypeOK'
    <3>1. "DECIDED" \in Answers /\ "REJECTED" \in PassStatuses
            /\ {"REJECTED", "SKIPPED"} \subseteq StepStatuses
      BY DEF Answers, PassStatuses, StepStatuses
    <3>2. call[d].user \in Users
      BY <2>13 DEF TypeOK, Reject, Deciding, Waiting, Calls
    <3>3. call' \in [Requests -> Calls \cup {NoCall}]
      BY <2>7, <2>13, <3>1 DEF Reject, Deciding
    <3>4. resv' \in [Passes -> ReservationStatuses]
      BY <2>11, <2>13 DEF TypeOK, Reject
    <3>5. /\ step' \in [Passes -> [StepCodes -> StepStatuses]]
          /\ assigned' \in [Passes -> [StepCodes -> Users \cup {NoUser}]]
          /\ decider' \in [Passes -> [StepCodes -> Users \cup {NoUser}]]
          /\ status' \in [Passes -> PassStatuses]
      BY <2>13, <3>1, <3>2 DEF TypeOK, Reject
    <3>6. QED BY <2>13, <3>3, <3>4, <3>5 DEF TypeOK, Reject
  <2>14. ASSUME NEW d \in Requests, DropCall(d) PROVE TypeOK'
    BY <2>14 DEF TypeOK, DropCall, PassUnchanged
  <2>15. ASSUME NEW p \in Passes, TimeOut(p) PROVE TypeOK'
    BY <2>15 DEF TypeOK, TimeOut, MoveReservations, PassStatuses, ReservationStatuses
  <2>16. ASSUME NEW p \in Passes, TimeIn(p) PROVE TypeOK'
    BY <2>16 DEF TypeOK, TimeIn, MoveReservations, PassStatuses, ReservationStatuses
  <2>17. ASSUME NEW p \in Passes, Delete(p) PROVE TypeOK'
    BY <2>17 DEF TypeOK, Delete, PassStatuses, StepStatuses, ReservationStatuses
  <2>18. ASSUME NEW u \in Archivable, ArchiveUser(u) \/ RestoreUser(u) PROVE TypeOK'
    BY <2>18 DEF TypeOK, ArchiveUser, RestoreUser
  <2>19. CASE UNCHANGED vars
    BY <2>19 DEF TypeOK, vars
  <2>20. QED
    BY <2>1, <2>2, <2>3, <2>4, <2>5, <2>6, <2>8, <2>9, <2>10, <2>12, <2>13, <2>14,
       <2>15, <2>16, <2>17, <2>18, <2>19 DEF Next, Create, Decide
<1>3. QED BY <1>1, <1>2, PTL DEF Spec
-----------------------------------------------------------------------------
(* The status says how far the route is *)

\* What an action leaves alone keeps matching.
LEMMA RouteFrame ==
  ASSUME NEW p \in Passes, RouteMatches(p),
         form'[p] = form[p], status'[p] = status[p], step'[p] = step[p],
         creation'[p] = creation[p], qr'[p] = qr[p]
  PROVE  RouteMatches(p)'
BY DEF RouteMatches, Exists, Before, After

\* The step that a decision is about: it is the one the status names, what is
\* ahead of it is approved and what is behind it is pending.
LEMMA DecidedStep ==
  ASSUME TypeOK, RouteMatchesStatus,
         NEW d \in Requests, NEW p \in Passes, NEW s \in StepCodes,
         Deciding(d, p, s)
  PROVE  /\ status[p] = PendingOf[s] \/ (status[p] = "ON_HOLD" /\ s = "HRAD_ASSIGN")
         /\ Exists(p)
         /\ s \in Route(form[p])
         /\ step[p][s] = "PENDING"
         /\ \A t \in Before(p, s) : step[p][t] = "APPROVED"
         /\ \A t \in After(p, s) : step[p][t] = "PENDING"
         /\ LaterPending(p, s) = After(p, s)
<1>1. /\ s = First(AwaitedSteps(p)) /\ s \in AwaitedSteps(p)
      /\ \A t \in AwaitedSteps(p) : Rank[s] <= Rank[t]
  BY FirstIsLeast DEF Deciding, AwaitedSteps
<1>2. RouteMatches(p)
  BY DEF RouteMatchesStatus
<1>3. status[p] = PendingOf[s] \/ (status[p] = "ON_HOLD" /\ s = "HRAD_ASSIGN")
  <2>1. CASE status[p] = "ON_HOLD"
    <3>1. step[p]["HRAD_ASSIGN"] = "PENDING"
      BY <1>2, <2>1 DEF RouteMatches, StepCodes
    <3>2. "HRAD_ASSIGN" \in AwaitedSteps(p)
      BY <2>1, <3>1 DEF AwaitedSteps, StepCodes
    <3>3. "SUPERIOR" \notin AwaitedSteps(p)
      BY <1>2, <2>1 DEF AwaitedSteps, RouteMatches, StepCodes, Exists, Before, Rank
    <3>4. s # "PAS"
      BY <1>1, <3>2 DEF Rank
    <3>5. QED BY <1>1, <2>1, <3>3, <3>4 DEF StepCodes
  <2>2. CASE status[p] # "ON_HOLD"
    BY <1>1, <2>2 DEF AwaitedSteps
  <2>3. QED BY <2>1, <2>2
<1>4. Exists(p)
  BY <1>3, PendingStatuses DEF Exists
<1>5. /\ s \in Route(form[p])
      /\ step[p][s] = "PENDING"
      /\ \A t \in Before(p, s) : step[p][t] = "APPROVED"
      /\ \A t \in After(p, s) : step[p][t] = "PENDING"
  BY <1>2, <1>3 DEF RouteMatches
<1>6. LaterPending(p, s) = After(p, s)
  BY <1>2, <1>4, <1>5, RouteSteps DEF RouteMatches, LaterPending, After
<1>7. QED BY <1>3, <1>4, <1>5, <1>6

\* The status of every pass says how far its route is: so a released pass has
\* every approval, and the steps are decided in their order.
THEOREM RouteCorrect == Spec => []RouteMatchesStatus
<1>1. Init => RouteMatchesStatus
  <2> SUFFICES ASSUME Init, NEW p \in Passes PROVE RouteMatches(p)
    BY DEF RouteMatchesStatus
  <2>1. /\ status[p] = "NONE" /\ creation[p] = "idle" /\ ~qr[p]
        /\ \A s \in StepCodes : step[p][s] = "NONE"
    BY DEF Init
  <2>2. \A s \in StepCodes : PendingOf[s] # "NONE"
    BY PendingStatuses
  <2>3. QED BY <2>1, <2>2 DEF RouteMatches, Exists, Released
<1>2. TypeOK /\ RouteMatchesStatus /\ [Next]_vars => RouteMatchesStatus'
  <2> SUFFICES ASSUME TypeOK, RouteMatchesStatus, [Next]_vars,
                      NEW q \in Passes
               PROVE  RouteMatches(q)'
    BY DEF RouteMatchesStatus
  <2>0. RouteMatches(q)
    BY DEF RouteMatchesStatus
  <2>1. ASSUME NEW p \in Passes, NEW f \in FormChoices,
               NEW approvers \in [StepCodes -> Users \cup {NoUser}],
               CreateDraft(p, f, approvers)
        PROVE  RouteMatches(q)'
    <3>1. CASE q # p
      BY <2>0, <2>1, <3>1, RouteFrame DEF TypeOK, CreateDraft
    <3>2. CASE q = p
      <4>1. /\ status[p] = "NONE" /\ status'[p] = "DRAFT" /\ creation'[p] = "drafted"
            /\ form'[p] = f /\ step'[p] = step[p] /\ qr'[p] = qr[p]
        BY <2>0, <2>1, <3>2 DEF TypeOK, CreateDraft, RouteMatches
      <4>2. f # NoForm
        BY FormsAssumption DEF ValidForms
      <4>3. \A s \in StepCodes : step[p][s] = "NONE"
        BY <2>0, <3>2, <4>1 DEF RouteMatches, Exists
      <4>4. ~qr[p]
        BY <2>0, <3>2, <4>1 DEF RouteMatches, Released
      <4>5. QED BY <3>2, <4>1, <4>2, <4>3, <4>4, PendingStatuses
                DEF RouteMatches, Exists, Released
    <3>3. QED BY <3>1, <3>2
  <2>2. ASSUME NEW p \in Passes, ReserveVehicle(p) PROVE RouteMatches(q)'
    <3>1. CASE q # p
      BY <2>0, <2>2, <3>1, RouteFrame DEF TypeOK, ReserveVehicle
    <3>2. CASE q = p
      BY <2>0, <2>2, <3>2 DEF TypeOK, ReserveVehicle, RouteMatches, Exists, Before, After
    <3>3. QED BY <3>1, <3>2
  <2>3. ASSUME NEW p \in Passes, CreateApprovalRoute(p) PROVE RouteMatches(q)'
    <3>1. CASE q # p
      BY <2>0, <2>3, <3>1, RouteFrame DEF TypeOK, CreateApprovalRoute
    <3>2. CASE q = p
      <4>1. /\ status[p] = "DRAFT" /\ status'[p] = "DRAFT" /\ creation'[p] = "routed"
            /\ form'[p] = form[p] /\ qr'[p] = qr[p]
            /\ \A s \in StepCodes : step'[p][s] =
                 IF s \in Route(form[p]) THEN "PENDING" ELSE "NONE"
        BY <2>3 DEF TypeOK, CreateApprovalRoute
      <4>2. form[p] # NoForm /\ ~qr[p]
        BY <2>0, <3>2, <4>1 DEF RouteMatches, Exists, Released
      <4>3. QED BY <3>2, <4>1, <4>2, RouteSteps, PendingStatuses
                DEF RouteMatches, Exists, Released
    <3>3. QED BY <3>1, <3>2
  <2>4. ASSUME NEW p \in Passes, Submit(p) PROVE RouteMatches(q)'
    <3>1. CASE q # p
      BY <2>0, <2>4, <3>1, RouteFrame DEF TypeOK, Submit
    <3>2. CASE q = p
      <4>0. PICK first \in StepCodes : first = First(Route(form[p]))
        BY RouteSteps, FirstIsLeast
      <4>1. /\ status[p] = "DRAFT" /\ status'[p] = PendingOf[first]
            /\ creation[p] = "routed" /\ creation'[p] = "done"
            /\ form'[p] = form[p] /\ step'[p] = step[p] /\ qr'[p] = qr[p]
        BY <2>4, <4>0 DEF TypeOK, Submit
      <4>2. /\ first \in StepCodes /\ first \in Route(form[p])
            /\ \A t \in Route(form[p]) : Rank[first] <= Rank[t]
        BY <4>0, RouteSteps, FirstIsLeast
      <4>3. Before(p, first) = {}
        <5>1. \A t \in StepCodes : Rank[t] < Rank[first] => ~(Rank[first] <= Rank[t])
          BY <4>2 DEF StepCodes, Rank
        <5>2. QED BY <4>2, <5>1, RouteSteps DEF Before
      <4>4. /\ form[p] # NoForm /\ ~qr[p]
            /\ \A s \in Route(form[p]) : step[p][s] = "PENDING"
            /\ \A s \in StepCodes \ Route(form[p]) : step[p][s] = "NONE"
        BY <2>0, <3>2, <4>1 DEF RouteMatches, Exists, Released
      <4>5. QED
        <5>1. Before(p, first)' = Before(p, first) /\ After(p, first)' = After(p, first)
          BY <4>1 DEF Before, After
        <5>2. QED BY <3>2, <4>1, <4>2, <4>3, <4>4, <5>1, PendingStatuses
                  DEF RouteMatches, Exists, After
    <3>3. QED BY <3>1, <3>2
  <2>5. ASSUME NEW p \in Passes, AbandonCreation(p) PROVE RouteMatches(q)'
    <3>1. CASE q # p
      BY <2>0, <2>5, <3>1, RouteFrame DEF TypeOK, AbandonCreation
    <3>2. CASE q = p
      BY <2>0, <2>5, <3>2 DEF TypeOK, AbandonCreation, RouteMatches, Exists, Before, After
    <3>3. QED BY <3>1, <3>2
  <2>6. ASSUME UNCHANGED <<form, status, step, creation, qr>> PROVE RouteMatches(q)'
    BY <2>0, <2>6, RouteFrame
  <2>7. ASSUME NEW d \in Requests, NEW p \in Passes, NEW s \in StepCodes, Hold(d, p, s)
        PROVE  RouteMatches(q)'
    <3>1. CASE q # p
      BY <2>0, <2>7, <3>1, RouteFrame DEF TypeOK, Hold
    <3>2. CASE q = p
      <4>1. /\ s = "HRAD_ASSIGN" /\ Deciding(d, p, s) /\ status'[p] = "ON_HOLD"
            /\ UNCHANGED <<form, step, creation, qr>>
        BY <2>7 DEF TypeOK, Hold
      <4>2. /\ Exists(p) /\ status[p] \notin Released /\ s \in Route(form[p])
            /\ step[p][s] = "PENDING"
            /\ \A t \in Before(p, s) : step[p][t] = "APPROVED"
            /\ \A t \in After(p, s) : step[p][t] = "PENDING"
        BY <4>1, DecidedStep, PendingStatuses DEF Released
      <4>3. Before(p, s)' = Before(p, s) /\ After(p, s)' = After(p, s)
        BY <4>1 DEF Before, After
      <4>4. QED BY <2>0, <3>2, <4>1, <4>2, <4>3, PendingStatuses
                DEF RouteMatches, Exists, Released
    <3>3. QED BY <3>1, <3>2
  <2>8. ASSUME NEW d \in Requests, NEW p \in Passes, NEW s \in StepCodes,
               Approve(d, p, s)
        PROVE  RouteMatches(q)'
    <3>1. CASE q # p
      BY <2>0, <2>8, <3>1, RouteFrame DEF TypeOK, Approve
    <3>2. CASE q = p
      <4>1. /\ Deciding(d, p, s) /\ UNCHANGED <<form, creation>>
            /\ status'[p] = NextStatus(p, s)
            /\ qr'[p] = (qr[p] \/ NextStatus(p, s) = "APPROVED")
            /\ step'[p][s] = "APPROVED"
            /\ \A t \in StepCodes \ {s} : step'[p][t] = step[p][t]
        BY <2>8 DEF TypeOK, Approve
      <4>2. /\ Exists(p) /\ status[p] \notin Released /\ s \in Route(form[p])
            /\ \A t \in Before(p, s) : step[p][t] = "APPROVED"
            /\ \A t \in After(p, s) : step[p][t] = "PENDING"
            /\ LaterPending(p, s) = After(p, s)
        BY <4>1, DecidedStep, PendingStatuses DEF Released
      <4>3. /\ form[p] # NoForm /\ ~qr[p] /\ creation[p] # "idle"
            /\ \A t \in StepCodes \ Route(form[p]) : step[p][t] = "NONE"
        BY <2>0, <3>2, <4>2 DEF RouteMatches, Exists
      <4>4. \A t \in Route(form[p]) : t \in Before(p, s) \/ t = s \/ t \in After(p, s)
        BY RouteSteps DEF Before, After, StepCodes, Rank
      <4>5. CASE After(p, s) = {}
        <5>1. status'[p] = "APPROVED"
          BY <4>1, <4>2, <4>5 DEF NextStatus
        <5>2. \A t \in Route(form[p]) : step'[p][t] = "APPROVED"
          BY <4>1, <4>2, <4>4, <4>5, RouteSteps
        <5>3. QED BY <3>2, <4>1, <4>2, <4>3, <5>1, <5>2, PendingStatuses
                  DEF RouteMatches, Exists, Released
      <4>6. CASE After(p, s) # {}
        <5>0. PICK next \in StepCodes : next = First(LaterPending(p, s))
          BY <4>2, <4>6, RouteSteps, FirstIsLeast DEF After
        <5>1. /\ next \in StepCodes /\ next \in After(p, s)
              /\ \A t \in After(p, s) : Rank[next] <= Rank[t]
          BY <4>2, <4>6, <5>0, RouteSteps, FirstIsLeast DEF After
        <5>2. status'[p] = PendingOf[next] /\ ~qr'[p]
          BY <4>1, <4>2, <4>3, <4>6, <5>0, PendingStatuses DEF NextStatus, Released
        <5>3. \A t \in Before(p, next) : t \in Before(p, s) \cup {s}
          BY <4>4, <5>1, RouteSteps DEF Before, After, StepCodes, Rank
        <5>4. \A t \in After(p, next) : t \in After(p, s) /\ t # s
          BY <4>4, <5>1, RouteSteps DEF Before, After, StepCodes, Rank
        <5>5. /\ \A t \in Before(p, next) : step'[p][t] = "APPROVED"
              /\ \A t \in After(p, next) : step'[p][t] = "PENDING"
              /\ step'[p][next] = "PENDING" /\ next \in Route(form[p])
          BY <4>1, <4>2, <5>1, <5>3, <5>4, RouteSteps DEF Before, After, Rank
        <5>6. Before(p, next)' = Before(p, next) /\ After(p, next)' = After(p, next)
          BY <4>1 DEF Before, After
        <5>7. QED BY <3>2, <4>1, <4>2, <4>3, <5>1, <5>2, <5>5, <5>6, PendingStatuses
                  DEF RouteMatches, Exists
      <4>7. QED BY <4>5, <4>6
    <3>3. QED BY <3>1, <3>2
  <2>9. ASSUME NEW d \in Requests, NEW p \in Passes, NEW s \in StepCodes,
               Reject(d, p, s)
        PROVE  RouteMatches(q)'
    <3>1. CASE q # p
      BY <2>0, <2>9, <3>1, RouteFrame DEF TypeOK, Reject
    <3>2. CASE q = p
      <4>1. /\ Deciding(d, p, s) /\ UNCHANGED <<form, creation, qr>>
            /\ status'[p] = "REJECTED"
            /\ \A t \in StepCodes : step'[p][t] =
                 IF t = s THEN "REJECTED"
                 ELSE IF t \in LaterPending(p, s) THEN "SKIPPED" ELSE step[p][t]
        BY <2>9 DEF TypeOK, Reject
      <4>2. /\ Exists(p) /\ status[p] \notin Released /\ s \in Route(form[p])
            /\ \A t \in Before(p, s) : step[p][t] = "APPROVED"
            /\ LaterPending(p, s) = After(p, s)
        BY <4>1, DecidedStep, PendingStatuses DEF Released
      <4>3. /\ form[p] # NoForm /\ ~qr[p] /\ creation[p] # "idle"
            /\ \A t \in StepCodes \ Route(form[p]) : step[p][t] = "NONE"
        BY <2>0, <3>2, <4>2 DEF RouteMatches, Exists
      <4>4. /\ s \notin Before(p, s) /\ s \notin After(p, s)
            /\ Before(p, s) \cap After(p, s) = {}
        BY RouteSteps DEF Before, After, StepCodes, Rank
      <4>5. /\ step'[p][s] = "REJECTED"
            /\ \A t \in Before(p, s) : step'[p][t] = "APPROVED"
            /\ \A t \in After(p, s) : step'[p][t] = "SKIPPED"
            /\ \A t \in StepCodes \ Route(form[p]) : step'[p][t] = "NONE"
        <5>1. Before(p, s) \subseteq StepCodes /\ After(p, s) \subseteq Route(form[p])
                /\ After(p, s) \subseteq StepCodes
          BY RouteSteps DEF Before, After
        <5>2. QED BY <4>1, <4>2, <4>3, <4>4, <5>1
      <4>6. Before(p, s)' = Before(p, s) /\ After(p, s)' = After(p, s)
        BY <4>1 DEF Before, After
      <4>7. QED BY <3>2, <4>1, <4>2, <4>3, <4>5, <4>6, PendingStatuses
                DEF RouteMatches, Exists, Released
    <3>3. QED BY <3>1, <3>2
  <2>10. ASSUME NEW p \in Passes, TimeOut(p) \/ TimeIn(p) PROVE RouteMatches(q)'
    <3>1. CASE q # p
      BY <2>0, <2>10, <3>1, RouteFrame DEF TypeOK, TimeOut, TimeIn
    <3>2. CASE q = p
      <4>1. /\ status[p] \in Released /\ status'[p] \in Released
            /\ UNCHANGED <<form, step, creation, qr>>
        BY <2>10 DEF TypeOK, TimeOut, TimeIn, Released
      <4>2. QED BY <2>0, <3>2, <4>1, PendingStatuses DEF RouteMatches, Exists, Released
    <3>3. QED BY <3>1, <3>2
  <2>11. ASSUME NEW p \in Passes, Delete(p) PROVE RouteMatches(q)'
    <3>1. CASE q # p
      BY <2>0, <2>11, <3>1, RouteFrame DEF TypeOK, Delete
    <3>2. CASE q = p
      <4>1. /\ status[p] # "NONE" /\ status'[p] = "DELETED" /\ ~qr'[p]
            /\ creation' = creation
            /\ \A s \in StepCodes : step'[p][s] = "NONE"
        BY <2>11 DEF TypeOK, Delete
      <4>2. QED BY <2>0, <3>2, <4>1, PendingStatuses DEF RouteMatches, Exists, Released
    <3>3. QED BY <3>1, <3>2
  <2>12. QED
    BY <2>1, <2>2, <2>3, <2>4, <2>5, <2>6, <2>7, <2>8, <2>9, <2>10, <2>11
    DEF Next, Create, Decide, ReadContext, DecideUnavailable, RefuseVehicle, DropCall,
        PassUnchanged, ArchiveUser, RestoreUser, vars
<1>3. QED BY <1>1, <1>2, TypeCorrect, PTL DEF Spec

\* A pass that may leave the gate, or has left it, carries the approval of
\* every step of its route, and so does its QR token.
THEOREM ReleaseCorrect == Spec => []ReleasedOnlyWhenApproved
<1>1. RouteMatchesStatus => ReleasedOnlyWhenApproved
  BY DEF RouteMatchesStatus, RouteMatches, ReleasedOnlyWhenApproved
<1>2. QED BY <1>1, RouteCorrect, PTL
\* The steps of a pass are decided in the order of its route.
THEOREM OrderCorrect == Spec => []DecidedInOrder
<1>1. TypeOK /\ RouteMatchesStatus => DecidedInOrder
  <2> SUFFICES ASSUME TypeOK, RouteMatchesStatus, NEW p \in Passes, NEW s \in StepCodes
               PROVE  /\ step[p][s] \in Decided =>
                           \A t \in Before(p, s) : step[p][t] = "APPROVED"
                      /\ step[p][s] = "SKIPPED" =>
                           \E t \in Before(p, s) : step[p][t] = "REJECTED"
    BY DEF DecidedInOrder
  <2>0. RouteMatches(p)
    BY DEF RouteMatchesStatus
  <2>1. CASE ~Exists(p) \/ s \notin Route(form[p])
    BY <2>0, <2>1 DEF RouteMatches, Decided
  <2>2. CASE Exists(p) /\ s \in Route(form[p])
    <3>1. CASE status[p] = "DRAFT"
      BY <2>0, <2>2, <3>1 DEF RouteMatches, Decided
    <3>2. ASSUME NEW x \in StepCodes,
                 status[p] = PendingOf[x] \/ (status[p] = "ON_HOLD" /\ x = "HRAD_ASSIGN")
          PROVE  /\ step[p][s] \in Decided =>
                       \A t \in Before(p, s) : step[p][t] = "APPROVED"
                 /\ step[p][s] # "SKIPPED"
      <4>1. /\ step[p][x] = "PENDING" /\ x \in Route(form[p])
            /\ \A t \in Before(p, x) : step[p][t] = "APPROVED"
            /\ \A t \in After(p, x) : step[p][t] = "PENDING"
        BY <2>0, <3>2 DEF RouteMatches
      <4>2. s \in Before(p, x) \/ s = x \/ s \in After(p, x)
        BY <2>2, <4>1, RouteSteps DEF Before, After, StepCodes, Rank
      <4>3. s \in Before(p, x) => Before(p, s) \subseteq Before(p, x)
        BY RouteSteps DEF Before, StepCodes, Rank
      <4>4. QED BY <4>1, <4>2, <4>3 DEF Decided
    <3>3. CASE status[p] \in Released
      <4>1. \A t \in Route(form[p]) : step[p][t] = "APPROVED"
        BY <2>0, <3>3 DEF RouteMatches
      <4>2. QED BY <2>2, <4>1 DEF Before
    <3>4. CASE status[p] = "REJECTED"
      <4>1. PICK x \in Route(form[p]) :
              /\ step[p][x] = "REJECTED"
              /\ \A t \in Before(p, x) : step[p][t] = "APPROVED"
              /\ \A t \in After(p, x) : step[p][t] = "SKIPPED"
        BY <2>0, <3>4 DEF RouteMatches
      <4>2. x \in StepCodes
        BY RouteSteps
      <4>3. s \in Before(p, x) \/ s = x \/ s \in After(p, x)
        BY <2>2, <4>2, RouteSteps DEF Before, After, StepCodes, Rank
      <4>4. /\ s \in Before(p, x) => Before(p, s) \subseteq Before(p, x)
            /\ s \in After(p, x) => x \in Before(p, s)
        BY <4>2, RouteSteps DEF Before, After, StepCodes, Rank
      <4>5. QED BY <4>1, <4>3, <4>4 DEF Decided
    <3>5. \/ status[p] \in Released \cup {"DRAFT", "REJECTED"}
          \/ \E x \in StepCodes : \/ status[p] = PendingOf[x]
                                  \/ status[p] = "ON_HOLD" /\ x = "HRAD_ASSIGN"
      BY <2>2 DEF TypeOK, PassStatuses, Exists, Released, StepCodes, PendingOf
    <3>6. QED BY <3>1, <3>2, <3>3, <3>4, <3>5
  <2>3. QED BY <2>1, <2>2
<1>2. QED BY <1>1, TypeCorrect, RouteCorrect, PTL

\* A decision stands: no step of the system but the deletion of the pass
\* changes a decided or skipped step, or who decided it.
THEOREM DecisionsStandCorrect == Spec => DecisionsStand
<1> DEFINE Stands ==
      \A p \in Passes, s \in StepCodes :
        step[p][s] \in Decided \cup {"SKIPPED"} /\ status'[p] # "DELETED" =>
          step'[p][s] = step[p][s] /\ decider'[p][s] = decider[p][s]
<1>1. TypeOK /\ RouteMatchesStatus /\ [Next]_vars => Stands
  <2> SUFFICES ASSUME TypeOK, RouteMatchesStatus, [Next]_vars,
                      NEW q \in Passes, NEW x \in StepCodes,
                      step[q][x] \in Decided \cup {"SKIPPED"}, status'[q] # "DELETED"
               PROVE  step'[q][x] = step[q][x] /\ decider'[q][x] = decider[q][x]
    OBVIOUS
  <2>0. step[q][x] \notin {"NONE", "PENDING"}
    BY DEF Decided
  <2>1. ASSUME UNCHANGED <<step, decider>>
        PROVE  step'[q][x] = step[q][x] /\ decider'[q][x] = decider[q][x]
    BY <2>1
  <2>2. ASSUME NEW p \in Passes, CreateApprovalRoute(p)
        PROVE  step'[q][x] = step[q][x] /\ decider'[q][x] = decider[q][x]
    <3>1. CASE q # p
      BY <2>2, <3>1 DEF TypeOK, CreateApprovalRoute
    <3>2. CASE q = p
      BY <2>0, <2>2, <3>2 DEF CreateApprovalRoute, RouteMatchesStatus, RouteMatches, Exists
    <3>3. QED BY <3>1, <3>2
  <2>3. ASSUME NEW d \in Requests, NEW p \in Passes, NEW s \in StepCodes,
               Approve(d, p, s)
        PROVE  step'[q][x] = step[q][x] /\ decider'[q][x] = decider[q][x]
    <3>1. step[p][s] = "PENDING"
      BY <2>3, DecidedStep DEF Approve
    <3>2. q # p \/ x # s
      BY <2>0, <3>1
    <3>3. QED BY <2>3, <3>2 DEF TypeOK, Approve
  <2>4. ASSUME NEW d \in Requests, NEW p \in Passes, NEW s \in StepCodes,
               Reject(d, p, s)
        PROVE  step'[q][x] = step[q][x] /\ decider'[q][x] = decider[q][x]
    <3>1. step[p][s] = "PENDING" /\ \A t \in LaterPending(p, s) : step[p][t] = "PENDING"
      BY <2>4, DecidedStep DEF Reject, LaterPending
    <3>2. q # p \/ (x # s /\ x \notin LaterPending(p, s))
      BY <2>0, <3>1
    <3>3. QED BY <2>4, <3>2 DEF TypeOK, Reject
  <2>5. ASSUME NEW p \in Passes, Delete(p)
        PROVE  step'[q][x] = step[q][x] /\ decider'[q][x] = decider[q][x]
    <3>1. q # p
      BY <2>5 DEF TypeOK, Delete
    <3>2. QED BY <2>5, <3>1 DEF TypeOK, Delete
  <2>6. QED
    BY <2>1, <2>2, <2>3, <2>4, <2>5
    DEF Next, Create, Decide, CreateDraft, ReserveVehicle, Submit, AbandonCreation,
        ReadContext, DecideUnavailable, Hold, RefuseVehicle, DropCall, PassUnchanged,
        TimeOut, TimeIn, ArchiveUser, RestoreUser, vars
<1>2. TypeOK /\ RouteMatchesStatus /\ [Next]_vars => [Stands]_vars
  BY <1>1
<1>3. QED BY <1>2, TypeCorrect, RouteCorrect, PTL DEF Spec, DecisionsStand
-----------------------------------------------------------------------------
(* Who decides *)

\* The strengthening behind DecidedByRightfulApprover: the steps of a pass name
\* approvers of their office, never the requester, from the lookup on.
Rightful(p) ==
  /\ Exists(p) => \A s \in Route(form[p]) :
                   assigned[p][s] \in Assignees[s] \ {form[p].requester}
  /\ \A s \in StepCodes : step[p][s] \in Decided => decider[p][s] = assigned[p][s]

LEMMA RightfulFrame ==
  ASSUME NEW p \in Passes, Rightful(p),
         form'[p] = form[p], step'[p] = step[p], assigned'[p] = assigned[p],
         decider'[p] = decider[p], Exists(p)' => Exists(p)
  PROVE  Rightful(p)'
BY DEF Rightful

\* Who may act on a step may stand on it: the approver it names, or a PAS
\* noter, who holds the PAS assignment; and never the requester.
LEMMA ActorIsRightful ==
  ASSUME NEW p \in Passes, NEW s \in StepCodes, NEW u, Exists(p), Rightful(p),
         s \in Route(form[p]), CanAct(u, p, s)
  PROVE  /\ u \in Assignees[s] \ {form[p].requester}
         /\ s # "PAS" => u = assigned[p][s]
BY AssigneesAssumption DEF CanAct, Rightful

\* A decision is made by the approver its step names, who holds the step's
\* assignment and did not file the request.
THEOREM ApproverCorrect == Spec => []DecidedByRightfulApprover
<1> DEFINE AllRightful == \A p \in Passes : Rightful(p)
<1>1. Init => AllRightful
  BY DEF Init, Rightful, Exists, Decided
<1>2. TypeOK /\ RouteMatchesStatus /\ AllRightful /\ [Next]_vars => AllRightful'
  <2> SUFFICES ASSUME TypeOK, RouteMatchesStatus, AllRightful, [Next]_vars,
                      NEW q \in Passes
               PROVE  Rightful(q)'
    OBVIOUS
  <2>0. Rightful(q) /\ RouteMatches(q)
    BY DEF RouteMatchesStatus
  <2> HIDE DEF AllRightful
  <2>1. ASSUME UNCHANGED <<form, step, assigned, decider, status>> PROVE Rightful(q)'
    BY <2>0, <2>1, RightfulFrame DEF Exists
  <2>2. ASSUME NEW p \in Passes, NEW f \in FormChoices,
               NEW approvers \in [StepCodes -> Users \cup {NoUser}],
               CreateDraft(p, f, approvers)
        PROVE  Rightful(q)'
    <3>1. CASE q # p
      BY <2>0, <2>2, <3>1, RightfulFrame DEF TypeOK, CreateDraft, Exists
    <3>2. CASE q = p
      <4>1. /\ form'[p] = f /\ assigned'[p] = approvers /\ step' = step
            /\ status[p] = "NONE"
        BY <2>0, <2>2, <3>2 DEF TypeOK, CreateDraft, RouteMatches
      <4>2. \A s \in Route(f) : approvers[s] \in Assignees[s] \ {f.requester}
        BY <2>2, RouteSteps DEF CreateDraft, Candidates
      <4>3. \A s \in StepCodes : step[p][s] = "NONE"
        BY <2>0, <3>2, <4>1 DEF RouteMatches, Exists
      <4>4. QED BY <3>2, <4>1, <4>2, <4>3 DEF Rightful, Decided
    <3>3. QED BY <3>1, <3>2
  <2>3. ASSUME NEW p \in Passes, CreateApprovalRoute(p) PROVE Rightful(q)'
    <3>1. CASE q # p
      BY <2>0, <2>3, <3>1, RightfulFrame DEF TypeOK, CreateApprovalRoute, Exists
    <3>2. CASE q = p
      <4>1. /\ UNCHANGED <<form, assigned, decider, status>>
            /\ \A s \in StepCodes : step'[p][s] \in {"PENDING", "NONE"}
        BY <2>3 DEF TypeOK, CreateApprovalRoute
      <4>2. QED BY <2>0, <3>2, <4>1 DEF Rightful, Decided, Exists
    <3>3. QED BY <3>1, <3>2
  <2>4. ASSUME NEW p \in Passes, Submit(p) \/ TimeOut(p) \/ TimeIn(p) PROVE Rightful(q)'
    <3>1. Exists(q)' => Exists(q)
      BY <2>4 DEF TypeOK, Submit, TimeOut, TimeIn, Exists
    <3>2. QED BY <2>0, <2>4, <3>1, RightfulFrame DEF Submit, TimeOut, TimeIn
  <2>5. ASSUME NEW d \in Requests, NEW p \in Passes, NEW s \in StepCodes, Hold(d, p, s)
        PROVE  Rightful(q)'
    <3>1. Exists(q)' => Exists(q)
      BY <2>5, DecidedStep DEF TypeOK, Hold, Exists
    <3>2. QED BY <2>0, <2>5, <3>1, RightfulFrame DEF Hold
  <2>6. ASSUME NEW d \in Requests, NEW p \in Passes, NEW s \in StepCodes,
               Approve(d, p, s) \/ Reject(d, p, s)
        PROVE  Rightful(q)'
    <3>1. CASE q # p
      BY <2>0, <2>6, <3>1, RightfulFrame DEF TypeOK, Approve, Reject, Exists
    <3>2. CASE q = p
      <4>1. PICK u : /\ Deciding(d, p, s) /\ CanAct(u, p, s)
                     /\ form' = form
                     /\ assigned' = IF s = "PAS" THEN [assigned EXCEPT ![p][s] = u]
                                    ELSE assigned
                     /\ decider' = [decider EXCEPT ![p][s] = u]
        BY <2>6 DEF Approve, Reject, Deciding
      <4>2. \A t \in StepCodes \ {s} : step'[p][t] \in Decided => step'[p][t] = step[p][t]
        BY <2>6 DEF TypeOK, Approve, Reject, Decided
      <4>3. Exists(p) /\ s \in Route(form[p])
        BY <4>1, DecidedStep
      <4>4. /\ u \in Assignees[s] \ {form[p].requester}
            /\ s # "PAS" => u = assigned[p][s]
        BY <2>0, <3>2, <4>1, <4>3, ActorIsRightful
      <4>5. /\ decider'[p][s] = u /\ assigned'[p][s] = u
            /\ \A t \in StepCodes \ {s} : /\ decider'[p][t] = decider[p][t]
                                         /\ assigned'[p][t] = assigned[p][t]
        BY <4>1, <4>4 DEF TypeOK
      <4>6. \A t \in Route(form[p]) :
              assigned'[p][t] \in Assignees[t] \ {form[p].requester}
        BY <2>0, <3>2, <4>3, <4>4, <4>5, RouteSteps DEF Rightful
      <4>7. QED BY <2>0, <3>2, <4>1, <4>2, <4>5, <4>6 DEF Rightful
    <3>3. QED BY <3>1, <3>2
  <2>7. ASSUME NEW p \in Passes, Delete(p) PROVE Rightful(q)'
    <3>1. CASE q # p
      BY <2>0, <2>7, <3>1, RightfulFrame DEF TypeOK, Delete, Exists
    <3>2. CASE q = p
      BY <2>7, <3>2 DEF TypeOK, Delete, Rightful, Exists, Decided
    <3>3. QED BY <3>1, <3>2
  <2>8. QED
    BY <2>1, <2>2, <2>3, <2>4, <2>5, <2>6, <2>7
    DEF Next, Create, Decide, ReserveVehicle, AbandonCreation, ReadContext,
        DecideUnavailable, RefuseVehicle, DropCall, PassUnchanged, ArchiveUser,
        RestoreUser, vars
<1>3. RouteMatchesStatus /\ AllRightful => DecidedByRightfulApprover
  BY DEF RouteMatchesStatus, RouteMatches, Rightful, DecidedByRightfulApprover, Decided
<1>4. QED BY <1>1, <1>2, <1>3, TypeCorrect, RouteCorrect, PTL DEF Spec
-----------------------------------------------------------------------------
(* The vehicle *)

\* The strengthening behind ReservationFollowsPass: until the last approval a
\* reservation is pending, if there is one at all.
ReservationMatches(p) ==
  /\ Exists(p) /\ form[p].company =>
       /\ status[p] = "PENDING_PAS" => resv[p] = "PENDING"
       /\ status[p] = "APPROVED"    => resv[p] = "RESERVED"
       /\ status[p] = "OUTSIDE"     => resv[p] = "IN_USE"
  /\ status[p] \in {"REJECTED", "RETURNED"} => resv[p] \notin Blocking
  /\ ~Exists(p) \/ ~form[p].company => resv[p] = "NONE"
  /\ status[p] \notin Released \cup {"REJECTED"} => resv[p] \in {"NONE", "PENDING"}

LEMMA ReservationFrame ==
  ASSUME NEW p \in Passes, ReservationMatches(p),
         form'[p] = form[p], status'[p] = status[p], resv'[p] = resv[p]
  PROVE  ReservationMatches(p)'
BY DEF ReservationMatches, Exists

\* A company trip waits for PAS only after HRAD has decided: HRAD is before PAS
\* in its route.
LEMMA HradBeforePas ==
  ASSUME RouteMatchesStatus, NEW p \in Passes, NEW s \in StepCodes,
         form[p].company, LaterPending(p, s) = After(p, s)
  PROVE  /\ s = "SUPERIOR" => NextStatus(p, s) = "PENDING_HRAD_ASSIGN"
         /\ s = "HRAD_ASSIGN" => NextStatus(p, s) = "PENDING_PAS"
<1>1. /\ "HRAD_ASSIGN" \in Route(form[p]) /\ "PAS" \in Route(form[p])
      /\ LaterPending(p, s) \in SUBSET StepCodes
  BY DEF Route, LaterPending
<1>2. ASSUME s = "SUPERIOR" PROVE NextStatus(p, s) = "PENDING_HRAD_ASSIGN"
  <2>1. "HRAD_ASSIGN" \in LaterPending(p, s) /\ "SUPERIOR" \notin LaterPending(p, s)
    BY <1>1, <1>2 DEF After, Rank
  <2>2. First(LaterPending(p, s)) = "HRAD_ASSIGN"
    <3>1. /\ First(LaterPending(p, s)) \in StepCodes \ {"SUPERIOR"}
          /\ Rank[First(LaterPending(p, s))] <= Rank["HRAD_ASSIGN"]
      BY <1>1, <2>1, FirstIsLeast
    <3>2. ~(Rank["PAS"] <= Rank["HRAD_ASSIGN"])
      BY DEF Rank
    <3>3. QED BY <3>1, <3>2 DEF StepCodes
  <2>3. QED BY <2>1, <2>2 DEF NextStatus, PendingOf
<1>3. ASSUME s = "HRAD_ASSIGN" PROVE NextStatus(p, s) = "PENDING_PAS"
  <2>1. LaterPending(p, s) = {"PAS"}
    BY <1>1, <1>3 DEF After, Rank, StepCodes
  <2>2. First(LaterPending(p, s)) = "PAS"
    BY <1>1, <2>1, FirstIsLeast
  <2>3. QED BY <2>1, <2>2 DEF NextStatus, PendingOf
<1>4. QED BY <1>2, <1>3

\* The reservation follows the pass: pending while PAS is asked, reserved once
\* released, in use while outside, and no obstacle after a rejection or return.
THEOREM ReservationCorrect == Spec => []ReservationFollowsPass
<1> DEFINE AllMatch == \A p \in Passes : ReservationMatches(p)
<1>1. Init => AllMatch
  BY DEF Init, ReservationMatches, Exists, Released
<1>2. TypeOK /\ RouteMatchesStatus /\ AllMatch /\ [Next]_vars => AllMatch'
  <2> SUFFICES ASSUME TypeOK, RouteMatchesStatus, AllMatch, [Next]_vars,
                      NEW q \in Passes
               PROVE  ReservationMatches(q)'
    OBVIOUS
  <2>0. ReservationMatches(q) /\ RouteMatches(q)
    BY DEF RouteMatchesStatus
  <2> HIDE DEF AllMatch
  <2>1. ASSUME UNCHANGED <<form, status, resv>> PROVE ReservationMatches(q)'
    BY <2>0, <2>1, ReservationFrame
  <2>2. ASSUME NEW p \in Passes, NEW f \in FormChoices,
               NEW approvers \in [StepCodes -> Users \cup {NoUser}],
               CreateDraft(p, f, approvers)
        PROVE  ReservationMatches(q)'
    <3>1. CASE q # p
      BY <2>0, <2>2, <3>1, ReservationFrame DEF TypeOK, CreateDraft
    <3>2. CASE q = p
      <4>1. status[p] = "NONE" /\ status'[p] = "DRAFT" /\ resv' = resv
        BY <2>0, <2>2, <3>2 DEF TypeOK, CreateDraft, RouteMatches
      <4>2. resv[p] = "NONE"
        BY <2>0, <3>2, <4>1 DEF ReservationMatches, Exists
      <4>3. QED BY <3>2, <4>1, <4>2 DEF ReservationMatches, Exists, Released
    <3>3. QED BY <3>1, <3>2
  <2>3. ASSUME NEW p \in Passes, ReserveVehicle(p) PROVE ReservationMatches(q)'
    <3>1. CASE q # p
      BY <2>0, <2>3, <3>1, ReservationFrame DEF TypeOK, ReserveVehicle
    <3>2. CASE q = p
      <4>1. /\ status[p] = "DRAFT" /\ UNCHANGED <<status, form>>
            /\ resv'[p] = "PENDING" /\ form[p].vehicle
        BY <2>3 DEF TypeOK, ReserveVehicle
      <4>2. form[p].company
        BY <2>0, <3>2, <4>1 DEF TypeOK, RouteMatches, Exists, ValidForms
      <4>3. QED BY <3>2, <4>1, <4>2 DEF ReservationMatches, Exists
    <3>3. QED BY <3>1, <3>2
  <2>4. ASSUME NEW p \in Passes, Submit(p) PROVE ReservationMatches(q)'
    <3>1. CASE q # p
      BY <2>0, <2>4, <3>1, ReservationFrame DEF TypeOK, Submit
    <3>2. CASE q = p
      <4>0. PICK first \in StepCodes : first = First(Route(form[p]))
        BY RouteSteps, FirstIsLeast
      <4>1. /\ status[p] = "DRAFT" /\ status'[p] = PendingOf[first]
            /\ UNCHANGED <<resv, form>>
        BY <2>4, <4>0 DEF TypeOK, Submit
      <4>2. form[p].company => first # "PAS"
        <5>1. ASSUME form[p].company
              PROVE  Rank[first] <= Rank["HRAD_ASSIGN"]
          BY <4>0, <5>1, RouteSteps, FirstIsLeast DEF Route
        <5>2. QED BY <5>1 DEF Rank
      <4>3. /\ status'[p] \notin Released \cup {"REJECTED", "DRAFT", "NONE", "DELETED"}
            /\ status'[p] = "PENDING_PAS" => first = "PAS"
        BY <4>1, PendingStatuses DEF StepCodes, PendingOf
      <4>4. QED BY <2>0, <3>2, <4>1, <4>2, <4>3 DEF ReservationMatches, Exists, Released
    <3>3. QED BY <3>1, <3>2
  <2>5. ASSUME NEW d \in Requests, NEW p \in Passes, NEW s \in StepCodes, Hold(d, p, s)
        PROVE  ReservationMatches(q)'
    <3>1. CASE q # p
      BY <2>0, <2>5, <3>1, ReservationFrame DEF TypeOK, Hold
    <3>2. CASE q = p
      <4>1. status'[p] = "ON_HOLD" /\ UNCHANGED <<resv, form>>
        BY <2>5 DEF TypeOK, Hold
      <4>2. Exists(p) /\ status[p] \notin Released \cup {"REJECTED"}
        BY <2>5, DecidedStep, PendingStatuses DEF Hold, Released
      <4>3. QED BY <2>0, <3>2, <4>1, <4>2 DEF ReservationMatches, Exists, Released
    <3>3. QED BY <3>1, <3>2
  <2>6. ASSUME NEW d \in Requests, NEW p \in Passes, NEW s \in StepCodes,
               Approve(d, p, s)
        PROVE  ReservationMatches(q)'
    <3>1. CASE q # p
      BY <2>0, <2>6, <3>1, ReservationFrame DEF TypeOK, Approve
    <3>2. CASE q = p
      <4> DEFINE booked == IF s = "HRAD_ASSIGN" THEN "PENDING" ELSE resv[p]
      <4>1. /\ Deciding(d, p, s) /\ form' = form
            /\ s = "HRAD_ASSIGN" => form[p].company
            /\ status'[p] = NextStatus(p, s)
            /\ resv'[p] = Settled(booked, NextStatus(p, s))
        BY <2>6 DEF TypeOK, Approve
      <4>2. /\ Exists(p) /\ status[p] \notin Released \cup {"REJECTED"}
            /\ s = "PAS" => status[p] = "PENDING_PAS"
            /\ LaterPending(p, s) = After(p, s)
        BY <4>1, DecidedStep, PendingStatuses DEF Released, PendingOf
      <4>3. resv[p] \in {"NONE", "PENDING"}
        BY <2>0, <3>2, <4>2 DEF ReservationMatches
      <4>4. /\ NextStatus(p, s) \in PassStatuses \ {"NONE", "DRAFT", "REJECTED", "DELETED",
                                                  "OUTSIDE", "RETURNED", "CLOSED"}
        <5>1. LaterPending(p, s) # {} =>
                PendingOf[First(LaterPending(p, s))] \in PassStatuses \ (Released \cup
                   {"NONE", "DRAFT", "ON_HOLD", "REJECTED", "DELETED"})
          BY FirstIsLeast, PendingStatuses DEF LaterPending
        <5>2. QED BY <5>1 DEF NextStatus, PassStatuses, Released
      <4>5. CASE ~form[p].company
        <5>1. resv[p] = "NONE" /\ booked = "NONE"
          BY <2>0, <3>2, <4>1, <4>5 DEF ReservationMatches
        <5>2. resv'[p] = "NONE"
          BY <4>1, <5>1 DEF Settled
        <5>3. QED BY <3>2, <4>1, <4>4, <4>5, <5>2 DEF ReservationMatches
      <4>6. CASE form[p].company /\ s = "PAS"
        <5>1. resv[p] = "PENDING" /\ booked = "PENDING"
          BY <2>0, <3>2, <4>2, <4>6 DEF ReservationMatches
        <5>2. LaterPending(p, s) = {}
          BY <4>6 DEF LaterPending, StepCodes, Rank
        <5>3. NextStatus(p, s) = "APPROVED"
          BY <5>2 DEF NextStatus
        <5>4. resv'[p] = "RESERVED"
          BY <4>1, <5>1, <5>3 DEF Settled
        <5>5. QED BY <3>2, <4>1, <4>6, <5>3, <5>4 DEF ReservationMatches, Exists, Released
      <4>7. CASE form[p].company /\ s # "PAS"
        <5>1. /\ s = "SUPERIOR" => NextStatus(p, s) = "PENDING_HRAD_ASSIGN"
              /\ s = "HRAD_ASSIGN" => NextStatus(p, s) = "PENDING_PAS"
          BY <4>2, <4>7, HradBeforePas
        <5>2. resv'[p] = booked /\ booked \in {"NONE", "PENDING"}
          BY <4>1, <4>3, <4>7, <5>1 DEF Settled, StepCodes
        <5>3. QED BY <3>2, <4>1, <4>7, <5>1, <5>2 DEF ReservationMatches, Exists, StepCodes
      <4>8. QED BY <4>5, <4>6, <4>7
    <3>3. QED BY <3>1, <3>2
  <2>7. ASSUME NEW d \in Requests, NEW p \in Passes, NEW s \in StepCodes, Reject(d, p, s)
        PROVE  ReservationMatches(q)'
    <3>1. CASE q # p
      BY <2>0, <2>7, <3>1, ReservationFrame DEF TypeOK, Reject
    <3>2. CASE q = p
      <4>1. /\ Deciding(d, p, s) /\ form' = form /\ status'[p] = "REJECTED"
            /\ resv'[p] = Settled(resv[p], "REJECTED")
        BY <2>7 DEF TypeOK, Reject
      <4>2. Exists(p) /\ status[p] \notin Released \cup {"REJECTED"}
        BY <4>1, DecidedStep, PendingStatuses DEF Released
      <4>3. /\ resv[p] \in {"NONE", "PENDING"}
            /\ ~form[p].company => resv[p] = "NONE"
        BY <2>0, <3>2, <4>2 DEF ReservationMatches
      <4>4. /\ resv'[p] \in {"NONE", "CANCELLED"}
            /\ ~form[p].company => resv'[p] = "NONE"
        BY <4>1, <4>3 DEF Settled
      <4>5. QED BY <3>2, <4>1, <4>4 DEF ReservationMatches, Exists, Blocking
    <3>3. QED BY <3>1, <3>2
  <2>8. ASSUME NEW p \in Passes, TimeOut(p) \/ TimeIn(p) PROVE ReservationMatches(q)'
    <3>1. CASE q # p
      BY <2>0, <2>8, <3>1, ReservationFrame
         DEF TypeOK, TimeOut, TimeIn, MoveReservations
    <3>2. CASE q = p
      BY <2>0, <2>8, <3>2
         DEF TypeOK, TimeOut, TimeIn, MoveReservations, ReservationMatches, Exists,
             Released, Blocking
    <3>3. QED BY <3>1, <3>2
  <2>9. ASSUME NEW p \in Passes, Delete(p) PROVE ReservationMatches(q)'
    <3>1. CASE q # p
      BY <2>0, <2>9, <3>1, ReservationFrame DEF TypeOK, Delete
    <3>2. CASE q = p
      BY <2>9, <3>2 DEF TypeOK, Delete, ReservationMatches, Exists, Released
    <3>3. QED BY <3>1, <3>2
  <2>10. QED
    BY <2>1, <2>2, <2>3, <2>4, <2>5, <2>6, <2>7, <2>8, <2>9
    DEF Next, Create, Decide, CreateApprovalRoute, AbandonCreation, ReadContext,
        DecideUnavailable, RefuseVehicle, DropCall, PassUnchanged, ArchiveUser,
        RestoreUser, vars
<1>3. AllMatch => ReservationFollowsPass
  BY DEF ReservationMatches, ReservationFollowsPass
<1>4. QED BY <1>1, <1>2, <1>3, TypeCorrect, RouteCorrect, PTL DEF Spec
-----------------------------------------------------------------------------
(* The workflow implements the contract *)

\* The statuses that wait for a decision.
Waited == {"PENDING_SUPERIOR", "PENDING_HRAD_ASSIGN", "PENDING_PAS", "ON_HOLD"}

LEMMA Phases ==
  /\ Phase("NONE") = "none" /\ Phase("DRAFT") = "none"
  /\ Phase("DELETED") = "erased" /\ Phase("REJECTED") = "refused"
  /\ Phase("APPROVED") = "cleared" /\ Phase("OUTSIDE") = "outside"
  /\ Phase("RETURNED") = "over" /\ Phase("CLOSED") = "over"
  /\ \A st \in Waited : Phase(st) = "collecting"
BY DEF Phase, Waited

\* What a step leaves alone maps to what it was.
LEMMA BarFrame ==
  ASSUME NEW q \in Passes, form'[q] = form[q], status'[q] = status[q], step'[q] = step[q]
  PROVE  phaseBar'[q] = phaseBar[q] /\ needBar'[q] = needBar[q] /\ gotBar'[q] = gotBar[q]
BY DEF phaseBar, needBar, gotBar, Opened, Exists

LEMMA BarDomains ==
  /\ phaseBar = [q \in Passes |-> phaseBar[q]]
  /\ needBar = [q \in Passes |-> needBar[q]]
  /\ gotBar = [q \in Passes |-> gotBar[q]]
BY DEF phaseBar, needBar, gotBar

\* Updating one pass is an EXCEPT on the mapped state.
LEMMA BarStep ==
  ASSUME NEW p \in Passes,
         \A q \in Passes \ {p} : /\ form'[q] = form[q]
                                 /\ status'[q] = status[q]
                                 /\ step'[q] = step[q]
  PROVE  /\ phaseBar' = [phaseBar EXCEPT ![p] = phaseBar'[p]]
         /\ needBar' = [needBar EXCEPT ![p] = needBar'[p]]
         /\ gotBar' = [gotBar EXCEPT ![p] = gotBar'[p]]
<1>1. /\ phaseBar' = [q \in Passes |-> phaseBar'[q]]
      /\ needBar' = [q \in Passes |-> needBar'[q]]
      /\ gotBar' = [q \in Passes |-> gotBar'[q]]
  BY DEF phaseBar, needBar, gotBar
<1>2. QED BY <1>1, BarFrame, BarDomains

\* A pass whose mapped state does not change stutters.
LEMMA BarStutter ==
  ASSUME NEW p \in Passes,
         \A q \in Passes \ {p} : /\ form'[q] = form[q]
                                 /\ status'[q] = status[q]
                                 /\ step'[q] = step[q],
         phaseBar'[p] = phaseBar[p], needBar'[p] = needBar[p], gotBar'[p] = gotBar[p]
  PROVE  UNCHANGED <<phaseBar, needBar, gotBar>>
BY BarFrame DEF phaseBar, needBar, gotBar

\* A request is cleared by the consent of every office of its route and by
\* nothing else; refused, it stays refused; only a cleared one leaves, and only
\* one that left returns.
THEOREM ContractCorrect == Spec => ImplementsContract
<1>1. Init => Contract!Init
  BY Phases DEF Init, Contract!Init, phaseBar, needBar, gotBar, Opened, Exists
<1>2. TypeOK /\ RouteMatchesStatus /\ [Next]_vars
        => [Contract!Next]_<<phaseBar, needBar, gotBar>>
  <2> SUFFICES ASSUME TypeOK, RouteMatchesStatus, [Next]_vars
               PROVE  Contract!Next \/ UNCHANGED <<phaseBar, needBar, gotBar>>
    OBVIOUS
  <2>1. ASSUME UNCHANGED <<form, status, step>>
        PROVE  UNCHANGED <<phaseBar, needBar, gotBar>>
    BY <2>1 DEF phaseBar, needBar, gotBar, Opened, Exists
  <2>2. ASSUME NEW p \in Passes, NEW f \in FormChoices,
               NEW approvers \in [StepCodes -> Users \cup {NoUser}],
               CreateDraft(p, f, approvers)
        PROVE  UNCHANGED <<phaseBar, needBar, gotBar>>
    <3>1. status[p] = "NONE" /\ status'[p] = "DRAFT" /\ step' = step
      BY <2>2 DEF TypeOK, CreateDraft, RouteMatchesStatus, RouteMatches
    <3>2. phaseBar'[p] = phaseBar[p] /\ needBar'[p] = needBar[p] /\ gotBar'[p] = gotBar[p]
      BY <3>1, Phases DEF phaseBar, needBar, gotBar, Opened, Exists
    <3>3. QED BY <2>2, <3>2, BarStutter DEF TypeOK, CreateDraft
  <2>3. ASSUME NEW p \in Passes, CreateApprovalRoute(p)
        PROVE  UNCHANGED <<phaseBar, needBar, gotBar>>
    <3>1. /\ status[p] = "DRAFT" /\ UNCHANGED <<form, status>>
          /\ \A s \in StepCodes : step'[p][s] # "APPROVED"
      BY <2>3 DEF TypeOK, CreateApprovalRoute
    <3>2. \A s \in StepCodes : step[p][s] # "APPROVED"
      BY <3>1 DEF RouteMatchesStatus, RouteMatches, Exists
    <3>3. phaseBar'[p] = phaseBar[p] /\ needBar'[p] = needBar[p] /\ gotBar'[p] = gotBar[p]
      BY <3>1, <3>2 DEF phaseBar, needBar, gotBar, Opened, Exists
    <3>4. QED BY <2>3, <3>3, BarStutter DEF TypeOK, CreateApprovalRoute
  <2>4. ASSUME NEW p \in Passes, Submit(p) PROVE Contract!Next
    <3>0. PICK first \in StepCodes : first = First(Route(form[p]))
      BY RouteSteps, FirstIsLeast
    <3>1. /\ status[p] = "DRAFT" /\ status'[p] = PendingOf[first] /\ UNCHANGED <<form, step>>
      BY <2>4, <3>0 DEF TypeOK, Submit
    <3>2. status'[p] \in Waited
      BY <3>1 DEF Waited, PendingOf, StepCodes
    <3>3. /\ phaseBar[p] = "none" /\ phaseBar'[p] = "collecting"
          /\ needBar'[p] = Route(form[p]) /\ gotBar' = gotBar
      BY <3>1, <3>2, Phases DEF phaseBar, needBar, gotBar, Opened, Exists, Waited
    <3>4. /\ phaseBar' = [phaseBar EXCEPT ![p] = "collecting"]
          /\ needBar' = [needBar EXCEPT ![p] = Route(form[p])]
      BY <2>4, <3>3, BarStep DEF TypeOK, Submit
    <3>5. Route(form[p]) \in (SUBSET StepCodes) \ {{}}
      BY RouteSteps
    <3>6. QED BY <3>3, <3>4, <3>5 DEF Contract!Next, Contract!Open
  <2>5. ASSUME NEW d \in Requests, NEW p \in Passes, NEW s \in StepCodes, Hold(d, p, s)
        PROVE  UNCHANGED <<phaseBar, needBar, gotBar>>
    <3>1. status'[p] = "ON_HOLD" /\ UNCHANGED <<form, step>>
      BY <2>5 DEF TypeOK, Hold
    <3>2. status[p] \in Waited
      BY <2>5, DecidedStep DEF Hold, Waited, PendingOf, StepCodes
    <3>3. phaseBar'[p] = phaseBar[p] /\ needBar'[p] = needBar[p] /\ gotBar'[p] = gotBar[p]
      BY <3>1, <3>2, Phases DEF phaseBar, needBar, gotBar, Opened, Exists, Waited
    <3>4. QED BY <2>5, <3>3, BarStutter DEF TypeOK, Hold
  <2>6. ASSUME NEW d \in Requests, NEW p \in Passes, NEW s \in StepCodes, Approve(d, p, s)
        PROVE  Contract!Next
    <3>1. /\ Deciding(d, p, s) /\ form' = form /\ status'[p] = NextStatus(p, s)
          /\ step'[p][s] = "APPROVED"
          /\ \A t \in StepCodes \ {s} : step'[p][t] = step[p][t]
      BY <2>6 DEF TypeOK, Approve
    <3>2. /\ s \in Route(form[p]) /\ step[p][s] = "PENDING"
          /\ \A t \in Before(p, s) : step[p][t] = "APPROVED"
          /\ \A t \in After(p, s) : step[p][t] = "PENDING"
          /\ LaterPending(p, s) = After(p, s) /\ status[p] \in Waited
      BY <3>1, DecidedStep DEF Waited, PendingOf, StepCodes
    <3>3. \A t \in StepCodes \ Route(form[p]) : step[p][t] = "NONE"
      BY <3>2 DEF RouteMatchesStatus, RouteMatches, Exists, Waited
    <3>4. \A t \in Route(form[p]) : t \in Before(p, s) \/ t = s \/ t \in After(p, s)
      BY RouteSteps DEF Before, After, StepCodes, Rank
    <3>5. gotBar'[p] = gotBar[p] \cup {s} /\ s \notin gotBar[p]
      BY <3>1, <3>2 DEF gotBar
    <3>6. /\ After(p, s) = {} => gotBar'[p] = Route(form[p])
          /\ After(p, s) # {} => gotBar'[p] # Route(form[p])
      <4>1. \A t \in After(p, s) : t \in Route(form[p]) /\ t # s
        BY RouteSteps DEF After, StepCodes, Rank
      <4>2. \A t \in After(p, s) : t \notin gotBar'[p]
        BY <3>2, <3>5, <4>1 DEF gotBar
      <4>3. gotBar'[p] \subseteq Route(form[p])
        BY <3>2, <3>3, <3>5 DEF gotBar
      <4>4. After(p, s) = {} => Route(form[p]) \subseteq gotBar'[p]
        BY <3>2, <3>4, <3>5, RouteSteps DEF gotBar
      <4>5. QED BY <4>1, <4>2, <4>3, <4>4
    <3>7. /\ After(p, s) = {} => status'[p] = "APPROVED"
          /\ After(p, s) # {} => status'[p] \in Waited
      <4>1. ASSUME After(p, s) # {} PROVE PendingOf[First(LaterPending(p, s))] \in Waited
        <5>1. First(LaterPending(p, s)) \in StepCodes
          BY <3>2, <4>1, FirstIsLeast DEF LaterPending
        <5>2. QED BY <5>1 DEF StepCodes, PendingOf, Waited
      <4>2. QED BY <3>1, <3>2, <4>1 DEF NextStatus
    <3>8. /\ phaseBar[p] = "collecting" /\ needBar[p] = Route(form[p])
          /\ needBar'[p] = needBar[p]
          /\ phaseBar'[p] = IF gotBar'[p] = needBar[p] THEN "cleared" ELSE phaseBar[p]
      BY <3>1, <3>2, <3>6, <3>7, Phases DEF phaseBar, needBar, Opened, Exists, Waited
    <3>9. /\ phaseBar' = [phaseBar EXCEPT ![p] = phaseBar'[p]]
          /\ needBar' = [needBar EXCEPT ![p] = needBar'[p]]
          /\ gotBar' = [gotBar EXCEPT ![p] = gotBar'[p]]
      BY <2>6, BarStep DEF TypeOK, Approve
    <3>10. /\ s \in needBar[p] \ gotBar[p] /\ needBar' = needBar
           /\ gotBar' = [gotBar EXCEPT ![p] = @ \cup {s}]
           /\ phaseBar' = [phaseBar EXCEPT ![p] =
                             IF gotBar'[p] = needBar[p] THEN "cleared" ELSE @]
      BY <3>2, <3>5, <3>8, <3>9, BarDomains
    <3>11. QED BY <3>8, <3>10 DEF Contract!Next, Contract!Consent
  <2>7. ASSUME NEW d \in Requests, NEW p \in Passes, NEW s \in StepCodes, Reject(d, p, s)
        PROVE  Contract!Next
    <3>1. /\ Deciding(d, p, s) /\ form' = form /\ status'[p] = "REJECTED"
          /\ \A t \in StepCodes : step'[p][t] =
               IF t = s THEN "REJECTED"
               ELSE IF t \in LaterPending(p, s) THEN "SKIPPED" ELSE step[p][t]
      BY <2>7 DEF TypeOK, Reject
    <3>2. step[p][s] = "PENDING" /\ status[p] \in Waited
      BY <3>1, DecidedStep DEF Waited, PendingOf, StepCodes
    <3>3. gotBar'[p] = gotBar[p]
      BY <3>1, <3>2 DEF gotBar, LaterPending
    <3>4. phaseBar[p] = "collecting" /\ phaseBar'[p] = "refused" /\ needBar'[p] = needBar[p]
      BY <3>1, <3>2, Phases DEF phaseBar, needBar, Opened, Exists, Waited
    <3>5. /\ phaseBar' = [phaseBar EXCEPT ![p] = "refused"]
          /\ needBar' = needBar /\ gotBar' = gotBar
      <4>1. /\ phaseBar' = [phaseBar EXCEPT ![p] = phaseBar'[p]]
            /\ needBar' = [needBar EXCEPT ![p] = needBar'[p]]
            /\ gotBar' = [gotBar EXCEPT ![p] = gotBar'[p]]
        BY <2>7, BarStep DEF TypeOK, Reject
      <4>2. QED BY <3>3, <3>4, <4>1, BarDomains
    <3>6. QED BY <3>4, <3>5 DEF Contract!Next, Contract!Refuse
  <2>8. ASSUME NEW p \in Passes, TimeOut(p) \/ TimeIn(p) PROVE Contract!Next
    <3>1. /\ UNCHANGED <<form, step>>
          /\ \/ status[p] = "APPROVED" /\ status'[p] \in {"OUTSIDE", "CLOSED"}
             \/ status[p] = "OUTSIDE" /\ status'[p] = "RETURNED"
      BY <2>8 DEF TypeOK, TimeOut, TimeIn
    <3>2. /\ \/ phaseBar[p] = "cleared" /\ phaseBar'[p] \in {"outside", "over"}
             \/ phaseBar[p] = "outside" /\ phaseBar'[p] = "over"
          /\ needBar'[p] = needBar[p] /\ gotBar' = gotBar
      BY <3>1, Phases DEF phaseBar, needBar, gotBar, Opened, Exists
    <3>3. phaseBar' = [phaseBar EXCEPT ![p] = phaseBar'[p]] /\ needBar' = needBar
      BY <2>8, <3>2, BarStep, BarDomains DEF TypeOK, TimeOut, TimeIn
    <3>4. QED BY <3>2, <3>3 DEF Contract!Next, Contract!Leave, Contract!Return
  <2>9. ASSUME NEW p \in Passes, Delete(p) PROVE Contract!Next
    <3>1. /\ status[p] \in PassStatuses \ {"DELETED"} /\ status'[p] = "DELETED"
          /\ \A s \in StepCodes : step'[p][s] = "NONE"
      BY <2>9 DEF TypeOK, Delete
    <3>2. /\ phaseBar[p] # "erased" /\ phaseBar'[p] = "erased"
          /\ needBar'[p] = {} /\ gotBar'[p] = {}
      BY <3>1, Phases DEF phaseBar, needBar, gotBar, Opened, Exists, PassStatuses, Waited
    <3>3. /\ phaseBar' = [phaseBar EXCEPT ![p] = "erased"]
          /\ needBar' = [needBar EXCEPT ![p] = {}]
          /\ gotBar' = [gotBar EXCEPT ![p] = {}]
      BY <2>9, <3>2, BarStep DEF TypeOK, Delete
    <3>4. QED BY <3>2, <3>3 DEF Contract!Next, Contract!Erase
  <2>10. QED
    BY <2>1, <2>2, <2>3, <2>4, <2>5, <2>6, <2>7, <2>8, <2>9
    DEF Next, Create, Decide, ReserveVehicle, AbandonCreation, ReadContext,
        DecideUnavailable, RefuseVehicle, DropCall, PassUnchanged, ArchiveUser,
        RestoreUser, vars
<1>3. QED
  BY <1>1, <1>2, TypeCorrect, RouteCorrect, PTL
  DEF Spec, ImplementsContract, Contract!Spec, Contract!contractVars
=============================================================================
