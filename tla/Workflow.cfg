CONSTANTS
  emp = emp
  sup = sup
  ro = ro
  joy = joy
  pas = pas
  NoUser = NoUser
  NoForm = NoForm
  NoCall = NoCall
  Passes = {1}
  Users <- MCUsers
  Superiors <- MCSuperiors
  Assignees <- MCAssignees
  PasNoters <- MCPasNoters
  FleetManagers <- MCFleetManagers
  Archivable <- MCArchivable
  FormChoices <- MCForms
  Requests = {r1, r2}
  Choices <- MCChoices
SYMMETRY RequestSymmetry
SPECIFICATION Spec
INVARIANTS TypeOK ReleasedOnlyWhenApproved DecidedByRightfulApprover DecidedInOrder ReservationFollowsPass RouteMatchesStatus
PROPERTIES DecisionsStand ImplementsContract
