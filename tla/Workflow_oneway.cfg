CONSTANTS
  emp = emp
  sup = sup
  ro = ro
  joy = joy
  pas = pas
  NoUser = NoUser
  NoForm = NoForm
  NoCall = NoCall
  Passes = {1}
  Users <- MCUsers
  Superiors <- MCSuperiors
  Assignees <- MCAssignees
  PasNoters <- MCPasNoters
  FleetManagers <- MCFleetManagers
  Archivable <- MCNobody
  FormChoices <- MCForms
  Requests = {r1}
  Choices <- MCChoices
SPECIFICATION Spec
INVARIANTS VehicleFreeWhenTripIsOver
CHECK_DEADLOCK FALSE
