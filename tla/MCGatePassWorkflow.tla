------------------------- MODULE MCGatePassWorkflow -------------------------
(* Instances of GatePassWorkflow for TLC. *)
EXTENDS GatePassRefinement, TLC

CONSTANTS emp, sup, ro, joy, pas

\* An employee, a superior who also notes for PAS, two HRAD assigners of whom
\* one is a superior too, and a PAS noter.  Each may file a request.
MCUsers == {emp, sup, ro, joy, pas}
MCSuperiors == {sup, ro}
MCAssignees == [SUPERIOR |-> {sup, ro}, HRAD_ASSIGN |-> {ro, joy}, PAS |-> {pas, sup}]
MCPasNoters == {pas, sup}
MCFleetManagers == {ro, joy}
MCArchivable == {sup, ro}
MCNobody == {}

\* Forms: with a vehicle named or left to HRAD, without one, one way or with
\* a return, and a material form.
Form(u, material, company, vehicle, returns) ==
  [requester |-> u, material |-> material, company |-> company,
   vehicle |-> vehicle, returns |-> returns]
MCForms == {Form(emp, FALSE, TRUE, TRUE, TRUE), Form(emp, FALSE, TRUE, FALSE, FALSE),
            Form(ro, FALSE, TRUE, TRUE, FALSE), Form(pas, FALSE, FALSE, FALSE, TRUE),
            Form(sup, TRUE, TRUE, FALSE, FALSE)}

Choice(approve, hold, vehicle) ==
  [approve |-> approve, hold |-> hold, vehicle |-> vehicle]
MCChoices == {Choice(TRUE, FALSE, TRUE), Choice(TRUE, FALSE, FALSE),
              Choice(FALSE, FALSE, FALSE), Choice(FALSE, TRUE, FALSE), Choice(TRUE, TRUE, TRUE)}

RequestSymmetry == Permutations(Requests)
=============================================================================
