------------------------- MODULE GatePassRefinement -------------------------
(***************************************************************************)
(* GatePassWorkflow implements GatePassContract: the approval steps are    *)
(* the offices, the route fixed at submission is what must consent.        *)
(***************************************************************************)
EXTENDS GatePassWorkflow

Opened(p) == Exists(p) /\ status[p] # "DRAFT"

Phase(st) ==
  CASE st \in {"NONE", "DRAFT"}       -> "none"
    [] st = "DELETED"                 -> "erased"
    [] st = "REJECTED"                -> "refused"
    [] st = "APPROVED"                -> "cleared"
    [] st = "OUTSIDE"                 -> "outside"
    [] st \in {"RETURNED", "CLOSED"}  -> "over"
    [] OTHER                          -> "collecting"

phaseBar == [p \in Passes |-> Phase(status[p])]

needBar == [p \in Passes |-> IF Opened(p) THEN Route(form[p]) ELSE {}]

gotBar == [p \in Passes |-> {s \in StepCodes : step[p][s] = "APPROVED"}]

Contract == INSTANCE GatePassContract
  WITH Offices <- StepCodes, phase <- phaseBar, need <- needBar, got <- gotBar

\* Every behaviour of the workflow is one the contract allows: a request is
\* cleared by the consent of every office of its route and by nothing else,
\* whatever interleaves, fails half-way, is held, repeated or deleted.
ImplementsContract == Contract!Spec
=============================================================================
