-------------------------- MODULE GatePassContract --------------------------
(***************************************************************************)
(* What the approval workflow promises, without its mechanism: a request   *)
(* is opened with a set of offices that must consent; it is cleared by the *)
(* consent of the last of them and by nothing else; a refusal ends it;     *)
(* only a cleared request leaves, and only one that left returns.          *)
(***************************************************************************)
CONSTANTS Passes, Offices
VARIABLES phase, need, got

contractVars == <<phase, need, got>>

Init ==
  /\ phase = [p \in Passes |-> "none"]
  /\ need = [p \in Passes |-> {}]
  /\ got = [p \in Passes |-> {}]

\* The request is submitted; its offices are fixed.
Open(p) ==
  /\ phase[p] = "none"
  /\ \E R \in (SUBSET Offices) \ {{}} : need' = [need EXCEPT ![p] = R]
  /\ phase' = [phase EXCEPT ![p] = "collecting"]
  /\ UNCHANGED got

Consent(p, o) ==
  /\ phase[p] = "collecting"
  /\ o \in need[p] \ got[p]
  /\ got' = [got EXCEPT ![p] = @ \cup {o}]
  /\ phase' = [phase EXCEPT ![p] = IF got'[p] = need[p] THEN "cleared" ELSE @]
  /\ UNCHANGED need

Refuse(p) ==
  /\ phase[p] = "collecting"
  /\ phase' = [phase EXCEPT ![p] = "refused"]
  /\ UNCHANGED <<need, got>>

Leave(p) ==
  /\ phase[p] = "cleared"
  /\ \E x \in {"outside", "over"} : phase' = [phase EXCEPT ![p] = x]
  /\ UNCHANGED <<need, got>>

Return(p) ==
  /\ phase[p] = "outside"
  /\ phase' = [phase EXCEPT ![p] = "over"]
  /\ UNCHANGED <<need, got>>

\* The record is erased.
Erase(p) ==
  /\ phase[p] # "erased"
  /\ phase' = [phase EXCEPT ![p] = "erased"]
  /\ need' = [need EXCEPT ![p] = {}]
  /\ got' = [got EXCEPT ![p] = {}]

Next == \E p \in Passes :
  \/ Open(p) \/ Refuse(p) \/ Leave(p) \/ Return(p) \/ Erase(p)
  \/ \E o \in Offices : Consent(p, o)

Spec == Init /\ [][Next]_contractVars
=============================================================================
