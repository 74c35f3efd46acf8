------------------------------ MODULE GateScan ------------------------------
(***************************************************************************)
(* The scanner at the gate: which pass a scanned code resolves to, the     *)
(* cooldown, the expiry of a pass's QR code, and the two scans that record *)
(* a pass's way out and back (SecurityService.ScanAsync and                *)
(* SecurityRepository.ScanAsync).                                          *)
(*                                                                         *)
(* A scan is one transaction that begins by locking the scan statuses and  *)
(* the request rows it reads, so it is one action.  Time is kept as ages   *)
(* and remaining lives that saturate, so that it can run for ever.  The    *)
(* approval of a pass is one action here; GatePassWorkflow has its steps.  *)
(***************************************************************************)
EXTENDS Naturals

CONSTANTS
  Passes,        \* a finite set of naturals: gate_pass_id
  Employees,
  Carriers,      \* [Passes -> SUBSET Employees]: requester and authorized carrier
  Returns,       \* [Passes -> BOOLEAN]: will_return
  ExpectedOut,   \* [Passes -> Nat]: expected_out_at
  Codes,         \* the codes that get scanned (a subset of AllCodes)
  Cooldown,      \* ScanCooldownSeconds, in ticks
  QrLife         \* the seven days a QR code is valid, in ticks

\* A code: the pass's QR token, a carrier's badge ("EMP1."), or the pass's
\* number typed by hand.
AllCodes == [how : {"qr", "number"}, of : Passes] \cup [how : {"badge"}, of : Employees]

ASSUME PassesAssumption == Passes \subseteq Nat
ASSUME AttributesAssumption ==
         /\ Carriers \in [Passes -> SUBSET Employees]
         /\ Returns \in [Passes -> BOOLEAN]
         /\ ExpectedOut \in [Passes -> Nat]
ASSUME TimesAssumption == Cooldown \in Nat \ {0} /\ QrLife \in Nat \ {0}
ASSUME CodesAssumption == Codes \subseteq AllCodes

VARIABLES
  status,   \* gate_pass_status_code, from the last approval on
  qrLeft,   \* ticks until qr_expires_at has passed; 0 once it has
  age,      \* ticks since the last scan row of each code, up to Cooldown + 1
  outAge,   \* ticks since the time out of each pass, up to Cooldown + 1
  outBy,    \* provided_identifier_hash of the scan row of the time out
  inBy,     \* the same of the time in
  stay      \* outAge when the time in was recorded

vars == <<status, qrLeft, age, outAge, outBy, inBy, stay>>

NoCode == [how |-> "none", of |-> 0]

Init ==
  /\ status = [p \in Passes |-> "PENDING_PAS"]
  /\ qrLeft = [p \in Passes |-> 0]
  /\ age = [c \in Codes |-> Cooldown + 1]
  /\ outAge = [p \in Passes |-> 0]
  /\ outBy = [p \in Passes |-> NoCode]
  /\ inBy = [p \in Passes |-> NoCode]
  /\ stay = [p \in Passes |-> 0]
-----------------------------------------------------------------------------
Scannable(p) == status[p] \in {"APPROVED", "OUTSIDE"}

\* Mutant: the code of one pass finds every pass of its carriers.
MatchesCarriers(c) ==
  {p \in Passes : /\ Scannable(p)
                  /\ IF c.how = "badge" THEN c.of \in Carriers[p]
                     ELSE Carriers[p] \cap Carriers[c.of] # {}}

\* The passes a code may stand for.
Matches(c) ==
  {p \in Passes : /\ Scannable(p)
                  /\ IF c.how = "badge" THEN c.of \in Carriers[p] ELSE p = c.of}

\* ORDER BY expected_out_at, gate_pass_id LIMIT 1.
Target(c) ==
  CHOOSE p \in Matches(c) : \A q \in Matches(c) :
    \/ ExpectedOut[p] < ExpectedOut[q]
    \/ ExpectedOut[p] = ExpectedOut[q] /\ p <= q

\* Mutant: the row of the current scan is not looked for.
CoolingNever(c) == FALSE

\* scanned_at >= now - ScanCooldownSeconds, for any scan row of the code.
Cooling(c) == age[c] <= Cooldown

Expired(c, p) == c.how = "qr" /\ qrLeft[p] = 0

\* A row of tbl_gate_pass_scans, recorded now.
Stamp(c) == age' = [age EXCEPT ![c] = 0]

\* The way out; a one-way pass is closed by it.
TimeOut(c, p) ==
  /\ status[p] = "APPROVED"
  /\ status' = [status EXCEPT ![p] = IF Returns[p] THEN "OUTSIDE" ELSE "CLOSED"]
  /\ outAge' = [outAge EXCEPT ![p] = 0]
  /\ outBy' = [outBy EXCEPT ![p] = c]
  /\ UNCHANGED <<qrLeft, inBy, stay>>

TimeIn(c, p) ==
  /\ status[p] = "OUTSIDE"
  /\ status' = [status EXCEPT ![p] = "RETURNED"]
  /\ inBy' = [inBy EXCEPT ![p] = c]
  /\ stay' = [stay EXCEPT ![p] = outAge[p]]
  /\ UNCHANGED <<qrLeft, outAge, outBy>>

\* Mutant: the expiry is not looked at.
AcceptExpired(c) ==
  /\ ~Cooling(c)
  /\ Matches(c) # {}
  /\ TimeOut(c, Target(c)) \/ TimeIn(c, Target(c))
  /\ Stamp(c)

\* The scan is recorded as the pass's way out or back.
Accept(c) ==
  /\ ~Cooling(c)
  /\ Matches(c) # {}
  /\ ~Expired(c, Target(c))
  /\ TimeOut(c, Target(c)) \/ TimeIn(c, Target(c))
  /\ Stamp(c)

\* No pass, or an expired QR code: a REJECTED_ATTEMPT row is kept, and the
\* code cools down like after any other scan.
RejectAttempt(c) ==
  /\ ~Cooling(c)
  /\ Matches(c) # {} => Expired(c, Target(c))
  /\ Stamp(c)
  /\ UNCHANGED <<status, qrLeft, outAge, outBy, inBy, stay>>

\* Mutant: an attempt during the cooldown is recorded as a scan too.
CoolDownAgain(c) ==
  /\ Cooling(c)
  /\ Stamp(c)
  /\ UNCHANGED <<status, qrLeft, outAge, outBy, inBy, stay>>

\* SCAN_COOLDOWN: the transaction commits without a scan row.
CoolDown(c) == Cooling(c) /\ UNCHANGED vars

Scan(c) == Accept(c) \/ RejectAttempt(c) \/ CoolDown(c)

\* The last approval: the pass gets its QR code.
FinalApproval(p) ==
  /\ status[p] = "PENDING_PAS"
  /\ status' = [status EXCEPT ![p] = "APPROVED"]
  /\ qrLeft' = [qrLeft EXCEPT ![p] = QrLife]
  /\ UNCHANGED <<age, outAge, outBy, inBy, stay>>

\* GetQrTokenAsync and EnsureQrTokenAsync: an expired code gets a new life, in
\* any status after the approval.
RefreshQr(p) ==
  /\ status[p] # "PENDING_PAS"
  /\ qrLeft[p] = 0
  /\ qrLeft' = [qrLeft EXCEPT ![p] = QrLife]
  /\ UNCHANGED <<status, age, outAge, outBy, inBy, stay>>

Older(n) == IF n > Cooldown THEN n ELSE n + 1

Tick ==
  /\ qrLeft' = [p \in Passes |-> IF qrLeft[p] = 0 THEN 0 ELSE qrLeft[p] - 1]
  /\ age' = [c \in Codes |-> Older(age[c])]
  /\ outAge' = [p \in Passes |-> IF status[p] = "OUTSIDE" THEN Older(outAge[p])
                                 ELSE outAge[p]]
  /\ UNCHANGED <<status, outBy, inBy, stay>>

Next ==
  \/ Tick
  \/ \E c \in Codes : Scan(c)
  \/ \E p \in Passes : FinalApproval(p) \/ RefreshQr(p)

\* Time passes, and a guard with a person before him keeps typing the number
\* of that person's pass until it is accepted.
Fairness == WF_vars(Tick) /\ \A c \in Codes : c.how = "number" => WF_vars(Scan(c))

Spec == Init /\ [][Next]_vars
FairSpec == Spec /\ Fairness
-----------------------------------------------------------------------------
(* Properties *)

\* Type correctness.
TypeOK ==
  /\ status \in [Passes -> {"PENDING_PAS", "APPROVED", "OUTSIDE", "CLOSED", "RETURNED"}]
  /\ qrLeft \in [Passes -> 0..QrLife]
  /\ age \in [Codes -> 0..(Cooldown + 1)]
  /\ outAge \in [Passes -> 0..(Cooldown + 1)]
  /\ outBy \in [Passes -> Codes \cup {NoCode}]
  /\ inBy \in [Passes -> Codes \cup {NoCode}]
  /\ stay \in [Passes -> 0..(Cooldown + 1)]

\* One code held under the scanner does not take a pass out and straight back
\* in: between the two scans of one code lies more than the cooldown, whatever
\* was rejected, ticked or scanned with other codes in between.
NoDoubleScanOfOneCode ==
  \A p \in Passes : status[p] = "RETURNED" /\ outBy[p] = inBy[p] => stay[p] > Cooldown

CodesOf(p) == {c \in Codes : IF c.how = "badge" THEN c.of \in Carriers[p] ELSE c.of = p}

\* A pass goes out and comes back by codes of its own or of its carriers, and
\* comes back only after it went out; a one-way pass never comes back.
ScansBelongToPass ==
  \A p \in Passes :
    /\ status[p] \in {"OUTSIDE", "CLOSED", "RETURNED"} => outBy[p] \in CodesOf(p)
    /\ status[p] = "RETURNED" <=> inBy[p] \in CodesOf(p)
    /\ status[p] = "CLOSED" => ~Returns[p]
    /\ status[p] = "RETURNED" => Returns[p]

\* A QR code is taken at the gate only while it is valid; no refresh of an
\* expired code makes up for it, and none shortens the life of a valid one.
QrTakenWhileValid ==
  [][\A p \in Passes :
       /\ \/ outBy'[p] # outBy[p] /\ outBy'[p].how = "qr"
          \/ inBy'[p] # inBy[p] /\ inBy'[p].how = "qr"
          => qrLeft[p] > 0
       /\ qrLeft'[p] < qrLeft[p] => qrLeft'[p] = qrLeft[p] - 1 /\ Tick]_vars

\* The cooldown never locks a person out: who is outside gets in by the number
\* of the pass, however often it is tried too early.
OutsiderGetsIn == \A p \in Passes : status[p] = "OUTSIDE" ~> status[p] = "RETURNED"
=============================================================================
