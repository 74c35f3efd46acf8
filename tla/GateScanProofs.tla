--------------------------- MODULE GateScanProofs ---------------------------
(***************************************************************************)
(* Theorems about GateScan, for every set of passes, employees and codes,   *)
(* every cooldown and every life of a QR code.                              *)
(***************************************************************************)
EXTENDS GateScan, FoldLemmas

\* The rows recorded so far are those the status speaks of.
RowsMatchStatus ==
  \A p \in Passes :
    /\ status[p] \in {"OUTSIDE", "CLOSED", "RETURNED"} => outBy[p] \in CodesOf(p)
    /\ status[p] = "RETURNED" => inBy[p] \in CodesOf(p)
    /\ status[p] # "RETURNED" => inBy[p] = NoCode
    /\ status[p] = "CLOSED" => ~Returns[p]
    /\ status[p] \in {"OUTSIDE", "RETURNED"} => Returns[p]

\* The code a pass went out by was scanned then or later.
CodeIsYounger == \A p \in Passes : status[p] = "OUTSIDE" => age[outBy[p]] <= outAge[p]

ScanInv == TypeOK /\ RowsMatchStatus /\ CodeIsYounger /\ NoDoubleScanOfOneCode
-----------------------------------------------------------------------------
(* Codes and passes                                                         *)

LEMMA NoCodeIsNone == NoCode \notin Codes
BY CodesAssumption DEF NoCode, AllCodes

\* ORDER BY expected_out_at, gate_pass_id LIMIT 1 returns a row if there is one.
LEMMA TargetMatches ==
  ASSUME NEW c, Matches(c) # {}
  PROVE  Target(c) \in Matches(c)
<1> DEFINE S == Matches(c)
<1>1. S \subseteq Passes /\ S \subseteq Nat
  BY PassesAssumption DEF Matches
<1>2. \A p \in S : ExpectedOut[p] \in Nat
  BY <1>1, AttributesAssumption
<1> DEFINE Times == {ExpectedOut[p] : p \in S}
<1>3. Times \in SUBSET Nat /\ Times # {}
  BY <1>2
<1>4. PICK time \in Times : \A other \in Times : time <= other
  BY <1>3, LeastNatural
<1> DEFINE First == {p \in S : ExpectedOut[p] = time}
<1>5. First \in SUBSET Nat /\ First # {}
  BY <1>1, <1>4
<1>6. PICK p \in First : \A q \in First : p <= q
  BY <1>5, LeastNatural
<1>7. \A q \in S : \/ ExpectedOut[p] < ExpectedOut[q]
                   \/ ExpectedOut[p] = ExpectedOut[q] /\ p <= q
  <2> SUFFICES ASSUME NEW q \in S
               PROVE  \/ ExpectedOut[p] < ExpectedOut[q]
                      \/ ExpectedOut[p] = ExpectedOut[q] /\ p <= q
    OBVIOUS
  <2>1. time <= ExpectedOut[q] /\ time \in Nat /\ ExpectedOut[q] \in Nat /\ ExpectedOut[p] = time
    BY <1>2, <1>3, <1>4
  <2>2. CASE ExpectedOut[q] = time
    BY <1>6, <2>1, <2>2
  <2>3. CASE ExpectedOut[q] # time
    BY <2>1, <2>3
  <2>4. QED BY <2>2, <2>3
<1>8. p \in S
  OBVIOUS
<1>9. QED BY <1>7, <1>8 DEF Target

\* The pass a code resolves to is one it belongs to.
LEMMA TargetIsMine ==
  ASSUME NEW c \in Codes, Matches(c) # {}
  PROVE  Target(c) \in Passes /\ c \in CodesOf(Target(c))
BY TargetMatches DEF Matches, CodesOf
-----------------------------------------------------------------------------
(* Types                                                                    *)

LEMMA AcceptTyped ==
  ASSUME TypeOK, NEW c \in Codes, Accept(c)
  PROVE  TypeOK'
<1> DEFINE p == Target(c)
<1>1. p \in Passes
  BY TargetIsMine DEF Accept
<1>2. age' \in [Codes -> 0 .. (Cooldown + 1)]
  BY TimesAssumption DEF Accept, Stamp, TypeOK
<1>3. CASE TimeOut(c, p)
  BY <1>1, <1>2, <1>3, TimesAssumption DEF TimeOut, TypeOK
<1>4. CASE TimeIn(c, p)
  BY <1>1, <1>2, <1>4 DEF TimeIn, TypeOK
<1>5. QED BY <1>3, <1>4 DEF Accept

LEMMA TypedInductive == TypeOK /\ [Next]_vars => TypeOK'
<1> SUFFICES ASSUME TypeOK, [Next]_vars PROVE TypeOK'
  OBVIOUS
<1>1. CASE Tick
  <2>1. \A n \in 0 .. (Cooldown + 1) : Older(n) \in 0 .. (Cooldown + 1)
    BY TimesAssumption DEF Older
  <2>2. \A n \in 0 .. QrLife : (IF n = 0 THEN 0 ELSE n - 1) \in 0 .. QrLife
    BY TimesAssumption
  <2>3. age' \in [Codes -> 0 .. (Cooldown + 1)] /\ outAge' \in [Passes -> 0 .. (Cooldown + 1)]
    BY <1>1, <2>1 DEF Tick, TypeOK
  <2>4. qrLeft' \in [Passes -> 0 .. QrLife]
    BY <1>1, <2>2 DEF Tick, TypeOK
  <2>5. QED BY <1>1, <2>3, <2>4 DEF Tick, TypeOK
<1>2. ASSUME NEW c \in Codes, Scan(c) PROVE TypeOK'
  <2>1. CASE RejectAttempt(c)
    BY <2>1, TimesAssumption DEF RejectAttempt, Stamp, TypeOK
  <2>2. CASE CoolDown(c)
    BY <2>2 DEF CoolDown, vars, TypeOK
  <2>3. QED BY <1>2, <2>1, <2>2, AcceptTyped DEF Scan
<1>3. ASSUME NEW p \in Passes, FinalApproval(p) \/ RefreshQr(p) PROVE TypeOK'
  BY <1>3, TimesAssumption DEF FinalApproval, RefreshQr, TypeOK
<1>4. CASE UNCHANGED vars
  BY <1>4 DEF vars, TypeOK
<1>5. QED BY <1>1, <1>2, <1>3, <1>4 DEF Next
-----------------------------------------------------------------------------
(* Scans                                                                    *)

\* The way out by code c, and the way back by code c, at pass Target(c).
LEMMA AcceptKeeps ==
  ASSUME ScanInv, TypeOK', NEW c \in Codes, Accept(c)
  PROVE  ScanInv'
<1> DEFINE p == Target(c)
<1>1. p \in Passes /\ c \in CodesOf(p)
  BY TargetIsMine DEF Accept
<1>2. /\ age' = [age EXCEPT ![c] = 0] /\ age[c] > Cooldown
      /\ age \in [Codes -> 0 .. (Cooldown + 1)] /\ outAge \in [Passes -> 0 .. (Cooldown + 1)]
      /\ Cooldown \in Nat \ {0}
  BY TimesAssumption DEF Accept, Stamp, Cooling, ScanInv, TypeOK
<1>3. \A k \in Codes : age'[k] <= age[k]
  BY <1>2
<1>4. \A q \in Passes : CodesOf(q) \subseteq Codes
  BY DEF CodesOf
<1>5. CASE TimeOut(c, p)
  <2>1. /\ status[p] = "APPROVED"
        /\ status'[p] = IF Returns[p] THEN "OUTSIDE" ELSE "CLOSED"
        /\ outAge'[p] = 0 /\ outBy'[p] = c /\ inBy' = inBy /\ stay' = stay
        /\ \A q \in Passes \ {p} : /\ status'[q] = status[q] /\ outAge'[q] = outAge[q]
                                   /\ outBy'[q] = outBy[q]
    BY <1>1, <1>5 DEF TimeOut, ScanInv, TypeOK
  <2>2. Returns[p] \in BOOLEAN
    BY <1>1, AttributesAssumption
  <2>3. RowsMatchStatus'
    <3> SUFFICES ASSUME NEW q \in Passes
                 PROVE  /\ status'[q] \in {"OUTSIDE", "CLOSED", "RETURNED"} => outBy'[q] \in CodesOf(q)
                        /\ status'[q] = "RETURNED" => inBy'[q] \in CodesOf(q)
                        /\ status'[q] # "RETURNED" => inBy'[q] = NoCode
                        /\ status'[q] = "CLOSED" => ~Returns[q]
                        /\ status'[q] \in {"OUTSIDE", "RETURNED"} => Returns[q]
      BY DEF RowsMatchStatus, CodesOf
    <3>1. CASE q = p
      BY <1>1, <2>1, <2>2, <3>1 DEF ScanInv, RowsMatchStatus
    <3>2. CASE q # p
      BY <2>1, <3>2 DEF ScanInv, RowsMatchStatus
    <3>3. QED BY <3>1, <3>2
  <2>4. CodeIsYounger'
    <3> SUFFICES ASSUME NEW q \in Passes, status'[q] = "OUTSIDE" PROVE age'[outBy'[q]] <= outAge'[q]
      BY DEF CodeIsYounger
    <3>1. CASE q = p
      BY <1>2, <2>1, <3>1
    <3>2. CASE q # p
      <4>1. age[outBy[q]] <= outAge[q] /\ outBy[q] \in Codes
        BY <1>4, <2>1, <3>2 DEF ScanInv, CodeIsYounger, RowsMatchStatus
      <4>2. age'[outBy[q]] <= age[outBy[q]] /\ age[outBy[q]] \in Nat /\ age'[outBy[q]] \in Nat
            /\ outAge[q] \in Nat
        BY <1>2, <1>3, <4>1
      <4>3. QED BY <2>1, <3>2, <4>1, <4>2
    <3>3. QED BY <3>1, <3>2
  <2>5. NoDoubleScanOfOneCode'
    BY <2>1 DEF ScanInv, NoDoubleScanOfOneCode
  <2>6. QED BY <2>3, <2>4, <2>5 DEF ScanInv
<1>6. CASE TimeIn(c, p)
  <2>1. /\ status[p] = "OUTSIDE" /\ status'[p] = "RETURNED"
        /\ inBy'[p] = c /\ stay'[p] = outAge[p] /\ outAge' = outAge /\ outBy' = outBy
        /\ \A q \in Passes \ {p} : /\ status'[q] = status[q] /\ stay'[q] = stay[q]
                                   /\ inBy'[q] = inBy[q]
    BY <1>1, <1>6 DEF TimeIn, ScanInv, TypeOK
  <2>2. RowsMatchStatus'
    <3> SUFFICES ASSUME NEW q \in Passes
                 PROVE  /\ status'[q] \in {"OUTSIDE", "CLOSED", "RETURNED"} => outBy[q] \in CodesOf(q)
                        /\ status'[q] = "RETURNED" => inBy'[q] \in CodesOf(q)
                        /\ status'[q] # "RETURNED" => inBy'[q] = NoCode
                        /\ status'[q] = "CLOSED" => ~Returns[q]
                        /\ status'[q] \in {"OUTSIDE", "RETURNED"} => Returns[q]
      BY <2>1 DEF RowsMatchStatus, CodesOf
    <3>1. CASE q = p
      BY <1>1, <2>1, <3>1 DEF ScanInv, RowsMatchStatus
    <3>2. CASE q # p
      BY <2>1, <3>2 DEF ScanInv, RowsMatchStatus
    <3>3. QED BY <3>1, <3>2
  <2>3. CodeIsYounger'
    <3> SUFFICES ASSUME NEW q \in Passes, status'[q] = "OUTSIDE" PROVE age'[outBy[q]] <= outAge[q]
      BY <2>1 DEF CodeIsYounger
    <3>1. q # p
      BY <2>1
    <3>2. age[outBy[q]] <= outAge[q] /\ outBy[q] \in Codes
      BY <1>4, <2>1, <3>1 DEF ScanInv, CodeIsYounger, RowsMatchStatus
    <3>3. age'[outBy[q]] <= age[outBy[q]] /\ age[outBy[q]] \in Nat /\ age'[outBy[q]] \in Nat
          /\ outAge[q] \in Nat
      BY <1>2, <1>3, <3>2
    <3>4. QED BY <3>2, <3>3
  <2>4. outBy[p] = c => outAge[p] > Cooldown
    BY <1>1, <1>2, <2>1 DEF ScanInv, CodeIsYounger
  <2>5. NoDoubleScanOfOneCode'
    BY <2>1, <2>4 DEF ScanInv, NoDoubleScanOfOneCode
  <2>6. QED BY <2>2, <2>3, <2>5 DEF ScanInv
<1>7. QED BY <1>5, <1>6 DEF Accept

\* Everything else leaves the rows alone; a rejected attempt makes its code
\* younger, and time makes a code no older than the time out it made.
LEMMA OthersKeep ==
  ASSUME ScanInv, TypeOK',
         \/ Tick
         \/ \E c \in Codes : RejectAttempt(c)
         \/ \E p \in Passes : FinalApproval(p) \/ RefreshQr(p)
         \/ UNCHANGED vars
  PROVE  ScanInv'
<1>1. /\ outBy' = outBy /\ inBy' = inBy /\ stay' = stay
      /\ \A p \in Passes : status'[p] = status[p] \/ (status[p] = "PENDING_PAS" /\ status'[p] = "APPROVED")
  BY DEF Tick, RejectAttempt, FinalApproval, RefreshQr, vars, ScanInv, TypeOK
<1>2. RowsMatchStatus'
  <2>1. \A p \in Passes : CodesOf(p)' = CodesOf(p)
    BY DEF CodesOf
  <2>2. QED BY <1>1, <2>1 DEF ScanInv, RowsMatchStatus
<1>3. NoDoubleScanOfOneCode'
  BY <1>1 DEF ScanInv, NoDoubleScanOfOneCode
<1>4. /\ age \in [Codes -> 0 .. (Cooldown + 1)] /\ outAge \in [Passes -> 0 .. (Cooldown + 1)]
      /\ Cooldown \in Nat \ {0}
  BY TimesAssumption DEF ScanInv, TypeOK
<1>5. CodeIsYounger'
  <2> SUFFICES ASSUME NEW p \in Passes, status[p] = "OUTSIDE"
               PROVE  age'[outBy[p]] <= outAge'[p]
    BY <1>1 DEF CodeIsYounger
  <2>1. outBy[p] \in Codes /\ age[outBy[p]] <= outAge[p]
    BY DEF ScanInv, RowsMatchStatus, CodeIsYounger, CodesOf
  <2>2. CASE Tick
    <3>1. age'[outBy[p]] = Older(age[outBy[p]]) /\ outAge'[p] = Older(outAge[p])
      BY <2>1, <2>2 DEF Tick
    <3>2. QED BY <1>4, <2>1, <3>1 DEF Older
  <2>3. ASSUME NEW c \in Codes, RejectAttempt(c) PROVE age'[outBy[p]] <= outAge'[p]
    BY <1>4, <2>1, <2>3 DEF RejectAttempt, Stamp
  <2>4. CASE \/ \E q \in Passes : FinalApproval(q) \/ RefreshQr(q)
             \/ UNCHANGED vars
    BY <2>1, <2>4 DEF FinalApproval, RefreshQr, vars
  <2>5. QED BY <2>2, <2>3, <2>4
<1>6. QED BY <1>2, <1>3, <1>5 DEF ScanInv
-----------------------------------------------------------------------------
(* The theorems                                                             *)

LEMMA InvCorrect == Spec => []ScanInv
<1>1. Init => ScanInv
  <2> SUFFICES ASSUME Init PROVE ScanInv
    OBVIOUS
  <2>1. TypeOK
    BY TimesAssumption DEF Init, TypeOK
  <2>2. QED
    BY <2>1 DEF Init, ScanInv, RowsMatchStatus, CodeIsYounger, NoDoubleScanOfOneCode
<1>2. ScanInv /\ [Next]_vars => ScanInv'
  <2> SUFFICES ASSUME ScanInv, [Next]_vars PROVE ScanInv'
    OBVIOUS
  <2>1. TypeOK'
    BY TypedInductive DEF ScanInv
  <2>2. ASSUME NEW c \in Codes, Scan(c) PROVE ScanInv'
    BY <2>1, <2>2, AcceptKeeps, OthersKeep DEF Scan, CoolDown
  <2>3. QED BY <2>1, <2>2, OthersKeep DEF Next
<1>3. QED BY <1>1, <1>2, PTL DEF Spec

\* Status, lives, ages and rows keep their types; the ages stay within their bound.
THEOREM TypeCorrect == Spec => []TypeOK
BY InvCorrect, PTL DEF ScanInv

\* One code held under the scanner does not take a pass out and straight back in
\* (the cooldown of ScanAsync, looked up by the hash of the code).
THEOREM NoDoubleScanCorrect == Spec => []NoDoubleScanOfOneCode
BY InvCorrect, PTL DEF ScanInv

\* A pass goes out and comes back by codes of its own or of its carriers, and only
\* in that order (GetByQrTokenAsync and its siblings, and the choice of one row).
THEOREM ScansBelongCorrect == Spec => []ScansBelongToPass
<1>1. ScanInv => ScansBelongToPass
  <2>1. \A p \in Passes : NoCode \notin CodesOf(p)
    BY NoCodeIsNone DEF CodesOf
  <2>2. ASSUME ScanInv, NEW p \in Passes
        PROVE  /\ status[p] \in {"OUTSIDE", "CLOSED", "RETURNED"} => outBy[p] \in CodesOf(p)
               /\ status[p] = "RETURNED" <=> inBy[p] \in CodesOf(p)
               /\ status[p] = "CLOSED" => ~Returns[p]
               /\ status[p] = "RETURNED" => Returns[p]
    BY <2>1, <2>2 DEF ScanInv, RowsMatchStatus
  <2>3. QED BY <2>2, Zenon DEF ScansBelongToPass
<1>2. QED BY <1>1, InvCorrect, PTL

\* A QR code is taken only while it is valid, and only time shortens its life
\* (qr_expires_at in ScanAsync, EnsureQrTokenAsync).
THEOREM QrCorrect == Spec => QrTakenWhileValid
<1> DEFINE Taken(p) == /\ \/ outBy'[p] # outBy[p] /\ outBy'[p].how = "qr"
                          \/ inBy'[p] # inBy[p] /\ inBy'[p].how = "qr"
                          => qrLeft[p] > 0
                       /\ qrLeft'[p] < qrLeft[p] => qrLeft'[p] = qrLeft[p] - 1 /\ Tick
<1>1. ScanInv /\ [Next]_vars => [\A p \in Passes : Taken(p)]_vars
  <2> SUFFICES ASSUME ScanInv, Next, NEW p \in Passes PROVE Taken(p)
    OBVIOUS
  <2>1. /\ qrLeft \in [Passes -> 0 .. QrLife] /\ QrLife \in Nat \ {0}
        /\ outBy \in [Passes -> Codes \cup {NoCode}] /\ inBy \in [Passes -> Codes \cup {NoCode}]
    BY TimesAssumption DEF ScanInv, TypeOK
  <2>2. CASE Tick
    BY <2>1, <2>2 DEF Tick
  <2>3. ASSUME NEW c \in Codes, Accept(c) PROVE Taken(p)
    <3>1. Target(c) \in Passes /\ qrLeft' = qrLeft
      BY <2>3, TargetIsMine DEF Accept, TimeOut, TimeIn
    <3>2. CASE p # Target(c)
      BY <2>1, <2>3, <3>1, <3>2 DEF Accept, TimeOut, TimeIn
    <3>3. CASE p = Target(c)
      <4>1. outBy'[p] \in {outBy[p], c} /\ inBy'[p] \in {inBy[p], c}
        BY <2>1, <2>3, <3>3 DEF Accept, TimeOut, TimeIn
      <4>2. c.how = "qr" => qrLeft[p] > 0
        BY <2>1, <2>3, <3>3 DEF Accept, Expired
      <4>3. QED BY <2>1, <3>1, <4>1, <4>2
    <3>4. QED BY <3>2, <3>3
  <2>4. ASSUME NEW c \in Codes, RejectAttempt(c) \/ CoolDown(c) PROVE Taken(p)
    BY <2>1, <2>4 DEF RejectAttempt, CoolDown, vars
  <2>5. ASSUME NEW q \in Passes, FinalApproval(q) \/ RefreshQr(q) PROVE Taken(p)
    <3>1. outBy' = outBy /\ inBy' = inBy /\ qrLeft' = [qrLeft EXCEPT ![q] = QrLife]
      BY <2>5 DEF FinalApproval, RefreshQr
    <3>2. QED BY <2>1, <3>1
  <2>6. QED BY <2>2, <2>3, <2>4, <2>5 DEF Next, Scan
<1>2. QED BY <1>1, InvCorrect, PTL DEF Spec, QrTakenWhileValid
=============================================================================
