----------------------------- MODULE MCGateScan -----------------------------
(* Instances of GateScan for TLC. *)
EXTENDS GateScan

Qr(p) == [how |-> "qr", of |-> p]
Number(p) == [how |-> "number", of |-> p]
Badge(n) == [how |-> "badge", of |-> n]

\* Employee 101 has two passes, and carries a third for 102.  1 and 2 return, 3
\* does not; the badge of 101 takes 2 before 3 before 1.
MCCarriers == [p \in Passes |-> IF p = 3 THEN {101, 102} ELSE {101}]
MCReturns == [p \in Passes |-> p # 3]
MCExpectedOut == [p \in Passes |-> CASE p = 1 -> 8 [] p = 2 -> 5 [] OTHER -> 6]

\* Pass 1 by all its codes, pass 2 by the badge and its number, pass 3 by the
\* badge alone.
MCCodes == {Qr(1), Number(1), Number(2), Badge(101)}
MCPairs == {Qr(1), Number(1)}
=============================================================================
