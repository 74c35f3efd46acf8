----------------------------- MODULE FoldLemmas -----------------------------
(***************************************************************************)
(* Induction over the natural numbers, and with it what a fold over a       *)
(* sequence computes.  Everything is stated of sets and functions: the      *)
(* library's induction theorems are about operators, which the provers      *)
(* cannot instantiate.                                                      *)
(***************************************************************************)
EXTENDS Integers, Sequences, SequencesExt, WellFoundedInduction, TLAPS

LEMMA LeastNatural ==
  ASSUME NEW S \in SUBSET Nat, S # {}
  PROVE  \E n \in S : \A m \in S : n <= m
<1> DEFINE R == {pair \in Nat \X Nat : pair[1] < pair[2]}
<1>1. PICK n \in S : \A m \in S : ~(<<m, n>> \in R)
  <2>1. IsWellFoundedOn(R, Nat)
    BY NatLessThanWellFounded, Zenon DEF OpToRel
  <2> HIDE DEF R
  <2>2. QED BY <2>1, WFMin
<1>2. \A m \in S : ~(m < n)
  BY <1>1
<1>3. QED BY <1>2

LEMMA Induction ==
  ASSUME NEW n \in Nat, NEW S, 0 \in S, \A i \in 0 .. n - 1 : i \in S => i + 1 \in S
  PROVE  \A i \in 0 .. n : i \in S
<1> DEFINE Missing == {i \in 0 .. n : i \notin S}
<1>1. SUFFICES ASSUME Missing # {} PROVE FALSE
  OBVIOUS
<1>2. PICK i \in Missing : \A j \in Missing : i <= j
  <2>1. Missing \in SUBSET Nat
    OBVIOUS
  <2> HIDE DEF Missing
  <2>2. QED BY <1>1, <2>1, LeastNatural
<1>3. i - 1 \in 0 .. n - 1 /\ i - 1 \notin Missing
  BY <1>2
<1>4. QED BY <1>3
-----------------------------------------------------------------------------
(* Folds.  FoldLeft visits the sets of indices 1 .. i, the largest first.    *)

LEMMA LastIndex ==
  ASSUME NEW n \in Nat
  PROVE  /\ 1 .. n = {} <=> n = 0
         /\ n # 0 => Max(1 .. n) = n /\ (1 .. n) \ {n} = 1 .. (n - 1)
<1>1. n # 0 => Max(1 .. n) = n
  <2> SUFFICES ASSUME n # 0 PROVE Max(1 .. n) = n
    OBVIOUS
  <2>1. n \in 1 .. n /\ \A i \in 1 .. n : n >= i
    OBVIOUS
  <2>2. \A m \in 1 .. n : (\A i \in 1 .. n : m >= i) => m = n
    OBVIOUS
  <2>3. QED BY <2>1, <2>2 DEF Max
<1>2. QED BY <1>1

\* The largest of the indices, if the last is among them.
LEMMA LastOfSome ==
  ASSUME NEW n \in Nat \ {0}, NEW t \in SUBSET (1 .. n), n \in t
  PROVE  Max(t) = n /\ t \ {n} \in SUBSET (1 .. (n - 1))
<1>1. \A i \in t : n >= i
  OBVIOUS
<1>2. \A m \in t : (\A i \in t : m >= i) => m = n
  OBVIOUS
<1>3. Max(t) = n
  BY <1>1, <1>2 DEF Max
<1>4. QED BY <1>3

LEMMA LargestIndex ==
  ASSUME NEW n \in Nat, NEW t \in SUBSET (1 .. n), t # {}
  PROVE  Max(t) \in t /\ t \ {Max(t)} \in SUBSET (1 .. n)
<1> DEFINE Gaps == {n - i : i \in t}
<1>1. PICK g \in Gaps : \A h \in Gaps : g <= h
  <2>1. \A i \in t : i \in 1 .. n /\ n - i \in Nat
    OBVIOUS
  <2>2. Gaps \in SUBSET Nat /\ Gaps # {}
    BY <2>1
  <2> HIDE DEF Gaps
  <2>3. QED BY <2>2, LeastNatural
<1>2. PICK i \in t : g = n - i
  OBVIOUS
<1>3. \A j \in t : i >= j
  <2>1. \A j \in t : j \in 1 .. n /\ n - i <= n - j
    BY <1>1, <1>2
  <2>2. QED BY <2>1
<1>4. QED BY <1>3 DEF Max

\* What FoldLeft computes with the steps F, on every set of the indices 1 .. n.
Folds(it, F, base, s, n) ==
  it = [t \in SUBSET (1 .. n) |-> IF t = {} THEN base ELSE F[<<it[t \ {Max(t)}], s[Max(t)]>>]]

LEMMA FoldExists ==
  ASSUME NEW A, NEW X, NEW F \in [A \X X -> A], NEW base \in A, NEW s \in Seq(X)
  PROVE  \E it \in [SUBSET (1 .. Len(s)) -> A] : Folds(it, F, base, s, Len(s))
<1> DEFINE S == {n \in 0 .. Len(s) : \E it \in [SUBSET (1 .. n) -> A] : Folds(it, F, base, s, n)}
<1>1. 0 \in S
  <2> DEFINE it == [t \in SUBSET (1 .. 0) |-> base]
  <2>1. \A t \in SUBSET (1 .. 0) : t = {}
    OBVIOUS
  <2>2. it \in [SUBSET (1 .. 0) -> A] /\ Folds(it, F, base, s, 0)
    BY <2>1 DEF Folds
  <2>3. QED BY <2>2
<1>2. ASSUME NEW n \in 0 .. Len(s) - 1, n \in S PROVE n + 1 \in S
  <2>1. PICK it \in [SUBSET (1 .. n) -> A] : Folds(it, F, base, s, n)
    BY <1>2
  <2> DEFINE more == [t \in SUBSET (1 .. (n + 1)) |->
                        IF n + 1 \in t THEN F[<<it[t \ {n + 1}], s[n + 1]>>] ELSE it[t]]
  <2>2. s[n + 1] \in X
    OBVIOUS
  <2>3. ASSUME NEW t \in SUBSET (1 .. (n + 1)), n + 1 \in t
        PROVE  /\ more[t] = F[<<it[t \ {Max(t)}], s[Max(t)]>>] /\ more[t] \in A
               /\ more[t \ {Max(t)}] = it[t \ {Max(t)}]
    <3>1. Max(t) = n + 1 /\ t \ {n + 1} \in SUBSET (1 .. n)
      BY <2>3, LastOfSome
    <3>2. t \ {n + 1} \in SUBSET (1 .. (n + 1)) /\ n + 1 \notin t \ {n + 1}
      OBVIOUS
    <3>3. QED BY <2>2, <2>3, <3>1, <3>2
  <2>4. ASSUME NEW t \in SUBSET (1 .. (n + 1)), n + 1 \notin t
        PROVE  t \in SUBSET (1 .. n) /\ more[t] = it[t] /\ more[t] \in A
    BY <2>4
  <2>5. ASSUME NEW t \in SUBSET (1 .. n), t # {}
        PROVE  more[t \ {Max(t)}] = it[t \ {Max(t)}]
    <3> DEFINE r == t \ {Max(t)}
    <3>1. r \in SUBSET (1 .. n)
      OBVIOUS
    <3> HIDE DEF r
    <3>2. r \in SUBSET (1 .. (n + 1)) /\ n + 1 \notin r
      BY <3>1
    <3>3. more[r] = it[r]
      BY <3>2
    <3>4. QED BY <3>3 DEF r
  <2>6. \A t \in SUBSET (1 .. (n + 1)) :
          more[t] = IF t = {} THEN base ELSE F[<<more[t \ {Max(t)}], s[Max(t)]>>]
    <3> SUFFICES ASSUME NEW t \in SUBSET (1 .. (n + 1))
                 PROVE  more[t] = IF t = {} THEN base ELSE F[<<more[t \ {Max(t)}], s[Max(t)]>>]
      OBVIOUS
    <3>1. CASE n + 1 \in t
      BY <2>3, <3>1
    <3>2. CASE n + 1 \notin t
      <4>1. it[t] = IF t = {} THEN base ELSE F[<<it[t \ {Max(t)}], s[Max(t)]>>]
        BY <2>1, <2>4, <3>2 DEF Folds
      <4>2. QED BY <2>4, <2>5, <3>2, <4>1
    <3>3. QED BY <3>1, <3>2
  <2>7. more \in [SUBSET (1 .. (n + 1)) -> A]
    BY <2>3, <2>4
  <2>8. Folds(more, F, base, s, n + 1)
    BY <2>6 DEF Folds
  <2>9. n + 1 \in 0 .. Len(s)
    OBVIOUS
  <2> HIDE DEF more
  <2>10. QED BY <2>7, <2>8, <2>9
<1>3. Len(s) \in S
  <2> HIDE DEF S
  <2>1. Len(s) \in Nat /\ \A n \in 0 .. Len(s) - 1 : n \in S => n + 1 \in S
    BY <1>2
  <2>2. \A n \in 0 .. Len(s) : n \in S
    BY <1>1, <2>1, Induction
  <2>3. QED BY <2>1, <2>2
<1>4. QED BY <1>3
=============================================================================
