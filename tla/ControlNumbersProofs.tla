------------------------ MODULE ControlNumbersProofs ------------------------
(***************************************************************************)
(* Theorems about ControlNumbers, for every set of dates and transactions,  *)
(* every limit and every bound.                                             *)
(***************************************************************************)
EXTENDS ControlNumbers, FiniteSetTheorems, TLAPS

NumberedForm(f) == /\ f.date \in Dates
                   /\ f.sequence \in Nat \ {0}
                   /\ f.number = LPad(f.sequence)

\* The types the arguments need.  (TypeOK also bounds the numbers, which takes a
\* day of fewer than ten times the limit.)
NumbersTyped ==
  /\ sequence \in [Dates -> Nat]
  /\ deleted \in [Dates -> Nat]
  /\ lock \in [Dates -> Txs \cup {NoTx}]
  /\ pc \in [Txs -> {"idle", "numbered", "inserted"}]
  /\ DOMAIN draft = Txs
  /\ refused \subseteq Dates
  /\ IsFiniteSet(forms)

\* A transaction that has its number holds the counter row of the date, and the
\* number is the one after the counter.
HoldsCounter ==
  \A t \in Txs : pc[t] # "idle" =>
    /\ NumberedForm(draft[t])
    /\ lock[draft[t].date] = t
    /\ draft[t].sequence = sequence[draft[t].date] + 1

\* A row that has passed the UNIQUE index is still free to be committed.
InsertedIsFree == \A t \in Txs : pc[t] = "inserted" => ~Taken(draft[t])

\* Committed rows have numbers the counter has reached.
FormsCounted == \A f \in forms : NumberedForm(f) /\ f.sequence <= sequence[f.date]

NumbersInv ==
  /\ NumbersTyped /\ HoldsCounter /\ InsertedIsFree /\ FormsCounted
  /\ NumbersUnique /\ NoGaps /\ RefusedOnlyWhenUsedUp
-----------------------------------------------------------------------------
\* The counter row keeps two transactions of one date apart.
LEMMA OneHolder ==
  ASSUME HoldsCounter, NEW t \in Txs, NEW u \in Txs,
         pc[t] # "idle", pc[u] # "idle", draft[t].date = draft[u].date
  PROVE  t = u
BY DEF HoldsCounter

\* What the end of a transaction leaves.
LEMMA EndFrees ==
  ASSUME NumbersInv, NEW t \in Txs, End(t)
  PROVE  /\ pc' \in [Txs -> {"idle", "numbered", "inserted"}]
         /\ lock' \in [Dates -> Txs \cup {NoTx}]
         /\ DOMAIN draft' = Txs
         /\ pc'[t] = "idle"
         /\ \A u \in Txs \ {t} : pc'[u] = pc[u] /\ draft'[u] = draft[u]
         /\ \A u \in Txs \ {t}, d \in Dates : lock[d] = u => lock'[d] = u
BY DEF End, NumbersInv, NumbersTyped

\* A number is taken only when the counter has passed the last one that fits: a
\* shorter number is its own sequence, which no committed row has yet.
LEMMA TakenWhenUsedUp ==
  ASSUME FormsCounted, NumbersTyped, HoldsCounter, NEW t \in Txs,
         pc[t] # "idle", Taken(draft[t])
  PROVE  sequence[draft[t].date] >= Limit - 1
<1> DEFINE d == draft[t].date
<1>1. /\ d \in Dates /\ sequence[d] \in Nat /\ Limit \in Nat
      /\ draft[t].number = LPad(draft[t].sequence)
      /\ draft[t].sequence = sequence[d] + 1
  BY LimitAssumption DEF HoldsCounter, NumberedForm, NumbersTyped
<1>2. PICK f \in forms : f.date = d /\ f.number = draft[t].number
  BY DEF Taken
<1>3. f.sequence \in Nat /\ f.number = LPad(f.sequence) /\ f.sequence <= sequence[d]
  BY <1>2 DEF FormsCounted, NumberedForm
<1>4. SUFFICES ASSUME sequence[d] + 1 < Limit PROVE FALSE
  BY <1>1
<1>5. LPad(draft[t].sequence) = sequence[d] + 1 /\ LPad(f.sequence) = f.sequence
  BY <1>1, <1>3, <1>4 DEF LPad
<1>6. QED BY <1>1, <1>2, <1>3, <1>5
-----------------------------------------------------------------------------
(* The actions                                                              *)

LEMMA TakeKeeps ==
  ASSUME NumbersInv, NEW t \in Txs, NEW d \in Dates, TakeNumber(t, d)
  PROVE  NumbersInv'
<1> DEFINE n == sequence[d] + 1
<1>1. /\ pc[t] = "idle" /\ lock[d] = NoTx
      /\ lock' = [lock EXCEPT ![d] = t]
      /\ draft' = [draft EXCEPT ![t] = [date |-> d, sequence |-> n, number |-> LPad(n)]]
      /\ pc' = [pc EXCEPT ![t] = "numbered"]
      /\ UNCHANGED <<sequence, forms, deleted, refused>>
  BY DEF TakeNumber
<1>2. NumbersTyped'
  BY <1>1 DEF NumbersInv, NumbersTyped
<1>3. /\ draft'[t].date = d /\ draft'[t].sequence = n /\ draft'[t].number = LPad(n)
      /\ pc'[t] = "numbered" /\ lock'[d] = t
      /\ \A u \in Txs \ {t} : draft'[u] = draft[u] /\ pc'[u] = pc[u]
      /\ \A e \in Dates \ {d} : lock'[e] = lock[e]
  BY <1>1 DEF NumbersInv, NumbersTyped
<1>4. n \in Nat \ {0}
  BY DEF NumbersInv, NumbersTyped
<1>5. HoldsCounter'
  <2> SUFFICES ASSUME NEW u \in Txs, pc'[u] # "idle"
               PROVE  /\ NumberedForm(draft'[u]) /\ lock'[draft'[u].date] = u
                      /\ draft'[u].sequence = sequence[draft'[u].date] + 1
    BY <1>1 DEF HoldsCounter, NumberedForm, LPad
  <2>1. CASE u = t
    BY <1>3, <1>4, <2>1 DEF NumberedForm
  <2>2. CASE u # t
    <3>1. /\ NumberedForm(draft[u]) /\ lock[draft[u].date] = u
          /\ draft[u].sequence = sequence[draft[u].date] + 1
      BY <1>3, <2>2 DEF NumbersInv, HoldsCounter
    <3>2. draft[u].date \in Dates \ {d}
      BY <1>1, <3>1, TxAssumption DEF NumberedForm
    <3>3. QED BY <1>3, <2>2, <3>1, <3>2
  <2>3. QED BY <2>1, <2>2
<1>6. InsertedIsFree'
  BY <1>1, <1>3 DEF NumbersInv, InsertedIsFree, Taken
<1>7. QED
  BY <1>1, <1>2, <1>5, <1>6
  DEF NumbersInv, FormsCounted, NumberedForm, LPad, NumbersUnique, NoGaps, FormsOf, RefusedOnlyWhenUsedUp

LEMMA InsertKeeps ==
  ASSUME NumbersInv, NEW t \in Txs, InsertForm(t)
  PROVE  NumbersInv'
<1>1. /\ pc[t] = "numbered" /\ ~Taken(draft[t])
      /\ pc' = [pc EXCEPT ![t] = "inserted"]
      /\ UNCHANGED <<sequence, forms, deleted, lock, draft, refused>>
  BY DEF InsertForm
<1>2. NumbersTyped'
  BY <1>1 DEF NumbersInv, NumbersTyped
<1>3. \A u \in Txs : pc'[u] # "idle" => pc[u] # "idle"
  BY <1>1 DEF NumbersInv, NumbersTyped
<1>4. HoldsCounter'
  BY <1>1, <1>3 DEF NumbersInv, HoldsCounter, NumberedForm, LPad
<1>5. InsertedIsFree'
  BY <1>1 DEF NumbersInv, NumbersTyped, InsertedIsFree, Taken
<1>6. QED
  BY <1>1, <1>2, <1>4, <1>5
  DEF NumbersInv, FormsCounted, NumberedForm, LPad, NumbersUnique, NoGaps, FormsOf, RefusedOnlyWhenUsedUp

\* A commit adds one row and moves the counter by one.
LEMMA CommitKeeps ==
  ASSUME NumbersInv, NEW t \in Txs, Commit(t)
  PROVE  NumbersInv'
<1> DEFINE f == draft[t]
           d == f.date
<1>1. /\ pc[t] = "inserted"
      /\ forms' = forms \cup {f}
      /\ sequence' = [sequence EXCEPT ![d] = f.sequence]
      /\ End(t)
      /\ UNCHANGED <<deleted, refused>>
  BY DEF Commit
<1>2. /\ NumberedForm(f) /\ d \in Dates /\ lock[d] = t /\ f.sequence = sequence[d] + 1
      /\ ~Taken(f) /\ f \notin forms
  BY <1>1 DEF NumbersInv, HoldsCounter, InsertedIsFree, NumberedForm, Taken
<1>3. /\ sequence \in [Dates -> Nat] /\ deleted \in [Dates -> Nat] /\ IsFiniteSet(forms)
      /\ refused \subseteq Dates
  BY DEF NumbersInv, NumbersTyped
<1>4. /\ sequence' \in [Dates -> Nat] /\ sequence'[d] = sequence[d] + 1
      /\ \A e \in Dates \ {d} : sequence'[e] = sequence[e]
  BY <1>1, <1>2, <1>3
<1>5. IsFiniteSet(forms')
  BY <1>1, <1>3, FS_AddElement
<1>6. NumbersTyped'
  BY <1>1, <1>3, <1>4, <1>5, EndFrees DEF NumbersTyped
<1>7. \A u \in Txs : pc'[u] # "idle" =>
        /\ u # t /\ pc[u] = pc'[u] /\ draft'[u] = draft[u]
        /\ draft[u].date \in Dates \ {d} /\ lock'[draft[u].date] = u
  <2> SUFFICES ASSUME NEW u \in Txs, pc'[u] # "idle"
               PROVE  /\ u # t /\ pc[u] = pc'[u] /\ draft'[u] = draft[u]
                      /\ draft[u].date \in Dates \ {d} /\ lock'[draft[u].date] = u
    OBVIOUS
  <2>1. u # t /\ pc[u] = pc'[u] /\ draft'[u] = draft[u]
    BY <1>1, EndFrees
  <2>2. draft[u].date \in Dates /\ lock[draft[u].date] = u
    BY <2>1 DEF NumbersInv, HoldsCounter, NumberedForm
  <2>3. QED BY <1>1, <1>2, <2>1, <2>2, EndFrees
<1>8. HoldsCounter'
  BY <1>4, <1>7 DEF NumbersInv, HoldsCounter, NumberedForm, LPad
<1>9. InsertedIsFree'
  <2> SUFFICES ASSUME NEW u \in Txs, pc'[u] = "inserted", NEW g \in forms',
                      g.date = draft'[u].date, g.number = draft'[u].number
               PROVE  FALSE
    BY DEF InsertedIsFree, Taken
  <2>1. g # f
    BY <1>7
  <2>2. QED BY <1>1, <1>7, <2>1 DEF NumbersInv, InsertedIsFree, Taken
<1>10. FormsCounted'
  <2> SUFFICES ASSUME NEW g \in forms' PROVE NumberedForm(g) /\ g.sequence <= sequence'[g.date]
    BY DEF FormsCounted, NumberedForm, LPad
  <2>1. CASE g = f
    BY <1>2, <1>3, <1>4, <2>1
  <2>2. CASE g \in forms
    BY <1>3, <1>4, <2>2 DEF NumbersInv, FormsCounted, NumberedForm
  <2>3. QED BY <1>1, <2>1, <2>2
<1>11. NumbersUnique'
  BY <1>1, <1>2 DEF NumbersInv, NumbersUnique, Taken
<1>12. NoGaps'
  <2> SUFFICES ASSUME NEW e \in Dates
               PROVE  Cardinality(FormsOf(e)') + deleted[e] = sequence'[e]
    BY <1>1 DEF NoGaps
  <2>1. IsFiniteSet(FormsOf(e)) /\ Cardinality(FormsOf(e)) + deleted[e] = sequence[e]
    BY <1>3, FS_Subset DEF FormsOf, NumbersInv, NoGaps
  <2>2. CASE e = d
    <3>1. FormsOf(e)' = FormsOf(e) \cup {f} /\ f \notin FormsOf(e)
      BY <1>1, <1>2, <2>2 DEF FormsOf
    <3>2. Cardinality(FormsOf(e)') = Cardinality(FormsOf(e)) + 1
      BY <2>1, <3>1, FS_AddElement
    <3>3. Cardinality(FormsOf(e)) \in Nat
      BY <2>1, FS_CardinalityType
    <3>4. QED BY <1>3, <1>4, <2>1, <2>2, <3>2, <3>3
  <2>3. CASE e # d
    <3>1. FormsOf(e)' = FormsOf(e)
      BY <1>1, <2>3 DEF FormsOf
    <3>2. QED BY <1>4, <2>1, <2>3, <3>1
  <2>4. QED BY <2>2, <2>3
<1>13. RefusedOnlyWhenUsedUp'
  BY <1>1, <1>3, <1>4, LimitAssumption DEF NumbersInv, RefusedOnlyWhenUsedUp
<1>14. QED BY <1>6, <1>8, <1>9, <1>10, <1>11, <1>12, <1>13 DEF NumbersInv

\* A transaction that fails takes nothing with it but its lock.
LEMMA RolledBackKeeps ==
  ASSUME NumbersInv, NEW t \in Txs, End(t), UNCHANGED <<sequence, forms, deleted>>,
         refused' \subseteq Dates, RefusedOnlyWhenUsedUp'
  PROVE  NumbersInv'
<1>1. NumbersTyped'
  BY EndFrees DEF NumbersInv, NumbersTyped
<1>2. \A u \in Txs : pc'[u] # "idle" =>
        /\ u # t /\ pc[u] = pc'[u] /\ draft'[u] = draft[u] /\ lock'[draft[u].date] = u
  BY EndFrees DEF NumbersInv, HoldsCounter, NumberedForm
<1>3. HoldsCounter' /\ InsertedIsFree'
  BY <1>2 DEF NumbersInv, HoldsCounter, NumberedForm, LPad, InsertedIsFree, Taken
<1>4. QED
  BY <1>1, <1>3 DEF NumbersInv, FormsCounted, NumberedForm, LPad, NumbersUnique, NoGaps, FormsOf

LEMMA RefuseKeeps ==
  ASSUME NumbersInv, NEW t \in Txs, RefuseDuplicate(t)
  PROVE  NumbersInv'
<1>1. /\ pc[t] # "idle" /\ Taken(draft[t])
      /\ refused' = refused \cup {draft[t].date}
      /\ End(t) /\ UNCHANGED <<sequence, forms, deleted>>
  BY DEF RefuseDuplicate
<1>2. draft[t].date \in Dates /\ refused \subseteq Dates
  BY <1>1 DEF NumbersInv, HoldsCounter, NumberedForm, NumbersTyped
<1>3. RefusedOnlyWhenUsedUp'
  BY <1>1, TakenWhenUsedUp DEF NumbersInv, RefusedOnlyWhenUsedUp
<1>4. QED BY <1>1, <1>2, <1>3, RolledBackKeeps

LEMMA FailKeeps ==
  ASSUME NumbersInv, NEW t \in Txs, Fail(t)
  PROVE  NumbersInv'
<1>1. End(t) /\ UNCHANGED <<sequence, forms, deleted, refused>>
  BY DEF Fail
<1>2. refused' \subseteq Dates /\ RefusedOnlyWhenUsedUp'
  BY <1>1 DEF NumbersInv, NumbersTyped, RefusedOnlyWhenUsedUp
<1>3. QED BY <1>1, <1>2, RolledBackKeeps

LEMMA DeleteKeeps ==
  ASSUME NumbersInv, NEW f \in forms, DeleteForTesting(f)
  PROVE  NumbersInv'
<1>1. /\ forms' = forms \ {f}
      /\ deleted' = [deleted EXCEPT ![f.date] = @ + 1]
      /\ UNCHANGED <<sequence, lock, pc, draft, refused>>
  BY DEF DeleteForTesting
<1>2. f.date \in Dates /\ sequence \in [Dates -> Nat] /\ deleted \in [Dates -> Nat] /\ IsFiniteSet(forms)
  BY DEF NumbersInv, NumbersTyped, FormsCounted, NumberedForm
<1>3. NumbersTyped'
  <2>1. IsFiniteSet(forms')
    BY <1>1, <1>2, FS_Subset
  <2>2. QED BY <1>1, <1>2, <2>1 DEF NumbersInv, NumbersTyped
<1>4. HoldsCounter' /\ InsertedIsFree' /\ FormsCounted' /\ NumbersUnique' /\ RefusedOnlyWhenUsedUp'
  BY <1>1
  DEF NumbersInv, HoldsCounter, NumberedForm, LPad, InsertedIsFree, Taken, FormsCounted,
      NumbersUnique, RefusedOnlyWhenUsedUp
<1>5. NoGaps'
  <2> SUFFICES ASSUME NEW e \in Dates
               PROVE  Cardinality(FormsOf(e)') + deleted'[e] = sequence[e]
    BY <1>1 DEF NoGaps
  <2>1. IsFiniteSet(FormsOf(e)) /\ Cardinality(FormsOf(e)) + deleted[e] = sequence[e]
    BY <1>2, FS_Subset DEF FormsOf, NumbersInv, NoGaps
  <2>2. CASE e = f.date
    <3>1. FormsOf(e)' = FormsOf(e) \ {f} /\ f \in FormsOf(e)
      BY <1>1, <2>2 DEF FormsOf
    <3>2. Cardinality(FormsOf(e)') = Cardinality(FormsOf(e)) - 1
      BY <2>1, <3>1, FS_RemoveElement
    <3>3. Cardinality(FormsOf(e)) \in Nat /\ deleted'[e] = deleted[e] + 1
      BY <1>1, <1>2, <2>1, <2>2, FS_CardinalityType
    <3>4. QED BY <1>2, <2>1, <3>2, <3>3
  <2>3. CASE e # f.date
    <3>1. FormsOf(e)' = FormsOf(e) /\ deleted'[e] = deleted[e]
      BY <1>1, <1>2, <2>3 DEF FormsOf
    <3>2. QED BY <2>1, <3>1
  <2>4. QED BY <2>2, <2>3
<1>6. QED BY <1>3, <1>4, <1>5 DEF NumbersInv
-----------------------------------------------------------------------------
(* The theorems                                                             *)

LEMMA InvCorrect == Spec => []NumbersInv
<1>1. Init => NumbersInv
  <2> SUFFICES ASSUME Init PROVE NumbersInv
    OBVIOUS
  <2>1. NumbersTyped /\ HoldsCounter /\ InsertedIsFree /\ FormsCounted
    BY FS_EmptySet
    DEF Init, NumbersTyped, HoldsCounter, InsertedIsFree, FormsCounted
  <2>2. \A d \in Dates : FormsOf(d) = {}
    BY DEF Init, FormsOf
  <2>3. NoGaps
    BY <2>2, FS_EmptySet DEF Init, NoGaps
  <2>4. QED BY <2>1, <2>3 DEF Init, NumbersInv, NumbersUnique, RefusedOnlyWhenUsedUp
<1>2. NumbersInv /\ [Next]_vars => NumbersInv'
  <2> SUFFICES ASSUME NumbersInv, [Next]_vars PROVE NumbersInv'
    OBVIOUS
  <2>1. CASE Next
    BY <2>1, TakeKeeps, InsertKeeps, CommitKeeps, RefuseKeeps, FailKeeps, DeleteKeeps DEF Next
  <2>2. CASE UNCHANGED vars
    BY <2>2
    DEF vars, NumbersInv, NumbersTyped, HoldsCounter, NumberedForm, LPad, InsertedIsFree, Taken,
        FormsCounted, NumbersUnique, NoGaps, FormsOf, RefusedOnlyWhenUsedUp
  <2>3. QED BY <2>1, <2>2
<1>3. QED BY <1>1, <1>2, PTL DEF Spec

\* No two forms of a date bear the same control number (the counter row of
\* SP_CreateGatePass and the UNIQUE index), however many are filed.
THEOREM UniqueCorrect == Spec => []NumbersUnique
BY InvCorrect, PTL DEF NumbersInv

\* The counter stands at the number of forms there are and were: failed and
\* concurrent creations leave no gap.
THEOREM GapsCorrect == Spec => []NoGaps
BY InvCorrect, PTL DEF NumbersInv

\* A creation fails on its number only when the day has had all numbers that fit.
THEOREM RefusalCorrect == Spec => []RefusedOnlyWhenUsedUp
BY InvCorrect, PTL DEF NumbersInv
-----------------------------------------------------------------------------
(* The width of the numbers                                                 *)

\* No transaction counts past the bound.
WithinBound ==
  /\ \A d \in Dates : sequence[d] <= MaxSequence
  /\ \A t \in Txs : pc[t] # "idle" => draft[t].sequence <= MaxSequence

LEMMA BoundCorrect == Spec => []WithinBound
<1>1. Init => WithinBound
  BY LimitAssumption DEF Init, WithinBound
<1>2. NumbersInv /\ WithinBound /\ [Next]_vars => WithinBound'
  <2> SUFFICES ASSUME NumbersInv, WithinBound, [Next]_vars PROVE WithinBound'
    OBVIOUS
  <2>1. ASSUME NEW t \in Txs, NEW d \in Dates, TakeNumber(t, d) PROVE WithinBound'
    <3>1. sequence' = sequence /\ \A u \in Txs \ {t} : pc'[u] = pc[u] /\ draft'[u] = draft[u]
      BY <2>1 DEF TakeNumber, NumbersInv, NumbersTyped
    <3>2. draft'[t].sequence = sequence[d] + 1 /\ sequence[d] < MaxSequence
      BY <2>1 DEF TakeNumber, NumbersInv, NumbersTyped
    <3>3. draft'[t].sequence <= MaxSequence
      BY <3>2, LimitAssumption DEF NumbersInv, NumbersTyped
    <3>4. QED BY <3>1, <3>3 DEF WithinBound
  <2>2. ASSUME NEW t \in Txs, InsertForm(t) PROVE WithinBound'
    BY <2>2 DEF InsertForm, NumbersInv, NumbersTyped, WithinBound
  <2>3. ASSUME NEW t \in Txs, End(t), pc[t] # "idle",
               \/ sequence' = sequence
               \/ sequence' = [sequence EXCEPT ![draft[t].date] = draft[t].sequence]
        PROVE  WithinBound'
    <3>1. pc'[t] = "idle" /\ \A u \in Txs \ {t} : pc'[u] = pc[u] /\ draft'[u] = draft[u]
      BY <2>3, EndFrees
    <3>2. \A d \in Dates : sequence'[d] \in {sequence[d], draft[t].sequence}
      BY <2>3 DEF NumbersInv, NumbersTyped
    <3>3. draft[t].sequence <= MaxSequence
      BY <2>3 DEF WithinBound
    <3>4. QED BY <3>1, <3>2, <3>3 DEF WithinBound
  <2>4. ASSUME NEW f \in forms, DeleteForTesting(f) PROVE WithinBound'
    BY <2>4 DEF DeleteForTesting, WithinBound
  <2>5. CASE UNCHANGED vars
    BY <2>5 DEF vars, WithinBound
  <2>6. QED
    BY <2>1, <2>2, <2>3, <2>4, <2>5 DEF Next, Commit, RefuseDuplicate, Fail
<1>3. QED BY <1>1, <1>2, InvCorrect, PTL DEF Spec

\* Every control number has the width of the column's format, and none is 000: LPAD
\* cuts the numbers of a day that has more forms than the format holds, as long as
\* it has fewer than ten times that many (SP_CreateGatePass).
THEOREM TypeCorrect ==
  ASSUME Limit >= 10, MaxSequence < 10 * Limit PROVE Spec => []TypeOK
<1>1. NumbersInv /\ WithinBound => TypeOK
  <2> SUFFICES ASSUME NumbersInv, WithinBound PROVE TypeOK
    OBVIOUS
  <2>1. sequence \in [Dates -> 0..MaxSequence]
    BY LimitAssumption DEF NumbersInv, NumbersTyped, WithinBound
  <2>2. ASSUME NEW n \in Nat \ {0}, n <= MaxSequence PROVE LPad(n) \in 1..(Limit - 1)
    BY <2>2, LimitAssumption DEF LPad
  <2>3. ASSUME NEW f \in forms PROVE f.date \in Dates /\ f.number \in 1..(Limit - 1)
    <3>1. f.date \in Dates /\ f.sequence \in Nat \ {0} /\ f.number = LPad(f.sequence)
      BY DEF NumbersInv, FormsCounted, NumberedForm
    <3>2. f.sequence <= sequence[f.date] /\ sequence[f.date] <= MaxSequence
      BY <3>1 DEF NumbersInv, FormsCounted, WithinBound
    <3>3. f.sequence <= MaxSequence
      BY <3>1, <3>2, LimitAssumption DEF NumbersInv, NumbersTyped
    <3>4. QED BY <2>2, <3>1, <3>3
  <2>4. \A t \in Txs : pc[t] # "idle" => draft[t].date \in Dates
    BY DEF NumbersInv, HoldsCounter, NumberedForm
  <2>5. QED BY <2>1, <2>3, <2>4 DEF TypeOK, NumbersInv, NumbersTyped
<1>2. QED BY <1>1, InvCorrect, BoundCorrect, PTL
=============================================================================
