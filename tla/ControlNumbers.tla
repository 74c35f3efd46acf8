--------------------------- MODULE ControlNumbers ---------------------------
(***************************************************************************)
(* The daily control numbers MMDDYY-NNN of both forms: SP_CreateGatePass   *)
(* and SP_CreateMaterialGatePass, run inside the transaction of            *)
(* CreateDraftAsync and CreateMaterialDraftAsync.                          *)
(*                                                                         *)
(* INSERT ... ON DUPLICATE KEY UPDATE on the date's counter row locks that *)
(* row until the transaction ends, so creations for one date take turns.   *)
(* The number is then cut to its width by LPAD and must pass the UNIQUE    *)
(* index on control_no.                                                    *)
(***************************************************************************)
EXTENDS Naturals, FiniteSets

CONSTANTS Dates,       \* form_date values
          Txs, NoTx,   \* transactions, and the holder of a free lock
          Limit,       \* 1000: the first number that is wider than LPAD's 3
          MaxSequence, \* bound on last_sequence, for TLC
          MaxDeleted   \* bound on deletions per date, for TLC

ASSUME LimitAssumption == Limit \in Nat \ {0} /\ MaxSequence \in Nat /\ MaxDeleted \in Nat
ASSUME TxAssumption == NoTx \notin Txs

VARIABLES sequence,  \* last_sequence of each date
          forms,     \* committed request rows: [date, sequence, number]
          deleted,   \* how many rows of each date were deleted for testing
          lock,      \* who holds the counter row of each date
          pc,        \* of each transaction
          draft,     \* the row each transaction is writing
          refused    \* dates on which a creation failed on a duplicate number

vars == <<sequence, forms, deleted, lock, pc, draft, refused>>

NoDraft == [date |-> 0, sequence |-> 0, number |-> 0]

Init ==
  /\ sequence = [d \in Dates |-> 0]
  /\ forms = {}
  /\ deleted = [d \in Dates |-> 0]
  /\ lock = [d \in Dates |-> NoTx]
  /\ pc = [t \in Txs |-> "idle"]
  /\ draft = [t \in Txs |-> NoDraft]
  /\ refused = {}

\* LPAD(n, 3, '0') pads a short number and cuts a long one on the right.
\* (Enough for numbers below ten times the limit.)
LPad(n) == IF n < Limit THEN n ELSE n \div 10

\* Mutant: the counter row is read without a lock.
TakeNumberUnlocked(t, d) ==
  /\ pc[t] = "idle"
  /\ sequence[d] < MaxSequence
  /\ draft' = [draft EXCEPT ![t] = LET n == sequence[d] + 1 IN
                 [date |-> d, sequence |-> n, number |-> LPad(n)]]
  /\ pc' = [pc EXCEPT ![t] = "numbered"]
  /\ UNCHANGED <<sequence, forms, deleted, lock, refused>>

\* The counter goes up, for this transaction only until it commits.
TakeNumber(t, d) ==
  /\ pc[t] = "idle"
  /\ lock[d] = NoTx
  /\ sequence[d] < MaxSequence
  /\ lock' = [lock EXCEPT ![d] = t]
  /\ draft' = [draft EXCEPT ![t] = LET n == sequence[d] + 1 IN
                 [date |-> d, sequence |-> n, number |-> LPad(n)]]
  /\ pc' = [pc EXCEPT ![t] = "numbered"]
  /\ UNCHANGED <<sequence, forms, deleted, refused>>

\* Mutant: control_no is indexed, but not UNIQUE.
TakenNever(f) == FALSE

\* The UNIQUE index on control_no.
Taken(f) == \E g \in forms : g.date = f.date /\ g.number = f.number

InsertForm(t) ==
  /\ pc[t] = "numbered"
  /\ ~Taken(draft[t])
  /\ pc' = [pc EXCEPT ![t] = "inserted"]
  /\ UNCHANGED <<sequence, forms, deleted, lock, draft, refused>>

\* The transaction is over and its locks are free.
End(t) ==
  /\ pc' = [pc EXCEPT ![t] = "idle"]
  /\ draft' = [draft EXCEPT ![t] = NoDraft]
  /\ lock' = [d \in Dates |-> IF lock[d] = t THEN NoTx ELSE lock[d]]

\* The companions and items are in, and the transaction commits.
Commit(t) ==
  /\ pc[t] = "inserted"
  /\ forms' = forms \cup {draft[t]}
  /\ sequence' = [sequence EXCEPT ![draft[t].date] = draft[t].sequence]
  /\ End(t)
  /\ UNCHANGED <<deleted, refused>>

\* Duplicate entry for control_no: the error ends the transaction.
RefuseDuplicate(t) ==
  /\ pc[t] = "numbered"
  /\ Taken(draft[t])
  /\ refused' = refused \cup {draft[t].date}
  /\ End(t)
  /\ UNCHANGED <<sequence, forms, deleted>>

\* Mutant: the counter is incremented in a transaction of its own.
FailAfterCounting(t) ==
  /\ pc[t] \in {"numbered", "inserted"}
  /\ sequence' = [sequence EXCEPT ![draft[t].date] = draft[t].sequence]
  /\ End(t)
  /\ UNCHANGED <<forms, deleted, refused>>

\* Any later statement fails, or the process stops: counter and row roll back.
Fail(t) ==
  /\ pc[t] \in {"numbered", "inserted"}
  /\ End(t)
  /\ UNCHANGED <<sequence, forms, deleted, refused>>

\* DeleteForTestingAsync removes the row; the counter is not touched.
DeleteForTesting(f) ==
  /\ f \in forms
  /\ deleted[f.date] < MaxDeleted
  /\ forms' = forms \ {f}
  /\ deleted' = [deleted EXCEPT ![f.date] = @ + 1]
  /\ UNCHANGED <<sequence, lock, pc, draft, refused>>

Next ==
  \/ \E t \in Txs :
       \/ \E d \in Dates : TakeNumber(t, d)
       \/ InsertForm(t) \/ Commit(t) \/ RefuseDuplicate(t) \/ Fail(t)
  \/ \E f \in forms : DeleteForTesting(f)

Spec == Init /\ [][Next]_vars
-----------------------------------------------------------------------------
(* Properties *)

FormsOf(d) == {f \in forms : f.date = d}

\* Type correctness.
TypeOK ==
  /\ sequence \in [Dates -> 0..MaxSequence]
  /\ \A f \in forms : f.date \in Dates /\ f.number \in 1..(Limit - 1)
  /\ lock \in [Dates -> Txs \cup {NoTx}]
  /\ pc \in [Txs -> {"idle", "numbered", "inserted"}]
  /\ \A t \in Txs : pc[t] # "idle" => draft[t].date \in Dates
  /\ refused \subseteq Dates

\* No two forms of a date bear the same control number.  ("generated
\* automatically without duplicates")
NumbersUnique ==
  \A f, g \in forms : f.date = g.date /\ f.number = g.number => f = g

\* Every number taken became a form: failed creations leave no gap in the
\* day's numbers, concurrent ones do not take the same.
NoGaps == \A d \in Dates : Cardinality(FormsOf(d)) + deleted[d] = sequence[d]

\* A creation is refused for its number only on a day whose numbers are used up.
RefusedOnlyWhenUsedUp == \A d \in refused : sequence[d] >= Limit - 1
=============================================================================
