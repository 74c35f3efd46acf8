CONSTANTS
  Dates = {101, 102}
  Txs = {t1, t2}
  NoTx = NoTx
  Limit = 10
  MaxSequence = 10
  MaxDeleted = 1
SPECIFICATION Spec
INVARIANTS NumbersUnique NoGaps RefusedOnlyWhenUsedUp
CHECK_DEADLOCK FALSE
