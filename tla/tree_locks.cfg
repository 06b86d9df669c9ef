CONSTANTS
  i1 = i1
  i2 = i2
  i3 = i3
  i4 = i4
  Issue = {i1, i2, i3, i4}
  NoIssue = NoIssue
  MaxDepth = 3
  MaxBound = 20
  t1 = t1
  t2 = t2
  Txn = {t1, t2}
  NoTxn = NoTxn
  q1 = q1
  Project = {q1}
  StartTables <- MCFamily
SPECIFICATION MoveSpec
INVARIANT LocksPreventCorruption
CHECK_DEADLOCK FALSE
