CONSTANTS
  i1 = i1
  i2 = i2
  i3 = i3
  i4 = i4
  i5 = i5
  i6 = i6
  Issue = {i1, i2, i3, i4, i5, i6}
  NoIssue = NoIssue
  MaxDepth = 3
  MaxBound = 20
  t1 = t1
  t2 = t2
  t3 = t3
  Txn = {t1, t2, t3}
  NoTxn = NoTxn
  q1 = q1
  Project = {q1}
  StartTables <- MCStartTables
  Few = {t1, t2}
  FewIssues = {i1, i2, i3, i4}
SPECIFICATION SceneSpec
INVARIANTS CreationsKeepTheTree DepthBounded
PROPERTY EveryRequestFinishes
CHECK_DEADLOCK FALSE
