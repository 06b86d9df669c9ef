CONSTANTS
  p1 = p1
  p2 = p2
  p3 = p3
  k1 = k1
  k2 = k2
  k3 = k3
  Project = {p1, p2, p3}
  FirstKey <- MCFirstKey
  Key = {k1, k2, k3}
  NoKey = NoKey
  IssueId = {1, 2}
  Clerk = {r1, r2}
  ReusedKeys = {k1, k2, k3}
  RefOps = 5
SPECIFICATION RefSpec
INVARIANT RetiredRefsAreReserved
CHECK_DEADLOCK FALSE
