CONSTANTS
  i1 = i1
  i2 = i2
  i3 = i3
  Issue = {i1, i2, i3}
  NoIssue = NoIssue
  MaxDepth = 3
  MaxBound = 8
SPECIFICATION NoDragSpec
PROPERTY DeleteOrphansChildren
