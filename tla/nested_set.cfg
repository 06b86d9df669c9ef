CONSTANTS
  i1 = i1
  i2 = i2
  i3 = i3
  i4 = i4
  i5 = i5
  Issue = {i1, i2, i3, i4, i5}
  NoIssue = NoIssue
  MaxDepth = 4
  MaxBound = 12
SYMMETRY IssueSymmetry
SPECIFICATION NoDragSpec
INVARIANTS TypeOK Laminar RootEncloses ParentIsNearest
PROPERTY ImplementsForest
