---------------------------- MODULE MCNestedSet ----------------------------
EXTENDS NestedSet

IssueSymmetry == Permutations(Issue)

=============================================================================
