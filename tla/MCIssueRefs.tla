---------------------------- MODULE MCIssueRefs ----------------------------
EXTENDS IssueRefs, TLC

CONSTANTS p1, p2, p3, k1, k2, k3

MCFirstKey == (p1 :> k1) @@ (p2 :> k2)

=============================================================================
