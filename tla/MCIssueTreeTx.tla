--------------------------- MODULE MCIssueTreeTx ---------------------------
EXTENDS IssueTreeTx

CONSTANTS i1, i2, i3

\* The trees below fit the depth limit.
ASSUME StartTreesAssumption ==
    /\ {i1, i2, i3} \subseteq Issue /\ i1 # i2 /\ i1 # i3 /\ i2 # i3
    /\ MaxDepth > 1

Empty == [i \in {} |-> NoRow]

\* i1 with the children i2 and i3, as insert_root and insert_child number them.
Family ==
    LET root  == InsertRoot(Empty, i1)
        first == InsertChild(root, i2, i1, i1, root[i1].rgt)
    IN  InsertChild(first, i3, i1, i1, first[i1].rgt)

\* i1 with the child i2, and a tree of its own for i3.
TwoTrees ==
    LET root == InsertRoot(Empty, i1)
    IN  InsertRoot(InsertChild(root, i2, i1, i1, root[i1].rgt), i3)

MCFamily == {Family}

MCTwoTrees == {TwoTrees}

=============================================================================
