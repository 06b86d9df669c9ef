---------------------------- MODULE IssueForest ----------------------------
(***************************************************************************)
(* What the issue hierarchy promises, without intervals: a forest in which *)
(* every issue has a set of ancestors.  NestedSetService is one way to     *)
(* store it; NestedSet shows that its lft/rgt arithmetic implements this   *)
(* specification.                                                          *)
(***************************************************************************)
EXTENDS Integers, FiniteSets

CONSTANTS Issue,     \* issue ids
          MaxDepth   \* MAX_HIERARCHY_DEPTH: more ancestors than MaxDepth - 1 are refused

VARIABLE above       \* live issue -> the set of its ancestors

Live == DOMAIN above

Subtree(i) == {j \in Live : j = i \/ i \in above[j]}

Shallow(f) == \A i \in DOMAIN f : Cardinality(f[i]) < MaxDepth

Init == above = [i \in {} |-> {}]

CreateRoot(i) ==
    /\ i \notin Live
    /\ above' = [j \in Live \union {i} |-> IF j = i THEN {} ELSE above[j]]

CreateChild(i, p) ==
    /\ i \notin Live
    /\ p \in Live
    /\ above' = [j \in Live \union {i} |-> IF j = i THEN above[p] \union {p} ELSE above[j]]
    /\ Shallow(above')

\* The whole subtree of i follows it below p; everybody else keeps their ancestors.
Reparent(i, p) ==
    /\ {i, p} \subseteq Live
    /\ p \notin Subtree(i)
    /\ above' = [j \in Live |-> IF j \in Subtree(i)
                                  THEN (above[j] \ above[i]) \union above[p] \union {p}
                                  ELSE above[j]]
    /\ Shallow(above')

Detach(i) ==
    /\ i \in Live
    /\ above' = [j \in Live |-> IF j \in Subtree(i) THEN above[j] \ above[i] ELSE above[j]]

\* A root takes its tree with it; any other issue only stops being an ancestor.
Delete(i) ==
    /\ i \in Live
    /\ LET gone == IF above[i] = {} THEN Subtree(i) ELSE {i}
       IN  above' = [j \in Live \ gone |-> above[j] \ gone]

Next == \E i \in Issue :
    \/ CreateRoot(i)
    \/ Detach(i)
    \/ Delete(i)
    \/ \E p \in Issue : CreateChild(i, p) \/ Reparent(i, p)

Spec == Init /\ [][Next]_above

=============================================================================
