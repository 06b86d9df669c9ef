----------------------------- MODULE NestedSet -----------------------------
(***************************************************************************)
(* services/nested_set_service.py: the issue hierarchy stored as nested    *)
(* intervals, driven by IssueService.create / update_with_journal / delete.*)
(* Operations run one at a time here, each in its own transaction;         *)
(* IssueTreeTx lets them interleave.                                       *)
(*                                                                         *)
(* A table t maps each live issue id to the hierarchy columns of its row.  *)
(* Every UPDATE of the service is a function from tables to tables.        *)
(***************************************************************************)
EXTENDS Integers, FiniteSets, SequencesExt

CONSTANTS Issue,      \* issue ids
          NoIssue,    \* SQL NULL in parent_id
          MaxDepth,   \* MAX_HIERARCHY_DEPTH
          MaxBound    \* largest rgt explored: the columns are unbounded integers

ASSUME NestedSetAssumption ==
    /\ NoIssue \notin Issue
    /\ MaxDepth \in Nat \ {0}
    /\ MaxBound \in Nat

VARIABLE table

vars == <<table>>

Row == [parent_id : Issue \union {NoIssue}, root_id : Issue, lft : Int, rgt : Int]

-----------------------------------------------------------------------------
(* Queries.                                                                *)

\* is_ancestor_of, on two rows.
RowContains(outer, inner) ==
    /\ outer.root_id = inner.root_id
    /\ outer.lft < inner.lft
    /\ inner.rgt < outer.rgt

Encloses(t, a, d) == RowContains(t[a], t[d])

\* The queries compare the stored rows with the row the request holds.
GetDescendants(t, row) == {d \in DOMAIN t : RowContains(row, t[d])}

GetAncestors(t, row) == {a \in DOMAIN t : RowContains(t[a], row)}

\* The walk over the descendants in lft order: pop the intervals that ended
\* before this one starts, push this one, remember the deepest stack.
SubtreeHeight(t, row) ==
    LET ordered == SetToSortSeq(GetDescendants(t, row), LAMBDA a, b : t[a].lft < t[b].lft)
        Visit(walk, d) ==
            LET stillOpen == {0} \union {k \in DOMAIN walk.open : walk.open[k] >= t[d].lft}
                depth == CHOOSE k \in stillOpen : \A m \in stillOpen : m <= k
                open == Append(SubSeq(walk.open, 1, depth), t[d].rgt)
            IN  [open |-> open,
                 height |-> IF Len(open) > walk.height THEN Len(open) ELSE walk.height]
    IN  FoldLeft(Visit, [open |-> <<>>, height |-> 0], ordered).height

-----------------------------------------------------------------------------
(* The UPDATE statements.                                                  *)

\* The row with other bounds.
WithBounds(row, lft, rgt) ==
    [parent_id |-> row.parent_id, root_id |-> row.root_id, lft |-> lft, rgt |-> rgt]

\* lft >= at and rgt >= at in tree r grow by w.
OpenGap(t, r, at, w) ==
    LET Grow(x) == IF x >= at THEN x + w ELSE x
    IN  [i \in DOMAIN t |->
            IF t[i].root_id = r THEN WithBounds(t[i], Grow(t[i].lft), Grow(t[i].rgt)) ELSE t[i]]

\* lft > after and rgt > after in tree r shrink by w.
CloseGap(t, r, after, w) ==
    LET Shrink(x) == IF x > after THEN x - w ELSE x
    IN  [i \in DOMAIN t |->
            IF t[i].root_id = r THEN WithBounds(t[i], Shrink(t[i].lft), Shrink(t[i].rgt)) ELSE t[i]]

\* A bug: the rows are shifted but stay in their tree.
RelocateKeepsRoot(t, r, lo, hi, d, to) ==
    [i \in DOMAIN t |->
        IF t[i].root_id = r /\ t[i].lft >= lo /\ t[i].rgt <= hi
          THEN WithBounds(t[i], t[i].lft + d, t[i].rgt + d) ELSE t[i]]

\* The rows of tree r within lo..hi shift by d and join tree to.
Relocate(t, r, lo, hi, d, to) ==
    [i \in DOMAIN t |->
        IF t[i].root_id = r /\ t[i].lft >= lo /\ t[i].rgt <= hi
          THEN [parent_id |-> t[i].parent_id, root_id |-> to, lft |-> t[i].lft + d, rgt |-> t[i].rgt + d]
          ELSE t[i]]

\* Row i with another parent_id.
WithParent(t, i, p) ==
    [j \in DOMAIN t |->
        IF j = i THEN [parent_id |-> p, root_id |-> t[j].root_id, lft |-> t[j].lft, rgt |-> t[j].rgt]
                 ELSE t[j]]

\* A bug: a root keeps the NULL root_id it was inserted with.
InsertRootUnrooted(t, i) ==
    [j \in DOMAIN t \union {i} |->
        IF j = i THEN [parent_id |-> NoIssue, root_id |-> NoIssue, lft |-> 1, rgt |-> 2] ELSE t[j]]

InsertRoot(t, i) ==
    [j \in DOMAIN t \union {i} |->
        IF j = i THEN [parent_id |-> NoIssue, root_id |-> i, lft |-> 1, rgt |-> 2] ELSE t[j]]

\* at is the parent's rgt as the request read it.
InsertChild(t, i, p, root, at) ==
    LET opened == OpenGap(t, root, at, 2)
    IN  [j \in DOMAIN t \union {i} |->
            IF j = i THEN [parent_id |-> p, root_id |-> root, lft |-> at, rgt |-> at + 1]
                     ELSE opened[j]]

\* oldRoot, oldLft, oldRgt are the issue's columns as the request read them.
MoveToRoot(t, i, oldRoot, oldLft, oldRgt) ==
    LET closed == CloseGap(t, oldRoot, oldRgt, oldRgt - oldLft + 1)
        moved  == Relocate(closed, oldRoot, oldLft, oldRgt, 1 - oldLft, i)
    IN  WithParent(moved, i, NoIssue)

\* A bug: the issue is not refreshed after the gap was opened.
MoveUnderUnrefreshed(t, i, p, oldRoot, newRoot, at, width) ==
    LET opened == OpenGap(t, newRoot, at, width)
        moved  == Relocate(opened, oldRoot, t[i].lft, t[i].rgt, at - t[i].lft, newRoot)
        closed == CloseGap(moved, oldRoot, t[i].rgt, width)
    IN  WithParent(closed, i, p)

\* Likewise, with newRoot and at the new parent's root_id and rgt as read.  The
\* issue's own interval is read again once the gap is open (session.refresh).
MoveUnder(t, i, p, oldRoot, newRoot, at, width) ==
    LET opened == OpenGap(t, newRoot, at, width)
        curLft == opened[i].lft
        curRgt == opened[i].rgt
        moved  == Relocate(opened, oldRoot, curLft, curRgt, at - curLft, newRoot)
        closed == CloseGap(moved, oldRoot, curRgt, width)
    IN  WithParent(closed, i, p)

\* A bug: parent_id is left pointing at the deleted issue.
DeleteRowDangling(t, i) ==
    [j \in {k \in DOMAIN t : k # i /\ t[k].root_id # i} |-> t[j]]

\* ON DELETE CASCADE of root_id, ON DELETE SET NULL of parent_id.
DeleteRow(t, i) ==
    LET gone == {j \in DOMAIN t : j = i \/ t[j].root_id = i}
    IN  [j \in DOMAIN t \ gone |->
            [t[j] EXCEPT !.parent_id = IF @ \in gone THEN NoIssue ELSE @]]

-----------------------------------------------------------------------------
(* Validation.                                                             *)

\* A bug: off by one at the limit.
CheckParentOfNewInclusive(t, parentRow) == Cardinality(GetAncestors(t, parentRow)) + 1 <= MaxDepth

\* IssueService.check_parent for an issue not created yet.
CheckParentOfNew(t, parentRow) == Cardinality(GetAncestors(t, parentRow)) + 1 < MaxDepth

\* A bug: only the moved issue's own depth is checked, not its subtree's.
ValidateParentAlone(t, i, row, p, parentRow) ==
    /\ p # i
    /\ ~RowContains(row, parentRow)
    /\ Cardinality(GetAncestors(t, parentRow)) + 1 < MaxDepth

\* row and parentRow are the rows of i and p as the request holds them.
ValidateParent(t, i, row, p, parentRow) ==
    /\ p # i
    /\ ~RowContains(row, parentRow)
    /\ Cardinality(GetAncestors(t, parentRow)) + 1 + SubtreeHeight(t, row) < MaxDepth

-----------------------------------------------------------------------------
(* Operations.                                                             *)

Init == table = [i \in {} |-> {}]

CreateRoot(i) ==
    /\ i \notin DOMAIN table
    /\ table' = InsertRoot(table, i)

CreateChild(i, p) ==
    /\ i \notin DOMAIN table
    /\ p \in DOMAIN table
    /\ table[table[p].root_id].rgt + 2 <= MaxBound
    /\ CheckParentOfNew(table, table[p])
    /\ table' = InsertChild(table, i, p, table[p].root_id, table[p].rgt)

\* update_with_journal with parent_id = p.
SetParent(i, p) ==
    /\ i \in DOMAIN table
    /\ p \in DOMAIN table
    /\ ValidateParent(table, i, table[i], p, table[p])
    /\ LET width == table[i].rgt - table[i].lft + 1
       IN  /\ table[table[p].root_id].rgt + width <= MaxBound
           /\ table' = MoveUnder(table, i, p, table[i].root_id, table[p].root_id, table[p].rgt, width)

\* update_with_journal with parent_id = 0.
ClearParent(i) ==
    /\ i \in DOMAIN table
    /\ table' = MoveToRoot(table, i, table[i].root_id, table[i].lft, table[i].rgt)

Delete(i) ==
    /\ i \in DOMAIN table
    /\ table' = DeleteRow(table, i)

\* Every request but the one that clears a parent.
Step(i) ==
    \/ CreateRoot(i)
    \/ Delete(i)
    \/ \E p \in Issue : CreateChild(i, p) \/ SetParent(i, p)

Next == \E i \in Issue : Step(i) \/ ClearParent(i)

Spec == Init /\ [][Next]_vars

\* An interval after i's, no wider than the gap i leaves, falls into i's own
\* range when MoveToRoot closes the gap before it relocates i's rows.
NothingFitsTheGap(t, i) ==
    \A j \in DOMAIN t :
        t[j].root_id = t[i].root_id /\ t[j].lft > t[i].rgt
            => t[j].rgt > t[i].rgt + (t[i].rgt - t[i].lft + 1)

\* The requests for which the arithmetic is right: parents are cleared only
\* where nothing fits the gap (a last child, or only wider siblings after it).
ClearParentNoDrag(i) ==
    /\ i \in DOMAIN table
    /\ NothingFitsTheGap(table, i)
    /\ ClearParent(i)

NextNoDrag == \E i \in Issue : Step(i) \/ ClearParentNoDrag(i)

NoDragSpec == Init /\ [][NextNoDrag]_vars

-----------------------------------------------------------------------------
(* Properties.                                                             *)

\* Every live issue has a row of the right shape (columns of models/issue.py).
TypeOK ==
    /\ DOMAIN table \subseteq Issue
    /\ table \in [DOMAIN table -> Row]

\* Intervals of one tree never overlap: two issues of a tree are disjoint or
\* one strictly contains the other, whatever gaps deletions have left.
Laminar ==
    \A i, j \in DOMAIN table :
        i # j /\ table[i].root_id = table[j].root_id =>
            \/ table[i].rgt < table[j].lft
            \/ table[j].rgt < table[i].lft
            \/ Encloses(table, i, j)
            \/ Encloses(table, j, i)

\* Every interval starts before it ends.
Proper == \A i \in DOMAIN table : table[i].lft < table[i].rgt

\* The root of a tree is a live issue, is its own root, and its interval
\* encloses every other issue of the tree.
RootEncloses ==
    \A i \in DOMAIN table :
        LET r == table[i].root_id
        IN  /\ r \in DOMAIN table
            /\ table[r].root_id = r
            /\ i # r => Encloses(table, r, i)

\* parent_id and the intervals agree: the parent is live and is the nearest
\* issue whose interval encloses the child's.
ParentIsNearest ==
    \A i \in DOMAIN table :
        LET p == table[i].parent_id
        IN  p # NoIssue =>
              /\ p \in DOMAIN table
              /\ Encloses(table, p, i)
              /\ \A k \in DOMAIN table : ~(Encloses(table, p, k) /\ Encloses(table, k, i))

\* The inductive invariant of the hierarchy.
TreeInv == Laminar /\ Proper /\ RootEncloses /\ ParentIsNearest

\* Read through get_ancestors, the intervals implement a forest of issues.
Forest == INSTANCE IssueForest WITH above <- [i \in DOMAIN table |-> GetAncestors(table, table[i])]

\* Creating, re-parenting, detaching and deleting change exactly the ancestors
\* they should, and no issue gets MaxDepth ancestors or more.
ImplementsForest == Forest!Spec

\* "Move issue (and its subtree)" (move_to_parent): the issues that change tree
\* in one step are one issue and its descendants, nobody else.
MoveTakesOneSubtree ==
    [][LET moved == {j \in DOMAIN table \intersect DOMAIN table' :
                        table'[j].root_id # table[j].root_id}
       IN  moved # {} => \E i \in moved : moved = {i} \union GetDescendants(table, table[i])]_vars

\* "Deleting a parent orphans its direct children (parent_id -> NULL via SET
\* NULL)" (tests/integration/test_issues_hierarchy.py): an issue whose parent
\* goes is still there afterwards.
DeleteOrphansChildren ==
    [][\A c \in DOMAIN table :
          table[c].parent_id \in DOMAIN table \ DOMAIN table' => c \in DOMAIN table']_vars

=============================================================================
