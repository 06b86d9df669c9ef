-------------------------- MODULE NestedSetProofs --------------------------
(***************************************************************************)
(* Proofs about NestedSet, for every set of issues and every depth limit.  *)
(***************************************************************************)
EXTENDS NestedSet, TLAPS

Table(t) == DOMAIN t \subseteq Issue /\ t \in [DOMAIN t -> Row]

-----------------------------------------------------------------------------
(* What each UPDATE statement does to one row.                             *)

\* The two UPDATEs of insert_child and move_to_parent that make room shift the
\* bounds of one tree from the insertion point on, and nothing else.
LEMMA OpenGapRows ==
    ASSUME NEW t, Table(t), NEW r, NEW at \in Int, NEW w \in Int
    PROVE  LET u == OpenGap(t, r, at, w) IN
           /\ DOMAIN u = DOMAIN t
           /\ Table(u)
           /\ \A j \in DOMAIN t :
                /\ u[j].parent_id = t[j].parent_id
                /\ u[j].root_id = t[j].root_id
                /\ u[j].lft = IF t[j].root_id = r /\ t[j].lft >= at THEN t[j].lft + w ELSE t[j].lft
                /\ u[j].rgt = IF t[j].root_id = r /\ t[j].rgt >= at THEN t[j].rgt + w ELSE t[j].rgt
  BY DEF Table, OpenGap, WithBounds, Row

\* The two UPDATEs that take room away shift the bounds of one tree beyond the
\* old interval, and nothing else.
LEMMA CloseGapRows ==
    ASSUME NEW t, Table(t), NEW r, NEW after \in Int, NEW w \in Int
    PROVE  LET u == CloseGap(t, r, after, w) IN
           /\ DOMAIN u = DOMAIN t
           /\ Table(u)
           /\ \A j \in DOMAIN t :
                /\ u[j].parent_id = t[j].parent_id
                /\ u[j].root_id = t[j].root_id
                /\ u[j].lft = IF t[j].root_id = r /\ t[j].lft > after THEN t[j].lft - w ELSE t[j].lft
                /\ u[j].rgt = IF t[j].root_id = r /\ t[j].rgt > after THEN t[j].rgt - w ELSE t[j].rgt
  BY DEF Table, CloseGap, WithBounds, Row

\* The UPDATE that carries a subtree shifts and re-roots the rows in range.
LEMMA RelocateRows ==
    ASSUME NEW t, Table(t), NEW r, NEW lo \in Int, NEW hi \in Int, NEW d \in Int, NEW to \in Issue
    PROVE  LET u == Relocate(t, r, lo, hi, d, to)
               In(j) == t[j].root_id = r /\ t[j].lft >= lo /\ t[j].rgt <= hi
           IN
           /\ DOMAIN u = DOMAIN t
           /\ Table(u)
           /\ \A j \in DOMAIN t :
                /\ u[j].parent_id = t[j].parent_id
                /\ u[j].root_id = IF In(j) THEN to ELSE t[j].root_id
                /\ u[j].lft = IF In(j) THEN t[j].lft + d ELSE t[j].lft
                /\ u[j].rgt = IF In(j) THEN t[j].rgt + d ELSE t[j].rgt
  BY DEF Table, Relocate, Row

-----------------------------------------------------------------------------
(* Creating a root.                                                        *)

\* A new root is a tree of its own, so create without a parent keeps the
\* invariant.
LEMMA CreateRootKeepsTree ==
    ASSUME TypeOK, TreeInv, NEW i \in Issue, CreateRoot(i)
    PROVE  TypeOK' /\ TreeInv'
<1>1. /\ DOMAIN table' = DOMAIN table \union {i}
      /\ \A j \in DOMAIN table : table'[j] = table[j]
      /\ table'[i] = [parent_id |-> NoIssue, root_id |-> i, lft |-> 1, rgt |-> 2]
      /\ i \notin DOMAIN table
  BY DEF CreateRoot, InsertRoot
<1>2. TypeOK'
  BY <1>1 DEF CreateRoot, InsertRoot, TypeOK, Row
<1>3. \A j \in DOMAIN table : table[j].root_id # i
  BY <1>1 DEF TreeInv, RootEncloses
<1>4. Laminar'
  BY <1>1, <1>3 DEF TreeInv, Laminar, Encloses, RowContains
<1>5. Proper'
  BY <1>1 DEF TreeInv, Proper
<1>6. RootEncloses'
  BY <1>1 DEF TreeInv, RootEncloses, Encloses, RowContains
<1>7. ParentIsNearest'
  BY <1>1, <1>3 DEF TreeInv, ParentIsNearest, Encloses, RowContains
<1> QED BY <1>2, <1>4, <1>5, <1>6, <1>7 DEF TreeInv

-----------------------------------------------------------------------------
(* Creating a child.                                                       *)

\* insert_child with the parent's columns as they are in the table.
AddsChild(i, p) ==
    /\ i \notin DOMAIN table /\ p \in DOMAIN table
    /\ table' = InsertChild(table, i, p, table[p].root_id, table[p].rgt)

\* insert_child opens a gap at the parent's rgt and puts the issue there: it
\* becomes the parent's last child and no other containment changes.
LEMMA InsertChildKeepsTree ==
    ASSUME TypeOK, TreeInv, NEW i \in Issue, NEW p \in Issue, AddsChild(i, p)
    PROVE  /\ TypeOK' /\ TreeInv'
           /\ DOMAIN table' = DOMAIN table \union {i}
           /\ \A j, k \in DOMAIN table : Encloses(table', j, k) <=> Encloses(table, j, k)
           /\ \A k \in DOMAIN table : /\ Encloses(table', k, i) => k = p \/ Encloses(table, k, p)
                                      /\ ~Encloses(table', i, k)
<1> DEFINE r == table[p].root_id
           at == table[p].rgt
           Live == DOMAIN table
<1>1. /\ i \notin Live
      /\ p \in Live
      /\ r \in Issue
      /\ at \in Int
      /\ Table(table)
  BY DEF AddsChild, TypeOK, Row, Table
<1>2. /\ DOMAIN table' = Live \union {i}
      /\ table' \in [Live \union {i} -> Row]
      /\ table'[i].parent_id = p /\ table'[i].root_id = r
      /\ table'[i].lft = at /\ table'[i].rgt = at + 1
      /\ \A j \in Live :
           /\ table'[j].parent_id = table[j].parent_id
           /\ table'[j].root_id = table[j].root_id
           /\ table'[j].lft = IF table[j].root_id = r /\ table[j].lft >= at THEN table[j].lft + 2 ELSE table[j].lft
           /\ table'[j].rgt = IF table[j].root_id = r /\ table[j].rgt >= at THEN table[j].rgt + 2 ELSE table[j].rgt
  <2> DEFINE u == OpenGap(table, r, at, 2)
  <2>1. /\ DOMAIN u = Live
        /\ u \in [Live -> Row]
        /\ \A j \in Live :
           /\ u[j].parent_id = table[j].parent_id
           /\ u[j].root_id = table[j].root_id
           /\ u[j].lft = IF table[j].root_id = r /\ table[j].lft >= at THEN table[j].lft + 2 ELSE table[j].lft
           /\ u[j].rgt = IF table[j].root_id = r /\ table[j].rgt >= at THEN table[j].rgt + 2 ELSE table[j].rgt
    <3> HIDE DEF r, at
    <3> QED BY <1>1, OpenGapRows DEF Table
  <2>2. table' = [j \in Live \union {i} |->
            IF j = i THEN [parent_id |-> p, root_id |-> r, lft |-> at, rgt |-> at + 1] ELSE u[j]]
    BY DEF AddsChild, InsertChild
  <2> HIDE DEF u, r, at
  <2> QED BY <1>1, <2>1, <2>2 DEF Row
<1>3. \A j \in Live : table[j].lft \in Int /\ table[j].rgt \in Int
  BY DEF TypeOK, Row
<1>4. \A j, k \in Live : Encloses(table', j, k) <=> Encloses(table, j, k)
  BY <1>1, <1>2, <1>3 DEF Encloses, RowContains
<1>5. TypeOK'
  BY <1>1, <1>2 DEF TypeOK
<1>6. Laminar'
  BY <1>1, <1>2, <1>3, <1>4 DEF TreeInv, Laminar, Encloses, RowContains, Proper
<1>7. Proper'
  BY <1>1, <1>2, <1>3 DEF TreeInv, Proper
<1>8. RootEncloses'
  BY <1>1, <1>2, <1>3, <1>4 DEF TreeInv, RootEncloses, Encloses, RowContains, Proper
<1>9. ParentIsNearest'
  BY <1>1, <1>2, <1>3, <1>4 DEF TreeInv, ParentIsNearest, Encloses, RowContains, Proper
<1>10. \A k \in Live : Encloses(table', k, i) => k = p \/ Encloses(table, k, p)
  BY <1>1, <1>2, <1>3 DEF TreeInv, Laminar, Encloses, RowContains, Proper
<1>11. \A k \in Live : ~Encloses(table', i, k)
  BY <1>1, <1>2, <1>3 DEF TreeInv, Encloses, RowContains, Proper
<1> QED BY <1>2, <1>4, <1>5, <1>6, <1>7, <1>8, <1>9, <1>10, <1>11 DEF TreeInv

\* create with a parent keeps the invariant.
LEMMA CreateChildKeepsTree ==
    ASSUME TypeOK, TreeInv, NEW i \in Issue, NEW p \in Issue, CreateChild(i, p)
    PROVE  TypeOK' /\ TreeInv'
BY InsertChildKeepsTree DEF CreateChild, AddsChild

-----------------------------------------------------------------------------
(* Deleting an issue.                                                      *)

\* Deleting an issue leaves a hole in the numbering but no overlap; a deleted
\* root takes every issue that names it as root.
LEMMA DeleteKeepsTree ==
    ASSUME TypeOK, TreeInv, NEW i \in Issue, Delete(i)
    PROVE  TypeOK' /\ TreeInv'
<1> DEFINE Live == DOMAIN table
           gone == {j \in Live : j = i \/ table[j].root_id = i}
<1>1. /\ DOMAIN table' = Live \ gone
      /\ table' \in [Live \ gone -> Row]
      /\ \A j \in Live \ gone :
           /\ table'[j].parent_id = IF table[j].parent_id \in gone THEN NoIssue ELSE table[j].parent_id
           /\ table'[j].root_id = table[j].root_id
           /\ table'[j].lft = table[j].lft
           /\ table'[j].rgt = table[j].rgt
  BY DEF Delete, DeleteRow, TypeOK, Row
<1>2. TypeOK'
  BY <1>1 DEF TypeOK
<1>3. \A j, k \in Live \ gone : Encloses(table', j, k) <=> Encloses(table, j, k)
  BY <1>1 DEF Encloses, RowContains
<1>4. \A j \in Live \ gone : table[j].root_id \in Live \ gone
  BY DEF TreeInv, RootEncloses
<1>5. Laminar'
  BY <1>1, <1>3 DEF TreeInv, Laminar
<1>6. Proper'
  BY <1>1 DEF TreeInv, Proper
<1>7. RootEncloses'
  BY <1>1, <1>3, <1>4 DEF TreeInv, RootEncloses
<1>8. ParentIsNearest'
  BY <1>1, <1>3 DEF TreeInv, ParentIsNearest
<1> QED BY <1>2, <1>5, <1>6, <1>7, <1>8 DEF TreeInv

-----------------------------------------------------------------------------
(* Clearing a parent where nothing fits the gap.                           *)

\* move_to_parent(None) carries exactly the subtree when nothing fits the gap
\* it closes first.
LEMMA ClearParentKeepsTree ==
    ASSUME TypeOK, TreeInv, NEW i \in Issue, ClearParentNoDrag(i)
    PROVE  TypeOK' /\ TreeInv'
<1> DEFINE Live == DOMAIN table
           r == table[i].root_id
           a == table[i].lft
           b == table[i].rgt
           w == b - a + 1
           Sub == {j \in Live : j = i \/ Encloses(table, i, j)}
           Closed(x) == IF x > b THEN x - w ELSE x
           c == CloseGap(table, r, b, w)
           m == Relocate(c, r, a, b, 1 - a, i)
<1>1. /\ i \in Live
      /\ r \in Issue
      /\ a \in Int /\ b \in Int /\ w \in Int
      /\ Table(table)
      /\ table' = WithParent(m, i, NoIssue)
  BY DEF ClearParentNoDrag, ClearParent, MoveToRoot, TypeOK, Row, Table
<1>2. \A j \in Live : /\ table[j].lft \in Int /\ table[j].rgt \in Int
                      /\ table[j].lft < table[j].rgt
  BY DEF TypeOK, Row, TreeInv, Proper
<1>3. /\ DOMAIN c = Live
      /\ Table(c)
      /\ \A j \in Live :
           /\ c[j].parent_id = table[j].parent_id
           /\ c[j].root_id = table[j].root_id
           /\ c[j].lft = IF table[j].root_id = r THEN Closed(table[j].lft) ELSE table[j].lft
           /\ c[j].rgt = IF table[j].root_id = r THEN Closed(table[j].rgt) ELSE table[j].rgt
  <2> HIDE DEF r, b, w
  <2>1. Table(table) /\ b \in Int /\ w \in Int
    BY <1>1
  <2>2. /\ DOMAIN c = Live
        /\ Table(c)
        /\ \A j \in Live :
             /\ c[j].parent_id = table[j].parent_id
             /\ c[j].root_id = table[j].root_id
             /\ c[j].lft = IF table[j].root_id = r /\ table[j].lft > b THEN table[j].lft - w ELSE table[j].lft
             /\ c[j].rgt = IF table[j].root_id = r /\ table[j].rgt > b THEN table[j].rgt - w ELSE table[j].rgt
    BY <2>1, CloseGapRows
  <2> HIDE DEF c
  <2> QED BY <2>2
<1>4. \A j \in Live : (c[j].root_id = r /\ c[j].lft >= a /\ c[j].rgt <= b) <=> j \in Sub
  <2> SUFFICES ASSUME NEW j \in Live
               PROVE  (c[j].root_id = r /\ c[j].lft >= a /\ c[j].rgt <= b) <=> j \in Sub
    OBVIOUS
  <2>1. table[j].root_id = r /\ table[j].lft > b => table[j].rgt > b + w
    BY <1>1 DEF ClearParentNoDrag, NothingFitsTheGap
  <2> QED BY <1>1, <1>2, <1>3, <2>1 DEF TreeInv, Laminar, Encloses, RowContains
<1>5. /\ DOMAIN m = Live
      /\ Table(m)
      /\ \A j \in Live :
           /\ m[j].parent_id = table[j].parent_id
           /\ m[j].root_id = IF j \in Sub THEN i ELSE c[j].root_id
           /\ m[j].lft = IF j \in Sub THEN c[j].lft + (1 - a) ELSE c[j].lft
           /\ m[j].rgt = IF j \in Sub THEN c[j].rgt + (1 - a) ELSE c[j].rgt
  <2> HIDE DEF c, r, a, b, Sub
  <2> QED BY <1>1, <1>3, <1>4, RelocateRows
<1>6. /\ DOMAIN table' = Live
      /\ table' \in [Live -> Row]
      /\ \A j \in Live :
           /\ table'[j].parent_id = IF j = i THEN NoIssue ELSE m[j].parent_id
           /\ table'[j].root_id = m[j].root_id
           /\ table'[j].lft = m[j].lft
           /\ table'[j].rgt = m[j].rgt
  <2> HIDE DEF m
  <2> QED BY <1>1, <1>5 DEF WithParent, Table, Row
<1>7. /\ \A j \in Sub : /\ table'[j].root_id = i
                         /\ table'[j].lft = table[j].lft + (1 - a)
                         /\ table'[j].rgt = table[j].rgt + (1 - a)
      /\ \A j \in Live \ Sub :
           /\ table'[j].root_id = table[j].root_id
           /\ table'[j].lft = IF table[j].root_id = r THEN Closed(table[j].lft) ELSE table[j].lft
           /\ table'[j].rgt = IF table[j].root_id = r THEN Closed(table[j].rgt) ELSE table[j].rgt
      /\ table'[i].parent_id = NoIssue
      /\ \A j \in Live \ {i} : table'[j].parent_id = table[j].parent_id
  <2>1. \A j \in Sub : j \in Live /\ table[j].root_id = r /\ table[j].lft <= b /\ table[j].rgt <= b
    BY <1>1, <1>2 DEF Encloses, RowContains
  <2> HIDE DEF c, m, r, a, b, w, Sub
  <2> QED BY <1>1, <1>2, <1>3, <1>5, <1>6, <2>1 DEF Sub
<1>8. /\ \A j \in Live \ Sub : table[j].root_id # i
      /\ \A j \in Sub : table[j].root_id = r
  BY <1>1 DEF TreeInv, RootEncloses, Encloses, RowContains
<1>9. \A j \in Live \ Sub : table[j].root_id = r =>
         /\ table[j].lft < a \/ table[j].lft > b
         /\ table[j].rgt < a \/ table[j].rgt > b
  BY <1>1, <1>2 DEF TreeInv, Laminar, Encloses, RowContains
<1>10. \A j, k \in Live : Encloses(table', j, k) <=> (j \in Sub <=> k \in Sub) /\ Encloses(table, j, k)
  <2> HIDE DEF c, m, r, a, b, Sub
  <2> QED BY <1>1, <1>2, <1>7, <1>8, <1>9 DEF Encloses, RowContains
<1>11. TypeOK'
  BY <1>1, <1>6 DEF TypeOK
<1>12. Laminar'
  <2> HIDE DEF c, m, r, a, b, Sub
  <2> QED BY <1>1, <1>2, <1>6, <1>7, <1>8, <1>9, <1>10 DEF TreeInv, Laminar, Encloses, RowContains, Sub
<1>13. Proper'
  <2> HIDE DEF c, m, r, a, b, Sub
  <2> QED BY <1>1, <1>2, <1>6, <1>7, <1>9 DEF Proper
<1>14. RootEncloses'
  <2> SUFFICES ASSUME NEW j \in Live
               PROVE  /\ table'[j].root_id \in Live
                      /\ table'[table'[j].root_id].root_id = table'[j].root_id
                      /\ j # table'[j].root_id => Encloses(table', table'[j].root_id, j)
    BY <1>6 DEF RootEncloses
  <2>0. i \in Sub
    BY <1>1
  <2>1. CASE j \in Sub
    <3>1. j # i => Encloses(table, i, j)
      BY <2>1
    <3> HIDE DEF c, m, r, a, b, Sub
    <3> QED BY <1>1, <1>7, <1>10, <2>0, <2>1, <3>1
  <2>2. CASE j \notin Sub
    <3>1. /\ table[j].root_id \in Live
          /\ table[table[j].root_id].root_id = table[j].root_id
          /\ j # table[j].root_id => Encloses(table, table[j].root_id, j)
      BY DEF TreeInv, RootEncloses
    <3>2. table[j].root_id \notin Sub
      <4> SUFFICES ASSUME table[j].root_id \in Sub
                   PROVE  FALSE
        OBVIOUS
      <4>1. table[j].root_id = r
        BY <1>8, <3>1
      <4>2. r # i
        BY <1>8, <2>2, <4>1
      <4>3. Encloses(table, i, r)
        BY <4>1, <4>2
      <4>4. Encloses(table, r, i)
        BY <1>1, <4>2 DEF TreeInv, RootEncloses
      <4>5. r \in Live
        BY <3>1, <4>1
      <4>6. QED
        BY <1>1, <1>2, <4>3, <4>4, <4>5 DEF Encloses, RowContains
    <3> HIDE DEF c, m, r, a, b, Sub
    <3> QED BY <1>1, <1>7, <1>10, <2>2, <3>1, <3>2
  <2>3. QED
    BY <2>1, <2>2
<1>15. \A j \in Live \ {i} : table[j].parent_id # NoIssue =>
          (j \in Sub <=> table[j].parent_id \in Sub)
  BY <1>1, <1>2 DEF TreeInv, Laminar, ParentIsNearest, Encloses, RowContains
<1>16. ParentIsNearest'
  <2> HIDE DEF c, m, r, a, b, Sub
  <2> QED BY <1>1, <1>6, <1>7, <1>10, <1>15 DEF TreeInv, ParentIsNearest
<1> QED BY <1>11, <1>12, <1>13, <1>14, <1>16 DEF TreeInv

-----------------------------------------------------------------------------
(* Moving a subtree under a new parent.                                    *)

\* move_to_parent under a parent carries exactly the subtree to the parent's
\* right edge, within a tree or across trees, and closes the hole it leaves.
LEMMA SetParentKeepsTree ==
    ASSUME TypeOK, TreeInv, NEW i \in Issue, NEW p \in Issue, SetParent(i, p)
    PROVE  TypeOK' /\ TreeInv'
<1> DEFINE Live == DOMAIN table
           r == table[i].root_id
           s == table[p].root_id
           a == table[i].lft
           b == table[i].rgt
           w == b - a + 1
           at == table[p].rgt
           Sub == {j \in Live : j = i \/ Encloses(table, i, j)}
           o == OpenGap(table, s, at, w)
           lo == o[i].lft
           hi == o[i].rgt
           m == Relocate(o, r, lo, hi, at - lo, s)
           c == CloseGap(m, r, hi, w)
           \* How far the subtree travels, where it starts afterwards, and where
           \* bound x of an issue of tree t outside the subtree ends up.
           d == IF r = s /\ at > b THEN at - a - w ELSE at - a
           e == a + d
           Kept(t, x) ==
             IF r = s
               THEN IF t # r THEN x
                    ELSE IF at < a THEN (IF at <= x /\ x < a THEN x + w ELSE x)
                                   ELSE (IF b < x /\ x < at THEN x - w ELSE x)
               ELSE IF t = r THEN (IF x > b THEN x - w ELSE x)
                    ELSE IF t = s THEN (IF x >= at THEN x + w ELSE x) ELSE x
<1>1. /\ i \in Live /\ p \in Live /\ p \notin Sub
      /\ r \in Issue /\ s \in Issue
      /\ a \in Int /\ b \in Int /\ w \in Int /\ at \in Int
      /\ Table(table)
      /\ table' = WithParent(c, i, p)
  BY DEF SetParent, ValidateParent, Encloses, MoveUnder, TypeOK, Row, Table
<1>2. \A j \in Live : /\ table[j].lft \in Int /\ table[j].rgt \in Int
                      /\ table[j].lft < table[j].rgt
  BY DEF TypeOK, Row, TreeInv, Proper
<1>3. /\ DOMAIN o = Live
      /\ Table(o)
      /\ \A j \in Live :
           /\ o[j].parent_id = table[j].parent_id
           /\ o[j].root_id = table[j].root_id
           /\ o[j].lft = IF table[j].root_id = s /\ table[j].lft >= at THEN table[j].lft + w ELSE table[j].lft
           /\ o[j].rgt = IF table[j].root_id = s /\ table[j].rgt >= at THEN table[j].rgt + w ELSE table[j].rgt
  <2> HIDE DEF s, at, w
  <2> QED BY <1>1, OpenGapRows
\* The insertion point lies outside the subtree, so it moves as a whole.
<1>4. /\ lo \in Int /\ hi \in Int
      /\ r = s => at < a \/ at > b
      /\ r = s /\ at < a => lo = a + w /\ hi = b + w
      /\ r # s \/ at > b => lo = a /\ hi = b
  <2>1. r = s => at < a \/ at > b
    BY <1>1, <1>2 DEF TreeInv, Laminar, Encloses, RowContains
  <2> HIDE DEF o
  <2> QED BY <1>1, <1>2, <1>3, <2>1
<1>5. \A j \in Live : (o[j].root_id = r /\ o[j].lft >= lo /\ o[j].rgt <= hi) <=> j \in Sub
  <2>1. \A j \in Sub : table[j].root_id = r /\ a <= table[j].lft /\ table[j].rgt <= b /\ j \in Live
    BY <1>1, <1>2 DEF Encloses, RowContains
  <2>2. \A j \in Live : table[j].root_id = r /\ j \notin Sub =>
           \/ table[j].rgt < a
           \/ b < table[j].lft
           \/ table[j].lft < a /\ b < table[j].rgt
    BY <1>1 DEF TreeInv, Laminar, Encloses, RowContains
  <2> HIDE DEF o, lo, hi, Sub, r, s, at, a, b, w
  <2>3. CASE r # s
    BY <2>3, <1>1, <1>2, <1>3, <1>4, <2>1, <2>2
  <2>4. CASE r = s /\ at < a
    BY <2>4, <1>1, <1>2, <1>3, <1>4, <2>1, <2>2 DEF w
  <2>5. CASE r = s /\ at > b
    BY <2>5, <1>1, <1>2, <1>3, <1>4, <2>1, <2>2 DEF w
  <2> QED BY <2>3, <2>4, <2>5, <1>4
<1>6. /\ DOMAIN m = Live
      /\ Table(m)
      /\ \A j \in Live :
           /\ m[j].parent_id = table[j].parent_id
           /\ m[j].root_id = IF j \in Sub THEN s ELSE o[j].root_id
           /\ m[j].lft = IF j \in Sub THEN o[j].lft + (at - lo) ELSE o[j].lft
           /\ m[j].rgt = IF j \in Sub THEN o[j].rgt + (at - lo) ELSE o[j].rgt
  <2>1. at - lo \in Int
    BY <1>1, <1>4
  <2> HIDE DEF o, lo, hi, at, r, s, Sub
  <2> QED BY <1>1, <1>3, <1>4, <1>5, <2>1, RelocateRows
<1>7. /\ DOMAIN c = Live
      /\ Table(c)
      /\ \A j \in Live :
           /\ c[j].parent_id = table[j].parent_id
           /\ c[j].root_id = m[j].root_id
           /\ c[j].lft = IF m[j].root_id = r /\ m[j].lft > hi THEN m[j].lft - w ELSE m[j].lft
           /\ c[j].rgt = IF m[j].root_id = r /\ m[j].rgt > hi THEN m[j].rgt - w ELSE m[j].rgt
  <2> HIDE DEF m, hi, r, w
  <2> QED BY <1>1, <1>4, <1>6, CloseGapRows
<1>8. /\ DOMAIN table' = Live
      /\ table' \in [Live -> Row]
      /\ \A j \in Live :
           /\ table'[j].parent_id = IF j = i THEN p ELSE table[j].parent_id
           /\ table'[j].root_id = m[j].root_id
           /\ table'[j].lft = c[j].lft
           /\ table'[j].rgt = c[j].rgt
  <2> HIDE DEF c
  <2> QED BY <1>1, <1>7 DEF WithParent, Table, Row
<1>9. /\ \A j \in Sub : j \in Live /\ table[j].root_id = r /\ a <= table[j].lft /\ table[j].rgt <= b
      /\ \A j \in Live \ Sub : table[j].root_id = r =>
           /\ table[j].lft < a \/ table[j].lft > b
           /\ table[j].rgt < a \/ table[j].rgt > b
  BY <1>1, <1>2 DEF TreeInv, Laminar, Encloses, RowContains
<1>10. \A j \in Sub : /\ table'[j].root_id = s
                      /\ table'[j].lft = table[j].lft + d
                      /\ table'[j].rgt = table[j].rgt + d
  <2> SUFFICES ASSUME NEW j \in Sub
               PROVE  /\ table'[j].root_id = s
                      /\ table'[j].lft = table[j].lft + d
                      /\ table'[j].rgt = table[j].rgt + d
    OBVIOUS
  <2>1. /\ j \in Live
        /\ table[j].lft \in Int /\ table[j].rgt \in Int /\ table[j].lft < table[j].rgt
        /\ table[j].root_id = r /\ a <= table[j].lft /\ table[j].rgt <= b
    BY <1>2, <1>9
  <2> HIDE DEF o, lo, hi, m, c, Sub, r, s, at, a, b, w
  <2>2. /\ table'[j].root_id = s
        /\ m[j].lft = o[j].lft + (at - lo)
        /\ m[j].rgt = o[j].rgt + (at - lo)
        /\ table'[j].lft = IF s = r /\ m[j].lft > hi THEN m[j].lft - w ELSE m[j].lft
        /\ table'[j].rgt = IF s = r /\ m[j].rgt > hi THEN m[j].rgt - w ELSE m[j].rgt
    BY <1>6, <1>7, <1>8, <2>1
  <2>3. /\ o[j].lft = IF r = s /\ table[j].lft >= at THEN table[j].lft + w ELSE table[j].lft
        /\ o[j].rgt = IF r = s /\ table[j].rgt >= at THEN table[j].rgt + w ELSE table[j].rgt
    BY <1>3, <2>1
  <2>4. CASE r # s
    BY <2>4, <1>1, <1>4, <2>1, <2>2, <2>3
  <2>5. CASE r = s /\ at < a
    BY <2>5, <1>1, <1>4, <2>1, <2>2, <2>3 DEF w
  <2>6. CASE r = s /\ at > b
    BY <2>6, <1>1, <1>4, <2>1, <2>2, <2>3 DEF w
  <2> QED BY <2>4, <2>5, <2>6, <1>4
<1>11. \A j \in Live \ Sub : /\ table'[j].root_id = table[j].root_id
                             /\ table'[j].lft = Kept(table[j].root_id, table[j].lft)
                             /\ table'[j].rgt = Kept(table[j].root_id, table[j].rgt)
  <2> SUFFICES ASSUME NEW j \in Live \ Sub
               PROVE  /\ table'[j].root_id = table[j].root_id
                      /\ table'[j].lft = Kept(table[j].root_id, table[j].lft)
                      /\ table'[j].rgt = Kept(table[j].root_id, table[j].rgt)
    OBVIOUS
  <2>1. /\ table[j].lft \in Int /\ table[j].rgt \in Int
        /\ table[j].root_id = r => /\ table[j].lft < a \/ table[j].lft > b
                                   /\ table[j].rgt < a \/ table[j].rgt > b
    BY <1>2, <1>9
  <2> HIDE DEF o, lo, hi, m, c, Sub, r, s, at, a, b, w
  <2>2. /\ table'[j].root_id = table[j].root_id
        /\ table'[j].lft = IF table[j].root_id = r /\ o[j].lft > hi THEN o[j].lft - w ELSE o[j].lft
        /\ table'[j].rgt = IF table[j].root_id = r /\ o[j].rgt > hi THEN o[j].rgt - w ELSE o[j].rgt
    BY <1>3, <1>6, <1>7, <1>8
  <2>3. /\ o[j].lft = IF table[j].root_id = s /\ table[j].lft >= at THEN table[j].lft + w ELSE table[j].lft
        /\ o[j].rgt = IF table[j].root_id = s /\ table[j].rgt >= at THEN table[j].rgt + w ELSE table[j].rgt
    BY <1>3
  <2>4. CASE r # s
    BY <2>4, <1>1, <1>4, <2>1, <2>2, <2>3
  <2>5. CASE r = s /\ at < a
    <3>1. /\ hi = b + w /\ a <= b
          /\ a \in Int /\ b \in Int /\ at \in Int /\ w \in Int /\ w > 0
      BY <2>5, <1>1, <1>2, <1>4 DEF w, a, b
    <3>2. table'[j].lft = Kept(table[j].root_id, table[j].lft)
      BY <2>5, <3>1, <2>1, <2>2, <2>3
    <3>3. table'[j].rgt = Kept(table[j].root_id, table[j].rgt)
      BY <2>5, <3>1, <2>1, <2>2, <2>3
    <3> QED BY <3>2, <3>3, <2>2
  <2>6. CASE r = s /\ at > b
    BY <2>6, <1>1, <1>4, <2>1, <2>2, <2>3 DEF w
  <2> QED BY <2>4, <2>5, <2>6, <1>4
<1>12. /\ a \in Int /\ b \in Int /\ at \in Int /\ w \in Int /\ d \in Int /\ e \in Int
       /\ r = s => at < a \/ at > b
       /\ w = b - a + 1 /\ a < b /\ e = a + d
       /\ e = IF r = s /\ at > b THEN at - w ELSE at
  BY <1>1, <1>2, <1>4
<1> HIDE DEF o, lo, hi, m, c, r, s, at, a, b, w, d, e, Sub
\* The subtree fills e .. e + w - 1 of tree s; the other issues of s keep clear
\* of it, on the side of at where they were; outside it the order is kept.
<1>13. \A k \in Sub : /\ table'[k].lft \in Int /\ table'[k].rgt \in Int
                      /\ e <= table'[k].lft
                      /\ table'[k].lft < table'[k].rgt
                      /\ table'[k].rgt < e + w
  BY <1>2, <1>9, <1>10, <1>12
<1>14. \A j \in Live \ Sub :
          /\ table'[j].lft \in Int /\ table'[j].rgt \in Int
          /\ table[j].root_id = s =>
               /\ IF table[j].lft < at THEN table'[j].lft < e ELSE table'[j].lft >= e + w
               /\ IF table[j].rgt < at THEN table'[j].rgt < e ELSE table'[j].rgt >= e + w
  <2> SUFFICES ASSUME NEW j \in Live \ Sub
               PROVE  /\ table'[j].lft \in Int /\ table'[j].rgt \in Int
                      /\ table[j].root_id = s =>
                           /\ IF table[j].lft < at THEN table'[j].lft < e ELSE table'[j].lft >= e + w
                           /\ IF table[j].rgt < at THEN table'[j].rgt < e ELSE table'[j].rgt >= e + w
    OBVIOUS
  <2> QED BY <1>2, <1>9, <1>11, <1>12
<1>15. \A j, k \in Live \ Sub : table[j].root_id = table[k].root_id =>
          /\ table'[j].lft < table'[k].lft <=> table[j].lft < table[k].lft
          /\ table'[j].rgt < table'[k].rgt <=> table[j].rgt < table[k].rgt
          /\ table'[j].rgt < table'[k].lft <=> table[j].rgt < table[k].lft
          /\ table'[j].lft < table'[k].rgt <=> table[j].lft < table[k].rgt
  <2> SUFFICES ASSUME NEW j \in Live \ Sub, NEW k \in Live \ Sub,
                      table[j].root_id = table[k].root_id
               PROVE  /\ table'[j].lft < table'[k].lft <=> table[j].lft < table[k].lft
                      /\ table'[j].rgt < table'[k].rgt <=> table[j].rgt < table[k].rgt
                      /\ table'[j].rgt < table'[k].lft <=> table[j].rgt < table[k].lft
                      /\ table'[j].lft < table'[k].rgt <=> table[j].lft < table[k].rgt
    OBVIOUS
  <2>1. \A x, y \in Int :
           /\ table[j].root_id = r => (x < a \/ x > b) /\ (y < a \/ y > b)
           => (Kept(table[j].root_id, x) < Kept(table[j].root_id, y) <=> x < y)
    BY <1>12
  <2> HIDE DEF Kept
  <2> QED BY <1>2, <1>9, <1>11, <2>1
\* Who encloses whom afterwards.
<1>16. \A j, k \in Sub : Encloses(table', j, k) <=> Encloses(table, j, k)
  BY <1>2, <1>9, <1>10, <1>12 DEF Encloses, RowContains
<1>17. \A j, k \in Live \ Sub : Encloses(table', j, k) <=> Encloses(table, j, k)
  BY <1>11, <1>15 DEF Encloses, RowContains
<1>18. \A j \in Live \ Sub, k \in Sub :
          Encloses(table', j, k) <=> (j = p \/ Encloses(table, j, p))
  <2> SUFFICES ASSUME NEW j \in Live \ Sub, NEW k \in Sub
               PROVE  Encloses(table', j, k) <=> (j = p \/ Encloses(table, j, p))
    OBVIOUS
  <2>1. Encloses(table', j, k) <=> table[j].root_id = s /\ table[j].lft < at /\ table[j].rgt >= at
    BY <1>2, <1>10, <1>11, <1>12, <1>13, <1>14 DEF Encloses, RowContains
  <2>2. (table[j].root_id = s /\ table[j].lft < at /\ table[j].rgt >= at)
           <=> (j = p \/ Encloses(table, j, p))
    BY <1>1, <1>2 DEF TreeInv, Laminar, Encloses, RowContains, s, at
  <2> QED BY <2>1, <2>2
<1>19. \A j \in Sub, k \in Live \ Sub : ~Encloses(table', j, k)
  <2> SUFFICES ASSUME NEW j \in Sub, NEW k \in Live \ Sub, Encloses(table', j, k)
               PROVE  FALSE
    OBVIOUS
  <2>1. table[k].root_id = s
    BY <1>10, <1>11 DEF Encloses, RowContains
  <2> QED BY <2>1, <1>12, <1>13, <1>14, <1>15, <1>2 DEF Encloses, RowContains
<1>20. TypeOK'
  BY <1>1, <1>8 DEF TypeOK
<1>21. Proper'
  BY <1>2, <1>8, <1>13, <1>15 DEF Proper
<1>22. Laminar'
  <2> SUFFICES ASSUME NEW j \in Live, NEW k \in Live, j # k,
                      table'[j].root_id = table'[k].root_id
               PROVE  \/ table'[j].rgt < table'[k].lft
                      \/ table'[k].rgt < table'[j].lft
                      \/ Encloses(table', j, k)
                      \/ Encloses(table', k, j)
    BY <1>8 DEF Laminar
  <2>1. CASE j \in Sub /\ k \in Sub
    BY <2>1, <1>2, <1>9, <1>10, <1>12, <1>16 DEF Laminar, TreeInv
  <2>2. CASE j \notin Sub /\ k \notin Sub
    BY <2>2, <1>11, <1>15, <1>17 DEF Laminar, TreeInv
  <2>3. CASE j \in Sub /\ k \notin Sub
    BY <2>3, <1>10, <1>11, <1>12, <1>13, <1>14 DEF Encloses, RowContains
  <2>4. CASE j \notin Sub /\ k \in Sub
    BY <2>4, <1>10, <1>11, <1>12, <1>13, <1>14 DEF Encloses, RowContains
  <2> QED BY <2>1, <2>2, <2>3, <2>4
\* Unless i itself is the root, the roots of both trees stay outside the subtree.
<1>23. /\ s \in Live /\ s \notin Sub /\ table[s].root_id = s
       /\ s # p => Encloses(table, s, p)
  <2>1. s \in Live /\ table[s].root_id = s /\ (s # p => Encloses(table, s, p))
    BY <1>1 DEF TreeInv, RootEncloses, s
  <2>2. s \notin Sub
    <3> SUFFICES ASSUME s \in Sub PROVE FALSE
      OBVIOUS
    <3>1. s # p
      BY <1>1
    <3>2. Encloses(table, i, p)
      BY <3>1, <2>1, <1>1, <1>2 DEF Encloses, RowContains, Sub
    <3> QED BY <3>2, <1>1 DEF Sub
  <2> QED BY <2>1, <2>2
<1>24. \A j \in Live \ Sub : table[j].root_id \in Live \ Sub
  <2> SUFFICES ASSUME NEW j \in Live \ Sub
               PROVE  table[j].root_id \notin Sub
    BY DEF TreeInv, RootEncloses
  <2> DEFINE q == table[j].root_id
  <2>1. q \in Live /\ table[q].root_id = q /\ (j # q => Encloses(table, q, j))
    BY DEF TreeInv, RootEncloses
  <2>2. q # j /\ q \in Sub => Encloses(table, i, j)
    BY <2>1, <1>1, <1>2 DEF Encloses, RowContains, Sub
  <2> QED BY <2>1, <2>2 DEF Sub
<1>25. RootEncloses'
  <2> SUFFICES ASSUME NEW j \in Live
               PROVE  LET q == table'[j].root_id
                      IN  /\ q \in Live
                          /\ table'[q].root_id = q
                          /\ j # q => Encloses(table', q, j)
    BY <1>8 DEF RootEncloses
  <2>1. CASE j \in Sub
    BY <2>1, <1>10, <1>11, <1>18, <1>23
  <2>2. CASE j \notin Sub
    BY <2>2, <1>11, <1>17, <1>24 DEF TreeInv, RootEncloses
  <2> QED BY <2>1, <2>2
<1>26. \A j \in Live \ {i} : table[j].parent_id # NoIssue =>
          (j \in Sub <=> table[j].parent_id \in Sub)
  BY <1>1, <1>2 DEF TreeInv, Laminar, ParentIsNearest, Encloses, RowContains, Sub
<1>27. ParentIsNearest'
  <2> SUFFICES ASSUME NEW j \in Live, table'[j].parent_id # NoIssue
               PROVE  LET q == table'[j].parent_id
                      IN  /\ q \in Live
                          /\ Encloses(table', q, j)
                          /\ \A k \in Live : ~(Encloses(table', q, k) /\ Encloses(table', k, j))
    BY <1>8 DEF ParentIsNearest
  <2>1. CASE j = i
    <3>1. i \in Sub /\ p \in Live \ Sub /\ table'[j].parent_id = p
      BY <2>1, <1>1, <1>8 DEF Sub
    <3>2. Encloses(table', p, i)
      BY <3>1, <1>18
    <3>3. ASSUME NEW k \in Live, Encloses(table', p, k), Encloses(table', k, i)
          PROVE  FALSE
      <4>1. k \notin Sub
        BY <3>1, <3>3, <1>2, <1>9, <1>16, <1>12 DEF Encloses, RowContains, a, Sub
      <4>2. (k = p \/ Encloses(table, k, p)) /\ Encloses(table, p, k)
        BY <4>1, <3>1, <3>3, <1>17, <1>18
      <4> QED BY <4>2, <1>1, <1>2 DEF Encloses, RowContains
    <3> QED BY <2>1, <3>1, <3>2, <3>3
  <2>2. CASE j # i
    <3> DEFINE q == table[j].parent_id
    <3>1. /\ table'[j].parent_id = q /\ q # NoIssue
          /\ q \in Live /\ Encloses(table, q, j)
          /\ \A k \in Live : ~(Encloses(table, q, k) /\ Encloses(table, k, j))
          /\ j \in Sub <=> q \in Sub
      BY <2>2, <1>8, <1>26 DEF TreeInv, ParentIsNearest
    <3> HIDE DEF q
    <3>2. CASE j \in Sub
      BY <3>1, <3>2, <1>16, <1>19
    <3>3. CASE j \notin Sub
      BY <3>1, <3>3, <1>17, <1>19
    <3> QED BY <3>1, <3>2, <3>3
  <2> QED BY <2>1, <2>2
<1> QED BY <1>20, <1>21, <1>22, <1>25, <1>27 DEF TreeInv

-----------------------------------------------------------------------------
(* The invariant of the specification.                                     *)

\* The empty issue table satisfies the invariant, and every request but a
\* clearing of a parent that drags siblings along keeps it.
THEOREM TreeInvariant == NoDragSpec => [](TypeOK /\ TreeInv)
<1>1. Init => TypeOK /\ TreeInv
  <2> SUFFICES ASSUME Init PROVE TypeOK /\ TreeInv
    OBVIOUS
  <2>1. DOMAIN table = {} /\ table \in [DOMAIN table -> Row]
    BY DEF Init
  <2> QED BY <2>1 DEF TypeOK, TreeInv, Laminar, Proper, RootEncloses, ParentIsNearest
<1>2. TypeOK /\ TreeInv /\ [NextNoDrag]_vars => (TypeOK /\ TreeInv)'
  <2> SUFFICES ASSUME TypeOK, TreeInv, [NextNoDrag]_vars
               PROVE  (TypeOK /\ TreeInv)'
    OBVIOUS
  <2>1. CASE UNCHANGED vars
    BY <2>1 DEF vars, TypeOK, TreeInv, Laminar, Proper, RootEncloses, ParentIsNearest, Encloses, RowContains
  <2>2. ASSUME NEW i \in Issue, CreateRoot(i)
        PROVE  (TypeOK /\ TreeInv)'
    BY <2>2, CreateRootKeepsTree
  <2>3. ASSUME NEW i \in Issue, NEW p \in Issue, CreateChild(i, p)
        PROVE  (TypeOK /\ TreeInv)'
    BY <2>3, CreateChildKeepsTree
  <2>4. ASSUME NEW i \in Issue, NEW p \in Issue, SetParent(i, p)
        PROVE  (TypeOK /\ TreeInv)'
    BY <2>4, SetParentKeepsTree
  <2>5. ASSUME NEW i \in Issue, ClearParentNoDrag(i)
        PROVE  (TypeOK /\ TreeInv)'
    BY <2>5, ClearParentKeepsTree
  <2>6. ASSUME NEW i \in Issue, Delete(i)
        PROVE  (TypeOK /\ TreeInv)'
    BY <2>6, DeleteKeepsTree
  <2> QED BY <2>1, <2>2, <2>3, <2>4, <2>5, <2>6 DEF NextNoDrag, Step
<1> QED BY <1>1, <1>2, PTL DEF NoDragSpec

\* Every row of the issue table keeps its shape: create, update and delete
\* write only issue ids and integers into the hierarchy columns.
THEOREM TypeCorrect == NoDragSpec => []TypeOK
BY TreeInvariant, PTL

\* The gap arithmetic of create, move and delete never lets two intervals of a
\* tree overlap.
THEOREM IntervalsLaminar == NoDragSpec => []Laminar
<1>1. TreeInv => Laminar
  BY DEF TreeInv
<1> QED BY <1>1, TreeInvariant, PTL

\* root_id always names a live issue that is its own root and encloses the
\* whole tree, so the cascade of a deleted root removes exactly its tree.
THEOREM RootsEnclose == NoDragSpec => []RootEncloses
<1>1. TreeInv => RootEncloses
  BY DEF TreeInv
<1> QED BY <1>1, TreeInvariant, PTL

\* parent_id and the intervals never disagree about who is the parent.
THEOREM ParentsNearest == NoDragSpec => []ParentIsNearest
<1>1. TreeInv => ParentIsNearest
  BY DEF TreeInv
<1> QED BY <1>1, TreeInvariant, PTL

=============================================================================
