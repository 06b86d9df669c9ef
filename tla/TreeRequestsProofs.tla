------------------------- MODULE TreeRequestsProofs -------------------------
(***************************************************************************)
(* Creations and deletions as concurrent transactions (IssueTreeTx), for   *)
(* any number of requests, issues and any depth limit: as long as the      *)
(* creations share a project, its row lock makes the parent's columns they *)
(* read before the tree's lock as good as fresh ones, and a deletion that  *)
(* takes no lock cannot spoil them.                                        *)
(***************************************************************************)
EXTENDS MCTreeRequests, NestedSetProofs, FiniteSetTheorems

\* The creations are all in one project.
OneProject == \A q, u \in Project : q = u

\* check_parent's limit, read through get_ancestors.
WithinDepth == \A i \in DOMAIN table : Cardinality(GetAncestors(table, table[i])) < MaxDepth

\* A tree a request may find, and leaves.
SoundTree == TypeOK /\ TreeInv /\ IsFiniteSet(DOMAIN table) /\ WithinDepth

Creations ==
    [stage : {"idle", "loaded", "checked", "done"}, op : {"none", "create"},
     issue : Issue \union {NoIssue}, parent : Issue \union {NoIssue},
     row : Row \union {NoRow}, parentRow : Row \union {NoRow}, version : Nat, locks : Seq(Issue)]

Active(t) == request[t].stage \in {"loaded", "checked"}

\* The parent a creation has checked: gone, or still where it was read, with room
\* below it.
ParentHolds(req) ==
    /\ req.parent \in Issue /\ req.parent # req.issue
    /\ req.parent \in DOMAIN table =>
          /\ table[req.parent].root_id = req.parentRow.root_id
          /\ table[req.parent].rgt = req.parentRow.rgt
          /\ Cardinality(GetAncestors(table, table[req.parent])) + 1 < MaxDepth

\* A creation at work holds the project's row lock and an id nobody has.
CreationHolds(t) ==
    Active(t) =>
        /\ \E q \in Project : projectLock[q] = t
        /\ request[t].op = "create"
        /\ request[t].issue \in Issue /\ request[t].issue \notin DOMAIN table
        /\ request[t].stage = "loaded" => request[t].parent \in Issue
        /\ request[t].stage = "checked" /\ request[t].parent # NoIssue => ParentHolds(request[t])

RequestsHold ==
    /\ request \in [Txn -> Creations]
    /\ projectLock \in [Project -> Txn \union {NoTxn}]
    /\ \A t \in Txn : CreationHolds(t)

(* The inductive invariant of creations and deletions.                       *)
CreateInv == SoundTree /\ RequestsHold

-----------------------------------------------------------------------------
(* What creations and deletions do to the ancestors.                         *)

\* Fewer ancestors keep an issue within the limit.
LEMMA FewerAncestors ==
    ASSUME NEW S, IsFiniteSet(S), NEW T \in SUBSET S
    PROVE  IsFiniteSet(T) /\ Cardinality(T) \in Nat /\ Cardinality(S) \in Nat
           /\ Cardinality(T) <= Cardinality(S)
  BY FS_Subset, FS_CardinalityType

\* The ancestors of an issue are finitely many.
LEMMA FiniteAncestors ==
    ASSUME IsFiniteSet(DOMAIN table), NEW row
    PROVE  IsFiniteSet(GetAncestors(table, row)) /\ Cardinality(GetAncestors(table, row)) \in Nat
  <1>1. GetAncestors(table, row) \in SUBSET DOMAIN table
    BY DEF GetAncestors
  <1>2. QED
    BY <1>1, FewerAncestors

\* insert_root keeps a sound tree sound.
LEMMA InsertRootKeepsSound ==
    ASSUME SoundTree, NEW i \in Issue, i \notin DOMAIN table, table' = InsertRoot(table, i)
    PROVE  SoundTree'
  <1>0. TypeOK /\ TreeInv /\ IsFiniteSet(DOMAIN table) /\ WithinDepth
    BY DEF SoundTree
  <1>1. CreateRoot(i)
    BY DEF CreateRoot
  <1>2. TypeOK' /\ TreeInv'
    BY <1>0, <1>1, CreateRootKeepsTree
  <1>3. /\ DOMAIN table' = DOMAIN table \union {i}
        /\ \A j \in DOMAIN table : table'[j] = table[j]
        /\ table'[i] = [parent_id |-> NoIssue, root_id |-> i, lft |-> 1, rgt |-> 2]
    BY DEF InsertRoot
  <1>4. IsFiniteSet(DOMAIN table')
    BY <1>0, <1>3, FS_AddElement
  <1>5. \A j \in DOMAIN table : table[j].root_id # i
    BY <1>0 DEF TreeInv, RootEncloses
  <1>6. GetAncestors(table', table'[i]) = {}
    BY <1>3, <1>5 DEF GetAncestors, RowContains
  <1>7. \A j \in DOMAIN table : GetAncestors(table', table'[j]) = GetAncestors(table, table[j])
    BY <1>3, <1>5 DEF GetAncestors, RowContains
  <1>8. WithinDepth'
    <2>1. Cardinality({}) = 0 /\ 0 < MaxDepth
      BY FS_EmptySet, NestedSetAssumption
    <2>2. QED
      BY <1>0, <1>3, <1>6, <1>7, <2>1 DEF WithinDepth
  <1>9. QED
    BY <1>2, <1>4, <1>8 DEF SoundTree

\* insert_child keeps a sound tree sound when the parent has room below it.
LEMMA InsertChildKeepsSound ==
    ASSUME SoundTree, NEW i \in Issue, NEW p \in Issue, AddsChild(i, p),
           Cardinality(GetAncestors(table, table[p])) + 1 < MaxDepth
    PROVE  SoundTree'
  <1>0. TypeOK /\ TreeInv /\ IsFiniteSet(DOMAIN table) /\ WithinDepth /\ MaxDepth \in Nat
    BY NestedSetAssumption DEF SoundTree
  <1>1. /\ TypeOK' /\ TreeInv'
        /\ DOMAIN table' = DOMAIN table \union {i}
        /\ \A j, k \in DOMAIN table : Encloses(table', j, k) <=> Encloses(table, j, k)
        /\ \A k \in DOMAIN table : /\ Encloses(table', k, i) => k = p \/ Encloses(table, k, p)
                                   /\ ~Encloses(table', i, k)
    BY <1>0, InsertChildKeepsTree
  <1>2. IsFiniteSet(DOMAIN table')
    BY <1>0, <1>1, FS_AddElement
  <1>3. ~Encloses(table', i, i)
    <2>1. table'[i].lft \in Int
      BY <1>1 DEF TypeOK, Row
    <2>2. QED
      BY <2>1 DEF Encloses, RowContains
  <1>4. \A j \in DOMAIN table : GetAncestors(table', table'[j]) \subseteq GetAncestors(table, table[j])
    BY <1>1 DEF GetAncestors, Encloses
  <1>5. GetAncestors(table', table'[i]) \subseteq GetAncestors(table, table[p]) \union {p}
    BY <1>1, <1>3 DEF GetAncestors, Encloses
  <1>6. ASSUME NEW j \in DOMAIN table PROVE Cardinality(GetAncestors(table', table'[j])) < MaxDepth
    <2>1. PICK S : S = GetAncestors(table, table[j])
      OBVIOUS
    <2>2. PICK T : T = GetAncestors(table', table'[j])
      OBVIOUS
    <2>3. IsFiniteSet(S) /\ T \in SUBSET S /\ Cardinality(S) < MaxDepth
      BY <1>0, <1>4, <2>1, <2>2, FiniteAncestors DEF WithinDepth
    <2>4. Cardinality(T) \in Nat /\ Cardinality(S) \in Nat /\ Cardinality(T) <= Cardinality(S)
      BY <2>3, FewerAncestors
    <2>5. QED
      BY <1>0, <2>2, <2>3, <2>4
  <1>7. Cardinality(GetAncestors(table', table'[i])) < MaxDepth
    <2>1. PICK S : S = GetAncestors(table, table[p])
      OBVIOUS
    <2>2. PICK T : T = GetAncestors(table', table'[i])
      OBVIOUS
    <2>3. IsFiniteSet(S) /\ Cardinality(S) \in Nat /\ Cardinality(S) + 1 < MaxDepth
      BY <1>0, <2>1, FiniteAncestors
    <2>4. IsFiniteSet(S \union {p}) /\ Cardinality(S \union {p}) <= Cardinality(S) + 1
      <3>1. /\ IsFiniteSet(S \union {p})
            /\ Cardinality(S \union {p}) = IF p \in S THEN Cardinality(S) ELSE Cardinality(S) + 1
        BY <2>3, FS_AddElement
      <3>2. QED
        BY <2>3, <3>1
    <2>5. T \in SUBSET (S \union {p})
      BY <1>5, <2>1, <2>2
    <2>6. Cardinality(T) \in Nat /\ Cardinality(S \union {p}) \in Nat
          /\ Cardinality(T) <= Cardinality(S \union {p})
      BY <2>4, <2>5, FewerAncestors
    <2>7. QED
      BY <1>0, <2>2, <2>3, <2>4, <2>6
  <1>8. WithinDepth'
    BY <1>1, <1>6, <1>7 DEF WithinDepth
  <1>9. QED
    BY <1>1, <1>2, <1>8 DEF SoundTree

\* A deletion leaves every row that stays in its place, and takes ancestors away
\* at most.
LEMMA DeletionKeepsSound ==
    ASSUME SoundTree, NEW i \in Issue, i \in DOMAIN table, table' = DeleteRow(table, i)
    PROVE  /\ SoundTree'
           /\ DOMAIN table' \subseteq DOMAIN table
           /\ \A j \in DOMAIN table' :
                 /\ table'[j].root_id = table[j].root_id /\ table'[j].rgt = table[j].rgt
                 /\ Cardinality(GetAncestors(table', table'[j])) <= Cardinality(GetAncestors(table, table[j]))
                 /\ Cardinality(GetAncestors(table', table'[j])) \in Nat
                 /\ Cardinality(GetAncestors(table, table[j])) \in Nat
  <1>0. TypeOK /\ TreeInv /\ IsFiniteSet(DOMAIN table) /\ WithinDepth /\ MaxDepth \in Nat
    BY NestedSetAssumption DEF SoundTree
  <1>1. Delete(i)
    BY DEF Delete
  <1>2. TypeOK' /\ TreeInv'
    BY <1>0, <1>1, DeleteKeepsTree
  <1> DEFINE gone == {j \in DOMAIN table : j = i \/ table[j].root_id = i}
  <1>3. /\ DOMAIN table' = DOMAIN table \ gone
        /\ \A j \in DOMAIN table' : /\ table'[j].root_id = table[j].root_id
                                    /\ table'[j].lft = table[j].lft /\ table'[j].rgt = table[j].rgt
    BY <1>0 DEF DeleteRow, TypeOK, Row
  <1>4. IsFiniteSet(DOMAIN table')
    <2>1. DOMAIN table' \in SUBSET DOMAIN table
      BY <1>3
    <2>2. QED
      BY <1>0, <2>1, FS_Subset
  <1>5. \A j \in DOMAIN table' : GetAncestors(table', table'[j]) \subseteq GetAncestors(table, table[j])
    BY <1>3 DEF GetAncestors, RowContains
  <1>6. ASSUME NEW j \in DOMAIN table'
        PROVE  /\ Cardinality(GetAncestors(table', table'[j])) <= Cardinality(GetAncestors(table, table[j]))
               /\ Cardinality(GetAncestors(table', table'[j])) \in Nat
               /\ Cardinality(GetAncestors(table, table[j])) \in Nat
    <2>1. PICK S : S = GetAncestors(table, table[j])
      OBVIOUS
    <2>2. PICK T : T = GetAncestors(table', table'[j])
      OBVIOUS
    <2>3. IsFiniteSet(S) /\ T \in SUBSET S
      BY <1>0, <1>5, <2>1, <2>2, FiniteAncestors
    <2>4. Cardinality(T) \in Nat /\ Cardinality(S) \in Nat /\ Cardinality(T) <= Cardinality(S)
      BY <2>3, FewerAncestors
    <2>5. QED
      BY <2>1, <2>2, <2>4
  <1>7. WithinDepth'
    <2>1. \A j \in DOMAIN table' : j \in DOMAIN table
      BY <1>3
    <2>2. QED
      BY <1>0, <1>6, <2>1 DEF WithinDepth
  <1>8. QED
    BY <1>2, <1>3, <1>4, <1>6, <1>7 DEF SoundTree

-----------------------------------------------------------------------------
(* The steps.                                                                *)

\* A slot that is not serving a request, before or after it.
LEMMA RestingSlot ==
    ASSUME NEW st \in {"idle", "done"}
    PROVE  /\ [Idle EXCEPT !.stage = st] \in Creations
           /\ [Idle EXCEPT !.stage = st].stage = st
           /\ Idle \in Creations /\ Idle.stage = "idle"
  <1>1. Idle \in Creations
    <2>1. NoRow \in Row \union {NoRow} /\ <<>> \in Seq(Issue)
      OBVIOUS
    <2>2. QED
      BY <2>1 DEF Idle, Creations
  <1>2. QED
    BY <1>1 DEF Idle, Creations

\* The project's row lock lets one creation work at a time.
LEMMA OneCreation ==
    ASSUME OneProject, RequestsHold, NEW t \in Txn, NEW u \in Txn, Active(t), Active(u)
    PROVE  t = u
  BY DEF OneProject, RequestsHold, CreationHolds

\* COMMIT and ROLLBACK release the locks of t only; requests whose parent and id
\* are untouched stay sound.
LEMMA FinishKeepsRequests ==
    ASSUME RequestsHold, NEW t \in Txn, Finish(t),
           \A u \in Txn \ {t} : ~Active(u) \/ UNCHANGED table
    PROVE  RequestsHold'
  <1>0. request \in [Txn -> Creations] /\ projectLock \in [Project -> Txn \union {NoTxn}]
    BY DEF RequestsHold
  <1>1. PICK rest : rest = [Idle EXCEPT !.stage = "done"]
    OBVIOUS
  <1>2. rest \in Creations /\ rest.stage = "done"
    BY <1>1, RestingSlot
  <1>3. request' = [request EXCEPT ![t] = rest]
    BY <1>1 DEF Finish
  <1>4. /\ request' \in [Txn -> Creations] /\ request'[t] = rest
        /\ \A u \in Txn \ {t} : request'[u] = request[u]
    BY <1>0, <1>2, <1>3
  <1>5. projectLock' = [q \in Project |-> IF projectLock[q] = t THEN NoTxn ELSE projectLock[q]]
    BY DEF Finish
  <1>6. /\ projectLock' \in [Project -> Txn \union {NoTxn}]
        /\ \A u \in Txn \ {t}, q \in Project : projectLock[q] = u => projectLock'[q] = u
    BY <1>0, <1>5
  <1>7. ASSUME NEW u \in Txn PROVE CreationHolds(u)'
    <2>1. CASE u = t
      BY <1>2, <1>4, <2>1 DEF CreationHolds, Active
    <2>2. CASE u # t /\ Active(u)
      <3>1. UNCHANGED table
        BY <2>2
      <3>2. CreationHolds(u)
        BY DEF RequestsHold
      <3>3. ParentHolds(request[u]) => ParentHolds(request[u])'
        BY <1>4, <2>2, <3>1 DEF ParentHolds, GetAncestors
      <3>4. QED
        BY <1>4, <1>6, <2>2, <3>1, <3>2, <3>3 DEF CreationHolds, Active
    <2>3. CASE u # t /\ ~Active(u)
      BY <1>4, <2>3 DEF CreationHolds, Active
    <2>4. QED
      BY <2>1, <2>2, <2>3
  <1>8. QED
    BY <1>4, <1>6, <1>7 DEF RequestsHold

\* A rolled back request leaves the invariant as it was (RefuseParent, RefuseWrite,
\* AbortDeadlock).
LEMMA RollbackKeepsInv ==
    ASSUME CreateInv, NEW t \in Txn, Rollback(t)
    PROVE  CreateInv'
  <1>1. RequestsHold'
    BY FinishKeepsRequests DEF CreateInv, Rollback
  <1>2. SoundTree'
    BY DEF CreateInv, Rollback, SoundTree, TypeOK, TreeInv, Laminar, Proper, RootEncloses,
           ParentIsNearest, WithinDepth, GetAncestors, Encloses
  <1>3. QED
    BY <1>1, <1>2 DEF CreateInv

\* A step of one request that writes no issue keeps the tree.
LEMMA TreeUntouched ==
    ASSUME SoundTree, UNCHANGED table
    PROVE  SoundTree'
  BY DEF SoundTree, TypeOK, TreeInv, Laminar, Proper, RootEncloses, ParentIsNearest, WithinDepth,
         GetAncestors, Encloses

\* Requests that a step of another request leaves alone stay sound.
LEMMA UntouchedCreation ==
    ASSUME NEW u \in Txn, CreationHolds(u), UNCHANGED table, request'[u] = request[u],
           \A q \in Project : projectLock[q] = u => projectLock'[q] = u
    PROVE  CreationHolds(u)'
  <1>1. ParentHolds(request[u]) => ParentHolds(request[u])'
    BY DEF ParentHolds, GetAncestors
  <1>2. QED
    BY <1>1 DEF CreationHolds, Active

\* TakeSequence keeps the invariant: the lock was free, so nobody else is creating.
LEMMA TakeSequenceKeepsInv ==
    ASSUME CreateInv, NEW t \in Txn, NEW i \in Issue, NEW p \in Issue \union {NoIssue},
           NEW q \in Project, TakeSequence(t, i, p, q)
    PROVE  CreateInv'
  <1>0. /\ SoundTree /\ RequestsHold /\ request \in [Txn -> Creations]
        /\ projectLock \in [Project -> Txn \union {NoTxn}]
        /\ UNCHANGED <<table, version, treeLock>> /\ i \notin DOMAIN table /\ NoTxn \notin Txn
        /\ projectLock[q] = NoTxn /\ projectLock' = [projectLock EXCEPT ![q] = t]
        /\ NoIssue \notin Issue
    BY TxAssumption, NestedSetAssumption DEF CreateInv, RequestsHold, TakeSequence
  <1>1. PICK new : new = [Idle EXCEPT !.stage = IF p = NoIssue THEN "checked" ELSE "loaded",
                                      !.op = "create", !.issue = i, !.parent = p]
    OBVIOUS
  <1>2. request' = [request EXCEPT ![t] = new]
    BY <1>1 DEF TakeSequence
  <1>3. /\ new \in Creations /\ new.op = "create" /\ new.issue = i /\ new.parent = p
        /\ new.stage = IF p = NoIssue THEN "checked" ELSE "loaded"
    <2>1. Idle \in Creations
      BY RestingSlot
    <2>2. QED
      BY <1>1, <2>1 DEF Creations
  <1>4. /\ request' \in [Txn -> Creations] /\ request'[t] = new
        /\ \A u \in Txn \ {t} : request'[u] = request[u]
    BY <1>0, <1>2, <1>3
  <1>5. /\ projectLock' \in [Project -> Txn \union {NoTxn}] /\ projectLock'[q] = t
        /\ \A u \in Txn, x \in Project : projectLock[x] = u => projectLock'[x] = u
    BY <1>0
  <1>6. ASSUME NEW u \in Txn PROVE CreationHolds(u)'
    <2>1. CASE u = t
      BY <1>0, <1>3, <1>4, <1>5, <2>1 DEF CreationHolds, Active
    <2>2. CASE u # t
      <3>1. CreationHolds(u) /\ request'[u] = request[u]
        BY <1>0, <1>4, <2>2 DEF RequestsHold
      <3>2. QED
        BY <1>0, <1>5, <3>1, UntouchedCreation
    <2>3. QED
      BY <2>1, <2>2
  <1>7. SoundTree'
    BY <1>0, TreeUntouched
  <1>8. QED
    BY <1>4, <1>5, <1>6, <1>7 DEF CreateInv, RequestsHold

\* ReadParent keeps the invariant.
LEMMA ReadParentKeepsInv ==
    ASSUME CreateInv, NEW t \in Txn, ReadParent(t)
    PROVE  CreateInv'
  <1>0. /\ SoundTree /\ RequestsHold /\ request \in [Txn -> Creations]
        /\ projectLock \in [Project -> Txn \union {NoTxn}]
        /\ UNCHANGED <<table, version, treeLock, projectLock>>
        /\ request[t].stage = "loaded" /\ request[t].parent \in DOMAIN table
        /\ ParentAccepted(request[t]) /\ CreationHolds(t)
    BY DEF CreateInv, RequestsHold, ReadParent
  <1>1. PICK p : p = request[t].parent
    OBVIOUS
  <1>2. /\ request[t].op = "create" /\ request[t].issue \in Issue /\ request[t].issue \notin DOMAIN table
        /\ p \in Issue /\ p \in DOMAIN table /\ p # request[t].issue
    BY <1>0, <1>1 DEF CreationHolds, Active
  <1>3. Cardinality(GetAncestors(table, table[p])) + 1 < MaxDepth
    BY <1>0, <1>1, <1>2 DEF ParentAccepted, CheckParentOfNew
  <1>4. table[p] \in Row /\ table[p].root_id \in Issue
    BY <1>0, <1>2 DEF SoundTree, TypeOK, Row
  <1>5. PICK locks \in Seq(Issue) : locks = <<table[p].root_id>>
    <2>1. \A r \in Issue : <<r>> \in Seq(Issue)
      OBVIOUS
    <2>2. QED
      BY <1>4, <2>1
  <1>6. PICK new : new = [request[t] EXCEPT !.stage = "checked", !.parentRow = table[p], !.locks = locks]
    OBVIOUS
  <1>7. request' = [request EXCEPT ![t] = new]
    BY <1>1, <1>2, <1>5, <1>6 DEF ReadParent
  <1>8. /\ new \in Creations /\ new.stage = "checked" /\ new.parentRow = table[p]
        /\ new.op = request[t].op /\ new.issue = request[t].issue /\ new.parent = p
    <2>1. request[t] \in Creations
      BY <1>0
    <2>2. QED
      BY <1>1, <1>4, <1>5, <1>6, <2>1 DEF Creations
  <1>9. /\ request' \in [Txn -> Creations] /\ request'[t] = new
        /\ \A u \in Txn \ {t} : request'[u] = request[u]
    BY <1>0, <1>7, <1>8
  <1>10. ASSUME NEW u \in Txn PROVE CreationHolds(u)'
    <2>1. CASE u = t
      <3>1. ParentHolds(request[t])'
        BY <1>0, <1>2, <1>3, <1>8, <1>9 DEF ParentHolds, GetAncestors
      <3>2. \E q \in Project : projectLock[q] = t
        BY <1>0 DEF CreationHolds, Active
      <3>3. QED
        BY <1>0, <1>2, <1>8, <1>9, <2>1, <3>1, <3>2 DEF CreationHolds, Active
    <2>2. CASE u # t
      <3>1. CreationHolds(u) /\ request'[u] = request[u]
        BY <1>0, <1>9, <2>2 DEF RequestsHold
      <3>2. QED
        BY <1>0, <3>1, UntouchedCreation
    <2>3. QED
      BY <2>1, <2>2
  <1>11. SoundTree'
    BY <1>0, TreeUntouched
  <1>12. QED
    BY <1>0, <1>9, <1>10, <1>11 DEF CreateInv, RequestsHold

\* LockTree keeps the invariant: only the list of locks to take gets shorter.
LEMMA LockTreeKeepsInv ==
    ASSUME CreateInv, NEW t \in Txn, LockTree(t)
    PROVE  CreateInv'
  <1>0. /\ SoundTree /\ RequestsHold /\ request \in [Txn -> Creations]
        /\ projectLock \in [Project -> Txn \union {NoTxn}]
        /\ UNCHANGED <<table, version, projectLock>> /\ request[t].locks # <<>>
        /\ request' = [request EXCEPT ![t].locks = Tail(request[t].locks)]
    BY DEF CreateInv, RequestsHold, LockTree
  <1>1. request[t] \in Creations /\ request[t].locks \in Seq(Issue)
    BY <1>0 DEF Creations
  <1>2. PICK locks \in Seq(Issue) : locks = Tail(request[t].locks)
    <2>1. \A s \in Seq(Issue) : s # <<>> => Tail(s) \in Seq(Issue)
      OBVIOUS
    <2>2. QED
      BY <1>0, <1>1, <2>1
  <1>3. PICK new : new = [request[t] EXCEPT !.locks = locks]
    OBVIOUS
  <1>4. request' = [request EXCEPT ![t] = new]
    BY <1>0, <1>2, <1>3
  <1>5. /\ new \in Creations /\ new.stage = request[t].stage /\ new.op = request[t].op
        /\ new.issue = request[t].issue /\ new.parent = request[t].parent
        /\ new.parentRow = request[t].parentRow
    BY <1>1, <1>2, <1>3 DEF Creations
  <1>6. /\ request' \in [Txn -> Creations] /\ request'[t] = new
        /\ \A u \in Txn \ {t} : request'[u] = request[u]
    BY <1>0, <1>4, <1>5
  <1>7. ASSUME NEW u \in Txn PROVE CreationHolds(u)'
    <2>0. CreationHolds(u)
      BY <1>0 DEF RequestsHold
    <2>1. CASE u = t
      <3>1. ParentHolds(request[t]) => ParentHolds(request[t])'
        BY <1>0, <1>5, <1>6 DEF ParentHolds, GetAncestors
      <3>2. QED
        BY <1>0, <1>5, <1>6, <2>0, <2>1, <3>1 DEF CreationHolds, Active
    <2>2. CASE u # t
      BY <1>0, <1>6, <2>0, <2>2, UntouchedCreation
    <2>3. QED
      BY <2>1, <2>2
  <1>8. SoundTree'
    BY <1>0, TreeUntouched
  <1>9. QED
    BY <1>0, <1>6, <1>7, <1>8 DEF CreateInv, RequestsHold

\* Apply keeps the invariant: the creation that writes is the only one at work, so
\* the parent's root_id and rgt it read are still the ones in the table, or the
\* parent is gone and the foreign key refuses the row.
LEMMA ApplyKeepsInv ==
    ASSUME OneProject, CreateInv, NEW t \in Txn, Apply(t)
    PROVE  CreateInv'
  <1>0. /\ SoundTree /\ RequestsHold /\ NoIssue \notin Issue
        /\ request[t].stage = "checked" /\ CreationHolds(t)
        /\ table' = Written(request[t]) /\ ForeignKeysHold(table') /\ Finish(t)
    BY NestedSetAssumption DEF CreateInv, RequestsHold, Apply, ReadyToWrite
  <1>1. PICK i : i = request[t].issue
    OBVIOUS
  <1>2. PICK p : p = request[t].parent
    OBVIOUS
  <1>3. /\ request[t].op = "create" /\ i \in Issue /\ i \notin DOMAIN table
        /\ p # NoIssue => ParentHolds(request[t])
    BY <1>0, <1>1, <1>2 DEF CreationHolds, Active
  <1>4. RequestsHold'
    <2>1. \A u \in Txn \ {t} : ~Active(u)
      BY <1>0, OneCreation DEF Active
    <2>2. QED
      BY <1>0, <2>1, FinishKeepsRequests
  <1>5. CASE p = NoIssue
    <2>1. table' = InsertRoot(table, i)
      BY <1>0, <1>1, <1>2, <1>3, <1>5 DEF Written
    <2>2. SoundTree'
      BY <1>0, <1>3, <2>1, InsertRootKeepsSound
    <2>3. QED
      BY <1>4, <2>2 DEF CreateInv
  <1>6. CASE p # NoIssue
    <2>1. table' = InsertChild(table, i, p, request[t].parentRow.root_id, request[t].parentRow.rgt)
      BY <1>0, <1>1, <1>2, <1>3, <1>6 DEF Written
    <2>2. DOMAIN table' = DOMAIN table \union {i} /\ table'[i].parent_id = p
      BY <2>1 DEF InsertChild
    <2>3. p \in DOMAIN table
      BY <1>0, <1>1, <1>2, <1>3, <1>6, <2>2 DEF ForeignKeysHold, ParentHolds
    <2>4. /\ p \in Issue /\ table[p].root_id = request[t].parentRow.root_id
          /\ table[p].rgt = request[t].parentRow.rgt
          /\ Cardinality(GetAncestors(table, table[p])) + 1 < MaxDepth
      BY <1>2, <1>3, <1>6, <2>3 DEF ParentHolds
    <2>5. AddsChild(i, p)
      BY <1>3, <2>1, <2>3, <2>4 DEF AddsChild
    <2>6. SoundTree'
      BY <1>0, <1>3, <2>4, <2>5, InsertChildKeepsSound
    <2>7. QED
      BY <1>4, <2>6 DEF CreateInv
  <1>7. QED
    BY <1>5, <1>6

\* DeleteIssue keeps the invariant: the rows that stay keep their bounds, and lose
\* ancestors at most, so a creation that has checked its parent is still right.
LEMMA DeleteIssueKeepsInv ==
    ASSUME CreateInv, NEW i \in Issue, DeleteIssue(i)
    PROVE  CreateInv'
  <1>0. /\ SoundTree /\ RequestsHold /\ MaxDepth \in Nat
        /\ i \in DOMAIN table /\ table' = DeleteRow(table, i)
        /\ UNCHANGED <<version, request, treeLock, projectLock>>
    BY NestedSetAssumption DEF CreateInv, DeleteIssue
  <1>1. /\ SoundTree'
        /\ DOMAIN table' \subseteq DOMAIN table
        /\ \A j \in DOMAIN table' :
                 /\ table'[j].root_id = table[j].root_id /\ table'[j].rgt = table[j].rgt
                 /\ Cardinality(GetAncestors(table', table'[j])) <= Cardinality(GetAncestors(table, table[j]))
                 /\ Cardinality(GetAncestors(table', table'[j])) \in Nat
                 /\ Cardinality(GetAncestors(table, table[j])) \in Nat
    BY <1>0, DeletionKeepsSound
  <1>2. ASSUME NEW u \in Txn PROVE CreationHolds(u)'
    <2>1. CreationHolds(u) /\ request'[u] = request[u]
      BY <1>0 DEF RequestsHold
    <2>2. ParentHolds(request[u]) => ParentHolds(request[u])'
      <3> SUFFICES ASSUME ParentHolds(request[u]), request[u].parent \in DOMAIN table'
                   PROVE  /\ table'[request[u].parent].root_id = request[u].parentRow.root_id
                          /\ table'[request[u].parent].rgt = request[u].parentRow.rgt
                          /\ Cardinality(GetAncestors(table', table'[request[u].parent])) + 1 < MaxDepth
        BY <2>1 DEF ParentHolds
      <3>1. PICK p : p = request[u].parent
        OBVIOUS
      <3>2. /\ p \in DOMAIN table /\ table[p].root_id = request[u].parentRow.root_id
            /\ table[p].rgt = request[u].parentRow.rgt
            /\ Cardinality(GetAncestors(table, table[p])) + 1 < MaxDepth
        BY <1>1, <3>1 DEF ParentHolds
      <3>3. /\ table'[p].root_id = table[p].root_id /\ table'[p].rgt = table[p].rgt
            /\ Cardinality(GetAncestors(table', table'[p])) <= Cardinality(GetAncestors(table, table[p]))
            /\ Cardinality(GetAncestors(table', table'[p])) \in Nat
            /\ Cardinality(GetAncestors(table, table[p])) \in Nat
        BY <1>1, <3>1
      <3>4. Cardinality(GetAncestors(table', table'[p])) + 1 < MaxDepth
        BY <1>0, <3>2, <3>3
      <3>5. QED
        BY <3>1, <3>2, <3>3, <3>4
    <2>3. QED
      BY <1>0, <1>1, <2>1, <2>2 DEF CreationHolds, Active
  <1>3. QED
    BY <1>0, <1>1, <1>2 DEF CreateInv, RequestsHold

-----------------------------------------------------------------------------
(* The theorems.                                                             *)

\* Every step of creations and deletions keeps the invariant.
LEMMA CreateNextKeepsInv ==
    ASSUME OneProject, CreateInv, [CreateNext]_txVars
    PROVE  CreateInv'
  <1>1. CASE UNCHANGED txVars
    <2>1. SoundTree'
      BY <1>1, TreeUntouched DEF CreateInv, txVars
    <2>2. ASSUME NEW u \in Txn PROVE CreationHolds(u)'
      BY <1>1, UntouchedCreation DEF CreateInv, RequestsHold, txVars
    <2>3. QED
      BY <1>1, <2>1, <2>2 DEF CreateInv, RequestsHold, txVars
  <1>2. ASSUME NEW t \in Txn, StartCreate(t) PROVE CreateInv'
    BY <1>2, TakeSequenceKeepsInv DEF StartCreate
  <1>3. ASSUME NEW t \in Txn, Continue(t) PROVE CreateInv'
    <2>1. CASE RefuseParent(t) \/ AbortDeadlock(t) \/ RefuseWrite(t)
      <3>1. Rollback(t)
        BY <2>1 DEF RefuseParent, AbortDeadlock, RefuseWrite
      <3>2. QED
        BY <3>1, RollbackKeepsInv
    <2>2. QED
      BY <1>3, <2>1, ReadParentKeepsInv, LockTreeKeepsInv, ApplyKeepsInv DEF Continue
  <1>4. ASSUME NEW i \in Issue, DeleteIssue(i) PROVE CreateInv'
    BY <1>4, DeleteIssueKeepsInv
  <1>5. QED
    BY <1>1, <1>2, <1>3, <1>4 DEF CreateNext

\* Before the first request nobody holds anything.
LEMMA NobodyAtWork ==
    ASSUME TxInit
    PROVE  RequestsHold
  <1>1. Idle \in Creations /\ Idle.stage = "idle"
    BY RestingSlot
  <1>2. request \in [Txn -> Creations] /\ \A t \in Txn : request[t].stage = "idle"
    BY <1>1 DEF TxInit
  <1>3. projectLock \in [Project -> Txn \union {NoTxn}]
    BY DEF TxInit
  <1>4. QED
    BY <1>2, <1>3 DEF RequestsHold, CreationHolds, Active

(* Creations in one project and deletions that take no lock, in any number   *)
(* and any order, keep every tree they find sound: intervals nested and in   *)
(* agreement with root_id and parent_id, and no issue deeper than the limit  *)
(* (IssueService.create, insert_child, delete).                              *)
THEOREM CreationsAreSafe ==
    ASSUME OneProject
    PROVE  SoundTree /\ CreateSpec => []SoundTree
  <1>1. SoundTree /\ TxInit => CreateInv
    BY NobodyAtWork DEF CreateInv
  <1>2. CreateInv /\ [CreateNext]_txVars => CreateInv'
    BY CreateNextKeepsInv
  <1>3. CreateInv => SoundTree
    BY DEF CreateInv
  <1>4. QED
    BY <1>1, <1>2, <1>3, PTL DEF CreateSpec

\* The columns insert_root and insert_child give the issues of Family.
LEMMA FamilyRows ==
    /\ DOMAIN Family = {i1, i2, i3}
    /\ Family[i1] = [parent_id |-> NoIssue, root_id |-> i1, lft |-> 1, rgt |-> 6]
    /\ Family[i2] = [parent_id |-> i1, root_id |-> i1, lft |-> 2, rgt |-> 3]
    /\ Family[i3] = [parent_id |-> i1, root_id |-> i1, lft |-> 4, rgt |-> 5]
  <1>0. i1 # i2 /\ i1 # i3 /\ i2 # i3
    BY StartTreesAssumption
  <1>1. PICK root : root = InsertRoot(Empty, i1)
    OBVIOUS
  <1>2. DOMAIN root = {i1} /\ root[i1] = [parent_id |-> NoIssue, root_id |-> i1, lft |-> 1, rgt |-> 2]
    BY <1>1 DEF InsertRoot, Empty
  <1>3. PICK first : first = InsertChild(root, i2, i1, i1, root[i1].rgt)
    OBVIOUS
  <1>4. /\ DOMAIN first = {i1, i2}
        /\ first[i1] = [parent_id |-> NoIssue, root_id |-> i1, lft |-> 1, rgt |-> 4]
        /\ first[i2] = [parent_id |-> i1, root_id |-> i1, lft |-> 2, rgt |-> 3]
    BY <1>0, <1>2, <1>3 DEF InsertChild, OpenGap, WithBounds
  <1>5. Family = InsertChild(first, i3, i1, i1, first[i1].rgt)
    BY <1>1, <1>3 DEF Family
  <1>6. QED
    BY <1>0, <1>4, <1>5 DEF InsertChild, OpenGap, WithBounds

\* insert_child yields a table.
LEMMA InsertChildIsTable ==
    ASSUME NEW t, NEW i, NEW p, NEW root, NEW at
    PROVE  LET u == InsertChild(t, i, p, root, at) IN u = [j \in DOMAIN u |-> u[j]]
  BY DEF InsertChild

\* The tree of scene "creates" is sound.
LEMMA FamilyIsSound ==
    ASSUME table = Family
    PROVE  SoundTree
  <1>0. /\ i1 \in Issue /\ i2 \in Issue /\ i3 \in Issue /\ i1 # i2 /\ i1 # i3 /\ i2 # i3
        /\ MaxDepth > 1 /\ MaxDepth \in Nat /\ NoIssue \notin Issue
    BY StartTreesAssumption, NestedSetAssumption
  <1>1. /\ DOMAIN table = {i1, i2, i3}
        /\ table[i1].parent_id = NoIssue /\ table[i1].root_id = i1 /\ table[i1].lft = 1 /\ table[i1].rgt = 6
        /\ table[i2].parent_id = i1 /\ table[i2].root_id = i1 /\ table[i2].lft = 2 /\ table[i2].rgt = 3
        /\ table[i3].parent_id = i1 /\ table[i3].root_id = i1 /\ table[i3].lft = 4 /\ table[i3].rgt = 5
    BY FamilyRows
  <1>2. TypeOK
    <2>1. \A i \in DOMAIN table : table[i] \in Row
      BY <1>0, FamilyRows DEF Row
    <2>2. table = [i \in DOMAIN table |-> table[i]]
      BY InsertChildIsTable DEF Family
    <2>3. QED
      BY <1>0, <1>1, <2>1, <2>2 DEF TypeOK
  <1>3. Laminar
    BY <1>0, <1>1 DEF Laminar, Encloses, RowContains
  <1>4. Proper
    BY <1>1 DEF Proper
  <1>5. RootEncloses
    BY <1>0, <1>1 DEF RootEncloses, Encloses, RowContains
  <1>6. ParentIsNearest
    BY <1>0, <1>1 DEF ParentIsNearest, Encloses, RowContains
  <1>7. IsFiniteSet(DOMAIN table)
    <2>1. IsFiniteSet({}) /\ IsFiniteSet({} \union {i1})
      BY FS_EmptySet, FS_AddElement
    <2>2. IsFiniteSet(({} \union {i1}) \union {i2})
      BY <2>1, FS_AddElement
    <2>3. IsFiniteSet((({} \union {i1}) \union {i2}) \union {i3})
      BY <2>2, FS_AddElement
    <2>4. DOMAIN table = (({} \union {i1}) \union {i2}) \union {i3}
      BY <1>1
    <2>5. QED
      BY <2>3, <2>4
  <1>8. WithinDepth
    <2>1. \A i \in DOMAIN table : GetAncestors(table, table[i]) \in SUBSET {i1}
      BY <1>0, <1>1 DEF GetAncestors, RowContains
    <2>2. IsFiniteSet({i1}) /\ Cardinality({i1}) = 1
      BY FS_Singleton
    <2>3. ASSUME NEW i \in DOMAIN table PROVE Cardinality(GetAncestors(table, table[i])) < MaxDepth
      <3>1. PICK T \in SUBSET {i1} : T = GetAncestors(table, table[i])
        BY <2>1
      <3>2. Cardinality(T) \in Nat /\ Cardinality(T) <= Cardinality({i1})
        BY <2>2, FewerAncestors
      <3>3. QED
        BY <1>0, <2>2, <3>1, <3>2
    <2>4. QED
      BY <2>3 DEF WithinDepth
  <1>9. QED
    BY <1>2, <1>3, <1>4, <1>5, <1>6, <1>7, <1>8 DEF SoundTree, TreeInv

\* In the run's scene of creations the invariant holds throughout.
LEMMA SceneInvariant ==
    ASSUME OneProject
    PROVE  SceneSpec => [](scene = "creates" => CreateInv)
  <1>1. SceneInit => (scene = "creates" => CreateInv)
    BY FamilyIsSound, NobodyAtWork DEF SceneInit, CreateInv
  <1>2. ASSUME scene = "creates" => CreateInv, [SceneNext]_<<txVars, scene>>
        PROVE  (scene = "creates" => CreateInv)'
    <2>1. SUFFICES ASSUME scene' = "creates" PROVE CreateInv'
      OBVIOUS
    <2>2. scene = "creates" /\ [CreateNext]_txVars
      BY <1>2, <2>1 DEF SceneNext
    <2>3. QED
      BY <1>2, <2>2, CreateNextKeepsInv
  <1>3. QED
    BY <1>1, <1>2, PTL DEF SceneSpec

(* In the run's scene of creations and deletions every tree stays nested and  *)
(* agrees with parent_id, for any number of slots and issues: the parent's   *)
(* rgt read before the tree's lock is never stale, because creations of one  *)
(* project wait for each other (IssueService.create, insert_child).          *)
THEOREM CreationsKeepIntervals ==
    ASSUME OneProject
    PROVE  SceneSpec => []CreationsKeepTheTree
  <1>1. (scene = "creates" => CreateInv) => CreationsKeepTheTree
    BY DEF CreateInv, SoundTree, TreeInv, CreationsKeepTheTree
  <1>2. QED
    BY <1>1, SceneInvariant, PTL

(* The depth a creation checked before it held the lock is still within the   *)
(* limit when the issue is inserted (IssueService.check_parent).             *)
THEOREM CreationsKeepDepth ==
    ASSUME OneProject
    PROVE  SceneSpec => []DepthBounded
  <1>1. (scene = "creates" => CreateInv) => DepthBounded
    BY DEF CreateInv, SoundTree, WithinDepth, DepthBounded
  <1>2. QED
    BY <1>1, SceneInvariant, PTL

=============================================================================
