---------------------------- MODULE IssueTreeTx ----------------------------
(***************************************************************************)
(* The hierarchy requests of NestedSet as concurrent READ COMMITTED        *)
(* transactions.  A request reads the rows it works on, validates, takes   *)
(* the advisory locks of the trees those rows were in, and only then       *)
(* applies its UPDATEs and commits; the columns it read are not read again *)
(* under the lock.  Creating an issue first takes the row lock of its      *)
(* project (the issue_sequence increment), and only then reads the parent. *)
(*                                                                         *)
(* The UPDATEs of one request and its commit are one step.                 *)
(***************************************************************************)
EXTENDS NestedSet

CONSTANTS Txn,          \* request slots, each serving one request
          NoTxn,        \* a lock nobody holds
          Project,      \* projects new issues are created in
          StartTables   \* issue tables the requests may find

ASSUME TxAssumption == NoTxn \notin Txn

VARIABLES version,      \* lock_version of each issue
          request,      \* what each slot is doing
          treeLock,     \* owner of pg_advisory_xact_lock(root_id)
          projectLock   \* owner of the projects row lock

txVars == <<table, version, request, treeLock, projectLock>>

NoRow == [parent_id |-> NoIssue, root_id |-> NoIssue, lft |-> 0, rgt |-> 0]

Idle == [stage |-> "idle", op |-> "none", issue |-> NoIssue, parent |-> NoIssue,
         row |-> NoRow, parentRow |-> NoRow, version |-> 0, locks |-> <<>>]

TxInit ==
    /\ table \in StartTables
    /\ version = [i \in Issue |-> 0]
    /\ request = [t \in Txn |-> Idle]
    /\ treeLock = [r \in Issue |-> NoTxn]
    /\ projectLock = [q \in Project |-> NoTxn]

-----------------------------------------------------------------------------
(* Locks.                                                                  *)

\* The holder of the lock t needs next, if another request holds it.
WaitsFor(t) ==
    LET locks == request[t].locks
    IN  IF request[t].stage = "checked" /\ locks # <<>> /\ treeLock[Head(locks)] # t
          THEN treeLock[Head(locks)]
          ELSE NoTxn

\* PostgreSQL's detector: t is on a cycle of requests waiting for each other.
Deadlocked(t) ==
    \E S \in SUBSET Txn :
        /\ t \in S
        /\ \A u \in S : WaitsFor(u) \in S
        /\ \A u \in S : \E v \in S : WaitsFor(v) = u

\* A bug: pg_advisory_lock for pg_advisory_xact_lock.
FinishKeepingLocks(t) ==
    /\ request' = [request EXCEPT ![t] = [Idle EXCEPT !.stage = "done"]]
    /\ projectLock' = [q \in Project |-> IF projectLock[q] = t THEN NoTxn ELSE projectLock[q]]
    /\ UNCHANGED treeLock

\* COMMIT or ROLLBACK: every lock of the transaction is released.
Finish(t) ==
    /\ request' = [request EXCEPT ![t] = [Idle EXCEPT !.stage = "done"]]
    /\ treeLock' = [r \in Issue |-> IF treeLock[r] = t THEN NoTxn ELSE treeLock[r]]
    /\ projectLock' = [q \in Project |-> IF projectLock[q] = t THEN NoTxn ELSE projectLock[q]]

Rollback(t) == Finish(t) /\ UNCHANGED <<table, version>>

\* move_to_parent locks the tree left behind, then the one joined, if another.
LocksFor(from, to) == IF from = to THEN <<from>> ELSE <<from, to>>

-----------------------------------------------------------------------------
(* Requests.                                                               *)

\* A bug: the sequence number is read and written back without a row lock.
TakeSequenceUnlocked(t, i, p, q) ==
    /\ request[t].stage = "idle"
    /\ i \notin DOMAIN table
    /\ \A u \in Txn : request[u].issue # i
    /\ request' = [request EXCEPT ![t] =
          [Idle EXCEPT !.stage = IF p = NoIssue THEN "checked" ELSE "loaded",
                       !.op = "create", !.issue = i, !.parent = p]]
    /\ UNCHANGED <<table, version, treeLock, projectLock>>

\* create: the sequence increment blocks other creations in the project.
TakeSequence(t, i, p, q) ==
    /\ request[t].stage = "idle"
    /\ i \notin DOMAIN table
    /\ \A u \in Txn : request[u].issue # i
    /\ projectLock[q] = NoTxn
    /\ projectLock' = [projectLock EXCEPT ![q] = t]
    /\ request' = [request EXCEPT ![t] =
          [Idle EXCEPT !.stage = IF p = NoIssue THEN "checked" ELSE "loaded",
                       !.op = "create", !.issue = i, !.parent = p]]
    /\ UNCHANGED <<table, version, treeLock>>

\* update: the endpoint loads the issue; p = NoIssue clears the parent.
LoadIssue(t, i, p) ==
    /\ request[t].stage = "idle"
    /\ i \in DOMAIN table
    /\ request' = [request EXCEPT ![t] =
          [Idle EXCEPT !.stage = IF p = NoIssue THEN "checked" ELSE "loaded",
                       !.op = IF p = NoIssue THEN "clear" ELSE "move",
                       !.issue = i, !.parent = p, !.row = table[i], !.version = version[i],
                       !.locks = IF p = NoIssue THEN LocksFor(table[i].root_id, i) ELSE <<>>]]
    /\ UNCHANGED <<table, version, treeLock, projectLock>>

ParentAccepted(req) ==
    IF req.op = "create"
      THEN CheckParentOfNew(table, table[req.parent])
      ELSE ValidateParent(table, req.issue, req.row, req.parent, table[req.parent])

ReadParent(t) ==
    LET req == request[t]
        p   == req.parent
    IN  /\ req.stage = "loaded"
        /\ p \in DOMAIN table
        /\ ParentAccepted(req)
        /\ request' = [request EXCEPT ![t] =
              [req EXCEPT !.stage = "checked", !.parentRow = table[p],
                          !.locks = IF req.op = "create"
                                      THEN <<table[p].root_id>>
                                      ELSE LocksFor(req.row.root_id, table[p].root_id)]]
        /\ UNCHANGED <<table, version, treeLock, projectLock>>

\* NotFoundError or ValidationError.
RefuseParent(t) ==
    /\ request[t].stage = "loaded"
    /\ request[t].parent \in DOMAIN table => ~ParentAccepted(request[t])
    /\ Rollback(t)

LockTree(t) ==
    LET locks == request[t].locks
    IN  /\ request[t].stage = "checked"
        /\ locks # <<>>
        /\ treeLock[Head(locks)] \in {NoTxn, t}
        /\ treeLock' = [treeLock EXCEPT ![Head(locks)] = t]
        /\ request' = [request EXCEPT ![t].locks = Tail(locks)]
        /\ UNCHANGED <<table, version, projectLock>>

AbortDeadlock(t) == Deadlocked(t) /\ Rollback(t)

-----------------------------------------------------------------------------
(* The writes, all from the columns the request read.                      *)

\* The flush of parent_id names the lock_version the request holds, unless the
\* issue was read without a parent: then nothing is flushed.  The branch under
\* a parent has refreshed the issue, so its flush always matches.
Flushes(req) ==
    /\ req.op # "create" => req.issue \in DOMAIN table
    /\ req.op = "clear" /\ req.row.parent_id # NoIssue => version[req.issue] = req.version

Written(req) ==
    CASE req.op = "create" /\ req.parent = NoIssue -> InsertRoot(table, req.issue)
      [] req.op = "create" /\ req.parent # NoIssue ->
            InsertChild(table, req.issue, req.parent, req.parentRow.root_id, req.parentRow.rgt)
      [] req.op = "move" ->
            MoveUnder(table, req.issue, req.parent, req.row.root_id, req.parentRow.root_id,
                      req.parentRow.rgt, req.row.rgt - req.row.lft + 1)
      [] req.op = "clear" ->
            LET moved == MoveToRoot(table, req.issue, req.row.root_id, req.row.lft, req.row.rgt)
            IN  IF req.row.parent_id = NoIssue
                  THEN WithParent(moved, req.issue, table[req.issue].parent_id)
                  ELSE moved

ForeignKeysHold(t) ==
    \A i \in DOMAIN t : /\ t[i].parent_id \in DOMAIN t \union {NoIssue}
                        /\ t[i].root_id \in DOMAIN t

ReadyToWrite(t) == request[t].stage = "checked" /\ request[t].locks = <<>>

Apply(t) ==
    LET req == request[t]
        i   == req.issue
    IN  /\ ReadyToWrite(t)
        /\ Flushes(req)
        /\ ForeignKeysHold(Written(req))
        /\ table' = Written(req)
        /\ version' = IF req.op # "create" /\ table'[i].parent_id # table[i].parent_id
                        THEN [version EXCEPT ![i] = @ + 1]
                        ELSE version
        /\ Finish(t)

\* StaleDataError, a vanished row, or a foreign key: the request is rolled back.
RefuseWrite(t) ==
    /\ ReadyToWrite(t)
    /\ Flushes(request[t]) => ~ForeignKeysHold(Written(request[t]))
    /\ Rollback(t)

\* IssueService.delete takes no advisory lock.
DeleteIssue(i) ==
    /\ i \in DOMAIN table
    /\ table' = DeleteRow(table, i)
    /\ UNCHANGED <<version, request, treeLock, projectLock>>

-----------------------------------------------------------------------------

StartCreate(t) ==
    \E i \in Issue, p \in Issue \union {NoIssue}, q \in Project : TakeSequence(t, i, p, q)

StartMove(t) == \E i, p \in Issue : LoadIssue(t, i, p)

StartClear(t) == \E i \in Issue : LoadIssue(t, i, NoIssue)

Continue(t) ==
    \/ ReadParent(t)
    \/ RefuseParent(t)
    \/ LockTree(t)
    \/ AbortDeadlock(t)
    \/ Apply(t)
    \/ RefuseWrite(t)

TxNext ==
    \/ \E t \in Txn : StartCreate(t) \/ StartMove(t) \/ StartClear(t) \/ Continue(t)
    \/ \E i \in Issue : DeleteIssue(i)

TxFairness == \A t \in Txn : WF_txVars(Continue(t))

TxSpec == TxInit /\ [][TxNext]_txVars /\ TxFairness

\* Issues are created and deleted, but nobody is re-parented.
CreateNext ==
    \/ \E t \in Txn : StartCreate(t) \/ Continue(t)
    \/ \E i \in Issue : DeleteIssue(i)

CreateSpec == TxInit /\ [][CreateNext]_txVars

\* Issues are created and moved under a parent: what each request does alone is
\* right, so whatever goes wrong here comes from the interleaving.
MoveNext == \E t \in Txn : StartCreate(t) \/ StartMove(t) \/ Continue(t)

MoveSpec == TxInit /\ [][MoveNext]_txVars

-----------------------------------------------------------------------------
(* Properties.                                                             *)

\* Every request ends: the two locks of a move are taken in no fixed order, and
\* requests that wait for each other are broken up by the deadlock detector.
EveryRequestFinishes ==
    \A t \in Txn : request[t].stage \in {"loaded", "checked"} ~> request[t].stage = "done"

\* "All tree-modifying operations acquire a PostgreSQL advisory transaction lock
\* on the root_id to prevent concurrent corruption" (nested_set_service.py):
\* with the locks in place, no two intervals of a tree ever overlap.
LocksPreventCorruption == Laminar

=============================================================================
