------------------------------ MODULE IssueRefs ------------------------------
(***************************************************************************)
(* References such as ACME-42: numbers are given out per project by        *)
(* IssueService.create and move, ProjectService.rename re-keys the issues  *)
(* of a project, and an old reference goes on through issue_ref_aliases    *)
(* and project_key_aliases (_resolve_retired_ref).                         *)
(*                                                                         *)
(* A creation, a move and a rename take several statements in one          *)
(* transaction; what a request wrote shows when it commits, and the rows   *)
(* it locked until then are those its entry of `clerk` names.  An update   *)
(* of issues.project_key takes the row lock that a key-share lock (an      *)
(* alias inserted for the issue) waits for, as the column has a unique     *)
(* index.  Only administrators rename projects: one rename at a time.      *)
(***************************************************************************)
EXTENDS Integers, FiniteSets

CONSTANTS Project,      \* project ids
          FirstKey,     \* the projects that exist at first, with their keys
          Key,          \* project keys
          NoKey,
          IssueId,      \* issue ids
          Clerk,        \* slots for requests
          ReusedKeys,   \* keys people give to a project although another one
                        \* had them before: Key, or none
          RefOps        \* bound: requests

ASSUME IssueRefsAssumption ==
    /\ NoKey \notin Key /\ ReusedKeys \subseteq Key
    /\ DOMAIN FirstKey \subseteq Project
    /\ \A p \in DOMAIN FirstKey : FirstKey[p] \in Key
    /\ \A p, q \in DOMAIN FirstKey : FirstKey[p] = FirstKey[q] => p = q
    /\ RefOps \in Nat

VARIABLES
    project,   \* projects: key (NoKey: no row) and issue_sequence
    keyAlias,  \* project_key_aliases: <<old_key, project>>
    ticket,    \* issues: project, project_key and sequence_number
    refAlias,  \* issue_ref_aliases: <<old_project_key, old_sequence_number, issue>>
    clerk,     \* what each request is doing
    named,     \* history: <<key, number, issue>> that were committed
    left,      \* history: the references the notes of moves quote
    askedKeys, \* history: keys people asked for
    clash,     \* history: the unique index of the references or of the aliases
               \* refused a creation, a move or a rename
    refOps

refVars == <<project, keyAlias, ticket, refAlias, clerk, named, left, askedKeys,
             clash, refOps>>

NoProject == [key |-> NoKey, seq |-> 0]
NoTicket == [st |-> "none"]
Free == [pc |-> "idle"]

Projects == {p \in Project : project[p].key # NoKey}
Tickets == {i \in IssueId : ticket[i].st = "live"}
InProject(p) == {i \in Tickets : ticket[i].project = p}
Ref(i) == <<ticket[i].key, ticket[i].num>>
AliasRef(a) == <<a[1], a[2]>>

RefInit ==
    /\ project = [p \in Project |-> IF p \in DOMAIN FirstKey
                                      THEN [key |-> FirstKey[p], seq |-> 0] ELSE NoProject]
    /\ keyAlias = {} /\ refAlias = {}
    /\ ticket = [i \in IssueId |-> NoTicket]
    /\ clerk = [r \in Clerk |-> Free]
    /\ named = {} /\ left = {}
    /\ askedKeys = {FirstKey[p] : p \in DOMAIN FirstKey}
    /\ clash = FALSE /\ refOps = 0

Begin(r) == clerk[r].pc = "idle" /\ refOps < RefOps /\ refOps' = refOps + 1
Done(r) == clerk' = [clerk EXCEPT ![r] = Free]

\* The row locks requests hold.
ProjectLocked(p) == \E r \in Clerk : clerk[r].pc \in {"insert", "moving"} /\ clerk[r].p = p
Renaming(p) == \E r \in Clerk : clerk[r].pc = "rename" /\ clerk[r].p = p
KeyShared(i) == \E r \in Clerk : clerk[r].pc = "moving" /\ clerk[r].i = i
Rekeyed(i) == \E r \in Clerk : clerk[r].pc = "rename" /\ i \in clerk[r].rows

\* UPDATE projects SET issue_sequence = issue_sequence + 1 RETURNING: what the
\* request that locks p is given.
NextNumber(p) == [key |-> project[p].key, num |-> project[p].seq + 1]

-----------------------------------------------------------------------------
(* IssueService.create.                                                      *)

\* A bug: the counter is read and written back without the row's lock.
CreateNumberUnlocked(r, p, i) ==
    /\ Begin(r)
    /\ p \in Projects
    /\ ticket[i] = NoTicket /\ \A c \in Clerk : clerk[c].pc = "insert" => clerk[c].i # i
    /\ clerk' = [clerk EXCEPT ![r] = [pc |-> "insert", p |-> p, i |-> i,
                                      got |-> NextNumber(p)]]
    /\ UNCHANGED <<project, keyAlias, ticket, refAlias, named, left, askedKeys, clash>>

CreateNumber(r, p, i) ==
    /\ Begin(r)
    /\ p \in Projects /\ ~ProjectLocked(p)
    /\ ticket[i] = NoTicket /\ \A c \in Clerk : clerk[c].pc = "insert" => clerk[c].i # i
    /\ clerk' = [clerk EXCEPT ![r] = [pc |-> "insert", p |-> p, i |-> i,
                                      got |-> NextNumber(p)]]
    /\ UNCHANGED <<project, keyAlias, ticket, refAlias, named, left, askedKeys, clash>>

\* The row an issue gets in project p, and the unique index on it.
Placed(p, got) == [st |-> "live", project |-> p, key |-> got.key, num |-> got.num]
RefTaken(got, i) == \E j \in Tickets \ {i} : Ref(j) = <<got.key, got.num>>

CommitCreate(r) ==
    LET c == clerk[r]
    IN  /\ c.pc = "insert"
        /\ Done(r)
        /\ IF RefTaken(c.got, c.i)
             THEN clash' = TRUE /\ UNCHANGED <<project, ticket, named>>
             ELSE /\ project' = [project EXCEPT ![c.p].seq = c.got.num]
                  /\ ticket' = [ticket EXCEPT ![c.i] = Placed(c.p, c.got)]
                  /\ named' = named \union {<<c.got.key, c.got.num, c.i>>}
                  /\ UNCHANGED clash
        /\ UNCHANGED <<keyAlias, refAlias, left, askedKeys, refOps>>

-----------------------------------------------------------------------------
(* IssueService.move.                                                        *)

\* The issue is loaded and the checks are made.
LoadMove(r, i, target) ==
    /\ Begin(r)
    /\ i \in Tickets /\ target \in Projects \ {ticket[i].project}
    /\ clerk' = [clerk EXCEPT ![r] = [pc |-> "loaded", i |-> i, p |-> target,
                                      old |-> Ref(i)]]
    /\ UNCHANGED <<project, keyAlias, ticket, refAlias, named, left, askedKeys, clash>>

\* The alias is inserted and the target's number taken.  A request that loaded
\* the issue before another one moved it has the same alias to insert, and an
\* issue or a project that is gone fails the request.
MoveNumber(r) ==
    LET c == clerk[r]
        taken == {a \in refAlias : AliasRef(a) = c.old}
    IN  /\ c.pc = "loaded"
        /\ ~Rekeyed(c.i) /\ ~KeyShared(c.i) /\ ~ProjectLocked(c.p)
        /\ IF c.i \notin Tickets \/ c.p \notin Projects \/ taken # {}
             THEN /\ Done(r)
                  /\ clash' = (clash \/ \E a \in taken : a[3] # c.i)
             ELSE /\ clerk' = [clerk EXCEPT ![r] =
                         [pc |-> "moving", i |-> c.i, p |-> c.p, old |-> c.old,
                          got |-> NextNumber(c.p)]]
                  /\ UNCHANGED clash
        /\ UNCHANGED <<project, keyAlias, ticket, refAlias, named, left, askedKeys, refOps>>

\* A bug: no alias is stored for the reference left behind.
CommitMoveUnaliased(r) ==
    LET c == clerk[r]
    IN  /\ c.pc = "moving"
        /\ Done(r)
        /\ project' = [project EXCEPT ![c.p].seq = c.got.num]
        /\ ticket' = [ticket EXCEPT ![c.i] = Placed(c.p, c.got)]
        /\ named' = named \union {<<c.got.key, c.got.num, c.i>>}
        /\ left' = left \union {<<c.old[1], c.old[2], c.i>>}
        /\ UNCHANGED <<keyAlias, refAlias, askedKeys, clash, refOps>>

CommitMove(r) ==
    LET c == clerk[r]
    IN  /\ c.pc = "moving"
        /\ Done(r)
        /\ IF RefTaken(c.got, c.i)
             THEN clash' = TRUE /\ UNCHANGED <<project, ticket, refAlias, named, left>>
             ELSE /\ project' = [project EXCEPT ![c.p].seq = c.got.num]
                  /\ ticket' = [ticket EXCEPT ![c.i] = Placed(c.p, c.got)]
                  /\ refAlias' = refAlias \union {<<c.old[1], c.old[2], c.i>>}
                  /\ named' = named \union {<<c.got.key, c.got.num, c.i>>}
                  /\ left' = left \union {<<c.old[1], c.old[2], c.i>>}
                  /\ UNCHANGED clash
        /\ UNCHANGED <<keyAlias, askedKeys, refOps>>

-----------------------------------------------------------------------------
(* ProjectService.rename, create and delete, IssueService.delete.            *)

\* What people ask for: a key nobody had, or any.
Chosen(key) == key \in ReusedKeys \/ key \notin askedKeys

\* The new key is no live project's and no other project's retired key.
KeyFree(p, new) ==
    /\ \A q \in Projects \ {p} : project[q].key # new
    /\ \A a \in keyAlias : a[1] = new => a[2] = p

\* The checks, the alias, and the update of the issues it can see; the update
\* waits for a move of one of them.
RekeyIssues(r, p, new) ==
    /\ Begin(r)
    /\ p \in Projects /\ new # project[p].key /\ KeyFree(p, new)
    /\ Chosen(new) \/ <<new, p>> \in keyAlias
    /\ \A q \in Project : ~Renaming(q)
    /\ \A i \in InProject(p) : ~KeyShared(i)
    /\ clerk' = [clerk EXCEPT ![r] = [pc |-> "rename", p |-> p, new |-> new,
                                      rows |-> InProject(p)]]
    /\ askedKeys' = askedKeys \union {new}
    /\ UNCHANGED <<project, keyAlias, ticket, refAlias, named, left, clash>>

\* The project row is written last: it waits for whoever has taken a number.
CommitRename(r) ==
    LET c    == clerk[r]
        rows == c.rows \intersect Tickets
        keyTaken == \E q \in Projects \ {c.p} : project[q].key = c.new
        rowTaken == \/ \E a \in keyAlias : a[1] = project[c.p].key
                    \/ \E i \in rows : RefTaken([key |-> c.new, num |-> ticket[i].num], i)
    IN  /\ c.pc = "rename"
        /\ ~ProjectLocked(c.p)
        /\ Done(r)
        /\ IF keyTaken \/ rowTaken
             THEN /\ clash' = (clash \/ ~keyTaken)
                  /\ UNCHANGED <<project, keyAlias, ticket, named>>
             ELSE /\ project' = [project EXCEPT ![c.p].key = c.new]
                  /\ keyAlias' = {a \in keyAlias : a[1] # c.new}
                                   \union {<<project[c.p].key, c.p>>}
                  /\ ticket' = [i \in IssueId |->
                        IF i \in rows THEN [ticket[i] EXCEPT !.key = c.new] ELSE ticket[i]]
                  /\ named' = named \union {<<c.new, ticket[i].num, i>> : i \in rows}
                  /\ UNCHANGED clash
        /\ UNCHANGED <<refAlias, left, askedKeys, refOps>>

\* create looks at the keys of live projects only (the unique index).
CreateProject(p, key) ==
    /\ refOps < RefOps /\ refOps' = refOps + 1
    /\ project[p] = NoProject
    /\ \A q \in Projects : project[q].key # key
    /\ Chosen(key)
    /\ project' = [project EXCEPT ![p] = [key |-> key, seq |-> 0]]
    /\ askedKeys' = askedKeys \union {key}
    /\ UNCHANGED <<keyAlias, ticket, refAlias, clerk, named, left, clash>>

\* A bug: issue_ref_aliases.issue_id without ON DELETE CASCADE.
GoneWithoutAliases(S) ==
    /\ ticket' = [i \in IssueId |-> IF i \in S THEN [st |-> "deleted"] ELSE ticket[i]]
    /\ UNCHANGED refAlias

Gone(S) ==
    /\ ticket' = [i \in IssueId |-> IF i \in S THEN [st |-> "deleted"] ELSE ticket[i]]
    /\ refAlias' = {a \in refAlias : a[3] \notin S}

DeleteIssue(i) ==
    /\ refOps < RefOps /\ refOps' = refOps + 1
    /\ i \in Tickets /\ ~KeyShared(i) /\ ~Rekeyed(i)
    /\ Gone({i})
    /\ UNCHANGED <<project, keyAlias, clerk, named, left, askedKeys, clash>>

\* The issues, their aliases and the retired keys go with the project.
DeleteProject(p) ==
    /\ refOps < RefOps /\ refOps' = refOps + 1
    /\ p \in Projects /\ ~ProjectLocked(p) /\ ~Renaming(p)
    /\ \A i \in InProject(p) : ~KeyShared(i)
    /\ project' = [project EXCEPT ![p] = [NoProject EXCEPT !.seq = -1]]
    /\ keyAlias' = {a \in keyAlias : a[2] # p}
    /\ Gone(InProject(p))
    /\ UNCHANGED <<clerk, named, left, askedKeys, clash>>

RefAction ==
    \/ \E r \in Clerk :
          \/ \E p \in Project, i \in IssueId : CreateNumber(r, p, i) \/ LoadMove(r, i, p)
          \/ CommitCreate(r) \/ MoveNumber(r) \/ CommitMove(r) \/ CommitRename(r)
          \/ \E p \in Project, key \in Key : RekeyIssues(r, p, key)
    \/ \E p \in Project, key \in Key : CreateProject(p, key)
    \/ \E i \in IssueId : DeleteIssue(i)
    \/ \E p \in Project : DeleteProject(p)

RefSpec == RefInit /\ [][RefAction]_refVars

-----------------------------------------------------------------------------
(* get_by_display_key and _resolve_retired_ref: the issues a reference may   *)
(* be answered with, {} when it is not found.                                *)

Aliased(keys, num) == {a[3] : a \in {b \in refAlias : b[1] \in keys /\ b[2] = num}}

ResolveRetiredRef(key, num) ==
    LET owners == {a[2] : a \in {b \in keyAlias : b[1] = key}}
        inside == {i \in Tickets : ticket[i].project \in owners /\ ticket[i].num = num}
        keys   == {project[p].key : p \in owners} \union
                  {a[1] : a \in {b \in keyAlias : b[2] \in owners}}
    IN  IF Aliased({key}, num) # {} THEN Aliased({key}, num)
        ELSE IF inside # {} THEN inside
        ELSE Aliased(keys, num)

Resolve(key, num) ==
    LET current == {i \in Tickets : Ref(i) = <<key, num>>}
    IN  IF current # {} THEN current ELSE ResolveRetiredRef(key, num)

(* Whatever creations, moves, renames, reverts and deletions come between, a *)
(* reference that ever named an issue leads to that issue or is not found,   *)
(* and never to another one ("Numbers are never reused within a project, so  *)
(* the answer is unique", _resolve_retired_ref).  It is found in two cases:  *)
(* the reference a move's note quotes, as long as the issue exists, and,     *)
(* under each key its project had before, the number of an issue that is in  *)
(* the project ("OLD-12 becomes ACME-12", the guide).  Not every old one is: *)
(* what an issue was called in a project that it has left is found through   *)
(* the project's old keys only while they are old.                           *)
RefsKeepTheirIssue ==
    /\ \A n \in named : Resolve(n[1], n[2]) \subseteq {n[3]}
    /\ \A n \in left : n[3] \in Tickets => Resolve(n[1], n[2]) = {n[3]}
    /\ \A i \in Tickets, a \in keyAlias :
          a[2] = ticket[i].project => Resolve(a[1], ticket[i].num) = {i}

(* No reference an issue ever had leads to another issue while the issue     *)
(* exists ("The old key stays reserved for this project, so no other project *)
(* can take it", docs/guide/en/projects/index.md).                           *)
RetiredRefsAreReserved ==
    \A n \in named : n[3] \in Tickets => Resolve(n[1], n[2]) \subseteq {n[3]}

(* The unique indexes on display keys, aliases and retired keys never refuse *)
(* a creation, a move or a rename that passed its checks ("guarantees no     *)
(* duplicate sequence_numbers for this project under concurrent inserts").   *)
NoClash == ~clash

\* The state has its shape; an issue lives in a project that exists.
RefTypeOK ==
    /\ \A p \in Project : project[p].key \in Key \union {NoKey}
    /\ keyAlias \subseteq Key \X Project
    /\ \A i \in Tickets : ticket[i].project \in Projects
    /\ \A a \in refAlias : a[3] \in Tickets
    /\ clash \in BOOLEAN /\ refOps \in 0..RefOps

=============================================================================
