-------------------------- MODULE IssueRefsProofs --------------------------
(***************************************************************************)
(* Proofs about IssueRefs, for any projects, keys, issues and number of    *)
(* requests.  The shapes hold however people choose keys; that references  *)
(* keep their issue and that no unique index is hit needs that people give *)
(* no project a key another one had before (ReusedKeys = {}): RetiredRefs- *)
(* AreReserved fails without it.                                           *)
(***************************************************************************)
EXTENDS IssueRefs, TLAPS

-----------------------------------------------------------------------------
(* The inductive invariants.                                               *)

Number == [key : Key, num : Nat]
Naming == Key \X Nat \X IssueId

ProjectRow == [key : Key \union {NoKey}, seq : Int]

TicketRow ==
    [st : {"none", "deleted"}]
       \union [st : {"live"}, project : Project, key : Key, num : Nat]

ClerkRecord ==
    [pc : {"idle"}]
       \union [pc : {"insert"}, p : Project, i : IssueId, got : Number]
       \union [pc : {"loaded"}, i : IssueId, p : Project, old : Key \X Nat]
       \union [pc : {"moving"}, i : IssueId, p : Project, old : Key \X Nat, got : Number]
       \union [pc : {"rename"}, p : Project, new : Key, rows : SUBSET IssueId]

\* What a request has locked is still there when it commits.
LocksHold ==
    \A r \in Clerk :
       /\ clerk[r].pc \in {"insert", "moving", "rename"} => clerk[r].p \in Projects
       /\ clerk[r].pc = "moving" => clerk[r].i \in Tickets

RefShapes ==
    /\ project \in [Project -> ProjectRow] /\ \A p \in Projects : project[p].seq \in Nat
    /\ keyAlias \in SUBSET (Key \X Project)
    /\ ticket \in [IssueId -> TicketRow] /\ \A i \in Tickets : ticket[i].project \in Projects
    /\ refAlias \in SUBSET Naming /\ \A a \in refAlias : a[3] \in Tickets
    /\ clerk \in [Clerk -> ClerkRecord]
    /\ named \in SUBSET Naming /\ left \in SUBSET Naming
    /\ askedKeys \in SUBSET Key
    /\ clash \in BOOLEAN /\ refOps \in 0..RefOps
    /\ LocksHold

RenamesTo(p, k) == \E r \in Clerk : clerk[r].pc = "rename" /\ clerk[r].p = p /\ clerk[r].new = k

\* The keys that lead to p: its own, its retired ones, the one it is about to get.
Owns(p, k) == project[p].key = k \/ <<k, p>> \in keyAlias \/ RenamesTo(p, k)

\* A key leads to one project, and one that was asked for to no other ever after.
KeysOwned ==
    /\ \A p, q \in Project, k \in Key : Owns(p, k) /\ Owns(q, k) => p = q
    /\ \A p \in Project, k \in Key : Owns(p, k) => k \in askedKeys
    /\ \A a \in keyAlias : a[2] \in Projects /\ \A p \in Project : project[p].key # a[1]
    /\ \A n \in named : n[1] \in askedKeys

\* A number leads to one issue, under all the keys of its project.
NumbersOnce ==
    /\ \A m, n \in named : m[1] = n[1] /\ m[2] = n[2] => m[3] = n[3]
    /\ \A p \in Project : \A n \in named : Owns(p, n[1]) => n[2] <= project[p].seq
    /\ \A p \in Project : \A m, n \in named :
          Owns(p, m[1]) /\ Owns(p, n[1]) /\ m[2] = n[2] => m[3] = n[3]

\* What an issue is and was called is on record.
TicketsNamed ==
    /\ \A i \in Tickets : /\ <<ticket[i].key, ticket[i].num, i>> \in named
                          /\ Owns(ticket[i].project, ticket[i].key)
    /\ \A n \in named : ticket[n[3]].st # "none"
    /\ refAlias \subseteq named /\ left \subseteq named
    /\ \A n \in left : n[3] \in Tickets => n \in refAlias

Numbering(r) == clerk[r].pc \in {"insert", "moving"}

\* What a request read under its locks is still so.
ReadsHold ==
    /\ \A r \in Clerk : Numbering(r) => clerk[r].got = NextNumber(clerk[r].p)
    /\ \A r, s \in Clerk : Numbering(r) /\ Numbering(s) /\ clerk[r].p = clerk[s].p => r = s
    /\ \A r \in Clerk : clerk[r].pc = "insert" => ticket[clerk[r].i].st = "none"
    /\ \A r, s \in Clerk : clerk[r].pc = "insert" /\ clerk[s].pc = "insert" /\ clerk[r].i = clerk[s].i => r = s
    /\ \A r \in Clerk : clerk[r].pc \in {"loaded", "moving"} =>
          <<clerk[r].old[1], clerk[r].old[2], clerk[r].i>> \in named
    /\ \A r \in Clerk : clerk[r].pc = "rename" =>
          /\ clerk[r].rows \subseteq InProject(clerk[r].p)
          /\ clerk[r].new # project[clerk[r].p].key
          /\ \A s \in Clerk : clerk[s].pc = "moving" => clerk[s].i \notin clerk[r].rows
    /\ \A r, s \in Clerk : clerk[r].pc = "rename" /\ clerk[s].pc = "rename" => r = s

RefInv == RefShapes /\ KeysOwned /\ NumbersOnce /\ TicketsNamed /\ ReadsHold /\ NoClash

-----------------------------------------------------------------------------
(* The shapes, however people choose keys.                                 *)

\* What the record of a request holds at each statement it is about to make.
LEMMA ClerkFields ==
    ASSUME RefShapes, NEW r \in Clerk
    PROVE  /\ clerk[r].pc \in {"idle", "insert", "loaded", "moving", "rename"}
           /\ clerk[r].pc # "idle" => clerk[r].p \in Project
           /\ clerk[r].pc \in {"insert", "loaded", "moving"} => clerk[r].i \in IssueId
           /\ clerk[r].pc \in {"insert", "moving"} =>
                 clerk[r].got \in Number /\ clerk[r].got.key \in Key /\ clerk[r].got.num \in Nat
           /\ clerk[r].pc \in {"loaded", "moving"} =>
                 clerk[r].old \in Key \X Nat /\ clerk[r].old[1] \in Key /\ clerk[r].old[2] \in Nat
           /\ clerk[r].pc = "rename" => clerk[r].new \in Key /\ clerk[r].rows \in SUBSET IssueId
  BY DEF RefShapes, ClerkRecord, Number

\* The columns of the rows of projects and issues.
LEMMA RowFields ==
    ASSUME RefShapes
    PROVE  /\ \A p \in Project : project[p].key \in Key \union {NoKey} /\ project[p].seq \in Int
           /\ \A p \in Projects : p \in Project /\ project[p].key \in Key /\ project[p].seq \in Nat
           /\ \A i \in IssueId : ticket[i].st \in {"none", "deleted", "live"}
           /\ \A i \in Tickets : /\ i \in IssueId /\ ticket[i].project \in Project
                                 /\ ticket[i].key \in Key /\ ticket[i].num \in Nat
                                 /\ ticket[i].project \in Projects
  BY DEF RefShapes, ProjectRow, TicketRow, Projects, Tickets

\* A request that ends holds no lock any more, and nothing another one locked
\* is gone.
LEMMA DoneKeepsLocks ==
    ASSUME RefShapes, NEW r \in Clerk, Done(r) \/ clerk' = clerk,
           Projects \subseteq Projects', Tickets \subseteq Tickets'
    PROVE  clerk' \in [Clerk -> ClerkRecord] /\ LocksHold'
  <1>1. Free \in ClerkRecord /\ Free.pc = "idle"
    BY DEF Free, ClerkRecord
  <1>2. clerk' \in [Clerk -> ClerkRecord] /\ \A s \in Clerk : clerk'[s] = clerk[s] \/ clerk'[s] = Free
    BY <1>1 DEF RefShapes, Done
  <1>3. QED
    BY <1>1, <1>2 DEF RefShapes, LocksHold

\* A statement that writes nothing yet: its request goes on.
LEMMA StatementKeepsShapes ==
    ASSUME RefShapes, NEW r \in Clerk, NEW rec \in ClerkRecord,
           clerk' = [clerk EXCEPT ![r] = rec],
           rec.pc \in {"insert", "moving", "rename"} => rec.p \in Projects,
           rec.pc = "moving" => rec.i \in Tickets,
           UNCHANGED <<project, keyAlias, ticket, refAlias, named, left>>,
           askedKeys' \in SUBSET Key, clash' \in BOOLEAN, refOps' \in 0..RefOps
    PROVE  RefShapes'
  <1>1. Projects' = Projects /\ Tickets' = Tickets
    BY DEF Projects, Tickets
  <1>2. clerk' \in [Clerk -> ClerkRecord] /\ clerk'[r] = rec /\ \A s \in Clerk \ {r} : clerk'[s] = clerk[s]
    BY DEF RefShapes
  <1>3. LocksHold'
    BY <1>1, <1>2 DEF RefShapes, LocksHold
  <1>4. QED
    BY <1>1, <1>2, <1>3 DEF RefShapes

\* The count of requests stays within its bound.
LEMMA BeginCounts ==
    ASSUME RefShapes, refOps < RefOps, refOps' = refOps + 1
    PROVE  refOps' \in 0..RefOps
  BY IssueRefsAssumption DEF RefShapes

\* The statements of create, move and rename that come before the commit.
LEMMA StatementsKeepShapes ==
    ASSUME RefShapes, NEW r \in Clerk,
           \/ \E p \in Project, i \in IssueId : CreateNumber(r, p, i) \/ LoadMove(r, i, p)
           \/ MoveNumber(r)
           \/ \E p \in Project, key \in Key : RekeyIssues(r, p, key)
    PROVE  RefShapes'
  <1>0. /\ askedKeys \in SUBSET Key /\ clash \in BOOLEAN /\ refOps \in 0..RefOps
    BY DEF RefShapes
  <1>1. \A p \in Projects : NextNumber(p) \in Number
    BY RowFields DEF NextNumber, Number
  <1>2. ASSUME NEW p \in Project, NEW i \in IssueId, CreateNumber(r, p, i)
        PROVE  RefShapes'
    <2>1. PICK rec : rec = [pc |-> "insert", p |-> p, i |-> i, got |-> NextNumber(p)]
      OBVIOUS
    <2>2. p \in Projects /\ refOps' \in 0..RefOps
      BY <1>2, BeginCounts DEF CreateNumber, Begin
    <2>3. rec \in ClerkRecord /\ rec.pc = "insert" /\ rec.p = p
      BY <1>1, <2>1, <2>2 DEF ClerkRecord
    <2>4. QED
      BY <1>0, <1>2, <2>1, <2>2, <2>3, StatementKeepsShapes DEF CreateNumber
  <1>3. ASSUME NEW p \in Project, NEW i \in IssueId, LoadMove(r, i, p)
        PROVE  RefShapes'
    <2>1. PICK rec : rec = [pc |-> "loaded", i |-> i, p |-> p, old |-> Ref(i)]
      OBVIOUS
    <2>2. i \in Tickets /\ refOps' \in 0..RefOps
      BY <1>3, BeginCounts DEF LoadMove, Begin
    <2>3. Ref(i) \in Key \X Nat
      BY <2>2, RowFields DEF Ref
    <2>4. rec \in ClerkRecord /\ rec.pc = "loaded"
      BY <2>1, <2>3 DEF ClerkRecord
    <2>5. QED
      BY <1>0, <1>3, <2>1, <2>2, <2>4, StatementKeepsShapes DEF LoadMove
  <1>4. CASE MoveNumber(r)
    <2>1. clerk[r].pc = "loaded" /\ clerk[r].i \in IssueId /\ clerk[r].p \in Project /\ clerk[r].old \in Key \X Nat
      BY <1>4, ClerkFields DEF MoveNumber
    <2>2. UNCHANGED <<project, keyAlias, ticket, refAlias, named, left, askedKeys, refOps>>
      BY <1>4 DEF MoveNumber
    <2>3. CASE Done(r) /\ clash' \in BOOLEAN
      <3>1. Free \in ClerkRecord /\ Free.pc = "idle"
        BY DEF Free, ClerkRecord
      <3>2. QED
        BY <1>0, <2>2, <2>3, <3>1, StatementKeepsShapes DEF Done
    <2>4. CASE /\ clerk[r].i \in Tickets /\ clerk[r].p \in Projects
               /\ clerk' = [clerk EXCEPT ![r] =
                     [pc |-> "moving", i |-> clerk[r].i, p |-> clerk[r].p, old |-> clerk[r].old,
                      got |-> NextNumber(clerk[r].p)]]
               /\ clash' = clash
      <3>1. PICK rec : rec = [pc |-> "moving", i |-> clerk[r].i, p |-> clerk[r].p,
                              old |-> clerk[r].old, got |-> NextNumber(clerk[r].p)]
        OBVIOUS
      <3>2. rec \in ClerkRecord /\ rec.pc = "moving" /\ rec.i = clerk[r].i /\ rec.p = clerk[r].p
        BY <1>1, <2>1, <2>4, <3>1 DEF ClerkRecord
      <3>3. QED
        BY <1>0, <2>2, <2>4, <3>1, <3>2, StatementKeepsShapes
    <2>5. QED
      BY <1>4, <2>3, <2>4 DEF MoveNumber
  <1>5. ASSUME NEW p \in Project, NEW key \in Key, RekeyIssues(r, p, key)
        PROVE  RefShapes'
    <2>1. PICK rec : rec = [pc |-> "rename", p |-> p, new |-> key, rows |-> InProject(p)]
      OBVIOUS
    <2>2. p \in Projects /\ refOps' \in 0..RefOps /\ askedKeys' \in SUBSET Key
      BY <1>0, <1>5, BeginCounts DEF RekeyIssues, Begin
    <2>3. InProject(p) \in SUBSET IssueId
      BY DEF InProject, Tickets
    <2>4. rec \in ClerkRecord /\ rec.pc = "rename" /\ rec.p = p
      BY <2>1, <2>3 DEF ClerkRecord
    <2>5. QED
      BY <1>0, <1>5, <2>1, <2>2, <2>4, StatementKeepsShapes DEF RekeyIssues
  <1>6. QED
    BY <1>2, <1>3, <1>4, <1>5

\* The rows the commits of create and of move write.
PlacesIn(p, i, got) ==
    /\ project' = [project EXCEPT ![p].seq = got.num]
    /\ ticket' = [ticket EXCEPT ![i] = Placed(p, got)]

\* What the row of an issue placed in a project leaves as it is.
LEMMA PlacedRows ==
    ASSUME RefShapes, NEW p \in Projects, NEW i \in IssueId, NEW got \in Number,
           PlacesIn(p, i, got)
    PROVE  /\ project' \in [Project -> ProjectRow] /\ ticket' \in [IssueId -> TicketRow]
           /\ \A q \in Project : project'[q].key = project[q].key
           /\ \A q \in Project \ {p} : project'[q] = project[q]
           /\ project'[p].seq = got.num /\ got.num \in Nat /\ got.key \in Key
           /\ Projects' = Projects /\ Tickets' = Tickets \union {i}
           /\ ticket'[i] = Placed(p, got) /\ \A j \in IssueId \ {i} : ticket'[j] = ticket[j]
           /\ ticket'[i].st = "live" /\ ticket'[i].project = p /\ ticket'[i].key = got.key
           /\ ticket'[i].num = got.num
  <1>1. got.num \in Nat /\ got.key \in Key /\ p \in Project
    BY DEF Number, Projects
  <1>2. project[p] \in ProjectRow /\ project'[p] = [project[p] EXCEPT !.seq = got.num]
    BY <1>1 DEF RefShapes, PlacesIn
  <1>3. project'[p] \in ProjectRow /\ project'[p].key = project[p].key /\ project'[p].seq = got.num
    BY <1>1, <1>2 DEF ProjectRow
  <1>4. project' \in [Project -> ProjectRow] /\ \A q \in Project \ {p} : project'[q] = project[q]
    BY <1>1, <1>3 DEF RefShapes, PlacesIn
  <1>5. Placed(p, got) \in TicketRow
    BY <1>1 DEF Placed, TicketRow
  <1>6. /\ ticket' \in [IssueId -> TicketRow] /\ ticket'[i] = Placed(p, got)
        /\ \A j \in IssueId \ {i} : ticket'[j] = ticket[j]
    BY <1>5 DEF RefShapes, PlacesIn
  <1>7. /\ ticket'[i].st = "live" /\ ticket'[i].project = p /\ ticket'[i].key = got.key
        /\ ticket'[i].num = got.num
    BY <1>6 DEF Placed
  <1>8. Projects' = Projects
    BY <1>3, <1>4 DEF Projects
  <1>9. Tickets' = Tickets \union {i}
    BY <1>6, <1>7 DEF Tickets
  <1>10. QED
    BY <1>1, <1>3, <1>4, <1>6, <1>7, <1>8, <1>9

\* The commits of create and move.
LEMMA PlacingKeepsShapes ==
    ASSUME RefShapes, NEW r \in Clerk, CommitCreate(r) \/ CommitMove(r)
    PROVE  RefShapes'
  <1>0. /\ clerk[r].pc \in {"insert", "moving"} /\ Done(r)
        /\ UNCHANGED <<keyAlias, askedKeys, refOps>>
    BY DEF CommitCreate, CommitMove
  <1>1. PICK p \in Projects : p = clerk[r].p
    BY <1>0 DEF RefShapes, LocksHold
  <1>2. PICK i \in IssueId : i = clerk[r].i
    BY <1>0, ClerkFields
  <1>3. PICK got \in Number : got = clerk[r].got
    BY <1>0, ClerkFields
  <1>4. CASE UNCHANGED <<project, ticket, refAlias, named, left>> /\ clash' = TRUE
    <2>1. Projects' = Projects /\ Tickets' = Tickets
      BY <1>4 DEF Projects, Tickets
    <2>2. clerk' \in [Clerk -> ClerkRecord] /\ LocksHold'
      BY <1>0, <2>1, DoneKeepsLocks
    <2>3. QED
      BY <1>0, <1>4, <2>1, <2>2 DEF RefShapes
  <1>5. CASE /\ PlacesIn(p, i, got)
             /\ named' = named \union {<<got.key, got.num, i>>}
             /\ \/ UNCHANGED <<refAlias, left>>
                \/ /\ clerk[r].pc = "moving"
                   /\ refAlias' = refAlias \union {<<clerk[r].old[1], clerk[r].old[2], i>>}
                   /\ left' = left \union {<<clerk[r].old[1], clerk[r].old[2], i>>}
             /\ clash' = clash
    <2>1. /\ project' \in [Project -> ProjectRow] /\ ticket' \in [IssueId -> TicketRow]
          /\ \A q \in Project \ {p} : project'[q] = project[q]
          /\ project'[p].seq = got.num /\ got.num \in Nat /\ got.key \in Key
          /\ Projects' = Projects /\ Tickets' = Tickets \union {i}
          /\ \A j \in IssueId \ {i} : ticket'[j] = ticket[j]
          /\ ticket'[i].project = p
      BY <1>1, <1>2, <1>3, <1>5, PlacedRows
    <2>2. clerk' \in [Clerk -> ClerkRecord] /\ LocksHold'
      BY <1>0, <2>1, DoneKeepsLocks
    <2>3. \A q \in Projects' : project'[q].seq \in Nat
      BY <2>1 DEF RefShapes, Projects
    <2>4. \A j \in Tickets' : ticket'[j].project \in Projects'
      BY <2>1 DEF RefShapes, Tickets
    <2>5. clerk[r].pc = "moving" => <<clerk[r].old[1], clerk[r].old[2], i>> \in Naming
      BY ClerkFields DEF Naming
    <2>6. /\ refAlias' \in SUBSET Naming /\ left' \in SUBSET Naming
          /\ \A a \in refAlias' : a[3] \in Tickets'
      BY <1>5, <2>1, <2>5 DEF RefShapes
    <2>7. named' \in SUBSET Naming
      BY <1>5, <2>1 DEF RefShapes, Naming
    <2>8. QED
      BY <1>0, <1>5, <2>1, <2>2, <2>3, <2>4, <2>6, <2>7 DEF RefShapes
  <1>6. QED
    BY <1>0, <1>1, <1>2, <1>3, <1>4, <1>5 DEF CommitCreate, CommitMove, PlacesIn

\* The rows the commit of a rename writes.
GivesKey(p, new, rows) ==
    /\ project' = [project EXCEPT ![p].key = new]
    /\ ticket' = [i \in IssueId |->
          IF i \in rows THEN [ticket[i] EXCEPT !.key = new] ELSE ticket[i]]

\* What the commit of a rename leaves as it is.
LEMMA RenamedRows ==
    ASSUME RefShapes, NEW p \in Projects, NEW new \in Key, NEW rows \in SUBSET Tickets,
           GivesKey(p, new, rows)
    PROVE  /\ project' \in [Project -> ProjectRow] /\ ticket' \in [IssueId -> TicketRow]
           /\ \A q \in Project \ {p} : project'[q] = project[q]
           /\ project'[p].key = new /\ project'[p].seq = project[p].seq
           /\ Projects' = Projects /\ Tickets' = Tickets
           /\ \A i \in IssueId \ rows : ticket'[i] = ticket[i]
           /\ \A i \in rows : /\ ticket'[i].key = new /\ ticket'[i].st = "live"
                              /\ ticket'[i].project = ticket[i].project /\ ticket'[i].num = ticket[i].num
  <1>1. p \in Project /\ new # NoKey
    BY IssueRefsAssumption DEF Projects
  <1>2. project[p] \in ProjectRow /\ project'[p] = [project[p] EXCEPT !.key = new]
    BY <1>1 DEF RefShapes, GivesKey
  <1>3. project'[p] \in ProjectRow /\ project'[p].key = new /\ project'[p].seq = project[p].seq
    BY <1>2 DEF ProjectRow
  <1>4. project' \in [Project -> ProjectRow] /\ \A q \in Project \ {p} : project'[q] = project[q]
    BY <1>1, <1>3 DEF RefShapes, GivesKey
  <1>5. Projects' = Projects
    BY <1>1, <1>3, <1>4 DEF Projects
  <1>6. ASSUME NEW i \in rows
        PROVE  /\ ticket'[i] \in TicketRow /\ ticket'[i].key = new /\ ticket'[i].st = "live"
               /\ ticket'[i].project = ticket[i].project /\ ticket'[i].num = ticket[i].num
    <2>1. i \in IssueId /\ ticket[i].st = "live"
      BY DEF Tickets
    <2>2. ticket[i] \in [st : {"live"}, project : Project, key : Key, num : Nat]
      BY <2>1 DEF RefShapes, TicketRow
    <2>3. ticket'[i] = [ticket[i] EXCEPT !.key = new]
      BY <2>1 DEF GivesKey
    <2>4. QED
      BY <2>2, <2>3 DEF TicketRow
  <1>7. \A i \in IssueId \ rows : ticket'[i] = ticket[i]
    BY DEF GivesKey
  <1>8. \A i \in IssueId : ticket'[i] \in TicketRow
    BY <1>6, <1>7 DEF RefShapes
  <1>9. ticket' \in [IssueId -> TicketRow]
    BY <1>8 DEF GivesKey
  <1>10. Tickets' = Tickets
    BY <1>6, <1>7 DEF Tickets
  <1>11. QED
    BY <1>3, <1>4, <1>5, <1>6, <1>7, <1>9, <1>10

\* The commit of rename.
LEMMA RenamingKeepsShapes ==
    ASSUME RefShapes, NEW r \in Clerk, CommitRename(r)
    PROVE  RefShapes'
  <1>0. /\ clerk[r].pc = "rename" /\ Done(r) /\ UNCHANGED <<refAlias, left, askedKeys, refOps>>
    BY DEF CommitRename
  <1>1. PICK p \in Projects : p = clerk[r].p
    BY <1>0 DEF RefShapes, LocksHold
  <1>2. PICK new \in Key : new = clerk[r].new
    BY <1>0, ClerkFields
  <1>3. PICK rows \in SUBSET Tickets : rows = clerk[r].rows \intersect Tickets
    OBVIOUS
  <1>4. CASE UNCHANGED <<project, keyAlias, ticket, named>> /\ clash' \in BOOLEAN
    <2>1. Projects' = Projects /\ Tickets' = Tickets
      BY <1>4 DEF Projects, Tickets
    <2>2. clerk' \in [Clerk -> ClerkRecord] /\ LocksHold'
      BY <1>0, <2>1, DoneKeepsLocks
    <2>3. QED
      BY <1>0, <1>4, <2>1, <2>2 DEF RefShapes
  <1>5. CASE /\ GivesKey(p, new, rows)
             /\ keyAlias' = {a \in keyAlias : a[1] # new} \union {<<project[p].key, p>>}
             /\ named' = named \union {<<new, ticket[i].num, i>> : i \in rows}
             /\ clash' = clash
    <2>1. /\ project' \in [Project -> ProjectRow] /\ ticket' \in [IssueId -> TicketRow]
          /\ \A q \in Project \ {p} : project'[q] = project[q]
          /\ project'[p].key = new /\ project'[p].seq = project[p].seq
          /\ Projects' = Projects /\ Tickets' = Tickets
          /\ \A i \in IssueId \ rows : ticket'[i] = ticket[i]
          /\ \A i \in rows : ticket'[i].project = ticket[i].project
      BY <1>1, <1>2, <1>3, <1>5, RenamedRows
    <2>2. clerk' \in [Clerk -> ClerkRecord] /\ LocksHold'
      BY <1>0, <2>1, DoneKeepsLocks
    <2>3. \A q \in Projects' : project'[q].seq \in Nat
      BY <2>1 DEF RefShapes, Projects
    <2>4. \A j \in Tickets' : ticket'[j].project \in Projects'
      BY <2>1 DEF RefShapes, Tickets
    <2>5. keyAlias' \in SUBSET (Key \X Project)
      BY <1>1, <1>5, RowFields DEF RefShapes
    <2>6. \A i \in rows : <<new, ticket[i].num, i>> \in Naming
      BY <1>3, RowFields DEF Naming
    <2>7. named' \in SUBSET Naming
      BY <1>5, <2>6 DEF RefShapes
    <2>8. QED
      BY <1>0, <1>5, <2>1, <2>2, <2>3, <2>4, <2>5, <2>7 DEF RefShapes
  <1>6. \/ UNCHANGED <<project, keyAlias, ticket, named>> /\ \E b \in BOOLEAN : clash' = (clash \/ b)
        \/ /\ project' = [project EXCEPT ![p].key = new]
           /\ ticket' = [i \in IssueId |->
                 IF i \in rows THEN [ticket[i] EXCEPT !.key = new] ELSE ticket[i]]
           /\ keyAlias' = {a \in keyAlias : a[1] # new} \union {<<project[p].key, p>>}
           /\ named' = named \union {<<new, ticket[i].num, i>> : i \in rows}
           /\ clash' = clash
    BY <1>1, <1>2, <1>3, ZenonT(60) DEF CommitRename
  <1>7. QED
    BY <1>4, <1>5, <1>6 DEF GivesKey

\* What a new project leaves as it is.
LEMMA CreatedRows ==
    ASSUME RefShapes, NEW p \in Project, NEW key \in Key, CreateProject(p, key)
    PROVE  /\ project' \in [Project -> ProjectRow]
           /\ \A q \in Project \ {p} : project'[q] = project[q]
           /\ project'[p].key = key /\ project'[p].seq = 0
           /\ p \notin Projects /\ Projects' = Projects \union {p} /\ Tickets' = Tickets
  <1>1. project' = [project EXCEPT ![p] = [key |-> key, seq |-> 0]] /\ ticket' = ticket
    BY DEF CreateProject
  <1>2. p \notin Projects
    BY DEF CreateProject, NoProject, Projects
  <1>3. [key |-> key, seq |-> 0] \in ProjectRow
    BY DEF ProjectRow
  <1>4. /\ project' \in [Project -> ProjectRow] /\ project'[p].key = key /\ project'[p].seq = 0
        /\ \A q \in Project \ {p} : project'[q] = project[q]
    BY <1>1, <1>3 DEF RefShapes
  <1>5. Projects' = Projects \union {p}
    BY <1>4, IssueRefsAssumption DEF Projects
  <1>6. QED
    BY <1>1, <1>2, <1>4, <1>5 DEF Tickets

\* ProjectService.create.
LEMMA CreatingKeepsShapes ==
    ASSUME RefShapes, NEW p \in Project, NEW key \in Key, CreateProject(p, key)
    PROVE  RefShapes'
  <1>1. /\ project' \in [Project -> ProjectRow]
        /\ \A q \in Project \ {p} : project'[q] = project[q]
        /\ project'[p].key = key /\ project'[p].seq = 0
        /\ p \notin Projects /\ Projects' = Projects \union {p} /\ Tickets' = Tickets
    BY CreatedRows
  <1>2. /\ UNCHANGED <<keyAlias, ticket, refAlias, clerk, named, left, clash>>
        /\ askedKeys' = askedKeys \union {key} /\ refOps' \in 0..RefOps
    BY BeginCounts DEF CreateProject
  <1>3. LocksHold'
    BY <1>1, <1>2 DEF RefShapes, LocksHold
  <1>4. \A q \in Projects' : project'[q].seq \in Nat
    BY <1>1 DEF RefShapes, Projects
  <1>5. QED
    BY <1>1, <1>2, <1>3, <1>4 DEF RefShapes

\* What a deletion of issues, alone or with their project, leaves as it is.
LEMMA GoneRows ==
    ASSUME RefShapes, NEW S \in SUBSET Tickets, Gone(S)
    PROVE  /\ ticket' \in [IssueId -> TicketRow] /\ Tickets' = Tickets \ S
           /\ \A i \in IssueId \ S : ticket'[i] = ticket[i]
           /\ \A i \in S : i \in IssueId /\ ticket'[i].st = "deleted"
           /\ refAlias' = {a \in refAlias : a[3] \notin S}
           /\ refAlias' \in SUBSET Naming /\ \A a \in refAlias' : a[3] \in Tickets'
  <1>1. /\ ticket' = [i \in IssueId |-> IF i \in S THEN [st |-> "deleted"] ELSE ticket[i]]
        /\ refAlias' = {a \in refAlias : a[3] \notin S}
    BY DEF Gone
  <1>2. [st |-> "deleted"] \in TicketRow /\ [st |-> "deleted"].st = "deleted"
    BY DEF TicketRow
  <1>3. ticket' \in [IssueId -> TicketRow]
    BY <1>1, <1>2 DEF RefShapes
  <1>4. /\ \A i \in IssueId \ S : ticket'[i] = ticket[i]
        /\ \A i \in S : i \in IssueId /\ ticket'[i].st = "deleted"
    BY <1>1, <1>2 DEF Tickets
  <1>5. Tickets' = Tickets \ S
    BY <1>4 DEF Tickets
  <1>6. QED
    BY <1>1, <1>3, <1>4, <1>5 DEF RefShapes

\* IssueService.delete and ProjectService.delete wait for the locks.
LEMMA DeletingKeepsShapes ==
    ASSUME RefShapes,
           (\E i \in IssueId : DeleteIssue(i)) \/ (\E p \in Project : DeleteProject(p))
    PROVE  RefShapes'
  <1>1. ASSUME NEW i \in IssueId, DeleteIssue(i)
        PROVE  RefShapes'
    <2>1. {i} \in SUBSET Tickets /\ Gone({i}) /\ ~KeyShared(i)
      BY <1>1 DEF DeleteIssue
    <2>2. /\ ticket' \in [IssueId -> TicketRow] /\ Tickets' = Tickets \ {i}
          /\ \A j \in IssueId \ {i} : ticket'[j] = ticket[j]
          /\ refAlias' \in SUBSET Naming /\ \A a \in refAlias' : a[3] \in Tickets'
      BY <2>1, GoneRows
    <2>3. UNCHANGED <<project, keyAlias, clerk, named, left, askedKeys, clash>> /\ refOps' \in 0..RefOps
      BY <1>1, BeginCounts DEF DeleteIssue
    <2>4. Projects' = Projects
      BY <2>3 DEF Projects
    <2>5. LocksHold'
      BY <2>1, <2>2, <2>3, <2>4 DEF RefShapes, LocksHold, KeyShared
    <2>6. \A j \in Tickets' : ticket'[j].project \in Projects'
      BY <2>2, <2>4 DEF RefShapes, Tickets
    <2>7. QED
      BY <2>2, <2>3, <2>4, <2>5, <2>6 DEF RefShapes
  <1>2. ASSUME NEW p \in Project, DeleteProject(p)
        PROVE  RefShapes'
    <2>1. /\ InProject(p) \in SUBSET Tickets /\ Gone(InProject(p))
          /\ ~ProjectLocked(p) /\ ~Renaming(p) /\ \A i \in InProject(p) : ~KeyShared(i)
      BY <1>2 DEF DeleteProject, InProject
    <2>2. /\ ticket' \in [IssueId -> TicketRow] /\ Tickets' = Tickets \ InProject(p)
          /\ \A j \in IssueId \ InProject(p) : ticket'[j] = ticket[j]
          /\ refAlias' \in SUBSET Naming /\ \A a \in refAlias' : a[3] \in Tickets'
      BY <2>1, GoneRows
    <2>3. /\ UNCHANGED <<clerk, named, left, askedKeys, clash>> /\ refOps' \in 0..RefOps
          /\ keyAlias' = {a \in keyAlias : a[2] # p}
          /\ project' = [project EXCEPT ![p] = [NoProject EXCEPT !.seq = -1]]
      BY <1>2, BeginCounts DEF DeleteProject
    <2>4. [NoProject EXCEPT !.seq = -1] = [key |-> NoKey, seq |-> -1]
      BY DEF NoProject
    <2>5. [key |-> NoKey, seq |-> -1] \in ProjectRow
      BY DEF ProjectRow
    <2>6. /\ project' \in [Project -> ProjectRow] /\ project'[p].key = NoKey
          /\ \A q \in Project \ {p} : project'[q] = project[q]
      BY <2>3, <2>4, <2>5 DEF RefShapes
    <2>7. Projects' = Projects \ {p}
      BY <2>6 DEF Projects
    <2>8. LocksHold'
      <3>1. \A r \in Clerk : clerk[r].pc \in {"insert", "moving", "rename"} => clerk[r].p \in Projects'
        BY <2>1, <2>7 DEF RefShapes, LocksHold, ProjectLocked, Renaming
      <3>2. \A r \in Clerk : clerk[r].pc = "moving" => clerk[r].i \in Tickets'
        BY <2>1, <2>2 DEF RefShapes, LocksHold, KeyShared
      <3>3. QED
        BY <2>3, <3>1, <3>2 DEF LocksHold
    <2>9. \A j \in Tickets' : ticket'[j].project \in Projects'
      BY <2>2, <2>7 DEF RefShapes, Tickets, InProject
    <2>10. \A q \in Projects' : project'[q].seq \in Nat
      BY <2>6, <2>7 DEF RefShapes, Projects
    <2>11. keyAlias' \in SUBSET (Key \X Project)
      BY <2>3 DEF RefShapes
    <2>12. QED
      BY <2>2, <2>3, <2>6, <2>8, <2>9, <2>10, <2>11 DEF RefShapes
  <1>3. QED
    BY <1>1, <1>2

\* At first there are projects and nothing else.
LEMMA RefShapesInit ==
    ASSUME RefInit
    PROVE  RefShapes
  <1> USE IssueRefsAssumption
  <1>1. Tickets = {}
    BY DEF RefInit, Tickets, NoTicket
  <1>2. \A r \in Clerk : clerk[r] = Free
    BY DEF RefInit
  <1>3. Free \in ClerkRecord /\ Free.pc = "idle" /\ NoTicket \in TicketRow
    BY DEF Free, ClerkRecord, NoTicket, TicketRow
  <1>4. \A p \in Project : project[p] \in ProjectRow /\ project[p].seq = 0
    BY DEF RefInit, NoProject, ProjectRow
  <1>5. project \in [Project -> ProjectRow] /\ \A p \in Projects : project[p].seq \in Nat
    <2>1. project = [p \in Project |-> project[p]]
      BY DEF RefInit
    <2>2. QED
      BY <1>4, <2>1 DEF Projects
  <1>6. ticket \in [IssueId -> TicketRow] /\ clerk \in [Clerk -> ClerkRecord]
    BY <1>3 DEF RefInit
  <1>7. LocksHold
    BY <1>2, <1>3 DEF LocksHold
  <1>8. askedKeys \in SUBSET Key
    BY DEF RefInit
  <1>9. /\ keyAlias = {} /\ refAlias = {} /\ named = {} /\ left = {} /\ clash = FALSE
        /\ refOps \in 0..RefOps
    BY DEF RefInit
  <1>10. QED
    BY <1>1, <1>5, <1>6, <1>7, <1>8, <1>9 DEF RefShapes

\* Every step keeps the shapes.
LEMMA RefStepKeepsShapes ==
    ASSUME RefShapes, [RefAction]_refVars
    PROVE  RefShapes'
  <1>1. CASE UNCHANGED refVars
    BY <1>1 DEF refVars, RefShapes, LocksHold, Projects, Tickets
  <1>2. CASE RefAction
    BY <1>2, StatementsKeepShapes, PlacingKeepsShapes, RenamingKeepsShapes, CreatingKeepsShapes,
       DeletingKeepsShapes DEF RefAction
  <1>3. QED
    BY <1>1, <1>2

\* Rows keep their shapes, an issue's project exists and so does the issue of an
\* alias, whatever keys people choose and however requests interleave.
THEOREM IssueRefsTypeCorrect == RefSpec => []RefTypeOK
  <1>1. RefInit => RefShapes
    BY RefShapesInit
  <1>2. RefShapes /\ [RefAction]_refVars => RefShapes'
    BY RefStepKeepsShapes
  <1>3. RefShapes => RefTypeOK
    <2> SUFFICES ASSUME RefShapes
                 PROVE  RefTypeOK
      OBVIOUS
    <2>1. \A p \in Project : project[p].key \in Key \union {NoKey}
      BY RowFields
    <2>2. QED
      BY <2>1 DEF RefShapes, RefTypeOK
  <1>4. QED
    BY <1>1, <1>2, <1>3, PTL DEF RefSpec

-----------------------------------------------------------------------------
(* References, while no key goes from one project to another.              *)

\* The parts of a recorded reference.
LEMMA NamingFields ==
    ASSUME NEW n \in Naming
    PROVE  n[1] \in Key /\ n[2] \in Nat /\ n[3] \in IssueId
  BY DEF Naming

\* The keys that lead to a project stay when no project, alias or rename changes.
LEMMA OwnersStay ==
    ASSUME NEW r \in Clerk, clerk[r].pc # "rename", clerk'[r].pc # "rename",
           \A s \in Clerk \ {r} : clerk'[s] = clerk[s],
           \A q \in Project : project'[q].key = project[q].key, keyAlias' = keyAlias
    PROVE  \A q \in Project, k \in Key : Owns(q, k)' <=> Owns(q, k)
  <1>1. \A q \in Project, k \in Key : RenamesTo(q, k)' <=> RenamesTo(q, k)
    BY DEF RenamesTo
  <1>2. QED
    BY <1>1 DEF Owns

\* Nothing is recorded or renamed: keys, numbers and names stay what they are.
LEMMA NothingNamed ==
    ASSUME RefInv,
           \A q \in Project, k \in Key : Owns(q, k)' <=> Owns(q, k),
           UNCHANGED <<project, keyAlias, ticket, refAlias, named, left, askedKeys>>
    PROVE  KeysOwned' /\ NumbersOnce' /\ TicketsNamed'
  <1>0. RefShapes /\ KeysOwned /\ NumbersOnce /\ TicketsNamed
    BY DEF RefInv
  <1>1. Projects' = Projects /\ Tickets' = Tickets
    BY DEF Projects, Tickets
  <1>2. \A n \in named : n[1] \in Key
    BY <1>0, NamingFields DEF RefShapes
  <1>3. KeysOwned'
    BY <1>0, <1>1 DEF KeysOwned
  <1>4. NumbersOnce'
    BY <1>0, <1>2 DEF NumbersOnce
  <1>5. \A i \in Tickets : ticket[i].project \in Project /\ ticket[i].key \in Key
    BY <1>0, RowFields
  <1>6. TicketsNamed'
    BY <1>0, <1>1, <1>5 DEF TicketsNamed
  <1>7. QED
    BY <1>3, <1>4, <1>6

\* One request goes on and reads under locks nobody else holds.
LEMMA ReadsOfOne ==
    ASSUME RefInv, UNCHANGED <<project, ticket, named>>, NEW r \in Clerk, NEW rec,
           clerk'[r] = rec, \A s \in Clerk \ {r} : clerk'[s] = clerk[s],
           rec.pc \in {"insert", "moving"} =>
              /\ rec.got = NextNumber(rec.p)
              /\ \A s \in Clerk \ {r} : ~(Numbering(s) /\ clerk[s].p = rec.p),
           rec.pc = "insert" =>
              /\ ticket[rec.i].st = "none"
              /\ \A s \in Clerk \ {r} : clerk[s].pc = "insert" => clerk[s].i # rec.i,
           rec.pc \in {"loaded", "moving"} => <<rec.old[1], rec.old[2], rec.i>> \in named,
           rec.pc = "rename" =>
              /\ rec.rows \subseteq InProject(rec.p) /\ rec.new # project[rec.p].key
              /\ \A s \in Clerk \ {r} : /\ clerk[s].pc # "rename"
                                        /\ clerk[s].pc = "moving" => clerk[s].i \notin rec.rows,
           rec.pc = "moving" => \A s \in Clerk \ {r} : clerk[s].pc = "rename" => rec.i \notin clerk[s].rows
    PROVE  ReadsHold'
  <1>0. ReadsHold
    BY DEF RefInv
  <1>2. \A s \in Clerk : Numbering(s)' <=> clerk'[s].pc \in {"insert", "moving"}
    BY DEF Numbering
  <1>3. \A s \in Clerk : Numbering(s)' => clerk'[s].got = NextNumber(clerk[s].p)'
    BY <1>0, <1>2 DEF ReadsHold, Numbering, NextNumber
  <1>4. \A t, s \in Clerk : Numbering(t)' /\ Numbering(s)' /\ clerk'[t].p = clerk'[s].p => t = s
    BY <1>0, <1>2 DEF ReadsHold, Numbering
  <1>5. /\ \A s \in Clerk : clerk'[s].pc = "insert" => ticket[clerk'[s].i].st = "none"
        /\ \A t, s \in Clerk : clerk'[t].pc = "insert" /\ clerk'[s].pc = "insert"
                                  /\ clerk'[t].i = clerk'[s].i => t = s
    BY <1>0 DEF ReadsHold
  <1>6. \A s \in Clerk : clerk'[s].pc \in {"loaded", "moving"} =>
            <<clerk'[s].old[1], clerk'[s].old[2], clerk'[s].i>> \in named
    BY <1>0 DEF ReadsHold
  <1>7. \A s \in Clerk : clerk'[s].pc = "rename" =>
            /\ clerk'[s].rows \subseteq InProject(clerk'[s].p)
            /\ clerk'[s].new # project[clerk'[s].p].key
            /\ \A t \in Clerk : clerk'[t].pc = "moving" => clerk'[t].i \notin clerk'[s].rows
    BY <1>0 DEF ReadsHold
  <1>8. \A t, s \in Clerk : clerk'[t].pc = "rename" /\ clerk'[s].pc = "rename" => t = s
    BY <1>0 DEF ReadsHold
  <1>9. \A s \in Clerk : clerk'[s].pc = "rename" => clerk'[s].rows \subseteq InProject(clerk[s].p)'
    BY <1>7 DEF InProject, Tickets
  <1>10. QED
    BY <1>3, <1>4, <1>5, <1>6, <1>7, <1>8, <1>9 DEF ReadsHold

\* The statements of create and move before the commit; the alias a move inserts
\* is never one of another issue.
LEMMA StatementsKeepRefs ==
    ASSUME RefInv, RefShapes', NEW r \in Clerk,
           \/ \E p \in Project, i \in IssueId : CreateNumber(r, p, i) \/ LoadMove(r, i, p)
           \/ MoveNumber(r)
    PROVE  RefInv'
  <1>0. RefShapes /\ NumbersOnce /\ TicketsNamed /\ ReadsHold /\ NoClash
    BY DEF RefInv
  <1>1. clerk \in [Clerk -> ClerkRecord]
    BY <1>0 DEF RefShapes
  <1>2. /\ clerk[r].pc \in {"idle", "loaded"}
        /\ UNCHANGED <<project, keyAlias, ticket, refAlias, named, left, askedKeys>>
    BY DEF CreateNumber, LoadMove, MoveNumber, Begin
  <1>3. ASSUME NEW rec, clerk' = [clerk EXCEPT ![r] = rec], rec.pc # "rename", ReadsHold', clash' = FALSE
        PROVE  RefInv'
    <2>1. clerk'[r] = rec /\ \A s \in Clerk \ {r} : clerk'[s] = clerk[s]
      BY <1>1, <1>3
    <2>2. \A q \in Project, k \in Key : Owns(q, k)' <=> Owns(q, k)
      BY <1>2, <1>3, <2>1, OwnersStay
    <2>3. KeysOwned' /\ NumbersOnce' /\ TicketsNamed'
      BY <1>2, <2>2, NothingNamed
    <2>4. QED
      BY <1>3, <2>3 DEF RefInv, NoClash
  <1>4. ASSUME NEW p \in Project, NEW i \in IssueId, CreateNumber(r, p, i)
        PROVE  RefInv'
    <2>1. PICK rec : rec = [pc |-> "insert", p |-> p, i |-> i, got |-> NextNumber(p)]
      OBVIOUS
    <2>2. rec.pc = "insert" /\ rec.p = p /\ rec.i = i /\ rec.got = NextNumber(p)
      BY <2>1
    <2>3. clerk' = [clerk EXCEPT ![r] = rec] /\ clash' = FALSE
      BY <1>0, <1>4, <2>1 DEF CreateNumber, NoClash, RefShapes
    <2>4. clerk'[r] = rec /\ \A s \in Clerk \ {r} : clerk'[s] = clerk[s]
      BY <1>1, <2>3
    <2>5. /\ \A s \in Clerk : ~(Numbering(s) /\ clerk[s].p = p)
          /\ ticket[i].st = "none" /\ \A s \in Clerk : clerk[s].pc = "insert" => clerk[s].i # i
      BY <1>4 DEF CreateNumber, ProjectLocked, Numbering, NoTicket
    <2>6. ReadsHold'
      BY <1>2, <2>2, <2>4, <2>5, ReadsOfOne
    <2>7. QED
      BY <1>3, <2>2, <2>3, <2>6
  <1>5. ASSUME NEW p \in Project, NEW i \in IssueId, LoadMove(r, i, p)
        PROVE  RefInv'
    <2>1. PICK rec : rec = [pc |-> "loaded", i |-> i, p |-> p, old |-> Ref(i)]
      OBVIOUS
    <2>2. rec.pc = "loaded" /\ rec.i = i /\ rec.old = Ref(i)
      BY <2>1
    <2>3. clerk' = [clerk EXCEPT ![r] = rec] /\ clash' = FALSE /\ i \in Tickets
      BY <1>0, <1>5, <2>1 DEF LoadMove, NoClash, RefShapes
    <2>4. clerk'[r] = rec /\ \A s \in Clerk \ {r} : clerk'[s] = clerk[s]
      BY <1>1, <2>3
    <2>5. <<rec.old[1], rec.old[2], rec.i>> \in named
      BY <1>0, <2>2, <2>3 DEF Ref, TicketsNamed
    <2>6. ReadsHold'
      BY <1>2, <2>2, <2>4, <2>5, ReadsOfOne
    <2>7. QED
      BY <1>3, <2>2, <2>3, <2>6
  <1>6. CASE MoveNumber(r)
    <2>1. clerk[r].pc = "loaded" /\ <<clerk[r].old[1], clerk[r].old[2], clerk[r].i>> \in named
      BY <1>0, <1>6 DEF MoveNumber, ReadsHold
    <2>2. ASSUME NEW a \in refAlias, AliasRef(a) = clerk[r].old
          PROVE  a[3] = clerk[r].i
      <3>1. PICK n \in named : n = <<clerk[r].old[1], clerk[r].old[2], clerk[r].i>>
        BY <2>1
      <3>2. n[1] = clerk[r].old[1] /\ n[2] = clerk[r].old[2] /\ n[3] = clerk[r].i
        BY <3>1
      <3>3. a \in named /\ a[1] = clerk[r].old[1] /\ a[2] = clerk[r].old[2]
        BY <1>0, <2>2 DEF TicketsNamed, AliasRef
      <3>4. QED
        BY <1>0, <3>2, <3>3 DEF NumbersOnce
    <2>3. clash' = FALSE
      BY <1>0, <1>6, <2>2 DEF MoveNumber, NoClash, RefShapes
    <2>4. CASE Done(r)
      <3>1. Free.pc = "idle" /\ clerk' = [clerk EXCEPT ![r] = Free]
        BY <2>4 DEF Free, Done
      <3>2. clerk'[r] = Free /\ \A s \in Clerk \ {r} : clerk'[s] = clerk[s]
        BY <1>1, <3>1
      <3>3. ReadsHold'
        BY <1>2, <3>1, <3>2, ReadsOfOne
      <3>4. QED
        BY <1>3, <2>3, <3>1, <3>3
    <2>5. CASE clerk' = [clerk EXCEPT ![r] =
                   [pc |-> "moving", i |-> clerk[r].i, p |-> clerk[r].p, old |-> clerk[r].old,
                    got |-> NextNumber(clerk[r].p)]]
      <3>1. PICK rec : rec = [pc |-> "moving", i |-> clerk[r].i, p |-> clerk[r].p,
                              old |-> clerk[r].old, got |-> NextNumber(clerk[r].p)]
        OBVIOUS
      <3>2. /\ rec.pc = "moving" /\ rec.i = clerk[r].i /\ rec.p = clerk[r].p
            /\ rec.old = clerk[r].old /\ rec.got = NextNumber(rec.p)
        BY <3>1
      <3>3. clerk' = [clerk EXCEPT ![r] = rec]
        BY <2>5, <3>1
      <3>4. clerk'[r] = rec /\ \A s \in Clerk \ {r} : clerk'[s] = clerk[s]
        BY <1>1, <3>3
      <3>5. /\ \A s \in Clerk : ~(Numbering(s) /\ clerk[s].p = rec.p)
            /\ \A s \in Clerk : clerk[s].pc = "rename" => rec.i \notin clerk[s].rows
        BY <1>6, <3>2 DEF MoveNumber, ProjectLocked, Rekeyed, Numbering
      <3>6. ReadsHold'
        BY <1>2, <2>1, <3>2, <3>4, <3>5, ReadsOfOne
      <3>7. QED
        BY <1>3, <2>3, <3>2, <3>3, <3>6
    <2>6. QED
      BY <1>6, <2>4, <2>5 DEF MoveNumber
  <1>7. QED
    BY <1>4, <1>5, <1>6

\* A rename begins: the new key leads to no other project.
LEMMA RekeyingKeepsRefs ==
    ASSUME ReusedKeys = {}, RefInv, RefShapes', NEW r \in Clerk, NEW p \in Project, NEW new \in Key,
           RekeyIssues(r, p, new)
    PROVE  RefInv'
  <1>0. RefShapes /\ KeysOwned /\ NumbersOnce /\ TicketsNamed /\ ReadsHold /\ NoClash
    BY DEF RefInv
  <1>1. /\ clerk[r].pc = "idle" /\ askedKeys' = askedKeys \union {new}
        /\ UNCHANGED <<project, keyAlias, ticket, refAlias, named, left, clash>>
    BY DEF RekeyIssues, Begin
  <1>2. Projects' = Projects /\ Tickets' = Tickets
    BY <1>1 DEF Projects, Tickets
  <1>3. PICK rec : rec = [pc |-> "rename", p |-> p, new |-> new, rows |-> InProject(p)]
    OBVIOUS
  <1>4. rec.pc = "rename" /\ rec.p = p /\ rec.new = new /\ rec.rows = InProject(p)
    BY <1>3
  <1>5. clerk'[r] = rec /\ \A s \in Clerk \ {r} : clerk'[s] = clerk[s]
    BY <1>0, <1>3 DEF RekeyIssues, RefShapes
  <1>6. \A q \in Project, k \in Key : RenamesTo(q, k)' <=> RenamesTo(q, k) \/ (q = p /\ k = new)
    BY <1>1, <1>4, <1>5 DEF RenamesTo
  <1>7. \A q \in Project, k \in Key : Owns(q, k)' <=> Owns(q, k) \/ (q = p /\ k = new)
    BY <1>1, <1>6 DEF Owns
  <1>8. new \notin askedKeys \/ Owns(p, new)
    BY DEF RekeyIssues, Chosen, Owns
  <1>9. \A q \in Project, k \in askedKeys : Owns(q, k)' <=> Owns(q, k)
    BY <1>0, <1>7, <1>8 DEF RefShapes
  <1>10. \A n \in named : n[1] \in askedKeys /\ n[1] \in Key
    BY <1>0, NamingFields DEF KeysOwned, RefShapes
  <1>11. KeysOwned'
    <2>1. \A q \in Project : Owns(q, new) => q = p
      BY <1>0, <1>8 DEF KeysOwned
    <2>2. \A q1, q2 \in Project, k \in Key : Owns(q1, k)' /\ Owns(q2, k)' => q1 = q2
      BY <1>0, <1>7, <2>1 DEF KeysOwned
    <2>3. \A q \in Project, k \in Key : Owns(q, k)' => k \in askedKeys'
      BY <1>0, <1>1, <1>7 DEF KeysOwned
    <2>4. QED
      BY <1>0, <1>1, <1>2, <1>10, <2>2, <2>3 DEF KeysOwned
  <1>12. NumbersOnce'
    BY <1>0, <1>1, <1>9, <1>10 DEF NumbersOnce
  <1>13. \A i \in Tickets : ticket[i].project \in Project /\ ticket[i].key \in Key
    BY <1>0, RowFields
  <1>14. TicketsNamed'
    BY <1>0, <1>1, <1>2, <1>7, <1>13 DEF TicketsNamed
  <1>15. ReadsHold'
    <2>1. \A s \in Clerk : clerk[s].pc # "rename"
      <3> SUFFICES ASSUME NEW s \in Clerk, clerk[s].pc = "rename"
                   PROVE  FALSE
        OBVIOUS
      <3>1. clerk[s].p \in Project
        BY <1>0, ClerkFields
      <3>2. QED
        BY <3>1 DEF RekeyIssues, Renaming
    <2>2. \A s \in Clerk : clerk[s].pc = "moving" => clerk[s].i \notin InProject(p)
      BY DEF RekeyIssues, KeyShared
    <2>3. new # project[p].key
      BY DEF RekeyIssues
    <2>4. QED
      BY <1>1, <1>4, <1>5, <2>1, <2>2, <2>3, ReadsOfOne
  <1>16. QED
    BY <1>0, <1>1, <1>11, <1>12, <1>14, <1>15 DEF RefInv, NoClash

\* The number a request was given under the lock of the project is not taken.
LEMMA NumberIsFresh ==
    ASSUME RefInv, NEW p \in Projects, NEW got \in Number, got = NextNumber(p)
    PROVE  /\ got.key \in askedKeys /\ Owns(p, got.key) /\ got.num = project[p].seq + 1
           /\ \A n \in named : Owns(p, n[1]) => n[2] # got.num
           /\ \A q \in Project : Owns(q, got.key) => q = p
           /\ \A i \in IssueId : ~RefTaken(got, i)
  <1>0. RefShapes /\ KeysOwned /\ NumbersOnce /\ TicketsNamed
    BY DEF RefInv
  <1>1. p \in Project /\ project[p].key \in Key /\ project[p].seq \in Nat
    BY <1>0, RowFields
  <1>2. got.key = project[p].key /\ got.num = project[p].seq + 1
    BY DEF NextNumber
  <1>3. Owns(p, got.key) /\ got.key \in askedKeys
    BY <1>0, <1>1, <1>2 DEF Owns, KeysOwned
  <1>4. \A q \in Project : Owns(q, got.key) => q = p
    BY <1>0, <1>1, <1>2, <1>3 DEF KeysOwned
  <1>5. \A n \in named : Owns(p, n[1]) => n[2] # got.num
    <2>1. \A n \in named : n[2] \in Nat
      BY <1>0, NamingFields DEF RefShapes
    <2>2. QED
      BY <1>0, <1>1, <1>2, <2>1 DEF NumbersOnce
  <1>6. ASSUME NEW j \in Tickets, Ref(j) = <<got.key, got.num>>
        PROVE  FALSE
    <2>1. ticket[j].key = got.key /\ ticket[j].num = got.num
      BY <1>6 DEF Ref
    <2>2. PICK n \in named : n = <<ticket[j].key, ticket[j].num, j>>
      BY <1>0 DEF TicketsNamed
    <2>3. n[1] = got.key /\ n[2] = got.num
      BY <2>1, <2>2
    <2>4. QED
      BY <1>3, <1>5, <2>3
  <1>7. QED
    BY <1>2, <1>3, <1>4, <1>5, <1>6 DEF RefTaken

\* The commits of create and move give an issue a reference nobody had, and a
\* move leaves an alias for the one it replaces.
LEMMA PlacingKeepsRefs ==
    ASSUME RefInv, RefShapes', NEW r \in Clerk, CommitCreate(r) \/ CommitMove(r)
    PROVE  RefInv'
  <1>0. RefShapes /\ KeysOwned /\ NumbersOnce /\ TicketsNamed /\ ReadsHold /\ NoClash
    BY DEF RefInv
  <1>1. /\ clerk[r].pc \in {"insert", "moving"} /\ Done(r)
        /\ UNCHANGED <<keyAlias, askedKeys, refOps>>
    BY DEF CommitCreate, CommitMove
  <1>2. PICK p \in Projects : p = clerk[r].p
    BY <1>0, <1>1 DEF RefShapes, LocksHold
  <1>3. PICK i \in IssueId : i = clerk[r].i
    BY <1>0, <1>1, ClerkFields
  <1>4. PICK got \in Number : got = clerk[r].got
    BY <1>0, <1>1, ClerkFields
  <1>5. got = NextNumber(p)
    BY <1>0, <1>1, <1>2, <1>4 DEF ReadsHold, Numbering
  <1>6. /\ got.key \in askedKeys /\ Owns(p, got.key) /\ got.num = project[p].seq + 1
        /\ \A n \in named : Owns(p, n[1]) => n[2] # got.num
        /\ \A q \in Project : Owns(q, got.key) => q = p
        /\ ~RefTaken(got, i)
    BY <1>2, <1>3, <1>4, <1>5, NumberIsFresh
  <1>7. PICK x : x = <<got.key, got.num, i>>
    OBVIOUS
  <1>8. x[1] = got.key /\ x[2] = got.num /\ x[3] = i
    BY <1>7
  <1>9. /\ PlacesIn(p, i, got) /\ named' = named \union {x} /\ clash' = clash
        /\ \/ clerk[r].pc = "insert" /\ UNCHANGED <<refAlias, left>>
           \/ /\ clerk[r].pc = "moving"
              /\ refAlias' = refAlias \union {<<clerk[r].old[1], clerk[r].old[2], i>>}
              /\ left' = left \union {<<clerk[r].old[1], clerk[r].old[2], i>>}
    BY <1>2, <1>3, <1>4, <1>6, <1>7 DEF CommitCreate, CommitMove, PlacesIn
  <1>10. /\ \A q \in Project : project'[q].key = project[q].key
         /\ \A q \in Project \ {p} : project'[q] = project[q]
         /\ project'[p].seq = got.num /\ got.num \in Nat /\ got.key \in Key
         /\ Projects' = Projects /\ Tickets' = Tickets \union {i}
         /\ \A j \in IssueId \ {i} : ticket'[j] = ticket[j]
         /\ ticket'[i].st = "live" /\ ticket'[i].project = p /\ ticket'[i].key = got.key
         /\ ticket'[i].num = got.num
    BY <1>0, <1>2, <1>3, <1>4, <1>9, PlacedRows
  <1>11. /\ clerk'[r] = Free /\ Free.pc = "idle" /\ \A s \in Clerk \ {r} : clerk'[s] = clerk[s]
    BY <1>0, <1>1 DEF Done, Free, RefShapes
  <1>12. \A q \in Project, k \in Key : Owns(q, k)' <=> Owns(q, k)
    BY <1>1, <1>10, <1>11, OwnersStay
  <1>13. p \in Project /\ project[p].seq \in Nat
    BY <1>0, <1>2, RowFields
  <1>14. \A n \in named : n[1] \in Key /\ n[2] \in Nat /\ n[3] \in IssueId
    BY <1>0, NamingFields DEF RefShapes
  <1>15. KeysOwned'
    BY <1>0, <1>1, <1>6, <1>8, <1>9, <1>10, <1>12 DEF KeysOwned
  <1>16. NumbersOnce'
    <2>1. \A n \in named : n[1] = x[1] => n[2] # x[2]
      BY <1>6, <1>8
    <2>2. \A m, n \in named' : m[1] = n[1] /\ m[2] = n[2] => m[3] = n[3]
      BY <1>0, <1>9, <2>1 DEF NumbersOnce
    <2>3. \A q \in Project : \A n \in named : Owns(q, n[1])' => n[2] <= project'[q].seq
      <3> SUFFICES ASSUME NEW q \in Project, NEW n \in named, Owns(q, n[1])
                   PROVE  n[2] <= project'[q].seq
        BY <1>12, <1>14
      <3>1. n[2] <= project[q].seq
        BY <1>0 DEF NumbersOnce
      <3>2. QED
        BY <1>6, <1>10, <1>13, <1>14, <3>1
    <2>4. \A q \in Project : Owns(q, x[1])' => q = p
      BY <1>6, <1>8, <1>10, <1>12
    <2>5. x[2] <= project'[p].seq
      BY <1>8, <1>10
    <2>6. \A q \in Project : \A n \in named' : Owns(q, n[1])' => n[2] <= project'[q].seq
      BY <1>9, <2>3, <2>4, <2>5
    <2>7. \A n \in named : Owns(p, n[1])' => n[2] # x[2]
      BY <1>6, <1>8, <1>12, <1>13, <1>14
    <2>8. \A q \in Project : \A m, n \in named :
              Owns(q, m[1])' /\ Owns(q, n[1])' /\ m[2] = n[2] => m[3] = n[3]
      BY <1>0, <1>12, <1>14 DEF NumbersOnce
    <2>9. \A q \in Project : \A m, n \in named' :
              Owns(q, m[1])' /\ Owns(q, n[1])' /\ m[2] = n[2] => m[3] = n[3]
      BY <1>9, <2>4, <2>7, <2>8
    <2>10. QED
      BY <2>2, <2>6, <2>9 DEF NumbersOnce
  <1>17. TicketsNamed'
    <2>1. clerk[r].pc = "moving" => <<clerk[r].old[1], clerk[r].old[2], i>> \in named
      BY <1>0, <1>3 DEF ReadsHold
    <2>2. clerk[r].pc = "moving" => i \in Tickets
      BY <1>0, <1>3 DEF RefShapes, LocksHold
    <2>3. clerk[r].pc = "insert" => \A n \in named : n[3] # i
      BY <1>0, <1>3 DEF TicketsNamed, ReadsHold
    <2>4. \A j \in Tickets : /\ j \in IssueId /\ ticket[j].project \in Project /\ ticket[j].key \in Key
      BY <1>0, RowFields
    <2>5. \A j \in Tickets' : <<ticket'[j].key, ticket'[j].num, j>> \in named'
      <3>1. \A j \in Tickets \ {i} : <<ticket'[j].key, ticket'[j].num, j>> \in named
        BY <1>0, <1>10, <2>4 DEF TicketsNamed
      <3>2. <<ticket'[i].key, ticket'[i].num, i>> = x
        BY <1>7, <1>10
      <3>3. QED
        BY <1>9, <1>10, <3>1, <3>2
    <2>6. \A j \in Tickets' : Owns(ticket[j].project, ticket[j].key)'
      <3> SUFFICES ASSUME NEW j \in Tickets'
                   PROVE  Owns(ticket[j].project, ticket[j].key)'
        OBVIOUS
      <3>1. PICK q \in Project, k \in Key : q = ticket'[j].project /\ k = ticket'[j].key /\ Owns(q, k)
        BY <1>0, <1>6, <1>10, <1>13, <2>4 DEF TicketsNamed
      <3>2. Owns(q, k)'
        BY <1>12, <3>1
      <3>3. QED
        BY <3>1, <3>2 DEF Owns, RenamesTo
    <2>7. \A n \in named' : ticket'[n[3]].st # "none"
      BY <1>0, <1>8, <1>9, <1>10, <1>14 DEF TicketsNamed
    <2>8. refAlias' \subseteq named' /\ left' \subseteq named'
      BY <1>0, <1>9, <2>1 DEF TicketsNamed
    <2>9. \A n \in left' : n[3] \in Tickets' => n \in refAlias'
      BY <1>0, <1>9, <1>10, <2>2, <2>3 DEF TicketsNamed
    <2>10. QED
      BY <2>5, <2>6, <2>7, <2>8, <2>9 DEF TicketsNamed
  <1>18. ReadsHold'
    <2>1. \A s \in Clerk : clerk'[s].pc # "idle" => s # r /\ clerk'[s] = clerk[s] /\ clerk[s].p \in Project
      BY <1>0, <1>11, ClerkFields
    <2>2. \A s \in Clerk : Numbering(s)' => Numbering(s) /\ clerk[s].p # p /\ clerk'[s] = clerk[s]
      BY <1>0, <1>1, <1>2, <1>11 DEF ReadsHold, Numbering
    <2>3. \A s \in Clerk : Numbering(s)' => clerk'[s].got = NextNumber(clerk[s].p)'
      BY <1>0, <1>10, <2>1, <2>2 DEF ReadsHold, Numbering, NextNumber
    <2>4. \A t, s \in Clerk : Numbering(t)' /\ Numbering(s)' /\ clerk'[t].p = clerk'[s].p => t = s
      BY <1>0, <2>2 DEF ReadsHold
    <2>5. \A s \in Clerk : clerk'[s].pc = "insert" => clerk'[s].i \in IssueId /\ clerk'[s].i # i
      BY <1>0, <1>1, <1>3, <2>1, ClerkFields DEF ReadsHold, RefShapes, LocksHold, Tickets
    <2>6. /\ \A s \in Clerk : clerk'[s].pc = "insert" => ticket'[clerk'[s].i].st = "none"
          /\ \A t, s \in Clerk : clerk'[t].pc = "insert" /\ clerk'[s].pc = "insert"
                                    /\ clerk'[t].i = clerk'[s].i => t = s
      BY <1>0, <1>10, <2>1, <2>5 DEF ReadsHold
    <2>7. \A s \in Clerk : clerk'[s].pc \in {"loaded", "moving"} =>
              <<clerk'[s].old[1], clerk'[s].old[2], clerk'[s].i>> \in named'
      BY <1>0, <1>9, <2>1 DEF ReadsHold
    <2>8. \A s \in Clerk : clerk'[s].pc = "rename" => i \notin clerk'[s].rows
      BY <1>0, <1>1, <1>3, <2>1 DEF ReadsHold, InProject, Tickets
    <2>9. \A s \in Clerk : clerk'[s].pc = "rename" => clerk'[s].rows \subseteq InProject(clerk[s].p)'
      BY <1>0, <1>10, <2>1, <2>8 DEF ReadsHold, InProject, Tickets
    <2>10. \A s \in Clerk : clerk'[s].pc = "rename" =>
              /\ clerk'[s].new # project'[clerk'[s].p].key
              /\ \A t \in Clerk : clerk'[t].pc = "moving" => clerk'[t].i \notin clerk'[s].rows
      BY <1>0, <1>10, <2>1 DEF ReadsHold
    <2>11. \A t, s \in Clerk : clerk'[t].pc = "rename" /\ clerk'[s].pc = "rename" => t = s
      BY <1>0, <2>1 DEF ReadsHold
    <2>12. QED
      BY <2>3, <2>4, <2>6, <2>7, <2>9, <2>10, <2>11 DEF ReadsHold
  <1>19. QED
    BY <1>0, <1>9, <1>15, <1>16, <1>17, <1>18 DEF RefInv, NoClash

\* A rename that passed its checks meets neither its key nor its references
\* elsewhere when it commits.
LEMMA RenameIsFree ==
    ASSUME RefInv, NEW r \in Clerk, clerk[r].pc = "rename",
           NEW p \in Projects, p = clerk[r].p, NEW new \in Key, new = clerk[r].new
    PROVE  /\ clerk[r].rows \subseteq InProject(p) /\ clerk[r].rows \subseteq Tickets
           /\ new # project[p].key /\ Owns(p, new) /\ \A q \in Project : Owns(q, new) => q = p
           /\ \A q \in Projects \ {p} : project[q].key # new
           /\ \A a \in keyAlias : a[1] # project[p].key
           /\ \A i \in clerk[r].rows : ~RefTaken([key |-> new, num |-> ticket[i].num], i)
  <1>0. RefShapes /\ KeysOwned /\ NumbersOnce /\ TicketsNamed /\ ReadsHold
    BY DEF RefInv
  <1>1. p \in Project /\ \A q \in Projects : q \in Project
    BY DEF Projects
  <1>2. clerk[r].rows \subseteq InProject(p) /\ new # project[p].key
    BY <1>0 DEF ReadsHold
  <1>3. clerk[r].rows \subseteq Tickets
    BY <1>2 DEF InProject
  <1>4. Owns(p, new)
    BY DEF Owns, RenamesTo
  <1>5. \A q \in Project : Owns(q, new) => q = p
    BY <1>0, <1>1, <1>4 DEF KeysOwned
  <1>6. \A q \in Projects \ {p} : project[q].key # new
    BY <1>1, <1>5 DEF Owns
  <1>7. \A a \in keyAlias : a[1] # project[p].key
    BY <1>0, <1>1 DEF KeysOwned
  <1>8. ASSUME NEW i \in clerk[r].rows, NEW j \in Tickets \ {i}, Ref(j) = <<new, ticket[i].num>>
        PROVE  FALSE
    <2>1. ticket[j].key = new /\ ticket[j].num = ticket[i].num
      BY <1>8 DEF Ref
    <2>2. Owns(ticket[j].project, new) /\ ticket[j].project \in Project
      BY <1>0, <2>1, RowFields DEF TicketsNamed
    <2>3. i \in Tickets /\ ticket[i].project = p
      BY <1>2 DEF InProject
    <2>4. PICK m \in named : m = <<ticket[i].key, ticket[i].num, i>>
      BY <1>0, <2>3 DEF TicketsNamed
    <2>5. PICK n \in named : n = <<ticket[j].key, ticket[j].num, j>>
      BY <1>0 DEF TicketsNamed
    <2>6. Owns(p, ticket[i].key)
      BY <1>0, <2>3 DEF TicketsNamed
    <2>7. /\ m[1] = ticket[i].key /\ m[2] = ticket[i].num /\ m[3] = i
          /\ n[1] = new /\ n[2] = ticket[i].num /\ n[3] = j
      BY <2>1, <2>4, <2>5
    <2>8. m[3] = n[3]
      BY <1>0, <1>1, <1>4, <2>6, <2>7 DEF NumbersOnce
    <2>9. QED
      BY <2>7, <2>8
  <1>9. \A i \in clerk[r].rows : ~RefTaken([key |-> new, num |-> ticket[i].num], i)
    <2>1. \A n : [key |-> new, num |-> n].key = new /\ [key |-> new, num |-> n].num = n
      OBVIOUS
    <2>2. QED
      BY <1>8, <2>1 DEF RefTaken
  <1>10. QED
    BY <1>2, <1>3, <1>4, <1>5, <1>6, <1>7, <1>9

\* The commit of rename re-keys the issues it saw and keeps the old key for the
\* project; their numbers are what they were.
LEMMA RenamingKeepsRefs ==
    ASSUME RefInv, RefShapes', NEW r \in Clerk, CommitRename(r)
    PROVE  RefInv'
  <1>0. RefShapes /\ KeysOwned /\ NumbersOnce /\ TicketsNamed /\ ReadsHold /\ NoClash
    BY DEF RefInv
  <1>1. /\ clerk[r].pc = "rename" /\ Done(r) /\ UNCHANGED <<refAlias, left, askedKeys, refOps>>
        /\ ~ProjectLocked(clerk[r].p)
    BY DEF CommitRename
  <1>2. PICK p \in Projects : p = clerk[r].p
    BY <1>0, <1>1 DEF RefShapes, LocksHold
  <1>3. PICK new \in Key : new = clerk[r].new
    BY <1>0, <1>1, ClerkFields
  <1>4. PICK rows : rows = clerk[r].rows
    OBVIOUS
  <1>5. /\ rows \subseteq InProject(p) /\ rows \subseteq Tickets
        /\ new # project[p].key /\ Owns(p, new) /\ \A q \in Project : Owns(q, new) => q = p
        /\ \A q \in Projects \ {p} : project[q].key # new
        /\ \A a \in keyAlias : a[1] # project[p].key
        /\ \A i \in rows : ~RefTaken([key |-> new, num |-> ticket[i].num], i)
    BY <1>1, <1>2, <1>3, <1>4, RenameIsFree
  <1>6. rows \intersect Tickets = rows /\ rows \in SUBSET Tickets
    BY <1>5
  <1>7. /\ GivesKey(p, new, rows) /\ clash' = clash
        /\ keyAlias' = {a \in keyAlias : a[1] # new} \union {<<project[p].key, p>>}
        /\ named' = named \union {<<new, ticket[i].num, i>> : i \in rows}
    <2>1. ~(\E q \in Projects \ {p} : project[q].key = new)
      BY <1>5
    <2>2. ~(\E i \in rows : RefTaken([key |-> new, num |-> ticket[i].num], i))
      BY <1>5
    <2>3. ~(\E a \in keyAlias : a[1] = project[p].key)
      BY <1>5
    <2>4. QED
      BY <1>2, <1>3, <1>4, <1>6, <2>1, <2>2, <2>3 DEF CommitRename, GivesKey
  <1>8. /\ \A q \in Project \ {p} : project'[q] = project[q]
        /\ project'[p].key = new /\ project'[p].seq = project[p].seq
        /\ Projects' = Projects /\ Tickets' = Tickets
        /\ \A i \in IssueId \ rows : ticket'[i] = ticket[i]
        /\ \A i \in rows : /\ ticket'[i].key = new /\ ticket'[i].st = "live"
                           /\ ticket'[i].project = ticket[i].project /\ ticket'[i].num = ticket[i].num
    BY <1>0, <1>2, <1>3, <1>6, <1>7, RenamedRows
  <1>9. clerk'[r] = Free /\ Free.pc = "idle" /\ \A s \in Clerk \ {r} : clerk'[s] = clerk[s]
    BY <1>0, <1>1 DEF Done, Free, RefShapes
  <1>10. p \in Project /\ project[p].key \in Key /\ project[p].seq \in Nat
    BY <1>0, <1>2, RowFields
  <1>11. \A q \in Project, k \in Key : Owns(q, k)' <=> Owns(q, k)
    <2>1. \A q \in Project, k \in Key : ~RenamesTo(q, k)'
      BY <1>0, <1>1, <1>9 DEF RenamesTo, ReadsHold
    <2>2. \A q \in Project, k \in Key : RenamesTo(q, k) => q = p /\ k = new
      BY <1>0, <1>1, <1>2, <1>3 DEF RenamesTo, ReadsHold
    <2>3. \A q \in Project, k \in Key :
              <<k, q>> \in keyAlias' <=> (<<k, q>> \in keyAlias /\ k # new) \/ (k = project[p].key /\ q = p)
      BY <1>7
    <2>4. ASSUME NEW k \in Key
          PROVE  Owns(p, k)' <=> Owns(p, k)
      BY <1>5, <1>8, <1>10, <2>1, <2>2, <2>3 DEF Owns
    <2>5. ASSUME NEW q \in Project \ {p}, NEW k \in Key
          PROVE  Owns(q, k)' <=> Owns(q, k)
      <3>1. <<k, q>> \in keyAlias => k # new
        BY <1>5 DEF Owns
      <3>2. QED
        BY <1>8, <2>1, <2>2, <2>3, <3>1 DEF Owns
    <2>6. QED
      BY <2>4, <2>5
  <1>12. \A n \in named : n[1] \in Key /\ n[2] \in Nat /\ n[3] \in IssueId
    BY <1>0, NamingFields DEF RefShapes
  <1>13. \A y \in named' : \/ y \in named
                           \/ /\ y[1] = new
                              /\ \E x \in named : Owns(p, x[1]) /\ x[2] = y[2] /\ x[3] = y[3]
    <2> SUFFICES ASSUME NEW i \in rows
                 PROVE  \E x \in named : Owns(p, x[1]) /\ x[2] = ticket[i].num /\ x[3] = i
      BY <1>7
    <2>1. i \in Tickets /\ ticket[i].project = p
      BY <1>5 DEF InProject
    <2>2. PICK x \in named : x = <<ticket[i].key, ticket[i].num, i>>
      BY <1>0, <2>1 DEF TicketsNamed
    <2>3. Owns(p, ticket[i].key) /\ x[1] = ticket[i].key /\ x[2] = ticket[i].num /\ x[3] = i
      BY <1>0, <2>1, <2>2 DEF TicketsNamed
    <2>4. QED
      BY <2>3
  <1>14. KeysOwned'
    <2>1. \A a \in keyAlias' : a[2] \in Projects' /\ \A q \in Project : project'[q].key # a[1]
      <3>1. ASSUME NEW a \in keyAlias, a[1] # new
            PROVE  a[2] \in Projects' /\ \A q \in Project : project'[q].key # a[1]
        BY <1>0, <1>8, <3>1 DEF KeysOwned
      <3>2. \A q \in Project : project'[q].key # project[p].key
        <4> SUFFICES ASSUME NEW q \in Project \ {p}
                     PROVE  project[q].key # project[p].key
          BY <1>5, <1>8, <1>10
        <4>1. QED
          BY <1>0, <1>10 DEF KeysOwned, Owns
      <3>3. PICK a : a = <<project[p].key, p>>
        OBVIOUS
      <3>4. a[1] = project[p].key /\ a[2] = p
        BY <3>3
      <3>5. QED
        BY <1>2, <1>7, <1>8, <3>1, <3>2, <3>3, <3>4
    <2>2. new \in askedKeys
      BY <1>0, <1>5, <1>10 DEF KeysOwned
    <2>3. \A n \in named' : n[1] \in askedKeys
      BY <1>0, <1>13, <2>2 DEF KeysOwned
    <2>4. QED
      BY <1>0, <1>1, <1>11, <2>1, <2>3 DEF KeysOwned
  <1>15. NumbersOnce'
    <2>1. \A q \in Project : \A y \in named' : Owns(q, y[1])' =>
              \E x \in named : Owns(q, x[1]) /\ x[2] = y[2] /\ x[3] = y[3]
      BY <1>5, <1>11, <1>12, <1>13
    <2>2. \A q \in Project : \A n \in named' : Owns(q, n[1])' => n[2] <= project'[q].seq
      <3> SUFFICES ASSUME NEW q \in Project, NEW n \in named', Owns(q, n[1])'
                   PROVE  n[2] <= project'[q].seq
        OBVIOUS
      <3>1. PICK x \in named : Owns(q, x[1]) /\ x[2] = n[2]
        BY <2>1
      <3>2. x[2] <= project[q].seq
        BY <1>0, <3>1 DEF NumbersOnce
      <3>3. project'[q].seq = project[q].seq
        BY <1>8
      <3>4. QED
        BY <3>1, <3>2, <3>3
    <2>3. \A q \in Project : \A m, n \in named' :
              Owns(q, m[1])' /\ Owns(q, n[1])' /\ m[2] = n[2] => m[3] = n[3]
      <3> SUFFICES ASSUME NEW q \in Project, NEW m \in named', NEW n \in named',
                          Owns(q, m[1])', Owns(q, n[1])', m[2] = n[2]
                   PROVE  m[3] = n[3]
        OBVIOUS
      <3>1. PICK x \in named : Owns(q, x[1]) /\ x[2] = m[2] /\ x[3] = m[3]
        BY <2>1
      <3>2. PICK y \in named : Owns(q, y[1]) /\ y[2] = n[2] /\ y[3] = n[3]
        BY <2>1
      <3>3. QED
        BY <1>0, <3>1, <3>2 DEF NumbersOnce
    <2>4. \A m, n \in named' : m[1] = n[1] /\ m[2] = n[2] => m[3] = n[3]
      <3> SUFFICES ASSUME NEW m \in named', NEW n \in named', m[1] = n[1], m[2] = n[2]
                   PROVE  m[3] = n[3]
        OBVIOUS
      <3>1. CASE m \in named /\ n \in named
        BY <1>0, <3>1 DEF NumbersOnce
      <3>2. CASE m[1] = new
        <4>1. Owns(p, m[1])' /\ Owns(p, n[1])'
          BY <1>5, <1>10, <1>11, <3>2
        <4>2. QED
          BY <1>10, <2>3, <4>1
      <3>3. QED
        BY <1>13, <3>1, <3>2
    <2>5. QED
      BY <2>2, <2>3, <2>4 DEF NumbersOnce
  <1>16. TicketsNamed'
    <2>1. \A j \in Tickets : j \in IssueId /\ ticket[j].project \in Project /\ ticket[j].key \in Key
      BY <1>0, RowFields
    <2>2. \A j \in Tickets' : <<ticket'[j].key, ticket'[j].num, j>> \in named'
      <3>1. \A j \in rows : <<ticket'[j].key, ticket'[j].num, j>> \in named'
        BY <1>7, <1>8
      <3>2. \A j \in Tickets \ rows : <<ticket'[j].key, ticket'[j].num, j>> \in named
        BY <1>0, <1>8, <2>1 DEF TicketsNamed
      <3>3. QED
        BY <1>7, <1>8, <3>1, <3>2
    <2>3. \A j \in Tickets' : Owns(ticket[j].project, ticket[j].key)'
      <3> SUFFICES ASSUME NEW j \in Tickets'
                   PROVE  Owns(ticket[j].project, ticket[j].key)'
        OBVIOUS
      <3>1. j \in Tickets /\ (j \in rows => ticket[j].project = p)
        BY <1>5, <1>8 DEF InProject
      <3>2. PICK q \in Project, k \in Key : q = ticket'[j].project /\ k = ticket'[j].key /\ Owns(q, k)
        BY <1>0, <1>5, <1>8, <1>10, <2>1, <3>1 DEF TicketsNamed
      <3>3. Owns(q, k)'
        BY <1>11, <3>2
      <3>4. QED
        BY <3>2, <3>3 DEF Owns, RenamesTo
    <2>4. \A n \in named' : ticket'[n[3]].st # "none"
      <3>1. \A n \in named : ticket'[n[3]].st # "none"
        BY <1>0, <1>8, <1>12 DEF TicketsNamed
      <3>2. QED
        BY <1>13, <3>1
    <2>5. QED
      BY <1>0, <1>1, <1>7, <1>8, <2>2, <2>3, <2>4 DEF TicketsNamed
  <1>17. ReadsHold'
    <2>1. \A s \in Clerk : clerk'[s].pc # "idle" =>
              s # r /\ clerk'[s] = clerk[s] /\ clerk[s].p \in Project /\ clerk[s].pc # "rename"
      BY <1>0, <1>1, <1>9, ClerkFields DEF ReadsHold
    <2>2. \A s \in Clerk : Numbering(s)' => Numbering(s) /\ clerk[s].p # p /\ clerk'[s] = clerk[s]
      BY <1>1, <1>2, <2>1 DEF Numbering, ProjectLocked
    <2>3. \A s \in Clerk : Numbering(s)' => clerk'[s].got = NextNumber(clerk[s].p)'
      BY <1>0, <1>8, <2>1, <2>2 DEF ReadsHold, Numbering, NextNumber
    <2>4. \A t, s \in Clerk : Numbering(t)' /\ Numbering(s)' /\ clerk'[t].p = clerk'[s].p => t = s
      BY <1>0, <2>2 DEF ReadsHold
    <2>5. \A s \in Clerk : clerk'[s].pc = "insert" => clerk'[s].i \in IssueId /\ clerk'[s].i \notin rows
      BY <1>0, <1>5, <2>1, ClerkFields DEF ReadsHold, Tickets
    <2>6. /\ \A s \in Clerk : clerk'[s].pc = "insert" => ticket'[clerk'[s].i].st = "none"
          /\ \A t, s \in Clerk : clerk'[t].pc = "insert" /\ clerk'[s].pc = "insert"
                                    /\ clerk'[t].i = clerk'[s].i => t = s
      BY <1>0, <1>8, <2>1, <2>5 DEF ReadsHold
    <2>7. \A s \in Clerk : clerk'[s].pc \in {"loaded", "moving"} =>
              <<clerk'[s].old[1], clerk'[s].old[2], clerk'[s].i>> \in named'
      BY <1>0, <1>7, <2>1 DEF ReadsHold
    <2>8. \A s \in Clerk : clerk'[s].pc # "rename"
      BY <1>9, <2>1
    <2>9. QED
      BY <2>3, <2>4, <2>6, <2>7, <2>8 DEF ReadsHold
  <1>18. QED
    BY <1>0, <1>7, <1>14, <1>15, <1>16, <1>17 DEF RefInv, NoClash

\* A project created with a key nobody asked for before owns nothing else.
LEMMA CreatingKeepsRefs ==
    ASSUME ReusedKeys = {}, RefInv, RefShapes', NEW p \in Project, NEW key \in Key, CreateProject(p, key)
    PROVE  RefInv'
  <1>0. RefShapes /\ KeysOwned /\ NumbersOnce /\ TicketsNamed /\ ReadsHold /\ NoClash
    BY DEF RefInv
  <1>1. /\ UNCHANGED <<keyAlias, ticket, refAlias, clerk, named, left, clash>>
        /\ askedKeys' = askedKeys \union {key} /\ key \notin askedKeys
    BY DEF CreateProject, Chosen
  <1>2. /\ \A q \in Project \ {p} : project'[q] = project[q]
        /\ project'[p].key = key /\ project'[p].seq = 0
        /\ p \notin Projects /\ Projects' = Projects \union {p} /\ Tickets' = Tickets
    BY <1>0, CreatedRows
  <1>3. \A k \in Key : ~Owns(p, k)
    <2>1. project[p].key = NoKey /\ NoKey \notin Key
      BY <1>2, IssueRefsAssumption DEF Projects
    <2>2. \A k : <<k, p>> \notin keyAlias
      <3> SUFFICES ASSUME NEW a \in keyAlias, a[2] = p
                   PROVE  FALSE
        OBVIOUS
      <3>1. QED
        BY <1>0, <1>2 DEF KeysOwned
    <2>3. \A k : ~RenamesTo(p, k)
      BY <1>0, <1>2 DEF RenamesTo, RefShapes, LocksHold
    <2>4. QED
      BY <2>1, <2>2, <2>3 DEF Owns
  <1>4. \A q \in Project, k \in Key : Owns(q, k)' <=> Owns(q, k) \/ (q = p /\ k = key)
    <2>1. \A q \in Project, k \in Key : RenamesTo(q, k)' <=> RenamesTo(q, k)
      BY <1>1 DEF RenamesTo
    <2>2. QED
      BY <1>1, <1>2, <1>3, <2>1 DEF Owns
  <1>5. \A n \in named : n[1] \in askedKeys /\ n[1] \in Key
    BY <1>0, NamingFields DEF KeysOwned, RefShapes
  <1>6. \A n \in named : \A q \in Project : Owns(q, n[1])' => Owns(q, n[1]) /\ q # p
    BY <1>1, <1>3, <1>4, <1>5
  <1>7. KeysOwned'
    <2>1. \A q \in Project : ~Owns(q, key)
      BY <1>0, <1>1 DEF KeysOwned
    <2>2. \A q1, q2 \in Project, k \in Key : Owns(q1, k)' /\ Owns(q2, k)' => q1 = q2
      BY <1>0, <1>4, <2>1 DEF KeysOwned
    <2>3. \A q \in Project, k \in Key : Owns(q, k)' => k \in askedKeys'
      BY <1>0, <1>1, <1>4 DEF KeysOwned
    <2>4. \A a \in keyAlias : a[1] \in Key /\ a[2] \in Project /\ a = <<a[1], a[2]>>
      BY <1>0 DEF RefShapes
    <2>5. \A a \in keyAlias : a[1] # key
      BY <2>1, <2>4 DEF Owns
    <2>6. \A a \in keyAlias : a[2] \in Projects' /\ \A q \in Project : project'[q].key # a[1]
      BY <1>0, <1>2, <2>5 DEF KeysOwned
    <2>7. QED
      BY <1>1, <1>5, <2>2, <2>3, <2>6 DEF KeysOwned
  <1>8. NumbersOnce'
    BY <1>0, <1>1, <1>2, <1>6 DEF NumbersOnce
  <1>9. \A i \in Tickets : ticket[i].project \in Project /\ ticket[i].key \in Key
    BY <1>0, RowFields
  <1>10. TicketsNamed'
    BY <1>0, <1>1, <1>2, <1>4, <1>9 DEF TicketsNamed
  <1>11. ReadsHold'
    <2>1. \A r \in Clerk : clerk[r].pc \in {"insert", "moving", "rename"} => clerk[r].p \in Project \ {p}
      BY <1>0, <1>2, ClerkFields DEF RefShapes, LocksHold
    <2>2. \A r \in Clerk : Numbering(r)' => clerk'[r].got = NextNumber(clerk[r].p)'
      BY <1>0, <1>1, <1>2, <2>1 DEF ReadsHold, Numbering, NextNumber
    <2>3. \A r \in Clerk : clerk[r].pc = "rename" => clerk[r].rows \subseteq InProject(clerk[r].p)'
      BY <1>0, <1>1 DEF ReadsHold, InProject, Tickets
    <2>4. \A r \in Clerk : clerk[r].pc = "rename" => clerk[r].new # project'[clerk[r].p].key
      BY <1>0, <1>2, <2>1 DEF ReadsHold
    <2>5. QED
      BY <1>0, <1>1, <2>2, <2>3, <2>4 DEF ReadsHold, Numbering
  <1>12. QED
    BY <1>0, <1>1, <1>7, <1>8, <1>10, <1>11 DEF RefInv, NoClash

\* IssueService.delete: a reference outlives its issue and leads nowhere.
LEMMA DeletingIssueKeepsRefs ==
    ASSUME RefInv, RefShapes', NEW i \in IssueId, DeleteIssue(i)
    PROVE  RefInv'
  <1>0. RefShapes /\ KeysOwned /\ NumbersOnce /\ TicketsNamed /\ ReadsHold /\ NoClash
    BY DEF RefInv
  <1>1. /\ {i} \in SUBSET Tickets /\ Gone({i}) /\ ~Rekeyed(i)
        /\ UNCHANGED <<project, keyAlias, clerk, named, left, askedKeys, clash>>
    BY DEF DeleteIssue
  <1>2. /\ Tickets' = Tickets \ {i} /\ \A j \in IssueId \ {i} : ticket'[j] = ticket[j]
        /\ ticket'[i].st = "deleted" /\ refAlias' = {a \in refAlias : a[3] \notin {i}}
    BY <1>0, <1>1, GoneRows
  <1>3. Projects' = Projects /\ \A q \in Project, k \in Key : Owns(q, k)' <=> Owns(q, k)
    BY <1>1 DEF Projects, Owns, RenamesTo
  <1>4. \A n \in named : n[1] \in Key /\ n[3] \in IssueId
    BY <1>0, NamingFields DEF RefShapes
  <1>5. KeysOwned'
    BY <1>0, <1>1, <1>3 DEF KeysOwned
  <1>6. NumbersOnce'
    BY <1>0, <1>1, <1>3, <1>4 DEF NumbersOnce
  <1>7. \A j \in Tickets : j \in IssueId /\ ticket[j].project \in Project /\ ticket[j].key \in Key
    BY <1>0, RowFields
  <1>8. TicketsNamed'
    <2>1. \A j \in Tickets' : /\ <<ticket'[j].key, ticket'[j].num, j>> \in named'
                              /\ Owns(ticket[j].project, ticket[j].key)'
      BY <1>0, <1>1, <1>2, <1>3, <1>7 DEF TicketsNamed, Owns, RenamesTo
    <2>2. \A n \in named : ticket'[n[3]].st # "none"
      BY <1>0, <1>2, <1>4 DEF TicketsNamed
    <2>3. \A n \in left : n[3] \in Tickets' => n \in refAlias'
      BY <1>0, <1>2 DEF TicketsNamed
    <2>4. QED
      BY <1>0, <1>1, <1>2, <2>1, <2>2, <2>3 DEF TicketsNamed
  <1>9. ReadsHold'
    <2>1. \A r \in Clerk : clerk[r].pc = "insert" => clerk[r].i \in IssueId /\ clerk[r].i # i
      BY <1>0, <1>1, ClerkFields DEF ReadsHold, Tickets
    <2>2. \A r \in Clerk : clerk[r].pc = "insert" => ticket'[clerk[r].i].st = "none"
      BY <1>0, <1>2, <2>1 DEF ReadsHold
    <2>3. \A r \in Clerk : clerk[r].pc = "rename" => i \notin clerk[r].rows
      BY <1>1 DEF Rekeyed
    <2>4. \A r \in Clerk : clerk[r].pc = "rename" => clerk[r].rows \subseteq InProject(clerk[r].p)'
      BY <1>0, <1>1, <1>2, <2>3 DEF ReadsHold, InProject, Tickets
    <2>5. \A r \in Clerk : Numbering(r)' => clerk'[r].got = NextNumber(clerk[r].p)'
      BY <1>0, <1>1 DEF ReadsHold, Numbering, NextNumber
    <2>6. QED
      BY <1>0, <1>1, <2>2, <2>4, <2>5 DEF ReadsHold, Numbering
  <1>10. QED
    BY <1>0, <1>1, <1>5, <1>6, <1>8, <1>9 DEF RefInv, NoClash

\* ProjectService.delete: the keys of the project lead nowhere ever after.
LEMMA DeletingProjectKeepsRefs ==
    ASSUME RefInv, RefShapes', NEW p \in Project, DeleteProject(p)
    PROVE  RefInv'
  <1>0. RefShapes /\ KeysOwned /\ NumbersOnce /\ TicketsNamed /\ ReadsHold /\ NoClash
    BY DEF RefInv
  <1>1. /\ InProject(p) \in SUBSET Tickets /\ Gone(InProject(p))
        /\ ~ProjectLocked(p) /\ ~Renaming(p)
        /\ UNCHANGED <<clerk, named, left, askedKeys, clash>>
        /\ keyAlias' = {a \in keyAlias : a[2] # p}
        /\ project' = [project EXCEPT ![p] = [NoProject EXCEPT !.seq = -1]]
    BY DEF DeleteProject, InProject
  <1>2. /\ Tickets' = Tickets \ InProject(p) /\ \A j \in IssueId \ InProject(p) : ticket'[j] = ticket[j]
        /\ \A i \in InProject(p) : i \in IssueId /\ ticket'[i].st = "deleted"
        /\ refAlias' = {a \in refAlias : a[3] \notin InProject(p)}
    BY <1>0, <1>1, GoneRows
  <1>3. [NoProject EXCEPT !.seq = -1] = [key |-> NoKey, seq |-> -1]
    BY DEF NoProject
  <1>4. project'[p].key = NoKey /\ NoKey \notin Key /\ \A q \in Project \ {p} : project'[q] = project[q]
    BY <1>0, <1>1, <1>3, IssueRefsAssumption DEF RefShapes
  <1>5. Projects' = Projects \ {p}
    BY <1>4 DEF Projects
  <1>6. \A q \in Project, k \in Key : Owns(q, k)' <=> Owns(q, k) /\ q # p
    <2>1. \A q \in Project, k \in Key : RenamesTo(q, k)' <=> RenamesTo(q, k)
      BY <1>1 DEF RenamesTo
    <2>2. \A k \in Key : ~RenamesTo(p, k)
      BY <1>1 DEF RenamesTo, Renaming
    <2>3. \A q \in Project, k \in Key : <<k, q>> \in keyAlias' <=> <<k, q>> \in keyAlias /\ q # p
      BY <1>1
    <2>4. QED
      BY <1>4, <2>1, <2>2, <2>3 DEF Owns
  <1>7. \A n \in named : n[1] \in Key /\ n[3] \in IssueId
    BY <1>0, NamingFields DEF RefShapes
  <1>8. KeysOwned'
    <2>1. \A a \in keyAlias' : a[2] \in Projects' /\ \A q \in Project : project'[q].key # a[1]
      <3>1. \A a \in keyAlias : a[1] \in Key
        BY <1>0 DEF RefShapes
      <3>2. QED
        BY <1>0, <1>1, <1>4, <1>5, <3>1 DEF KeysOwned
    <2>2. QED
      BY <1>0, <1>1, <1>6, <2>1 DEF KeysOwned
  <1>9. NumbersOnce'
    BY <1>0, <1>1, <1>4, <1>6, <1>7 DEF NumbersOnce
  <1>10. \A j \in Tickets : j \in IssueId /\ ticket[j].project \in Project /\ ticket[j].key \in Key
    BY <1>0, RowFields
  <1>11. TicketsNamed'
    <2>1. \A j \in Tickets' : <<ticket'[j].key, ticket'[j].num, j>> \in named'
      BY <1>0, <1>1, <1>2, <1>10 DEF TicketsNamed
    <2>2. \A j \in Tickets' : Owns(ticket[j].project, ticket[j].key)'
      <3> SUFFICES ASSUME NEW j \in Tickets'
                   PROVE  Owns(ticket[j].project, ticket[j].key)'
        OBVIOUS
      <3>1. j \in Tickets /\ ticket'[j] = ticket[j] /\ ticket[j].project # p
        BY <1>2, <1>10 DEF InProject
      <3>2. PICK q \in Project, k \in Key : q = ticket'[j].project /\ k = ticket'[j].key /\ Owns(q, k) /\ q # p
        BY <1>0, <1>10, <3>1 DEF TicketsNamed
      <3>3. Owns(q, k)'
        BY <1>6, <3>2
      <3>4. QED
        BY <3>2, <3>3 DEF Owns, RenamesTo
    <2>3. \A n \in named : ticket'[n[3]].st # "none"
      BY <1>0, <1>2, <1>7 DEF TicketsNamed
    <2>4. \A n \in left : n[3] \in Tickets' => n \in refAlias'
      BY <1>0, <1>2 DEF TicketsNamed
    <2>5. QED
      BY <1>0, <1>1, <1>2, <2>1, <2>2, <2>3, <2>4 DEF TicketsNamed
  <1>12. ReadsHold'
    <2>1. \A r \in Clerk : clerk[r].pc \in {"insert", "moving", "rename"} => clerk[r].p \in Project \ {p}
      BY <1>0, <1>1, ClerkFields DEF ProjectLocked, Renaming
    <2>2. \A r \in Clerk : Numbering(r)' => clerk'[r].got = NextNumber(clerk[r].p)'
      BY <1>0, <1>1, <1>4, <2>1 DEF ReadsHold, Numbering, NextNumber
    <2>3. \A r \in Clerk : clerk[r].pc = "insert" => clerk[r].i \in IssueId \ InProject(p)
      BY <1>0, ClerkFields DEF ReadsHold, InProject, Tickets
    <2>4. \A r \in Clerk : clerk[r].pc = "insert" => ticket'[clerk[r].i].st = "none"
      BY <1>0, <1>2, <2>3 DEF ReadsHold
    <2>5. \A r \in Clerk : clerk[r].pc = "rename" => clerk[r].rows \subseteq InProject(clerk[r].p)'
      BY <1>0, <1>1, <1>2, <2>1 DEF ReadsHold, InProject, Tickets
    <2>6. \A r \in Clerk : clerk[r].pc = "rename" => clerk[r].new # project'[clerk[r].p].key
      BY <1>0, <1>4, <2>1 DEF ReadsHold
    <2>7. QED
      BY <1>0, <1>1, <2>2, <2>4, <2>5, <2>6 DEF ReadsHold, Numbering
  <1>13. QED
    BY <1>0, <1>1, <1>8, <1>9, <1>11, <1>12 DEF RefInv, NoClash

-----------------------------------------------------------------------------
(* The specification.                                                      *)

\* At first every project has a key of its own and nothing is recorded.
LEMMA RefInvInit ==
    ASSUME RefInit
    PROVE  RefInv
  <1> USE IssueRefsAssumption
  <1>1. RefShapes
    BY RefShapesInit
  <1>2. /\ keyAlias = {} /\ refAlias = {} /\ named = {} /\ left = {} /\ clash = FALSE
        /\ askedKeys = {FirstKey[p] : p \in DOMAIN FirstKey}
    BY DEF RefInit
  <1>3. \A r \in Clerk : clerk[r].pc = "idle"
    BY DEF RefInit, Free
  <1>4. \A p \in Project, k \in Key : Owns(p, k) => p \in DOMAIN FirstKey /\ FirstKey[p] = k
    <2>1. \A p \in Project, k \in Key : project[p].key = k => p \in DOMAIN FirstKey /\ FirstKey[p] = k
      BY DEF RefInit, NoProject
    <2>2. QED
      BY <1>2, <1>3, <2>1 DEF Owns, RenamesTo
  <1>5. KeysOwned
    BY <1>2, <1>4 DEF KeysOwned
  <1>6. Tickets = {}
    BY DEF RefInit, Tickets, NoTicket
  <1>7. NumbersOnce /\ TicketsNamed
    BY <1>2, <1>6 DEF NumbersOnce, TicketsNamed
  <1>8. ReadsHold
    BY <1>3 DEF ReadsHold, Numbering
  <1>9. QED
    BY <1>1, <1>2, <1>5, <1>7, <1>8 DEF RefInv, NoClash

\* Every step keeps the invariant.
LEMMA RefStepKeepsInv ==
    ASSUME ReusedKeys = {}, RefInv, [RefAction]_refVars
    PROVE  RefInv'
  <1>1. RefShapes /\ RefShapes'
    BY RefStepKeepsShapes DEF RefInv
  <1>2. CASE UNCHANGED refVars
    BY <1>1, <1>2 DEF refVars, RefInv, KeysOwned, NumbersOnce, TicketsNamed, ReadsHold, NoClash,
       Owns, RenamesTo, Numbering, NextNumber, Projects, Tickets, InProject
  <1>3. CASE RefAction
    BY <1>1, <1>3, StatementsKeepRefs, RekeyingKeepsRefs, PlacingKeepsRefs, RenamingKeepsRefs,
       CreatingKeepsRefs, DeletingIssueKeepsRefs, DeletingProjectKeepsRefs DEF RefAction
  <1>4. QED
    BY <1>2, <1>3

\* The invariant holds in every reachable state, while people give no project a
\* key another one had.
THEOREM RefInvariant == ASSUME ReusedKeys = {} PROVE RefSpec => []RefInv
  <1>1. RefInit => RefInv
    BY RefInvInit
  <1>2. RefInv /\ [RefAction]_refVars => RefInv'
    BY RefStepKeepsInv
  <1>3. QED
    BY <1>1, <1>2, PTL DEF RefSpec

\* The unique indexes on references, aliases and retired keys never refuse a
\* creation, a move or a rename that passed its checks, however the requests
\* interleave (the numbers IssueService.create and move take under the lock).
THEOREM IndexesNeverRefuse == ASSUME ReusedKeys = {} PROVE RefSpec => []NoClash
  <1>1. RefInv => NoClash
    BY DEF RefInv
  <1>2. QED
    BY <1>1, RefInvariant, PTL

\* What a reference may be answered with is on record under that very key, or under
\* a key of a project the key leads to, with the same number: if all these records
\* are of one issue, it is the answer (_resolve_retired_ref).
LEMMA ResolvesToRecorded ==
    ASSUME RefInv, NEW key \in Key, NEW num, NEW x,
           \A m \in named : m[1] = key /\ m[2] = num => m[3] = x,
           \A p \in Project : \A m \in named :
              Owns(p, key) /\ Owns(p, m[1]) /\ m[2] = num => m[3] = x,
           NEW i \in Resolve(key, num)
    PROVE  i = x
  <1>0. RefShapes /\ TicketsNamed
    BY DEF RefInv
  <1>2. ASSUME NEW p \in Project, Owns(p, key), NEW m \in named, Owns(p, m[1]), m[2] = num
        PROVE  m[3] = x
    BY <1>2
  <1>3. CASE i \in Tickets /\ Ref(i) = <<key, num>>
    <2>1. PICK m \in named : m = <<ticket[i].key, ticket[i].num, i>>
      BY <1>0, <1>3 DEF TicketsNamed
    <2>2. m[1] = key /\ m[2] = num /\ m[3] = i
      BY <1>3, <2>1 DEF Ref
    <2>3. QED
      BY <2>1, <2>2
  <1>4. CASE i \in Aliased({key}, num)
    <2>1. PICK a \in refAlias : a[1] = key /\ a[2] = num /\ a[3] = i
      BY <1>4 DEF Aliased
    <2>2. QED
      BY <1>0, <2>1 DEF TicketsNamed
  <1>5. PICK owners : owners = {a[2] : a \in {b \in keyAlias : b[1] = key}}
    OBVIOUS
  <1>6. \A p \in owners : p \in Project /\ <<key, p>> \in keyAlias /\ Owns(p, key)
    <2> SUFFICES ASSUME NEW b \in keyAlias, b[1] = key
                 PROVE  b[2] \in Project /\ <<key, b[2]>> \in keyAlias /\ Owns(b[2], key)
      BY <1>5
    <2>1. b[2] \in Project /\ b = <<key, b[2]>>
      BY <1>0 DEF RefShapes
    <2>2. QED
      BY <2>1 DEF Owns
  <1>7. CASE i \in {j \in Tickets : ticket[j].project \in owners /\ ticket[j].num = num}
    <2>1. i \in Tickets /\ ticket[i].project \in owners /\ ticket[i].num = num
      BY <1>7
    <2>2. PICK p \in Project : p = ticket[i].project /\ Owns(p, key) /\ Owns(p, ticket[i].key)
      BY <1>0, <1>6, <2>1 DEF TicketsNamed
    <2>3. PICK m \in named : m = <<ticket[i].key, ticket[i].num, i>>
      BY <1>0, <2>1 DEF TicketsNamed
    <2>4. m[1] = ticket[i].key /\ m[2] = num /\ m[3] = i
      BY <2>1, <2>3
    <2>5. QED
      BY <1>2, <2>2, <2>4
  <1>8. CASE i \in Aliased({project[p].key : p \in owners} \union
                          {a[1] : a \in {b \in keyAlias : b[2] \in owners}}, num)
    <2>1. PICK m \in refAlias : /\ m[2] = num /\ m[3] = i
                                /\ m[1] \in {project[p].key : p \in owners} \union
                                            {a[1] : a \in {b \in keyAlias : b[2] \in owners}}
      BY <1>8 DEF Aliased
    <2>2. m \in named
      BY <1>0 DEF TicketsNamed
    <2>3. CASE m[1] \in {project[p].key : p \in owners}
      <3>1. PICK p \in owners : m[1] = project[p].key
        BY <2>3
      <3>2. QED
        BY <1>2, <1>6, <2>1, <2>2, <3>1 DEF Owns
    <2>4. CASE m[1] \in {a[1] : a \in {b \in keyAlias : b[2] \in owners}}
      <3>1. PICK b \in keyAlias : b[2] \in owners /\ b[1] = m[1]
        BY <2>4
      <3>2. b = <<b[1], b[2]>>
        BY <1>0 DEF RefShapes
      <3>3. PICK p \in Project : p = b[2] /\ Owns(p, key) /\ <<m[1], p>> \in keyAlias
        BY <1>6, <3>1, <3>2
      <3>4. QED
        BY <1>2, <2>1, <2>2, <3>3 DEF Owns
    <2>5. QED
      BY <2>1, <2>3, <2>4
  <1>9. QED
    BY <1>3, <1>4, <1>5, <1>7, <1>8 DEF Resolve, ResolveRetiredRef

\* A reference that was recorded leads to the issue it was recorded for, if to any.
LEMMA ResolvesToNamed ==
    ASSUME RefInv, NEW n \in named
    PROVE  Resolve(n[1], n[2]) \subseteq {n[3]}
  <1>1. RefShapes /\ NumbersOnce
    BY DEF RefInv
  <1>2. n[1] \in Key
    BY <1>1, NamingFields DEF RefShapes
  <1>3. /\ \A m \in named : m[1] = n[1] /\ m[2] = n[2] => m[3] = n[3]
        /\ \A p \in Project : \A m \in named :
              Owns(p, n[1]) /\ Owns(p, m[1]) /\ m[2] = n[2] => m[3] = n[3]
    BY <1>1 DEF NumbersOnce
  <1>4. QED
    BY <1>2, <1>3, ResolvesToRecorded

\* Under each key its project had before, the number of an issue leads to it: the
\* lookup of the project's issues finds it, and no record says otherwise.
LEMMA RetiredKeysFindTickets ==
    ASSUME RefInv, NEW i \in Tickets, NEW a \in keyAlias, a[2] = ticket[i].project
    PROVE  Resolve(a[1], ticket[i].num) = {i}
  <1>0. RefShapes /\ KeysOwned /\ NumbersOnce /\ TicketsNamed
    BY DEF RefInv
  <1>1. PICK p \in Project, key \in Key, num \in {ticket[i].num} :
          p = a[2] /\ key = a[1] /\ num = ticket[i].num
    BY <1>0 DEF RefShapes
  <1>2. <<key, p>> \in keyAlias
    BY <1>0, <1>1 DEF RefShapes
  <1>3. Owns(p, key) /\ \A q \in Project : Owns(q, key) => q = p
    BY <1>0, <1>2 DEF Owns, KeysOwned
  <1>4. PICK n \in named : n = <<ticket[i].key, num, i>>
    BY <1>0, <1>1 DEF TicketsNamed
  <1>5. n[2] = num /\ n[3] = i /\ Owns(p, n[1])
    BY <1>0, <1>1, <1>4 DEF TicketsNamed
  <1>6. \A q \in Project : \A m \in named :
           Owns(q, key) /\ Owns(q, m[1]) /\ m[2] = num => m[3] = i
    BY <1>0, <1>3, <1>5 DEF NumbersOnce
  <1>7. \A m \in named : m[1] = key /\ m[2] = num => m[3] = i
    BY <1>3, <1>6
  <1>8. \A j \in Resolve(key, num) : j = i
    BY <1>6, <1>7, ResolvesToRecorded
  <1>9. Resolve(key, num) # {}
    <2>1. p \in {b[2] : b \in {c \in keyAlias : c[1] = key}}
      BY <1>1
    <2>2. i \in {j \in Tickets : /\ ticket[j].project \in {b[2] : b \in {c \in keyAlias : c[1] = key}}
                                /\ ticket[j].num = num}
      BY <1>1, <2>1
    <2>3. ResolveRetiredRef(key, num) # {}
      BY <2>2 DEF ResolveRetiredRef
    <2>4. QED
      BY <2>3 DEF Resolve
  <1>10. QED
    BY <1>1, <1>8, <1>9

\* A reference that ever named an issue leads to no other one; what a move's note
\* quotes leads to the issue as long as it exists, and so does its number under
\* every key its project had before: whatever creations, moves, renames, reverts
\* and deletions come between (get_by_display_key).
THEOREM ReferencesKeepTheirIssue == ASSUME ReusedKeys = {} PROVE RefSpec => []RefsKeepTheirIssue
  <1>1. RefInv => RefsKeepTheirIssue
    <2> SUFFICES ASSUME RefInv
                 PROVE  RefsKeepTheirIssue
      OBVIOUS
    <2>1. TicketsNamed
      BY DEF RefInv
    <2>2. \A n \in named : Resolve(n[1], n[2]) \subseteq {n[3]}
      BY ResolvesToNamed
    <2>3. ASSUME NEW n \in left, n[3] \in Tickets
          PROVE  Resolve(n[1], n[2]) = {n[3]}
      <3>1. n \in named /\ n \in refAlias
        BY <2>1, <2>3 DEF TicketsNamed
      <3>2. n[3] \in Aliased({n[1]}, n[2])
        BY <3>1 DEF Aliased
      <3>3. Resolve(n[1], n[2]) # {}
        BY <3>2 DEF Resolve, ResolveRetiredRef
      <3>4. QED
        BY <2>2, <3>1, <3>3
    <2>4. QED
      BY <2>2, <2>3, RetiredKeysFindTickets DEF RefsKeepTheirIssue
  <1>2. QED
    BY <1>1, RefInvariant, PTL

=============================================================================
