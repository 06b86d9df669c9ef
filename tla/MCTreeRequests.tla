--------------------------- MODULE MCTreeRequests ---------------------------
(***************************************************************************)
(* Two scenes of IssueTreeTx in one run, chosen at the start: "creates",   *)
(* creations and deletions in one tree, and "all", every request on two    *)
(* trees, with fewer slots and issues.                                     *)
(***************************************************************************)
EXTENDS MCIssueTreeTx

CONSTANTS Few,      \* the slots scene "all" uses
          FewIssues \* and the issues

VARIABLE scene

MCStartTables == {Family, TwoTrees}

SceneInit ==
    /\ TxInit
    /\ \/ scene = "creates" /\ table = Family
       \/ scene = "all" /\ table = TwoTrees

SceneNext ==
    \/ scene = "creates" /\ CreateNext /\ UNCHANGED scene
    \/ /\ scene = "all" /\ TxNext /\ UNCHANGED scene
       /\ \A t \in Txn : request'[t].stage # "idle" =>
             t \in Few /\ request'[t].issue \in FewIssues \union {NoIssue}

SceneSpec == SceneInit /\ [][SceneNext]_<<txVars, scene>> /\ TxFairness

(* Creations that share a project and deletions that take no lock at all     *)
(* leave the intervals of every tree nested and in agreement with parent_id, *)
(* although a creation uses the parent's rgt it read before it held the      *)
(* tree's lock (IssueService.create, NestedSetService.insert_child).         *)
CreationsKeepTheTree ==
    scene = "creates" => Laminar /\ RootEncloses /\ ParentIsNearest

(* The depth check of a creation is still right when the issue is inserted   *)
(* (IssueService.check_parent).                                              *)
DepthBounded ==
    scene = "creates" =>
        \A i \in DOMAIN table : Cardinality(GetAncestors(table, table[i])) < MaxDepth

=============================================================================
