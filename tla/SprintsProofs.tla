---------------------------- MODULE SprintsProofs ----------------------------
(***************************************************************************)
(* Proofs about Sprints, for any sets of sprints, issues and requests.     *)
(***************************************************************************)
EXTENDS Sprints, FiniteSetTheorems, TLAPS

SprintRecord == [status : {"none", "planned", "active", "completed"}, snapshot : SUBSET Story]

\* The rows, and what a completion has read.
SprintShapes ==
    /\ sprint \in [Sprint -> SprintRecord]
    /\ DOMAIN planner = Planner
    /\ \A r \in Planner : planner[r].pc = "completing" => planner[r].all \subseteq Story

\* uq_sprints_project_active: one row of the project is active.
IndexHolds == \A s, t \in Sprint : sprint[s].status = "active" /\ sprint[t].status = "active" => s = t

SprintInv == SprintShapes /\ IndexHolds

\* A step that moves no sprint to active keeps the index.
LEMMA OtherStatuses ==
    ASSUME SprintInv, SprintShapes',
           \A s \in Sprint : sprint'[s].status = "active" => sprint[s].status = "active"
    PROVE  SprintInv'
  BY DEF SprintInv, IndexHolds

\* Every step keeps the rows' shapes and one active sprint: only CommitStart
\* activates one, behind the unique index.
LEMMA SprintStep ==
    ASSUME SprintInv, SprintNext
    PROVE  SprintInv'
  <1>0. SprintShapes /\ IndexHolds
    BY DEF SprintInv
  <1>1. ASSUME NEW s \in Sprint, CreateSprint(s)
        PROVE  SprintInv'
    <2>1. [sprint[s] EXCEPT !.status = "planned"] \in SprintRecord
      BY <1>0 DEF SprintShapes, SprintRecord
    <2>2. sprint' = [sprint EXCEPT ![s] = [sprint[s] EXCEPT !.status = "planned"]] /\ planner' = planner
      BY <1>1 DEF CreateSprint
    <2>3. SprintShapes'
      BY <1>0, <2>1, <2>2 DEF SprintShapes
    <2>4. \A t \in Sprint : sprint'[t].status = "active" => sprint[t].status = "active"
      BY <1>0, <2>2 DEF SprintShapes, SprintRecord
    <2>5. QED
      BY <2>3, <2>4, OtherStatuses
  <1>2. ASSUME NEW r \in Planner,
               \/ \E s \in Sprint, what \in {"start", "complete", "delete"} : LoadSprint(r, s, what)
               \/ CheckStart(r) \/ ReadStories(r)
        PROVE  SprintInv'
    <2>1. PICK new : /\ planner' = [planner EXCEPT ![r] = new]
                     /\ new.pc = "completing" => new.all \subseteq Story
      BY <1>2 DEF LoadSprint, CheckStart, ReadStories, PlannerTo, PlannerEnds, AtRest, StoriesOf
    <2>2. sprint' = sprint
      BY <1>2 DEF LoadSprint, CheckStart, ReadStories
    <2>3. SprintShapes'
      BY <1>0, <2>1, <2>2 DEF SprintShapes
    <2>4. QED
      BY <2>2, <2>3, OtherStatuses
  <1>3. ASSUME NEW r \in Planner, CommitStart(r)
        PROVE  SprintInv'
    <2>1. planner' = [planner EXCEPT ![r] = AtRest] /\ AtRest.pc = "idle"
      BY <1>3 DEF CommitStart, PlannerEnds, PlannerTo, AtRest
    <2>2. CASE sprint' = sprint
      <3>1. SprintShapes'
        BY <1>0, <2>1, <2>2 DEF SprintShapes
      <3>2. QED
        BY <2>2, <3>1, OtherStatuses
    <2>3. CASE MayStart(r) /\ planner[r].s \in Sprint
      <3>1. PICK s \in Sprint : s = planner[r].s
        BY <2>3
      <3>2. [sprint[s] EXCEPT !.status = "active"] \in SprintRecord
        BY <1>0 DEF SprintShapes, SprintRecord
      <3>3. sprint' = [sprint EXCEPT ![s] = [sprint[s] EXCEPT !.status = "active"]]
        BY <1>3, <2>3, <3>1 DEF CommitStart
      <3>4. SprintShapes'
        BY <1>0, <2>1, <3>2, <3>3 DEF SprintShapes
      <3>5. \A t \in Sprint : sprint'[t].status = "active" => t = s
        BY <1>0, <2>3, <3>1, <3>3 DEF MayStart, Active, SprintShapes
      <3>6. QED
        BY <3>4, <3>5 DEF SprintInv, IndexHolds
    <2>4. QED
      BY <1>0, <1>3, <2>2, <2>3 DEF CommitStart, SprintShapes
  <1>4. ASSUME NEW r \in Planner, NEW to \in Sprint \union {Backlog}, CommitComplete(r, to)
        PROVE  SprintInv'
    <2>1. planner' = [planner EXCEPT ![r] = AtRest] /\ AtRest.pc = "idle"
      BY <1>4 DEF CommitComplete, PlannerEnds, PlannerTo, AtRest
    <2>2. [status |-> "completed", snapshot |-> planner[r].all] \in SprintRecord
      BY <1>0, <1>4 DEF CommitComplete, SprintShapes, SprintRecord
    <2>3. \/ sprint' = sprint
          \/ sprint' = [sprint EXCEPT ![planner[r].s] =
                           [status |-> "completed", snapshot |-> planner[r].all]]
      BY <1>4 DEF CommitComplete
    <2>4. SprintShapes'
      BY <1>0, <2>1, <2>2, <2>3 DEF SprintShapes
    <2>5. \A t \in Sprint : sprint'[t].status = "active" => sprint[t].status = "active"
      BY <1>0, <2>3 DEF SprintShapes
    <2>6. QED
      BY <2>4, <2>5, OtherStatuses
  <1>5. ASSUME NEW r \in Planner, CommitDelete(r)
        PROVE  SprintInv'
    <2>1. planner' = [planner EXCEPT ![r] = AtRest] /\ AtRest.pc = "idle"
      BY <1>5 DEF CommitDelete, PlannerEnds, PlannerTo, AtRest
    <2>2. NoSprint \in SprintRecord /\ NoSprint.status = "none"
      BY DEF NoSprint, SprintRecord
    <2>3. sprint' = sprint \/ sprint' = [sprint EXCEPT ![planner[r].s] = NoSprint]
      BY <1>5 DEF CommitDelete
    <2>4. SprintShapes'
      BY <1>0, <2>1, <2>2, <2>3 DEF SprintShapes
    <2>5. \A t \in Sprint : sprint'[t].status = "active" => sprint[t].status = "active"
      BY <1>0, <2>2, <2>3 DEF SprintShapes
    <2>6. QED
      BY <2>4, <2>5, OtherStatuses
  <1>6. CASE UNCHANGED <<sprint, planner>>
    BY <1>6 DEF SprintInv, SprintShapes, IndexHolds
  <1>7. QED
    BY <1>1, <1>2, <1>3, <1>4, <1>5, <1>6
    DEF SprintNext, ValidateSprint, CommitAssign, SetDone

\* "A project can have only one active sprint at a time" (start_sprint and the
\* index uq_sprints_project_active), however requests overlap.
THEOREM OneSprintActive == SprintSpec => []OneActiveSprint
  <1>1. SprintInit => SprintInv
    BY DEF SprintInit, SprintInv, SprintShapes, IndexHolds, SprintRecord, NoSprint, AtRest
  <1>2. SprintInv /\ [SprintNext]_sprintVars => SprintInv'
    <2> SUFFICES ASSUME SprintInv, [SprintNext]_sprintVars
                 PROVE  SprintInv'
      OBVIOUS
    <2>1. CASE UNCHANGED sprintVars
      BY <2>1 DEF sprintVars, SprintInv, SprintShapes, IndexHolds
    <2>2. QED
      BY <2>1, SprintStep
  <1>3. SprintInv => OneActiveSprint
    <2> SUFFICES ASSUME SprintInv
                 PROVE  Cardinality(Active) <= 1
      BY DEF OneActiveSprint
    <2>1. \A s, t \in Active : s = t
      BY DEF SprintInv, IndexHolds, Active
    <2>2. CASE Active = {}
      BY <2>2, FS_EmptySet
    <2>3. CASE Active # {}
      <3>1. PICK s : Active = {s}
        BY <2>1, <2>3
      <3>2. Cardinality(Active) = 1
        BY <3>1, FS_Singleton
      <3>3. QED
        BY <3>2
    <2>4. QED
      BY <2>2, <2>3
  <1>4. QED
    BY <1>1, <1>2, <1>3, PTL DEF SprintSpec

=============================================================================
