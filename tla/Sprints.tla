------------------------------- MODULE Sprints -------------------------------
(***************************************************************************)
(* The sprints of one project (SprintService): each request loads the      *)
(* sprint, decides on what it loaded, and commits; nothing is locked in    *)
(* between and Sprint has no optimistic lock, so only the partial unique   *)
(* index uq_sprints_project_active stops a request that decided on old     *)
(* data.  Issues are assigned to sprints and finished meanwhile.           *)
(***************************************************************************)
EXTENDS Integers, FiniteSets

CONSTANTS Sprint,      \* sprint ids
          Backlog,     \* sprint_id NULL
          Story,       \* the issues of the project
          Planner,     \* slots for requests on sprints
          Assigner,    \* slots for requests that assign an issue
          SprintOps    \* bound: requests

ASSUME SprintsAssumption == Backlog \notin Sprint /\ SprintOps \in Nat

VARIABLES
    sprint,     \* sprints: status ("none": no row) and velocity_snapshot
    story,      \* issues: sprint_id, and whether the status counts as done
    planner,    \* what each request on a sprint is doing
    assigner,   \* what each assigning request is doing
    moved,      \* history: <<sprint, issue>> a completion moved out unfinished
    sprintOps

sprintVars == <<sprint, story, planner, assigner, moved, sprintOps>>

NoSprint == [status |-> "none", snapshot |-> {}]
AtRest == [pc |-> "idle"]
Active == {s \in Sprint : sprint[s].status = "active"}
SprintExists(s) == sprint[s].status # "none"
StoriesOf(s) == {i \in Story : story[i].sprint = s}

SprintInit ==
    /\ sprint = [s \in Sprint |-> NoSprint]
    /\ story = [i \in Story |-> [sprint |-> Backlog, done |-> FALSE]]
    /\ planner = [r \in Planner |-> AtRest]
    /\ assigner = [r \in Assigner |-> AtRest]
    /\ moved = {} /\ sprintOps = 0

SprintRequest == sprintOps < SprintOps /\ sprintOps' = sprintOps + 1
PlannerTo(r, rec) == planner' = [planner EXCEPT ![r] = rec]
PlannerEnds(r) == PlannerTo(r, AtRest)

CreateSprint(s) ==
    /\ SprintRequest
    /\ sprint[s] = NoSprint
    /\ sprint' = [sprint EXCEPT ![s].status = "planned"]
    /\ UNCHANGED <<story, planner, assigner, moved>>

\* get_by_id, at the beginning of a start, a completion or a deletion.
LoadSprint(r, s, what) ==
    /\ SprintRequest
    /\ planner[r].pc = "idle" /\ SprintExists(s)
    /\ PlannerTo(r, [pc |-> what, s |-> s, status |-> sprint[s].status])
    /\ UNCHANGED <<sprint, story, assigner, moved>>

-----------------------------------------------------------------------------
\* start_sprint: planned as loaded, and no sprint is active by now.
CheckStart(r) ==
    /\ planner[r].pc = "start"
    /\ IF planner[r].status = "planned" /\ Active = {}
         THEN PlannerTo(r, [pc |-> "starting", s |-> planner[r].s])
         ELSE PlannerEnds(r)
    /\ UNCHANGED <<sprint, story, assigner, moved, sprintOps>>

\* A bug: no unique index behind the check.
MayStartUnindexed(r) == SprintExists(planner[r].s)

\* The flush: a row that is gone, or the unique index, fails the request.
MayStart(r) == SprintExists(planner[r].s) /\ Active \subseteq {planner[r].s}

CommitStart(r) ==
    /\ planner[r].pc = "starting"
    /\ sprint' = IF MayStart(r) THEN [sprint EXCEPT ![planner[r].s].status = "active"]
                                ELSE sprint
    /\ PlannerEnds(r)
    /\ UNCHANGED <<story, assigner, moved, sprintOps>>

\* complete_sprint: active as loaded; the issues of the sprint are read.
ReadStories(r) ==
    LET all == StoriesOf(planner[r].s)
    IN  /\ planner[r].pc = "complete"
        /\ IF planner[r].status = "active"
             THEN PlannerTo(r, [pc |-> "completing", s |-> planner[r].s, all |-> all,
                                open |-> {i \in all : ~story[i].done}])
             ELSE PlannerEnds(r)
        /\ UNCHANGED <<sprint, story, assigner, moved, sprintOps>>

\* The unfinished ones are moved by id, the snapshot and the status written.
CommitComplete(r, to) ==
    LET c == planner[r]
        fails == ~SprintExists(c.s) \/ (c.open # {} /\ to # Backlog /\ ~SprintExists(to))
    IN  /\ c.pc = "completing"
        /\ PlannerEnds(r)
        /\ IF fails
             THEN UNCHANGED <<sprint, story, moved>>
             ELSE /\ story' = [i \in Story |->
                        IF i \in c.open THEN [story[i] EXCEPT !.sprint = to] ELSE story[i]]
                  /\ sprint' = [sprint EXCEPT ![c.s] =
                                   [status |-> "completed", snapshot |-> c.all]]
                  /\ moved' = moved \union ({c.s} \X c.open)
        /\ UNCHANGED <<assigner, sprintOps>>

\* delete: not active as loaded; its issues go to the backlog (SET NULL).
CommitDelete(r) ==
    LET s == planner[r].s
    IN  /\ planner[r].pc = "delete"
        /\ PlannerEnds(r)
        /\ IF planner[r].status # "active" /\ SprintExists(s)
             THEN /\ sprint' = [sprint EXCEPT ![s] = NoSprint]
                  /\ story' = [i \in Story |-> IF story[i].sprint = s
                                  THEN [story[i] EXCEPT !.sprint = Backlog] ELSE story[i]]
                  /\ moved' = {m \in moved : m[1] # s}
             ELSE UNCHANGED <<sprint, story, moved>>
        /\ UNCHANGED <<assigner, sprintOps>>

-----------------------------------------------------------------------------
\* IssueService._validate_sprint, then the flush of the issue.
ValidateSprint(r, i, s) ==
    /\ SprintRequest
    /\ assigner[r].pc = "idle"
    /\ s \in {Backlog} \union {t \in Sprint : sprint[t].status \in {"planned", "active"}}
    /\ assigner' = [assigner EXCEPT ![r] = [pc |-> "assign", i |-> i, s |-> s]]
    /\ UNCHANGED <<sprint, story, planner, moved>>

CommitAssign(r) ==
    LET a == assigner[r]
    IN  /\ a.pc = "assign"
        /\ assigner' = [assigner EXCEPT ![r] = AtRest]
        /\ story' = IF a.s = Backlog \/ SprintExists(a.s)
                      THEN [story EXCEPT ![a.i].sprint = a.s] ELSE story
        /\ UNCHANGED <<sprint, planner, moved, sprintOps>>

\* An issue's status changes to a done category, or back.
SetDone(i) ==
    /\ SprintRequest
    /\ story' = [story EXCEPT ![i].done = ~@]
    /\ UNCHANGED <<sprint, planner, assigner, moved>>

SprintNext ==
    \/ \E s \in Sprint : CreateSprint(s)
    \/ \E r \in Planner :
          \/ \E s \in Sprint, what \in {"start", "complete", "delete"} : LoadSprint(r, s, what)
          \/ CheckStart(r) \/ CommitStart(r) \/ ReadStories(r) \/ CommitDelete(r)
          \/ \E to \in Sprint \union {Backlog} : CommitComplete(r, to)
    \/ \E r \in Assigner :
          \/ \E i \in Story, s \in Sprint \union {Backlog} : ValidateSprint(r, i, s)
          \/ CommitAssign(r)
    \/ \E i \in Story : SetDone(i)

SprintSpec == SprintInit /\ [][SprintNext]_sprintVars

-----------------------------------------------------------------------------
(* At most one sprint of the project is active, however two starts, a start  *)
(* and a completion, or a start decided on a row that has changed since,     *)
(* overlap ("A project can have only one active sprint at a time").          *)
OneActiveSprint == Cardinality(Active) <= 1

(* An unfinished issue that a completion takes out of a sprint is counted in *)
(* the snapshot of that sprint ("A snapshot is taken when a sprint is        *)
(* completed, because its unfinished issues then leave the sprint and could  *)
(* not be counted later": velocity_for).                                     *)
MovedIssuesAreCounted ==
    \A m \in moved : sprint[m[1]].status = "completed" => m[2] \in sprint[m[1]].snapshot

=============================================================================
