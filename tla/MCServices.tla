----------------------------- MODULE MCServices -----------------------------
(***************************************************************************)
(* The services beside the issue tree and the sessions in one run.  They   *)
(* share no state in these models, so a behaviour chooses one of them      *)
(* (`focus`) and leaves the others in their initial state: the state       *)
(* spaces add up instead of multiplying.  Fairness is asked of the service *)
(* in focus only.                                                          *)
(*                                                                         *)
(* The occurrence engine has no state: with focus "engine" a behaviour is  *)
(* one call of expand_occurrences.                                         *)
(***************************************************************************)
EXTENDS Recurring, Webhooks, IssueRefs, RepositoryHooks, Sprints

CONSTANTS p1, p2, p3, k1, k2, k3

VARIABLES focus,
          call     \* the arguments of expand_occurrences

-----------------------------------------------------------------------------
(* Constants.                                                              *)

MCRules == {[mode |-> "fixed", base |-> "scheduled", interval |-> 1, adjust |-> "none"],
            [mode |-> "flexible", base |-> "scheduled", interval |-> 1, adjust |-> "none"]}

MCRecBudgets ==
    {[first |-> {1}, ops |-> 1, faults |-> 1], [first |-> {1, 2}, ops |-> 1, faults |-> 0],
     [first |-> {1, 2}, ops |-> 0, faults |-> 1], [first |-> {}, ops |-> 2, faults |-> 0]}

MCHookBudgets ==
    {[events |-> 2, edits |-> 1, faults |-> 0, kinds |-> {"private"}],
     [events |-> 1, edits |-> 0, faults |-> 2, kinds |-> {"public", "ping"}],
     [events |-> 1, edits |-> 1, faults |-> 1, kinds |-> {"private", "ping"}]}

MCFirstKey == (p1 :> k1) @@ (p2 :> k2)

Scenario(posts, pushes, faulty, acts, pace, outside, may) ==
    [posts |-> posts, pushes |-> pushes, faults |-> faulty, acts |-> acts,
     pace |-> pace, outside |-> outside, granted |-> may]

MCRepoBudgets ==
    {Scenario(3, 0, 0, 0, 0, FALSE, TRUE), Scenario(3, 0, 0, 0, 1, FALSE, TRUE),
     Scenario(3, 0, 0, 0, 1, FALSE, FALSE), Scenario(2, 2, 1, 0, 1, FALSE, TRUE),
     Scenario(2, 2, 0, 1, 0, FALSE, TRUE), Scenario(2, 0, 0, 1, 1, FALSE, FALSE),
     Scenario(2, 0, 0, 1, 1, TRUE, TRUE)}

\* The last day of the calls.
EngineDay == 8

Calls ==
    [spec : [dtstart : {1, 2}, interval : {1, 3}, until : {4, EngineDay}, count : {0, 1, 3},
             adjust : {"none", "next", "previous", "nearest"}],
     lo : {1, 3}, hi : {2, 3, 5}, exdates : SUBSET {1, 3, 5}]

NoCall == [spec |-> "none"]

-----------------------------------------------------------------------------
(* The run.                                                                *)

ServicesInit ==
    /\ focus \in {"recurring", "webhooks", "refs", "repositories", "sprints", "engine"}
    /\ RecInit /\ HookInit /\ RefInit /\ RepoInit /\ SprintInit
    /\ focus # "recurring" => /\ recBudget = CHOOSE b \in RecBudgets : b.first = {}
    /\ focus # "webhooks" => /\ \A h \in Hook : ~hook[h].private
                             /\ hookBudget = CHOOSE b \in HookBudgets : TRUE
    /\ focus # "repositories" => /\ forge.text = CHOOSE t \in Texts : TRUE
                                 /\ repoBudget = CHOOSE b \in RepoBudgets : TRUE
    /\ IF focus = "engine" THEN call \in Calls ELSE call = NoCall

ServicesNext ==
    /\ UNCHANGED <<focus, call>>
    /\ \/ /\ focus = "recurring" /\ RecNext
          /\ UNCHANGED <<hookVars, refVars, repoVars, sprintVars>>
       \/ /\ focus = "webhooks" /\ HookNext
          /\ UNCHANGED <<recVars, refVars, repoVars, sprintVars>>
       \/ /\ focus = "refs" /\ RefAction
          /\ UNCHANGED <<recVars, hookVars, repoVars, sprintVars>>
       \/ /\ focus = "repositories" /\ RepoNext
          /\ UNCHANGED <<recVars, hookVars, refVars, sprintVars>>
       \/ /\ focus = "sprints" /\ SprintNext
          /\ UNCHANGED <<recVars, hookVars, refVars, repoVars>>

\* RecFairness, HookFairness and RepoFairness, each while it is in focus.
ServicesFairness ==
    /\ \A w \in Worker :
          WF_recVars(focus = "recurring" /\ RunStep(w) /\ UNCHANGED recBudget)
    /\ WF_recVars(focus = "recurring" /\ LockExpires /\ UNCHANGED recBudget)
    /\ \A e \in Emitter :
          WF_hookVars(focus = "webhooks" /\ EmitGoesOn(e) /\ UNCHANGED hookBudget)
    /\ \A w \in Sender :
          WF_hookVars(focus = "webhooks" /\ SenderStep(w) /\ UNCHANGED hookBudget)
    /\ WF_hookVars(/\ focus = "webhooks" /\ UNCHANGED hookBudget
                   /\ \E w \in Sender, m \in queue : TakeMessage(w, m))
    /\ WF_hookVars(focus = "webhooks" /\ Sweep /\ UNCHANGED hookBudget)
    /\ WF_hookVars(focus = "webhooks" /\ HookTick /\ UNCHANGED hookBudget)
    /\ \A w \in Processor :
          WF_repoVars(focus = "repositories" /\ TaskGoesOn(w) /\ UNCHANGED repoBudget)
    /\ WF_repoVars(/\ focus = "repositories" /\ UNCHANGED repoBudget
                   /\ \E w \in Processor, e \in Post : Take(w, e))
    /\ WF_repoVars(focus = "repositories" /\ SweepInbox /\ UNCHANGED repoBudget)

ServicesSpec ==
    /\ ServicesInit
    /\ [][ServicesNext]_<<recVars, hookVars, refVars, repoVars, sprintVars, focus, call>>
    /\ ServicesFairness

(* expand_occurrences never yields a day that is not of the series or not in *)
(* its window, and misses one of them only where its scan ends too early: a  *)
(* shutdown longer than the 14 days it scans past the window ("We stop a bit *)
(* past window_end so that a 'previous' / 'nearest' working-day shift can    *)
(* still pull a later occurrence back into the window"), or more dates than  *)
(* _MAX_CANDIDATES.  Skipped dates do not use up COUNT.                      *)
ExpandMeetsReference ==
    focus = "engine" =>
        FindsTheSeries(call.spec, call.lo, call.hi, call.exdates, EngineDay)

=============================================================================
