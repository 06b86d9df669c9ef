--------------------------- MODULE RepositoryHooks ---------------------------
(***************************************************************************)
(* Incoming repository webhooks: the forge posts events about one pull     *)
(* request and pushes one commit; the endpoint records each delivery once  *)
(* (hooks/router.py, record_delivery), a Celery task processes it          *)
(* (process_delivery), and a sweeper queues again what was lost.  Requests *)
(* of the forge arrive late, twice and out of order, messages get lost,    *)
(* workers fail.                                                           *)
(*                                                                         *)
(* An event says what the request looked like: its state, the forge's time *)
(* and how its text references each issue ("fixes", "refs" or "none").     *)
(* Merge automation is on, the request targets the default branch, and     *)
(* $git is a member of the project who sees its issues.                    *)
(*                                                                         *)
(* A forge that gives no times is one whose events all happen in one       *)
(* second: is_newer takes them alike.  A request with a time in some of    *)
(* its events and none in others is left out.                              *)
(***************************************************************************)
EXTENDS Integers, FiniteSets, Sequences

CONSTANTS Target,       \* issues in the integration's scope
          Wordings,     \* how a text may mention an issue, of the three above
          Processor,    \* Celery workers
          MaxPosts,     \* bound: events of the forge
          RepoBudgets   \* what a behaviour may choose from: bounds on events, pushes
                        \* among them, faults and what people do (redeliver, reopen,
                        \* grant, switch off), the seconds between two events, and whether an outsider
                        \* opened the request and $git may move issues at first

ASSUME RepositoryHooksAssumption ==
    /\ MaxPosts \in Nat /\ Wordings \subseteq {"none", "refs", "fixes"}
    /\ RepoBudgets \subseteq 
          [posts : 0..MaxPosts, pushes : Nat, faults : Nat, acts : Nat, pace : {0, 1},
           outside : BOOLEAN, granted : BOOLEAN]

VARIABLES
    forge,    \* the request at the forge: state, text and time
    post,     \* the events the forge sent, in the order they happened
    inbox,    \* repository_deliveries: status by event ("none": no row)
    tasks,    \* process_repository_delivery messages
    hand,     \* what each worker is doing
    stored,   \* pull_requests: state ("none": no row) and provider_updated_at
    link,     \* issue_pull_request_links by issue
    commitOn, \* issue_commit_links: the issues the pushed commit is linked to
    status,   \* the issues: "open" or "merged", the merge status
    granted,  \* the workflow lets $git move issues
    active,   \* the integration is on
    repoBudget, repoFaults, repoActs,
    moves,    \* history: times automation moved an issue
    notes,    \* history: "could not move" notes on an issue
    commands  \* history: times the commit's commands ran for an issue

repoVars == <<forge, post, inbox, tasks, hand, stored, link, commitOn, status, granted,
              active, repoBudget, repoFaults, repoActs, moves, notes, commands>>

\* The parts whole groups of actions leave alone.
theForge == <<forge, post>>
theLinks == <<stored, link, commitOn, status, moves, notes, commands>>
theAdmin == <<granted, active>>

Post == 1..Len(post)
Texts == [Target -> Wordings]
Referenced(e) == {i \in Target : post[e].text[i] # "none"}
NoLink == [on |-> FALSE, closing |-> FALSE, qualified |-> FALSE,
           handled |-> FALSE, refused |-> FALSE]
Resting == [pc |-> "idle"]

RepoInit ==
    /\ repoBudget \in RepoBudgets /\ repoFaults = 0 /\ repoActs = 0
    /\ \E text \in Texts : forge = [state |-> "none", text |-> text, at |-> 1]
    /\ post = <<>>
    /\ inbox = [e \in 1..MaxPosts |-> "none"]
    /\ tasks = {}
    /\ hand = [w \in Processor |-> Resting]
    /\ stored = [state |-> "none", at |-> 0]
    /\ link = [i \in Target |-> NoLink]
    /\ commitOn = {}
    /\ status = [i \in Target |-> "open"]
    /\ granted = repoBudget.granted /\ active = TRUE
    /\ moves = [i \in Target |-> 0]
    /\ notes = [i \in Target |-> 0]
    /\ commands = [i \in Target |-> 0]

RepoFault == repoFaults < repoBudget.faults /\ repoFaults' = repoFaults + 1
RepoAct == repoActs < repoBudget.acts /\ repoActs' = repoActs + 1

-----------------------------------------------------------------------------
(* The forge.                                                                *)

\* What can happen to a request: action, state after it, and its text.
Happenings ==
    LET s == forge.state
        kept(action, states) == [action : {action}, state : states, text : {forge.text}]
    IN  CASE s = "none"   -> kept("opened", {"open"})
          [] s = "open"   -> kept("closed", {"closed", "merged"})
                               \union [action : {"edited"}, state : {s}, text : Texts]
          [] s = "closed" -> kept("reopened", {"open"})
                               \union [action : {"edited"}, state : {s}, text : Texts]
          [] s = "merged" -> [action : {"edited"}, state : {s}, text : Texts]

ForgeEvent ==
    /\ Len(post) < repoBudget.posts
    /\ \E h \in Happenings :
          LET now == forge.at + repoBudget.pace
          IN  /\ forge' = [state |-> h.state, text |-> h.text, at |-> now]
              /\ post' = Append(post, [kind |-> "pull_request", action |-> h.action,
                                       state |-> h.state, text |-> h.text, at |-> now])
    /\ UNCHANGED <<inbox, tasks, hand, theLinks, theAdmin, repoFaults, repoActs>>

\* The commit, whose message references issues, is pushed to some branch.
ForgePush ==
    /\ Len(post) < repoBudget.posts
    /\ Cardinality({e \in Post : post[e].kind = "push"}) < repoBudget.pushes
    /\ post' = Append(post, [kind |-> "push", text |-> forge.text])
    /\ UNCHANGED <<forge, inbox, tasks, hand, theLinks, theAdmin, repoFaults, repoActs>>

-----------------------------------------------------------------------------
(* The endpoint: receive_repository_webhook and record_delivery.             *)

\* queue_processing: a dead broker is only logged.
Queue(messages) ==
    \/ tasks' = tasks \union messages /\ UNCHANGED repoFaults
    \/ RepoFault /\ UNCHANGED tasks

\* An event arrives for the first time, in any order.
Receive(e) ==
    /\ e \in Post /\ inbox[e] = "none" /\ active
    /\ inbox' = [inbox EXCEPT ![e] = "accepted"]
    /\ Queue({e})
    /\ UNCHANGED <<theForge, hand, theLinks, theAdmin, repoActs>>

\* The forge sends it again: a duplicate, unless processing it had failed.
Redeliver(e) ==
    /\ RepoAct
    /\ e \in Post /\ inbox[e] # "none" /\ active
    /\ IF inbox[e] = "failed"
         THEN inbox' = [inbox EXCEPT ![e] = "accepted"] /\ Queue({e})
         ELSE UNCHANGED <<inbox, tasks, repoFaults>>
    /\ UNCHANGED <<theForge, hand, theLinks, theAdmin>>

-----------------------------------------------------------------------------
(* process_delivery.                                                         *)

Taken(e) == \E w \in Processor : hand[w].pc # "idle" /\ hand[w].e = e

\* Row locks on issues and on the pull request.
IssueHeld(i, w) == \E v \in Processor \ {w} : hand[v].pc # "idle" /\ i \in hand[v].holds
RequestHeld(w) == \E v \in Processor \ {w} : hand[v].pc = "automate"

To(w, new) == hand' = [hand EXCEPT ![w] = new]
Close(w, outcome) == inbox' = [inbox EXCEPT ![hand[w].e] = outcome] /\ To(w, Resting)

\* FOR UPDATE SKIP LOCKED on an accepted row; any other message does nothing.
Take(w, e) ==
    /\ hand[w].pc = "idle" /\ e \in tasks
    /\ IF inbox[e] = "accepted" /\ ~Taken(e)
         THEN To(w, [pc |-> "start", e |-> e, holds |-> {}])
         ELSE UNCHANGED hand
    /\ tasks' = tasks \ {e}
    /\ UNCHANGED <<theForge, inbox, theLinks, theAdmin, repoFaults, repoActs>>

IsMergeEvent(ev) == ev.state = "merged" /\ ev.action \in {"closed", "merge"}

\* What needs no more than a look: a disabled integration, an outsider's request.
Ignore(w) ==
    LET ev == post[hand[w].e]
    IN  /\ hand[w].pc = "start"
        /\ \/ ~active
           \/ ev.kind = "pull_request" /\ repoBudget.outside /\ ~IsMergeEvent(ev)
        /\ Close(w, "ignored")
        /\ UNCHANGED <<theForge, tasks, theLinks, theAdmin, repoFaults, repoActs>>

\* process_pull_request up to _issues: is the request stored, and lock the
\* issues it references.  Nothing referenced and not stored: nothing to do.
LockIssues(w) ==
    LET e  == hand[w].e
        ev == post[e]
    IN  /\ hand[w].pc = "start" /\ active
        /\ ev.kind = "pull_request" /\ (repoBudget.outside => IsMergeEvent(ev))
        /\ \A i \in Referenced(e) : ~IssueHeld(i, w)
        /\ IF stored.state = "none" /\ Referenced(e) = {} /\ ev.state # "merged"
             THEN Close(w, "processed")
             ELSE To(w, [pc |-> "upsert", e |-> e, holds |-> Referenced(e)])
                  /\ UNCHANGED inbox
        /\ UNCHANGED <<theForge, tasks, theLinks, theAdmin, repoFaults, repoActs>>

\* A bug: the forge's time is not compared.
IsNewerUntimed(old, ev) == old.state = "merged" => ev.state = "merged"

IsNewer(old, ev) ==
    \/ old.state = "none"
    \/ (old.state = "merged" => ev.state = "merged") /\ ev.at >= old.at

\* The row _upsert stores.
Upserted(ev) == IF IsNewer(stored, ev) THEN [state |-> ev.state, at |-> ev.at] ELSE stored

\* A bug: any text that closes the issue qualifies it.
NewLinkUnqualified(i, ev, mergedBefore, mergeEvent) ==
    LET fixes == ev.text[i] = "fixes"
        old   == link[i]
    IN  IF ev.text[i] = "none" /\ ~old.on THEN NoLink
        ELSE [on |-> TRUE,
              closing |-> IF mergedBefore THEN old.closing \/ fixes ELSE fixes,
              qualified |-> old.qualified \/ fixes,
              handled |-> old.handled, refused |-> old.refused]

\* The links after an event, the request having been merged before or not.
NewLink(i, ev, mergedBefore, mergeEvent) ==
    LET fixes == ev.text[i] = "fixes"
        named == ev.text[i] # "none"
        old   == link[i]
    IN  IF ~named /\ ~old.on THEN NoLink
        ELSE [on |-> TRUE,
              closing |-> IF mergedBefore THEN old.closing \/ fixes ELSE fixes,
              qualified |-> old.qualified \/ (mergeEvent /\ fixes),
              handled |-> old.handled, refused |-> old.refused]

\* A bug: an old event is dropped even when it is the merge.
UpsertDropsOld(w) ==
    LET ev  == post[hand[w].e]
        new == Upserted(ev)
    IN  /\ hand[w].pc = "upsert" /\ ~RequestHeld(w)
        /\ IF ~IsNewer(stored, ev)
             THEN Close(w, "processed")
             ELSE To(w, [pc |-> "automate", e |-> hand[w].e, holds |-> hand[w].holds,
                         stored |-> new,
                         links |-> [i \in Target |->
                            NewLink(i, ev, stored.state = "merged", IsMergeEvent(ev))]])
                  /\ UNCHANGED inbox
        /\ UNCHANGED <<theForge, tasks, theLinks, theAdmin, repoFaults, repoActs>>

\* _upsert and the links, with the request's row locked; an old event that is
\* not the merge changes nothing.
Upsert(w) ==
    LET ev         == post[hand[w].e]
        new        == Upserted(ev)
        applied    == IsNewer(stored, ev)
        mergeEvent == IsMergeEvent(ev) /\ new.state = "merged"
    IN  /\ hand[w].pc = "upsert" /\ ~RequestHeld(w)
        /\ IF ~applied /\ ~mergeEvent
             THEN Close(w, "processed")
             ELSE To(w, [pc |-> "automate", e |-> hand[w].e, holds |-> hand[w].holds,
                         stored |-> new,
                         links |-> [i \in Target |->
                            NewLink(i, ev, stored.state = "merged", mergeEvent)]])
                  /\ UNCHANGED inbox
        /\ UNCHANGED <<theForge, tasks, theLinks, theAdmin, repoFaults, repoActs>>

PendingLinks(links) == {i \in Target :
    links[i].closing /\ links[i].qualified /\ ~links[i].handled}

\* The issues merge automation acts on: merge_applies, then the pending links.
ToMove(w) == IF hand[w].stored.state = "merged" THEN PendingLinks(hand[w].links) ELSE {}

Movable(i) == status[i] # "merged" /\ granted
Refused(i) == status[i] # "merged" /\ ~granted

\* A bug: every refusal is noted on the issue.
AutomateNotesAgain(w) ==
    LET act == ToMove(w)
        new(i) == [hand[w].links[i] EXCEPT
                      !.handled = @ \/ (i \in act /\ ~Refused(i)),
                      !.refused = @ \/ (i \in act /\ Refused(i))]
    IN  /\ hand[w].pc = "automate"
        /\ \A i \in act : ~IssueHeld(i, w)
        /\ stored' = hand[w].stored
        /\ link' = [i \in Target |-> new(i)]
        /\ status' = [i \in Target |-> IF i \in act /\ Movable(i) THEN "merged" ELSE status[i]]
        /\ moves' = [i \in Target |-> moves[i] + IF i \in act /\ Movable(i) THEN 1 ELSE 0]
        /\ notes' = [i \in Target |-> notes[i] + IF i \in act /\ Refused(i) THEN 1 ELSE 0]
        /\ Close(w, "processed")
        /\ UNCHANGED <<theForge, tasks, commitOn, commands, theAdmin, repoFaults, repoActs>>

\* _merge_automation locks what it acts on, and the task commits everything.
Automate(w) ==
    LET act == ToMove(w)
        new(i) == [hand[w].links[i] EXCEPT
                      !.handled = @ \/ (i \in act /\ ~Refused(i)),
                      !.refused = @ \/ (i \in act /\ Refused(i))]
    IN  /\ hand[w].pc = "automate"
        /\ \A i \in act : ~IssueHeld(i, w)
        /\ stored' = hand[w].stored
        /\ link' = [i \in Target |-> new(i)]
        /\ status' = [i \in Target |-> IF i \in act /\ Movable(i) THEN "merged" ELSE status[i]]
        /\ moves' = [i \in Target |-> moves[i] + IF i \in act /\ Movable(i) THEN 1 ELSE 0]
        /\ notes' = [i \in Target |-> notes[i] +
              IF i \in act /\ Refused(i) /\ ~hand[w].links[i].refused THEN 1 ELSE 0]
        /\ Close(w, "processed")
        /\ UNCHANGED <<theForge, tasks, commitOn, commands, theAdmin, repoFaults, repoActs>>

\* _process_push: ON CONFLICT DO NOTHING waits for another push that inserts
\* the same link and is not committed yet.  The key-share locks that new rows take
\* on their issues are left out, and with them the deadlock of two pushes of
\* different commits that reference one issue: there is one commit here.
Linking(w) == \E v \in Processor \ {w} : hand[v].pc = "link"

InsertLinks(w) ==
    /\ hand[w].pc = "start" /\ active /\ post[hand[w].e].kind = "push"
    /\ ~Linking(w)
    /\ To(w, [pc |-> "link", e |-> hand[w].e, holds |-> {},
              new |-> Referenced(hand[w].e) \ commitOn])
    /\ UNCHANGED <<theForge, inbox, tasks, theLinks, theAdmin, repoFaults, repoActs>>

\* _record_new_links: the issues are locked, the commands run, all is committed.
RunCommands(w) ==
    /\ hand[w].pc = "link"
    /\ \A i \in hand[w].new : ~IssueHeld(i, w)
    /\ commitOn' = commitOn \union hand[w].new
    /\ commands' = [i \in Target |-> commands[i] + IF i \in hand[w].new THEN 1 ELSE 0]
    /\ Close(w, "processed")
    /\ UNCHANGED <<theForge, tasks, stored, link, status, moves, notes, theAdmin,
                   repoFaults, repoActs>>

\* One task holds the request and wants an issue of another, which wants the
\* request: the database ends one of them.
TasksDeadlocked(w) ==
    /\ hand[w].pc = "automate"
    /\ \E v \in Processor \ {w} :
          hand[v].pc = "upsert" /\ hand[v].holds \intersect ToMove(w) # {}

\* A bug: a status repository_deliveries does not know.
FailDeliveryMistyped(w) ==
    /\ hand[w].pc # "idle"
    /\ RepoFault
    /\ Close(w, "error")
    /\ UNCHANGED <<theForge, tasks, theLinks, theAdmin, repoActs>>

\* Processing raises: rolled back, and recorded as failed on its own.
FailDelivery(w) ==
    /\ hand[w].pc # "idle"
    /\ \/ RepoFault
       \/ TasksDeadlocked(w) /\ UNCHANGED repoFaults
    /\ Close(w, "failed")
    /\ UNCHANGED <<theForge, tasks, theLinks, theAdmin, repoActs>>

\* The worker dies: rolled back, and nothing is recorded.
KillWorker(w) ==
    /\ hand[w].pc # "idle"
    /\ RepoFault
    /\ To(w, Resting)
    /\ UNCHANGED <<theForge, inbox, tasks, theLinks, theAdmin, repoActs>>

LoseTask(e) ==
    /\ e \in tasks
    /\ RepoFault
    /\ tasks' = tasks \ {e}
    /\ UNCHANGED <<theForge, inbox, hand, theLinks, theAdmin, repoActs>>

\* A bug: the sweeper looks for failed deliveries.
SweepInboxFailed ==
    LET stale == {e \in Post : inbox[e] = "failed"}
    IN  /\ ~(stale \subseteq tasks)
        /\ Queue(stale)
        /\ UNCHANGED <<theForge, inbox, hand, theLinks, theAdmin, repoActs>>

\* claim_stale queues what is still accepted, also what is being worked on.
SweepInbox ==
    LET stale == {e \in Post : inbox[e] = "accepted"}
    IN  /\ ~(stale \subseteq tasks)
        /\ Queue(stale)
        /\ UNCHANGED <<theForge, inbox, hand, theLinks, theAdmin, repoActs>>

\* purge_old_deliveries, a month after its arrival and whatever its status; the
\* row of a delivery that is being processed is locked.
PurgeInbox(e) ==
    /\ inbox[e] # "none" /\ ~Taken(e)
    /\ RepoAct
    /\ inbox' = [inbox EXCEPT ![e] = "none"]
    /\ UNCHANGED <<theForge, tasks, hand, theLinks, theAdmin, repoFaults>>

-----------------------------------------------------------------------------
(* People.                                                                   *)

ReopenIssue(i) ==
    /\ RepoAct
    /\ status[i] = "merged" /\ \A w \in Processor : hand[w].pc # "idle" => i \notin hand[w].holds
    /\ status' = [status EXCEPT ![i] = "open"]
    /\ UNCHANGED <<theForge, inbox, tasks, hand, stored, link, commitOn, moves, notes,
                   commands, theAdmin, repoFaults>>

GrantTransition ==
    /\ ~granted /\ RepoAct
    /\ granted' = TRUE
    /\ UNCHANGED <<theForge, inbox, tasks, hand, theLinks, active, repoFaults>>

SwitchIntegration ==
    /\ RepoAct
    /\ active' = ~active
    /\ UNCHANGED <<theForge, inbox, tasks, hand, theLinks, granted, repoFaults>>

TaskGoesOn(w) ==
    \/ Ignore(w) \/ LockIssues(w) \/ Upsert(w) \/ Automate(w)
    \/ InsertLinks(w) \/ RunCommands(w)
    \/ hand[w].pc = "automate" /\ TasksDeadlocked(w) /\ FailDelivery(w)

RepoAction ==
    \/ ForgeEvent \/ ForgePush
    \/ \E e \in Post : Receive(e) \/ Redeliver(e) \/ LoseTask(e) \/ PurgeInbox(e)
    \/ \E w \in Processor :
          \/ \E e \in Post : Take(w, e)
          \/ TaskGoesOn(w) \/ FailDelivery(w) \/ KillWorker(w)
    \/ SweepInbox
    \/ \E i \in Target : ReopenIssue(i)
    \/ GrantTransition \/ SwitchIntegration

RepoNext == RepoAction /\ UNCHANGED repoBudget

(* Workers go on and take messages, beat runs the sweeper.                   *)
RepoFairness ==
    /\ \A w \in Processor : WF_repoVars(TaskGoesOn(w) /\ UNCHANGED repoBudget)
    /\ WF_repoVars((\E w \in Processor, e \in Post : Take(w, e)) /\ UNCHANGED repoBudget)
    /\ WF_repoVars(SweepInbox /\ UNCHANGED repoBudget)

RepoSpec == RepoInit /\ [][RepoNext]_repoVars /\ RepoFairness

-----------------------------------------------------------------------------
MergePosts == {e \in Post : post[e].kind = "pull_request" /\ IsMergeEvent(post[e])}

\* The state has its shape.
RepoTypeOK ==
    /\ \A e \in 1..MaxPosts : inbox[e] \in {"none", "accepted", "processed", "ignored", "failed"}
    /\ tasks \subseteq Post
    /\ \A w \in Processor :
          hand[w].pc \in {"idle", "start", "upsert", "automate", "link"}
    /\ stored.state \in {"none", "open", "closed", "merged"}

(* Automation moves an issue only when the text of the merge itself says it  *)
(* fixes the issue: no edit before or after the merge, however events are    *)
(* reordered, repeated or processed at once, qualifies one ("A keyword added *)
(* by editing the text after the merge does not count").                     *)
OnlyTheMergeTextMoves ==
    \A i \in Target : moves[i] > 0 => \E e \in MergePosts : post[e].text[i] = "fixes"

(* Each issue is moved at most once per merge and gets one note at most, and *)
(* a commit's commands run once per issue: also when the delivery is queued  *)
(* twice, swept while it is being processed, redelivered or, after the purge *)
(* of its row, taken for a new one, and although people reopen the issue.    *)
ActsOnce ==
    \A i \in Target : moves[i] <= 1 /\ notes[i] <= 1 /\ commands[i] <= 1

(* Events that arrive out of order never move the stored request backwards   *)
(* in the forge's time, and a merge is final (is_newer under the row lock).  *)
NeverBackwards ==
    [][/\ stored'.at >= stored.at
       /\ stored.state = "merged" => stored'.state = "merged"]_repoVars

(* Once the merge was processed, every issue its text fixes was moved, found *)
(* moved, or refused by the workflow with a note: a late merge event, after  *)
(* an edit of the merged request was stored, still counts.                   *)
MergeIsActedOn ==
    \A e \in MergePosts : inbox[e] = "processed" =>
        \A i \in Target : post[e].text[i] = "fixes" => link[i].handled \/ link[i].refused

(* Every delivery that was accepted leaves that state in the end, although   *)
(* messages get lost and workers die (the sweeper).                          *)
EveryPostIsProcessed ==
    \A e \in 1..MaxPosts : []<>(inbox[e] # "accepted")

=============================================================================
