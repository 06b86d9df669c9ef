# Specivo in TLA+

Specivo is an issue tracker: a FastAPI application over PostgreSQL (async
SQLAlchemy, READ COMMITTED), with Redis for short-lived keys and Celery for
background work. This directory holds models of the parts of it whose
correctness depends on arithmetic over many rows or on the order in which
concurrent requests run, the TLC configurations that check them, and TLAPS
proofs of their safety properties.

## The system and its parts

Every web or API request runs in one transaction. `core/database.py:get_db`
commits it when the handler returns, before the response is sent, and rolls it
back on any exception. Whatever a request did outside PostgreSQL (Redis keys, a
call to an identity provider, tokens put on `request.state`) is not rolled back.
Most of the hard behaviour follows from that, and from the fact that columns read
early in a request are used later, after another request may have committed.

| Part | State | Operations | Interacts through |
|---|---|---|---|
| Issue hierarchy (`services/nested_set_service.py`) | `parent_id, root_id, lft, rgt` per issue | insert root/child, move under a parent or to the root, validate, query | called by issue create/update/delete and by importers |
| Issue requests (`services/issue_service.py`, `api/v1/issues.py`) | issues, `projects.issue_sequence`, `lock_version` | create, update, delete, move between projects | project row lock, advisory tree locks |
| Sessions (`services/auth_service.py`, `session_service.py`) | refresh rows, browser cookies, access tokens | sign in, rotate, revoke one / all / all but one | advisory lock per session, `revoked_session:*` marks in Redis |
| Provider re-check (`services/sso/session_check.py`) | IdP token and check time on the refresh row | plan, guard, ask, apply | `sso_idp_recheck:*` guard in Redis, the provider |
| Silent refresh (`core/security.py`, `core/middleware.py`, `web/deps.py`) | tokens on `request.state` | rotate inside any page request | the page's own transaction |
| Recurring issues (`services/recurring_pattern_service.py`, `services/recurrence/`, `tasks/recurring.py`) | patterns with an optimistic lock, exceptions, generated issues | generate, skip, override, edit, split, delete | Celery, a Redis lock with a timeout |
| Outgoing webhooks (`services/webhook_events.py`, `webhook_delivery.py`, `tasks/webhooks.py`) | webhooks, deliveries with attempts, a cached subscription list | emit, deliver, sweep, purge, edit | the emitting request's transaction, Celery, Redis |
| Repository hooks (`hooks/`, `services/repository_*.py`, `tasks/repositories.py`) | deliveries, pull requests, links to issues and commits | receive, process, automate merges, sweep, redeliver, purge | a forge outside, Celery, issue rows |
| References (`services/issue_service.py`, `project_service.py`) | project keys and sequences, aliases of keys and of issues | create, move, rename, delete, resolve | project and issue row locks, unique indexes |
| Sprints (`services/sprint_service.py`) | status, snapshot, membership of issues | create, start, complete, delete | issue rows edited meanwhile, one partial unique index |
| Versions, bulk update, notifications | membership, messages | bulk edit, fan out | issue rows, Celery |
| SSO sign-in and logout, SCIM, API keys, permissions | identities, keys, roles | sign in, provision, revoke | sessions |
| Search, wiki, attachments, MCP, importers, web pages | documents and indexes | edit, index, render | Celery, files |

`PROJECT.json` lists every part with its source files, including those that are
not modelled, and every hazard found in the code at the line where it bites.

What makes the modelled parts correct:

* hierarchy: the intervals of a tree are nested, the root encloses its tree,
  `parent_id` agrees with the intervals, an operation changes the ancestors of
  exactly the issues it should, and nothing gets deeper than
  `MAX_HIERARCHY_DEPTH`;
* hierarchy requests: that is still so when requests interleave, and no request
  waits forever;
* sessions: a revoked session never comes back, its access tokens are refused for
  as long as they live, a refresh token is exchanged at most once, the browser
  keeps a cookie that works, and every request ends;
* recurring issues: nothing is generated from a rule that no longer holds, a flexible
  series never has two open instances, and what is due is generated in the end;
* webhooks: what was committed is delivered or given up, an attempt is made by one
  worker and counted, and private content stays with those who ask for it;
* repository hooks: the stored pull request never goes back, a merge is acted on once
  and only as its own text says, and no delivery stays unprocessed;
* references: a reference never leads to another issue than it did;
* sprints: one is active at a time, and a snapshot counts what left the sprint.

## Modules

| Module | What it is |
|---|---|
| `IssueForest` | abstract specification of the hierarchy: each issue has a set of ancestors |
| `NestedSet` | `nested_set_service.py` driven by create/update/delete, one request at a time |
| `IssueTreeTx` | extends `NestedSet`: the same requests as interleaved transactions |
| `Sessions` | rotation, revocation, provider re-check, silent refresh |
| `Recurrence` | the occurrence engine, as operators over days |
| `Recurring` | extends `Recurrence`: patterns, the generator's runs, people's requests |
| `Webhooks` | outgoing webhooks, from the emitting request to the settled delivery |
| `RepositoryHooks` | incoming events about a pull request and a commit |
| `IssueRefs` | issue numbers, moves, renames and retired references |
| `Sprints` | the sprints of a project and their issues |
| `MCNestedSet`, `MCIssueTreeTx`, `MCSessions`, `MCIssueRefs` | instances for TLC: symmetry sets, start tables, first keys |
| `MCTreeRequests`, `MCSessionEnds` | two scenes of `IssueTreeTx` and of `Sessions` in one run each |
| `MCServices` | `Recurrence` to `Sprints` in one run, one of them per behaviour |
| `NestedSetProofs`, `SessionsProofs`, `WebhooksProofs`, `RepositoryHooksProofs`, `IssueRefsProofs`, `SprintsProofs` | TLAPS proofs about the module each is named after |
| `RecurringProofs` | TLAPS proofs about `Recurring`, `Recurrence` and the engine's calls in `MCServices` |
| `TreeRequestsProofs` | TLAPS proofs about creations and deletions in `IssueTreeTx` and `MCTreeRequests` |

### NestedSet

`table` maps each live issue to its four hierarchy columns. Each UPDATE statement
of the service is an operator from tables to tables (`OpenGap`, `CloseGap`,
`Relocate`, `WithParent`), and `InsertRoot`, `InsertChild`, `MoveToRoot`,
`MoveUnder` compose them in the order the code executes them. `MoveUnder` computes
the relocation from the bounds as they are after the gap is opened, because the
code refreshes the issue there. `MoveToRoot` closes the gap first and relocates
second, as the code does. `DeleteRow` is `DELETE` with the two foreign keys:
`parent_id` is set to NULL, `root_id` cascades. `CheckParentOfNew` and
`ValidateParent` are the validations, with `SubtreeHeight` the stack walk of
`_subtree_height`.

`Spec` is everything the code does. `NoDragSpec` restricts one request: a parent is
cleared only where no following interval fits the gap it leaves
(`NothingFitsTheGap`). Outside that case the code moves rows it should not (run
`detach_drags`), so the invariants are stated for `NoDragSpec`, and the restriction
is exactly the condition under which the code's statement order is harmless.

Not modelled: `recalculate_parent_attributes`, which writes derived dates, ratios
and hours of the parent and never the hierarchy columns.

### IssueTreeTx

A request slot moves through `idle`, `loaded` (the issue is read, or the project
sequence incremented), `checked` (parent read and accepted, locks to take listed),
and `done`. `LockTree` takes the next advisory lock. `Apply` performs all UPDATEs
with the columns the request read earlier, checks the flush against
`lock_version`, the foreign keys, commits and releases the locks. `RefuseParent`,
`RefuseWrite` and `AbortDeadlock` are the ways a request is rolled back.
`DeleteIssue` takes no lock, as in the code. The UPDATEs of a request and its
commit are one step: row locks taken by the UPDATEs among themselves are left out,
so the model has fewer interleavings than PostgreSQL, and the corruption it shows
does not need the ones it leaves out.

`CreateSpec` (creations and deletions), `MoveSpec` (creations and moves under a
parent) and `TxSpec` (everything, with fairness) select the requests.

### Sessions

A session is one login; its refresh row has a fresh id at every rotation. Row
changes appear at commit; until then the session's advisory lock (`lock`) shows who
has claimed the row, and `gone` in a revocation the rows its DELETE has removed.
Time passes with `Tick`, which ages access tokens, marks and guards.

A renewal goes `planned` (only when the provider must be asked) -> `asking` ->
`ready` -> `rotated` or `refused` -> `idle`. `AskIdp` runs without any lock; the
provider may rotate the token, refuse it, or be unreachable before or after
accepting it; a token that cannot be decrypted is not sent. `Rotate` is `_rotate`:
lock, claim the row, then one of `RotateRefuses`, `RotateEnds` (which commits),
`RotateIssues`. `CommitRenewal`, `FailRenewal` and `EndRefused` are the ways the
request's transaction can end, including the cookies `TokenRefreshMiddleware`
sends with a response whose transaction was rolled back. `Interrupt` is a process
that dies, or a client that goes away, before the session is locked.

The requests that revoke (`EndBrowserSession`, `RevokeSession`, `LogoutAll`,
`LogoutOtherSessions`, `RevokeByIdentity`) differ in the sessions they select; all then
run `_revoke_where`. All sessions of an instance belong to one user. One transaction
revokes once: the loop over identities of a provider change is not modelled.

A revocation goes `locking` -> `deleting` -> `marked`/`unmarked` -> `idle`:
the first SELECT, the sorted locks, the DELETE with its own snapshot
(`targets`), the Redis marks, and commit or rollback. `found`, `extra` and `spare`
are the sessions found, named by id, and left with their access tokens.

`revoked`, `cutOff` and `replayed` are history variables.

The guard may expire at any `Tick`, also while the provider is asked; the code
makes its lifetime longer than the longest check, so this allows more than the code.

### Recurrence and Recurring

A day is an integer and a rule repeats every `interval` days. `ExpandOccurrences`
keeps the control of `expand_occurrences`: the scan that stops `CutOff` days past the
window unless COUNT stops it, and after `MaxCandidates` dates in any case, EXDATEs that do
not use up COUNT, the working-day policies, occurrences that fall together. `Series` is what
the rule means without a window, the reference it is checked against. `CutOff` stands for 14
days, `MaxCandidates` for `_MAX_CANDIDATES` and `WalkLimit` for 365. The calendar is free, as
`holiday_calendar` is: `RecurrenceAssumption` only leaves out a shutdown of more than
`WalkLimit` days, in which `_walk` raises. A longer shutdown than the scan's cut-off is
therefore in the model, and `LosesDates` says when the scan ends too early because of one.

A worker's run goes `list` (read a page of enabled patterns, by id, at an offset), `read`
(materialize decides what is missing; `latest` is the instance it took for the latest)
and `write` (flush and commit of one pattern), until the pages are through; the next run starts from the first page. Each pattern has
its own commit; the rows of the page stay as they were loaded (`expire_on_commit=False`,
`tasks/_async.py:48`). `stale` records that the row
changed after the run loaded it: the optimistic lock then fails the flush and the run
ends (`AbortRun`), as the rollback of the savepoint it is in is skipped once the flush
has failed. `LockOutlived` lets a run lose its lock and go on; `LockExpires` frees the
lock of a run that is gone. The requests of people (`CreatePattern`, `UpdatePattern`,
`SplitFrom`, `DeletePattern`, `SkipOccurrence`, `OverrideOccurrence`, `UpdateInstance`,
`DeleteInstance`) commit in one step. `at` is a history variable: the day an instance was
closed. `exc` may hold an override whose payload the database refuses ("bad"), which makes
the flush fail; `HeldUp` names the patterns that wait behind one.

### Webhooks

An emitting request reads the subscription list (from Redis or from the table), may
store it in Redis, writes a pending delivery per interested webhook, and commits;
`after_commit` then queues a message for each delivery (`Dispatch`, which a broken broker may
lose). A worker takes a message only if the row is free, pending and at the attempt the
message names; it sends, and commits the attempt. `CrashSender` kills it at either point.
The sweeper leases overdue rows and queues them again. The administrator's edit drops
the cached list before and after its commit. `sends` and `offFor` are history variables.

### RepositoryHooks

The forge has one pull request, with a state, a text per issue and a time that may stand
still between two events, and one commit that is pushed. `Receive` records a delivery, in any
order; `Take`, `LockIssues`, `Upsert`, `Automate`, `InsertLinks` and `RunCommands` are the
task, with the rows it holds until its commit: issues first, then the pull request, and
for a commit its links. `TasksDeadlocked` is PostgreSQL's detector. `FailDelivery` and
`KillWorker` are the two ways a task ends early, one recorded and one not. The sweeper, a
redelivery by an administrator, the purge, people who reopen an issue, change the
workflow or switch the integration off complete it. `moves`, `notes` and `commands` are history
variables. A forge that gives no times at all behaves like one whose events all fall in one
second (`is_newer` takes both alike); a mixture of events with and without a time is
left out. So are the key-share locks that new rows of `issue_commit_links` take on their
issues, and the deadlock of two pushes of different commits on one issue with them.

### IssueRefs

Creations take a number under the project's row lock and insert with it; a move loads the
issue, takes a number of the target project, and writes the alias of the reference it
gives up; a rename writes the key alias and re-keys the issues in one step that waits for the
rows others hold. `Resolve` is the lookup of a reference, the current one first, then the
aliases of the issue and of the key. `named` and `left` remember the references that were given
out and those a move's note quotes. `ReusedKeys` says which keys people give to a project
though another one had them before: none in `services`, any in `refs_takeover`.

### Sprints

Every request loads the sprint, decides on what it loaded and writes later; nothing is
locked. `MayStart` is the partial unique index. `moved` remembers the unfinished issues a
completion took out of a sprint.

## Runs

| Run | Expectation | What it shows |
|---|---|---|
| `nested_set` | pass | 5 issues, depth limit 4: `TypeOK`, `Laminar`, `RootEncloses`, `ParentIsNearest`, and `NestedSet` implements `IssueForest` |
| `detach_drags` | violation | clearing a parent drags a following sibling along |
| `delete_orphans` | violation | deleting a root deletes its children |
| `tree_requests` | pass | scene "creates": concurrent creations in one project and unlocked deletions keep the tree and the depth limit; scene "all": every request ends, deadlocks included |
| `tree_locks` | violation | a move under its locks, with columns read before them, corrupts the tree |
| `session_race` | pass | revoked sessions stay revoked, their tokens are refused, a token is exchanged once |
| `session_ends` | pass | scene "revocations": requests that lock several sessions never wait for each other for ever; scene "renewals": renewals and revocations of one session all end |
| `session_cookie` | violation | a rolled-back rotation still reaches the browser |
| `session_replay` | violation | a rolled-back renewal presents a replaced provider token again |
| `services` | pass | recurring issues, webhooks, references, repository hooks, sprints and the engine; 22 properties, below |
| `refs_takeover` | violation | a new project takes over a retired key, and the old references with it |
| `sprint_snapshot` | violation | of two overlapping completions the second loses the issues the first moved |

The seven violations are described, with the sentence of the repository each
contradicts, under `findings` in `PROJECT.json`, and so is one claim that `services` can only
check with an exception.

`services` composes six models that share no variable. A behaviour chooses one at the start
(`focus`), the others stay in one initial state, and fairness is asked of the chosen one
only; so the state spaces add up. With focus "engine" a behaviour is one call of
`expand_occurrences`. Some models also choose a budget (`recBudget`, `hookBudget`,
`repoBudget`): which patterns, events or rights there are and how many requests and faults
may happen. Each budget is a scenario of its own, which keeps rare events together
that matter together, where one large bound for all of them would not finish. What is
checked:

* recurring: `GeneratesFromCurrentRule` (for the rule; a skip that commits between a run's
  read and its commit comes too late), `FlexibleWaitsForClosing`, and, under fairness,
  `HealthyPatternsCatchUp` and `ClosedSeriesGoesOn`, both of which except the patterns that
  are held up behind a bad override;
* engine: `ExpandMeetsReference`: a window yields only days of the series, and all of them
  unless `LosesDates`, which is as narrow as it can be: the run fails without any one of its
  three cases;
* webhooks: `OneSenderPerDelivery`, `SendsAreCounted`, `SettledIsFinal`,
  `PrivateWithinTtl`, and `EveryDeliverySettles`;
* repository hooks: `NeverBackwards`, `MergeIsActedOn`, `OnlyTheMergeTextMoves`, `ActsOnce`,
  and `EveryPostIsProcessed`;
* references: `RefsKeepTheirIssue`, `NoClash`; sprints: `OneActiveSprint`. A reference never
  leads to another issue; the ones that are always found are those a move's note quotes, and
  the number of an issue under every key its project had. Others may not be found (below);
* a type invariant for each of the four larger models.

Progress is stated as `[]<>P`: again and again nothing is left undone.

### Bounds

* `nested_set`: five issues are enough for two siblings with subtrees, a move
  between trees and gaps left by a deletion together; `MaxBound = 12` leaves room
  for two positions beyond five packed issues. `MaxDepth = 4` lets chains reach the
  limit. Issue ids are symmetric.
* `tree_requests`, scene "creates": three requests over a tree of three issues, three
  ids left for them, `MaxDepth = 3` so that the limit is met. One project: the run shows
  that its row lock is what protects the tree. Scene "all", and `tree_locks`: two
  requests and four issues, the least for two opposite moves between two trees and for a
  creation inside a move. A request slot serves one request, so `CHECK_DEADLOCK FALSE`:
  the model stops when all are served.
* `session_race`: one session, two renewals, one revocation, `MaxId = 3` rows (two
  rotations), lifetimes of one tick, so that every key can expire between any two
  steps. The lock order plays no part with one session, and sessions share nothing
  else. Renewals are symmetric.
* `session_ends`: two sessions and two revocations, the least that can deadlock, or two
  renewals and a revocation of one session; lifetimes 0, since access tokens and marks
  delay nobody.
* `services`, recurring: two patterns in pages of one, so that a run crosses a page, two
  workers, two days, one fault and one or two requests of people, overrides with good and with
  bad payloads, a fixed and a flexible rule that count from scheduled days. Webhooks: one webhook (deliveries share nothing else), two events,
  two attempts, two workers, every duration one tick, so that any timer can run out
  between two steps. References: three projects and keys, two issues, two requests at
  once and five in all: a move, a rename, and what comes before and after. Repository hooks:
  one issue, three events, two workers; with two wordings, "fixes" and "none". Sprints: two
  sprints, one issue, two requests at once, five in all. Engine: rules
  on the days 1 to 8, daily or every third day, with and without COUNT, with a weekend on 3 and 4
  and a shutdown on 6, 7 and 8. The scan goes on for two days and looks at four dates, so that
  the weekend is shorter than the scan and the shutdown longer, a window may end before,
  in or beyond the dates looked at, and every policy moves a day into and out of a window.
* `refs_takeover` and `sprint_snapshot` need four and six requests. The models stop when the
  requests of a behaviour are used up, hence `CHECK_DEADLOCK FALSE`.

### Fairness

`IssueTreeTx`: weak fairness of each request's own steps. Handlers run on, and
PostgreSQL's detector aborts a request on a cycle of waits; a lock that another
request of the model holds is released when that request ends, and no slot takes a
second request. `Sessions`: strong fairness of each request's own steps, because new
requests keep arriving and the session lock is free only now and then: PostgreSQL
queues lock waiters in arrival order, so a waiter is not overtaken forever. No
fairness is assumed of users, time, Redis or the provider, nor of `Interrupt` and
`AbortRevocation` (`Accident`): a request is not allowed to end only because it was cut
off.

`Recurring`: weak fairness of each worker's next step, the hourly start of a run
included, and of the expiry of the lock: Celery's beat and Redis do both. A run that lost
its lock goes on like any other. `Webhooks` and `RepositoryHooks`: weak fairness of a request
or worker that has begun, of some worker taking some message, of the sweeper, and in
`Webhooks` of time. Nothing is assumed of people, the forge or the faults, whose number is
bounded in each behaviour: work is only done in the end if the faults stop.

## Proofs

Each proof module states its inductive invariant as a conjunction of named parts, shows
that the initial states satisfy it and that every action preserves it (one lemma per
action or group of actions that touch the same part), and derives the properties from it.
Each invariant was first checked by TLC on an instance as large as would finish. The theorems
hold for every value of the constants that satisfies the module's assumptions: the
assumptions type the constants (a bound is a number, a marker such as NULL is not an
element of the set it is missing from), and where one says more it is named below.

**`NestedSetProofs`** (`NoDragSpec`): `TreeInvariant`, `TypeCorrect`, `IntervalsLaminar`,
`RootsEnclose`, `ParentsNearest`. `TreeInv` is `Laminar /\ Proper /\ RootEncloses /\
ParentIsNearest`. None of the parts is inductive alone: a shift by the width of a gap
keeps intervals nested only if each starts before it ends (`Proper`); a new or moved
interval is placed just before its parent's `rgt`, so it overlaps nobody only if the
others of the tree are disjoint from the parent, inside it or around it (`Laminar`);
detaching a subtree gives it a root of its own, which must enclose it (`RootEncloses`);
and a deletion cascades to a whole tree exactly when its root goes. `OpenGapRows`,
`CloseGapRows` and `RelocateRows` say what each UPDATE does to one row; one lemma per
operation shows it preserves the invariant. `NothingFitsTheGap` is used in
`ClearParentKeepsTree` and nowhere else.

**`TreeRequestsProofs`** (`CreateSpec`, and the scene "creates" of `SceneSpec`):
`CreationsAreSafe`, `CreationsKeepIntervals`, `CreationsKeepDepth`, from the hypothesis
`OneProject`: the creations share a project. The hypothesis is what the code rests on: a
creation reads the parent's `rgt` before it holds the tree's lock, and only the row lock of
the project, taken first, keeps other creations out meanwhile. Creations of two
projects below one root are not serialised by it. The invariant adds to the tree's that a
creation at work holds the project's row, and that the parent it checked is gone or has
the `root_id`, the `rgt` and the room below it that were read (`ParentHolds`): deletions, which take
no lock, move no `rgt` and only shorten the way to the root. `StartTreesAssumption` says
that the start tree of the scene exists.

**`SessionsProofs`** (`Spec`): `SessionInvariant`, `SessionsTypeCorrect`,
`RevokedNeverReturns` (`RevokedStaysRevoked`), `MarksOutliveTokens`
(`RevokedTokensRefused`), `TokensExchangedOnce`. The renewals are finitely many, which
bounds the row ids still to be given out (`IdsGivenOut`). `ClaimsHold`: a renewal that
claimed its row holds the session's lock and the row is still the one it presented.
`RevocationsHold`: a revocation holds the locks it no longer waits for, and from the
DELETE's snapshot on each session it set out to revoke has no row or the one the DELETE takes,
so no rotation can slip between the snapshot and the commit; the marks it wrote outlive
the tokens it cuts off. `RevokedForGood`: a revoked session has no row.

**`RecurringProofs`** (`RecSpec`): `RecInvariant`, `RecurringTypeCorrect`,
`RunsFollowTheCurrentRule` (`GeneratesFromCurrentRule`), `FlexibleSeriesWaits`
(`FlexibleWaitsForClosing`). `PagesHold` and `PlansHold` say what the optimistic lock is
for: as long as a run's `stale` does not name a pattern, the pattern it loaded is still enabled, what it
plans is within the series of the current rule, and the latest instance it read is closed
and still the latest, or deleted. A run that is stale may hold anything, and its flush fails. About the
engine, for every rule, calendar, window and list of skipped dates:
`ExpansionIsTheSeries` (the windowed scan returns days of the series within the window only, and
all of them unless `LosesDates`) and `OccurrencesOnWorkingDays`; `CallsMeetTheSeries` is the
instance the run checks. Shutdowns of any length that `_walk` can leave are covered: by
`RecurrenceAssumption` there is a working day within `WalkLimit` days of a non-working one in
both directions. The argument is `ScanReachesTheWindow`: a date moves back only over days that
are all non-working, so one that the scan does not reach and that still lands in the window
has a shutdown from the window's end up to it. The series itself is a recursion-free
definition, so no induction over dates is needed.

**`WebhooksProofs`** (`HookSpec`): `HookInvariant`, `WebhooksTypeCorrect`, `OneSender`,
`SendsCounted`, `SettledStaysSettled`, `PrivateStaysWithinTtl`. `SendersHold`: a worker's
row is pending and its own. `EventsFresh`: the rows an emitting request has not committed belong to
it alone and were never sent. `Counted`: one worker at most is between the request and the
saved attempt. `PrivateBound` follows a list that still includes a webhook through the cache,
the request that read it and the rows it writes: the time since the edit and the life left
to the list never add up to more than the time to live.

**`RepositoryHooksProofs`** (`RepoSpec`): `RepoInvariant`, `RepositoryHooksTypeCorrect`,
`OnlyTheMergeMoves`, `ActsOnlyOnce`, `MergeActedOn`, `RequestNeverBackwards`.
`PostsOrdered` is the forge's side: times never fall and nothing leads away from a merge. A
worker between the upsert and its commit is alone with the request's row, and what it
computed still follows what is stored (`Follows`); what was done for an issue is on record
in the link that the next delivery reads (`OnRecord`), which is why a redelivery
after the purge does nothing twice.

**`IssueRefsProofs`** (`RefSpec`): `IssueRefsTypeCorrect` however people choose keys;
`RefInvariant`, `IndexesNeverRefuse` (`NoClash`) and `ReferencesKeepTheirIssue` from the
hypothesis `ReusedKeys = {}`: nobody gives a project a key that another one had. Without it
they are false, as run `refs_takeover` shows. The projects that exist at the start have
different keys. A key leads to one project, counting retired keys and the one a rename in
flight is about to write (`KeysOwned`); a number leads to one issue under all keys of its project
(`NumbersOnce`), which is what makes the lookup across retired keys unique; and what a
request read under a row lock is still so when it commits (`ReadsHold`).

**`SprintsProofs`** (`SprintSpec`): `OneSprintActive`, from the partial unique index alone,
since every start and completion decides on rows that may be old.

What the proofs changed in the model: the working-day adjustment was a CASE with
overlapping guards, which TLA+ leaves open, and is now decided in the order of the code;
and `FlexibleWaitsForClosing` left out the deletion described in the next section, which is
outside the bounds of `services`.

Only model-checked: `ImplementsForest`, since the depth limit rests on a fold over a sorted
sequence (`SubtreeHeight`), whose value for every input needs induction over data; and
liveness, which is out of the prover's reach: `EveryRequestFinishes`, `EveryRequestEnds`,
`HealthyPatternsCatchUp`, `ClosedSeriesGoesOn`, `EveryDeliverySettles`,
`EveryPostIsProcessed`.

## Seen in the code, without a run

What the models made visible, and no document of the repository contradicts clearly
enough, or only data that the runs leave out would show:

* Recurring: an override that names a user or a priority that does not exist makes the flush
  fail; the savepoint is then no longer active, is not rolled back, and the whole run ends
  there. As the next run starts from the first page again, the patterns after this one
  wait until the override is gone, although `tasks/recurring.py:13-14` says of a failing
  pattern that "it never aborts the run for the remaining patterns". `services` has such
  overrides, and `HealthyPatternsCatchUp` says in its statement who waits behind one
  (`HeldUp`); without that exception TLC finds it violated (a finding in `PROJECT.json`).
* Recurring: when a shutdown of more than 14 days follows a window, a date behind it that
  "previous" or "nearest" moves into the window is not found, although the comment at
  `recurrence/engine.py:375-378` says the scan goes far enough; nor is any date after the first
  100,000 of a rule. `ExpandMeetsReference` names both cases (`LosesDates`).
* Recurring: nothing sets `closed_on` on a generated issue, so a flexible pattern based on
  completion counts from the scheduled day like any other, although
  `recurring_pattern_service.py:489-491` says that it counts from `closed_on`. The code path is
  modelled (`Anchor`); `ClosedSeriesGoesOn` claims nothing about such patterns, and the run's
  rules count from scheduled days. A skip names the day before the
  working-day adjustment; a split leaves what was generated ahead, and the new pattern
  generates it again.
* Recurring: in a pattern switched from fixed to flexible an open instance can be older than
  a closed one. If the closed one is deleted after a run read it as the latest and before the
  run commits, a new instance appears beside the open one: a deletion of an issue does not
  touch the pattern's version. `FlexibleWaitsForClosing` allows this case and no other.
* References: a creation that read the project before a rename commits leaves an issue under
  the old key. A rename back makes the old references of issues moved meanwhile
  unresolvable: create K1-1, rename the project to K3, move the issue away, rename back to K1,
  and K1-1 is not found, although `docs/guide/en/projects/index.md:33` says "Old references keep
  working". `RefsKeepTheirIssue` therefore claims only what is named above. The key of a deleted project can be used again.
* Sprints: a start decided on an old row revives a completed sprint; a deletion decided
  on an old row removes an active one; `move_to_sprint_id` is not validated; an issue finished
  or reassigned after the completion read it is moved all the same.
* Bulk update: `bulk_service.py:138` catches an exception per issue without a savepoint; a
  failed flush there leaves the shared transaction unusable. It is not modelled, as the outcome
  rests on the internals of SQLAlchemy's unit of work.
* Workflow: the cached transitions are dropped before the commit, so a reader in between can
  store the old ones again.

## Plan

Done: the modules above, and proofs of every safety property the passing runs check except
`ImplementsForest`. Next proofs: the refinement of `IssueForest` operation by operation
(what `GetAncestors` of each issue is after an insertion, a move and a deletion; the depth
limit of a move stays with TLC, as it needs `SubtreeHeight`), and that a `NoDragSpec` move
changes the ancestors of one subtree only. Next modules: wiki links (asynchronous
extraction after an edit) and password lockout.

## Not modelled, and why

Text processing (markdown, search ranking, chunking), rendering, configuration and
command-line tools have no state to interleave. Permission and scope decisions are pure
functions of one request. SCIM and most CRUD services change rows of one table in one
transaction. The rest of the list is in `PROJECT.json` under `components`, each with its
reason.

The map covers a small share of the code base, and would with any faithful model. Of some
93,000 lines the larger part is request and response schemas, table declarations,
migrations, API and page handlers that check a permission and call one service, the MCP
tools that describe the same calls again, importers of other trackers' formats, parsers of
three forges' payloads, search SQL, and text. Behaviour over several steps or several
actors is in the services listed above, and there the models stand for the functions that
carry it; validation, formatting and error wording beside it are left to the
repository's tests.
