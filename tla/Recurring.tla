------------------------------ MODULE Recurring ------------------------------
(***************************************************************************)
(* Recurring issues: the hourly generator (tasks/recurring.py) walking the *)
(* enabled patterns page by page under a Redis lock that may expire, and   *)
(* RecurringPatternService.materialize creating the issues that are due,   *)
(* while people close instances, skip and override occurrences, edit,      *)
(* split and delete patterns.                                              *)
(*                                                                         *)
(* A request commits in one step.  A run reads a page of patterns, reads   *)
(* what one pattern needs, and writes and commits it, in separate steps.   *)
(* RecurringPattern has an optimistic lock (version_id_col) and every run  *)
(* updates last_run_at: a row that changed since a run loaded it makes the *)
(* run's flush fail.  `stale` records exactly that, in place of a counter. *)
(***************************************************************************)
EXTENDS Recurrence

CONSTANTS Pattern,        \* pattern ids, in the order they are given out
          Worker,         \* Celery workers that may run the generator
          NoWorker,
          Lead,           \* creation_lead_time_days
          BatchSize,      \* recurring_tasks_batch_size
          OverrideKinds,  \* "override", and "bad": a payload naming a user or a
                          \* priority that does not exist
          Rules,          \* the rules patterns start with or are edited to
          MaxDay,         \* bound: the last day the clock reaches
          RecBudgets      \* what a behaviour may choose from: the patterns it starts
                          \* with, and bounds on how many requests people make and
                          \* how many workers crash, patterns fail and runs outlive
                          \* their lock

ASSUME RecurringAssumption ==
    /\ Pattern \subseteq Nat
    /\ NoWorker \notin Worker
    /\ Lead \in Nat /\ BatchSize \in Nat \ {0}
    /\ OverrideKinds \subseteq {"override", "bad"}
    /\ Rules \subseteq [mode : {"fixed", "flexible"}, base : {"scheduled", "completion"},
                        interval : Nat \ {0}, adjust : {"none", "next", "previous", "nearest"}]
    /\ MaxDay \in Nat \ {0}
    /\ RecBudgets \subseteq [first : SUBSET Pattern, ops : Nat, faults : Nat]

VARIABLES
    today,     \* the clock
    pattern,   \* recurring_patterns
    instance,  \* issues by (recurring_pattern_id, original_occurrence_at)
    exc,       \* recurrence_exceptions: kind by (pattern, occurrence)
    lock,      \* specivo:generate_recurring_tasks in Redis
    run,       \* what each worker is doing
    recBudget, \* the bounds of this behaviour
    ops, faults

recVars == <<today, pattern, instance, exc, lock, run, recBudget, ops, faults>>

Day == 1..(MaxDay + Lead)
LastDay == MaxDay + Lead + CutOff

\* at: history, the day the issue was last closed (0: never).  closed_on is
\* the column; no operation of the program sets it on a generated issue.
NoIssueYet == [st |-> "none", closed_on |-> 0, at |-> 0]
Fresh == [st |-> "open", closed_on |-> 0, at |-> 0]

NoPattern == [st |-> "unused"]
Deleted == [st |-> "deleted"]
NoExceptions == [o \in Day |-> "none"]
Idle == [pc |-> "idle"]

Live(p) == pattern[p].st = "live"
Enabled(p) == Live(p) /\ pattern[p].enabled

NewPattern(rule, start) ==
    [st |-> "live", enabled |-> TRUE, mode |-> rule.mode, base |-> rule.base,
     spec |-> [dtstart |-> start, interval |-> rule.interval, until |-> LastDay,
               count |-> 0, adjust |-> rule.adjust]]

RecInit ==
    /\ recBudget \in RecBudgets
    /\ ops = 0 /\ faults = 0
    /\ today = 1
    /\ \E rule \in [recBudget.first -> Rules] :
          pattern = [p \in Pattern |->
              IF p \in recBudget.first THEN NewPattern(rule[p], 1) ELSE NoPattern]
    /\ instance = [p \in Pattern |-> [o \in Day |-> NoIssueYet]]
    /\ exc = [p \in Pattern |-> NoExceptions]
    /\ lock = NoWorker
    /\ run = [w \in Worker |-> Idle]

-----------------------------------------------------------------------------
(* What materialize decides for one pattern.                                 *)

Existing(p) == {o \in Day : instance[p][o].st # "none"}

\* _latest_instance: the one scheduled last.
Latest(p) == Max(Existing(p))

Skips(seen) == {o \in Day : seen[o] = "skip"}

MaterializeFixed(p, day, seen) ==
    ExpandOccurrences(pattern[p].spec, pattern[p].spec.dtstart, day + Lead,
                      Skips(seen), LastDay) \ Existing(p)

\* The instance a flexible pattern measures from: completion needs closed_on.
Anchor(p) ==
    LET latest == instance[p][Latest(p)]
    IN  IF pattern[p].base = "completion" /\ latest.closed_on # 0
          THEN latest.closed_on
          ELSE Latest(p)

\* A bug: an open latest instance does not hold the series back.
MaterializeFlexibleAlways(p, day, seen) ==
    LET from(lo) == ExpandOccurrences(pattern[p].spec, lo, day + Lead,
                                      Skips(seen), LastDay)
        first(S) == IF S = {} THEN {} ELSE {Min(S)}
    IN  IF Existing(p) = {}
          THEN first(from(pattern[p].spec.dtstart))
          ELSE first({o \in from(Anchor(p)) : o > Anchor(p)}) \ Existing(p)

\* A bug: the next occurrence is looked for from the anchor itself.
MaterializeFlexibleInclusive(p, day, seen) ==
    LET from(lo) == ExpandOccurrences(pattern[p].spec, lo, day + Lead,
                                      Skips(seen), LastDay)
        first(S) == IF S = {} THEN {} ELSE {Min(S)}
    IN  IF Existing(p) = {}
          THEN first(from(pattern[p].spec.dtstart))
        ELSE IF instance[p][Latest(p)].st # "closed"
          THEN {}
          ELSE first(from(Anchor(p))) \ Existing(p)

MaterializeFlexible(p, day, seen) ==
    LET from(lo) == ExpandOccurrences(pattern[p].spec, lo, day + Lead,
                                      Skips(seen), LastDay)
        first(S) == IF S = {} THEN {} ELSE {Min(S)}
    IN  IF Existing(p) = {}
          THEN first(from(pattern[p].spec.dtstart))
        ELSE IF instance[p][Latest(p)].st # "closed"
          THEN {}
          ELSE first({o \in from(Anchor(p)) : o > Anchor(p)}) \ Existing(p)

Materialize(p, day, seen) ==
    IF pattern[p].mode = "fixed" THEN MaterializeFixed(p, day, seen)
                                 ELSE MaterializeFlexible(p, day, seen)

-----------------------------------------------------------------------------
(* One run of the generator.                                                 *)

\* A page of the enabled patterns in the order of their ids.
Page(offset) ==
    LET on == {p \in Pattern : Enabled(p)}
    IN  {p \in on : Cardinality({q \in on : q < p}) \in offset..(offset + BatchSize - 1)}

\* A page is worked through in the same order.
Current(r) == Min(r.batch)
Rest(r) == r.batch \ {Current(r)}

\* The run ends: the lock is released when it is still ours.
EndRun(w) ==
    /\ run' = [run EXCEPT ![w] = Idle]
    /\ lock' = IF lock = w THEN NoWorker ELSE lock

\* Beat, or Celery's retry of a failed run, starts the task.
StartRun(w) ==
    /\ run[w].pc = "idle"
    /\ lock = NoWorker
    /\ lock' = w
    /\ run' = [run EXCEPT ![w] = [pc |-> "list", now |-> today, offset |-> 0]]
    /\ UNCHANGED <<today, pattern, instance, exc, ops, faults>>

\* list_enabled: one page, its exceptions loaded with it.
ListBatch(w) ==
    LET page == Page(run[w].offset)
    IN  /\ run[w].pc = "list"
        /\ IF page = {}
             THEN EndRun(w)
             ELSE /\ run' = [run EXCEPT ![w] =
                        [pc |-> "read", now |-> run[w].now, offset |-> run[w].offset,
                         batch |-> page, full |-> Cardinality(page) = BatchSize,
                         cache |-> [p \in page |-> exc[p]], stale |-> {}]]
                  /\ UNCHANGED lock
        /\ UNCHANGED <<today, pattern, instance, exc, ops, faults>>

\* The pattern row p was written: everyone else who has it loaded is stale.
Touch(r, p, writer) ==
    [w \in Worker |->
        IF w # writer /\ r[w].pc \in {"read", "write"} /\ p \in r[w].batch
          THEN [r[w] EXCEPT !.stale = @ \union {p}] ELSE r[w]]

\* The reads of materialize.  An exception row that was loaded with the page
\* keeps the values it was loaded with.  latest: the day of the instance scheduled
\* last, 0 when there is none.
ReadPattern(w) ==
    LET p    == Current(run[w])
        seen == [o \in Day |-> IF run[w].cache[p][o] # "none"
                                 THEN run[w].cache[p][o] ELSE exc[p][o]]
        plan == IF Live(p) THEN Materialize(p, run[w].now, seen) ELSE {}
    IN  /\ run[w].pc = "read"
        /\ run' = [run EXCEPT ![w] =
              [pc |-> "write", now |-> @.now, offset |-> @.offset, batch |-> @.batch,
               full |-> @.full, cache |-> @.cache, stale |-> @.stale, plan |-> plan,
               latest |-> IF Existing(p) = {} THEN 0 ELSE Latest(p),
               bad |-> \E o \in plan : seen[o] = "bad"]]
        /\ UNCHANGED <<today, pattern, instance, exc, lock, ops, faults>>

\* A bug: every page starts one pattern too late.
AdvanceTooFar(r) ==
    IF Rest(r) # {}
      THEN [pc |-> "read", now |-> r.now, offset |-> r.offset, batch |-> Rest(r),
            full |-> r.full, cache |-> r.cache, stale |-> r.stale]
      ELSE [pc |-> "list", now |-> r.now, offset |-> r.offset + BatchSize + 1]

\* The pattern of the page is dealt with: the next one, or the next page.
Advance(r) ==
    IF Rest(r) # {}
      THEN [pc |-> "read", now |-> r.now, offset |-> r.offset, batch |-> Rest(r),
            full |-> r.full, cache |-> r.cache, stale |-> r.stale]
      ELSE [pc |-> "list", now |-> r.now, offset |-> r.offset + BatchSize]

LastOfRun(r) == Rest(r) = {} /\ ~r.full

NextPattern(w, r) ==
    IF LastOfRun(r[w])
      THEN /\ run' = [r EXCEPT ![w] = Idle]
           /\ lock' = IF lock = w THEN NoWorker ELSE lock
      ELSE /\ run' = [r EXCEPT ![w] = Advance(@)]
           /\ UNCHANGED lock

\* A bug: RecurringPattern without version_id_col.
FlushFailsUnversioned(w) ==
    LET p == Current(run[w])
    IN  ~Live(p) \/ run[w].bad \/ \E o \in run[w].plan : instance[p][o].st # "none"

\* What makes the flush of a materialisation fail: the unique index
\* uq_issue_occurrence, the optimistic lock or a foreign key.
FlushFails(w) ==
    LET p == Current(run[w])
    IN  \/ ~Live(p)
        \/ p \in run[w].stale
        \/ run[w].bad
        \/ \E o \in run[w].plan : instance[p][o].st # "none"

\* The issues are inserted, the pattern is updated, the run commits.
WritePattern(w) ==
    LET p == Current(run[w])
    IN  /\ run[w].pc = "write"
        /\ ~FlushFails(w)
        /\ instance' = [instance EXCEPT ![p] = [o \in Day |->
                           IF o \in run[w].plan THEN Fresh ELSE @[o]]]
        /\ NextPattern(w, Touch(run, p, w))
        /\ UNCHANGED <<today, pattern, exc, ops, faults>>

\* A failed flush deactivates the savepoint: is_active is false, so the handler
\* does not roll it back, and the session refuses the next statement.  The run
\* ends with an exception.
AbortRun(w) ==
    /\ run[w].pc = "write"
    /\ FlushFails(w)
    /\ EndRun(w)
    /\ UNCHANGED <<today, pattern, instance, exc, ops, faults>>

\* Any other exception: the savepoint is rolled back and the run goes on.
MaterializeFails(w) ==
    /\ run[w].pc = "write"
    /\ faults < recBudget.faults
    /\ faults' = faults + 1
    /\ NextPattern(w, run)
    /\ UNCHANGED <<today, pattern, instance, exc, ops>>

\* The worker dies; nobody releases the lock.
CrashRun(w) ==
    /\ run[w].pc # "idle"
    /\ faults < recBudget.faults
    /\ faults' = faults + 1
    /\ run' = [run EXCEPT ![w] = Idle]
    /\ UNCHANGED <<today, pattern, instance, exc, lock, ops>>

\* _LOCK_TIMEOUT passed since the holder died.
LockExpires ==
    /\ lock # NoWorker /\ run[lock].pc = "idle"
    /\ lock' = NoWorker
    /\ UNCHANGED <<today, pattern, instance, exc, run, ops, faults>>

\* _LOCK_TIMEOUT passed while the holder is still at work: runs can overlap.
LockOutlived ==
    /\ lock # NoWorker /\ run[lock].pc # "idle"
    /\ faults < recBudget.faults
    /\ faults' = faults + 1
    /\ lock' = NoWorker
    /\ UNCHANGED <<today, pattern, instance, exc, run, ops>>

-----------------------------------------------------------------------------
(* What people do.                                                           *)

Request == ops < recBudget.ops /\ ops' = ops + 1

CreatePattern(p, rule) ==
    /\ Request
    /\ pattern[p] = NoPattern
    /\ pattern' = [pattern EXCEPT ![p] = NewPattern(rule, today)]
    /\ UNCHANGED <<today, instance, exc, lock, run, faults>>

\* update: switch the pattern off or on, or give it another rule.
UpdatePattern(p) ==
    /\ Request
    /\ Live(p)
    /\ \E new \in {[pattern[p] EXCEPT !.enabled = ~@]} \union
                  {[NewPattern(rule, pattern[p].spec.dtstart) EXCEPT
                       !.enabled = pattern[p].enabled] : rule \in Rules} :
          pattern' = [pattern EXCEPT ![p] = new]
    /\ run' = Touch(run, p, NoWorker)
    /\ UNCHANGED <<today, instance, exc, lock, faults>>

\* delete: instances survive unlinked, exceptions go with the pattern.
DeletePattern(p) ==
    /\ Request
    /\ Live(p)
    /\ pattern' = [pattern EXCEPT ![p] = Deleted]
    /\ instance' = [instance EXCEPT ![p] = [o \in Day |-> NoIssueYet]]
    /\ exc' = [exc EXCEPT ![p] = NoExceptions]
    /\ UNCHANGED <<today, lock, run, faults>>

\* split_from: the series ends just before o, a new one starts on o.
SplitFrom(p, o, new, rule) ==
    /\ Request
    /\ Live(p) /\ pattern[new] = NoPattern
    /\ pattern' = [pattern EXCEPT ![p].spec.until = o - 1, ![p].spec.count = 0,
                                  ![new] = NewPattern(rule, o)]
    /\ run' = Touch(run, p, NoWorker)
    /\ UNCHANGED <<today, instance, exc, lock, faults>>

\* A bug: a kind recurrence_exceptions does not know.
SkipOccurrenceMistyped(p, o) ==
    /\ Request
    /\ Live(p)
    /\ exc' = [exc EXCEPT ![p][o] = "skipped"]
    /\ UNCHANGED <<today, pattern, instance, lock, run, faults>>

\* skip_occurrence: an untouched instance is deleted.
SkipOccurrence(p, o) ==
    /\ Request
    /\ Live(p)
    /\ exc' = [exc EXCEPT ![p][o] = "skip"]
    /\ instance' = [instance EXCEPT ![p][o] = IF @.st = "open" THEN NoIssueYet ELSE @]
    /\ UNCHANGED <<today, pattern, lock, run, faults>>

\* override_occurrence: an instance that exists is updated at once, so a bad
\* payload fails the request.
OverrideOccurrence(p, o, kind) ==
    /\ Request
    /\ Live(p)
    /\ kind = "bad" => instance[p][o].st = "none"
    /\ exc' = [exc EXCEPT ![p][o] = kind]
    /\ UNCHANGED <<today, pattern, instance, lock, run, faults>>

\* IssueService.update on an instance: progress, closing, reopening.
UpdateInstance(p, o) ==
    /\ Request
    /\ instance[p][o].st # "none"
    /\ \E st \in {"touched", "closed"} \ {instance[p][o].st} :
          instance' = [instance EXCEPT ![p][o] =
              [st |-> st, closed_on |-> @.closed_on,
               at |-> IF st = "closed" THEN today ELSE @.at]]
    /\ UNCHANGED <<today, pattern, exc, lock, run, faults>>

DeleteInstance(p, o) ==
    /\ Request
    /\ instance[p][o].st # "none"
    /\ instance' = [instance EXCEPT ![p][o] = NoIssueYet]
    /\ UNCHANGED <<today, pattern, exc, lock, run, faults>>

NextDay ==
    /\ today < MaxDay
    /\ today' = today + 1
    /\ UNCHANGED <<pattern, instance, exc, lock, run, ops, faults>>

RunStep(w) == StartRun(w) \/ ListBatch(w) \/ ReadPattern(w) \/ WritePattern(w)
              \/ AbortRun(w)

RecAction ==
    \/ \E w \in Worker : RunStep(w) \/ MaterializeFails(w) \/ CrashRun(w)
    \/ LockExpires \/ LockOutlived
    \/ NextDay
    \/ \E p \in Pattern :
          \/ UpdatePattern(p) \/ DeletePattern(p)
          \/ \E rule \in Rules : CreatePattern(p, rule)
          \/ \E o \in Day :
                \/ SkipOccurrence(p, o) \/ UpdateInstance(p, o) \/ DeleteInstance(p, o)
                \/ \E kind \in OverrideKinds : OverrideOccurrence(p, o, kind)
                \/ \E new \in Pattern, rule \in Rules : SplitFrom(p, o, new, rule)

RecNext == RecAction /\ UNCHANGED recBudget

(* Beat fires every hour and workers go on unless they crash; a key with a   *)
(* time to live disappears from Redis.                                       *)
RecFairness ==
    /\ \A w \in Worker : WF_recVars(RunStep(w) /\ UNCHANGED recBudget)
    /\ WF_recVars(LockExpires /\ UNCHANGED recBudget)

RecSpec == RecInit /\ [][RecNext]_recVars /\ RecFairness

-----------------------------------------------------------------------------
Generated(p, o) == instance[p][o].st = "none" /\ instance'[p][o].st # "none"

(* No matter how an edit, a split, a deletion or another run falls between a *)
(* run's reads and its commit, a run only creates issues for a day the       *)
(* pattern's current rule yields, and for an enabled pattern (update, split  *)
(* and delete against the optimistic lock).  Skips are no part of the rule:  *)
(* one that commits in between comes too late, as it does not touch the      *)
(* pattern's version.                                                        *)
GeneratesFromCurrentRule ==
    [][\A p \in Pattern, o \in Day : Generated(p, o) =>
          /\ Enabled(p)
          /\ o \in Series(pattern[p].spec, {}, LastDay)]_recVars

\* The run of w writes p, and the instance it read as the latest is gone.
LatestDeletedMeanwhile(p) ==
    \E w \in Worker :
        /\ run[w].pc = "write" /\ run'[w].pc # "write" /\ Current(run[w]) = p
        /\ run[w].latest # 0 /\ run[w].latest \notin Existing(p)

(* A flexible pattern gets a new instance only when its latest instance has  *)
(* been closed, also when two runs overlap because the lock expired          *)
(* (_materialize_flexible: "Latest instance open -> generate nothing").  One *)
(* race remains, and no other: the closed instance that the run read as the  *)
(* latest is deleted before the run commits, so that an older one, possibly  *)
(* open, is the latest now.                                                  *)
FlexibleWaitsForClosing ==
    [][\A p \in Pattern, o \in Day :
          Generated(p, o) /\ pattern[p].mode = "flexible" /\ Existing(p) # {}
             => instance[p][Latest(p)].at # 0 \/ LatestDeletedMeanwhile(p)]_recVars

\* The days of a fixed pattern that have no issue yet and should.
DueDays(p) ==
    IF Enabled(p) /\ pattern[p].mode = "fixed"
      THEN MaterializeFixed(p, today, exc[p])
      ELSE {}

\* A day the next run would create for p has an override whose payload the
\* database refuses.
BadOverrideDue(p) ==
    /\ Enabled(p)
    /\ \E o \in Day : exc[p][o] = "bad" /\ o \in Materialize(p, today, exc[p])

\* Every run ends at p or before it comes to p: the flush of a pattern with a bad
\* override fails, which ends the run, and the next run begins at the first page.
HeldUp(p) == \E q \in Pattern : q <= p /\ BadOverrideDue(q)

(* Again and again every day that is due of an enabled fixed pattern has got *)
(* its issue or stopped being due, despite crashes, lost locks, overlapping  *)
(* runs, failures outside a flush and edits that shift the pages             *)
(* ("Catch-up aware", "Self-healing": tasks/recurring.py), unless the        *)
(* pattern itself or one with a smaller id keeps an override that the        *)
(* database refuses: this one pattern then stops all those behind it, run    *)
(* after run, although tasks/recurring.py says of a failing pattern that "it *)
(* never aborts the run for the remaining patterns".                         *)
HealthyPatternsCatchUp ==
    []<>(\A p \in Pattern : DueDays(p) # {} => HeldUp(p))

\* p counts from scheduled days, its latest instance is closed and the look-ahead
\* holds a later day.  A pattern with base "completion" is left out: it is to count
\* from closed_on, which nothing sets.
Waiting(p) ==
    /\ Enabled(p) /\ pattern[p].mode = "flexible" /\ pattern[p].base = "scheduled"
    /\ Existing(p) # {} /\ instance[p][Latest(p)].st = "closed"
    /\ ExpandOccurrences(pattern[p].spec, Latest(p) + 1, today + Lead,
                         Skips(exc[p]), LastDay) # {}

(* A flexible series that counts from scheduled days and whose latest        *)
(* instance is closed goes on to the next day of its rule that lies within   *)
(* the look-ahead (_materialize_flexible: "the next scheduled occurrence     *)
(* strictly after the latest instance's original_occurrence_at"), unless it  *)
(* is held up as above.                                                      *)
ClosedSeriesGoesOn == []<>(\A p \in Pattern : Waiting(p) => HeldUp(p))

\* The state has its shape.
RecTypeOK ==
    /\ today \in 1..MaxDay
    /\ \A p \in Pattern, o \in Day :
          /\ instance[p][o].st \in {"none", "open", "touched", "closed"}
          /\ exc[p][o] \in {"none", "skip", "override", "bad"}
    /\ lock \in Worker \union {NoWorker}
    /\ \A w \in Worker : run[w].pc \in {"idle", "list", "read", "write"}
    /\ ops \in 0..recBudget.ops /\ faults \in 0..recBudget.faults

=============================================================================
