------------------------------ MODULE Webhooks ------------------------------
(***************************************************************************)
(* Outgoing webhooks: a change writes pending deliveries in its own        *)
(* transaction (webhook_events.emit), after_commit queues a Celery task    *)
(* for each, deliver makes one attempt under the row's lock, and a sweeper *)
(* queues again what is overdue.  The broker loses and repeats messages,   *)
(* workers die, administrators edit and delete webhooks, and the list of   *)
(* subscriptions is cached in Redis.                                       *)
(*                                                                         *)
(* A tick is the unit of the cache's time to live, of the lease and of the *)
(* backoff; a request takes less than a tick.                              *)
(***************************************************************************)
EXTENDS Integers, FiniteSets

CONSTANTS Hook,         \* the webhooks of one project
          Emitter,      \* slots for requests that change an issue or a page
          Sender,       \* Celery workers
          CacheTtl,     \* WEBHOOK_SUBSCRIPTION_CACHE_SECONDS, in ticks
          Lease,        \* WEBHOOK_LEASE_SECONDS, in ticks
          Backoff,      \* backoff_seconds, in ticks
          MaxAttempts,  \* WEBHOOK_MAX_ATTEMPTS
          MaxEvents,    \* bound: events emitted
          HookBudgets   \* what a behaviour may choose from: the kinds of events
                        \* ("public", "private", "ping"), and bounds on how many are
                        \* emitted, how often webhooks are edited or deleted, and
                        \* how many messages, workers and Redis calls fail

ASSUME WebhooksAssumption ==
    /\ CacheTtl \in Nat \ {0} /\ Lease \in Nat \ {0} /\ Backoff \in Nat \ {0}
    /\ MaxAttempts \in Nat \ {0} /\ MaxEvents \in Nat
    /\ HookBudgets \subseteq
          [events : 0..MaxEvents, edits : Nat, faults : Nat,
           kinds : SUBSET {"public", "private", "ping"}]

VARIABLES
    hook,      \* webhooks: live, is_active, include_private
    cache,     \* webhook_subs:{project}: the list, and how long it lives (0: no key)
    emitter,   \* what each emitting request is doing
    admin,     \* what the administrator's request is doing
    delivery,  \* webhook_deliveries by (event, webhook)
    queue,     \* deliver_webhook messages: delivery and attempts so far
    sender,    \* what each worker is doing
    hookBudget,  \* the bounds of this behaviour
    events, edits, hookFaults,
    sends,     \* history: requests each receiver was sent for a delivery
    offFor     \* history: ticks since include_private was switched off

hookVars == <<hook, cache, emitter, admin, delivery, queue, sender,
              hookBudget, events, edits, hookFaults, sends, offFor>>

Delivery == (1..MaxEvents) \X Hook
HookOf(d) == d[2]

NoDelivery == [status |-> "none", attempts |-> 0, due |-> 0, kind |-> "public"]
NoCache == [list |-> {}, ttl |-> 0]
Settled == {"succeeded", "failed"}

\* The active webhooks as the list holds them: whom, and with private content.
Subscriptions == {<<h, hook[h].private>> : h \in {k \in Hook : hook[k].live /\ hook[k].active}}

\* A bug: include_private is not looked at.
WantsEverything(sub, kind) == kind # "none"

Wants(sub, kind) == kind = "private" => sub[2]

HookInit ==
    /\ \E private \in [Hook -> BOOLEAN] :
          hook = [h \in Hook |-> [live |-> TRUE, active |-> TRUE, private |-> private[h]]]
    /\ cache = NoCache
    /\ emitter = [e \in Emitter |-> [pc |-> "idle"]]
    /\ admin = [pc |-> "idle"]
    /\ delivery = [d \in Delivery |-> NoDelivery]
    /\ queue = {}
    /\ sender = [w \in Sender |-> [pc |-> "idle"]]
    /\ hookBudget \in HookBudgets
    /\ events = 0 /\ edits = 0 /\ hookFaults = 0
    /\ sends = [d \in Delivery |-> 0]
    /\ offFor = [h \in Hook |-> CacheTtl]

Fault == hookFaults < hookBudget.faults /\ hookFaults' = hookFaults + 1

-----------------------------------------------------------------------------
(* emit, in the transaction of the change.                                   *)

\* active_subscriptions: the cached list, or the database's.
ReadSubscriptions(e) ==
    /\ emitter[e].pc = "idle" /\ events < hookBudget.events
    /\ events' = events + 1
    /\ \E kind \in hookBudget.kinds \ {"ping"} :
          emitter' = [emitter EXCEPT ![e] =
              [pc |-> IF cache.ttl > 0 THEN "write" ELSE "cache",
               list |-> IF cache.ttl > 0 THEN cache.list ELSE Subscriptions,
               kind |-> kind, event |-> events + 1]]
    /\ UNCHANGED <<hook, cache, admin, delivery, queue, sender,
                   edits, hookFaults, sends, offFor>>

\* What was read from the database is stored, if Redis answers.
CacheSubscriptions(e) ==
    /\ emitter[e].pc = "cache"
    /\ \/ /\ cache' = [list |-> emitter[e].list, ttl |-> CacheTtl]
          /\ UNCHANGED hookFaults
       \/ Fault /\ UNCHANGED cache
    /\ emitter' = [emitter EXCEPT ![e].pc = "write"]
    /\ UNCHANGED <<hook, admin, delivery, queue, sender, events, edits, sends, offFor>>

Targets(e) == {sub[1] : sub \in {s \in emitter[e].list : Wants(s, emitter[e].kind)}}

\* _write_deliveries: a row per webhook that wants the event.  A webhook the
\* list still names but that is gone fails the insert and the whole request.
WriteDeliveries(e) ==
    /\ emitter[e].pc = "write"
    /\ emitter' = [emitter EXCEPT ![e] =
          IF Targets(e) = {} \/ \E h \in Targets(e) : ~hook[h].live
            THEN [pc |-> "idle"]
            ELSE [pc |-> "commit", kind |-> @.kind,
                  rows |-> {<<@.event, h>> : h \in Targets(e)}]]
    /\ UNCHANGED <<hook, cache, admin, delivery, queue, sender,
                   events, edits, hookFaults, sends, offFor>>

Pending(kind) == [status |-> "pending", attempts |-> 0, due |-> Lease, kind |-> kind]

\* dispatch_deliveries: the broker may refuse a message; nobody is told.
Dispatch(messages) ==
    \/ queue' = queue \union messages /\ UNCHANGED hookFaults
    \/ Fault /\ \E m \in messages : queue' = queue \union (messages \ {m})

\* The transaction commits; after_commit queues its deliveries.
CommitEmit(e) ==
    /\ emitter[e].pc = "commit"
    /\ delivery' = [d \in Delivery |-> IF d \in emitter[e].rows
                                         THEN Pending(emitter[e].kind) ELSE delivery[d]]
    /\ Dispatch({[d |-> d, attempts |-> 0] : d \in emitter[e].rows})
    /\ emitter' = [emitter EXCEPT ![e] = [pc |-> "idle"]]
    /\ UNCHANGED <<hook, cache, admin, sender, events, edits, sends, offFor>>

\* The transaction rolls back, at any point; the rows go with it.
RollbackEmit(e) ==
    /\ emitter[e].pc # "idle"
    /\ Fault
    /\ emitter' = [emitter EXCEPT ![e] = [pc |-> "idle"]]
    /\ UNCHANGED <<hook, cache, admin, delivery, queue, sender,
                   events, edits, sends, offFor>>

\* send_test: a ping to one webhook, active or not.
SendTest(e, h) ==
    /\ "ping" \in hookBudget.kinds
    /\ emitter[e].pc = "idle" /\ events < hookBudget.events
    /\ hook[h].live
    /\ events' = events + 1
    /\ emitter' = [emitter EXCEPT ![e] = [pc |-> "commit", kind |-> "ping",
                                          rows |-> {<<events + 1, h>>}]]
    /\ UNCHANGED <<hook, cache, admin, delivery, queue, sender,
                   edits, hookFaults, sends, offFor>>

-----------------------------------------------------------------------------
(* WebhookService: every change drops the cached list twice.                 *)

DropCache ==
    \/ cache' = NoCache /\ UNCHANGED hookFaults
    \/ Fault /\ UNCHANGED cache

\* An edit or a deletion, not committed yet; the first drop.
BeginEdit(h) ==
    /\ admin.pc = "idle" /\ edits < hookBudget.edits
    /\ hook[h].live
    /\ \E new \in {[hook[h] EXCEPT !.active = ~@], [hook[h] EXCEPT !.private = ~@],
                   [hook[h] EXCEPT !.live = FALSE]} :
          admin' = [pc |-> "commit", hook |-> h, new |-> new]
    /\ edits' = edits + 1
    /\ DropCache
    /\ UNCHANGED <<hook, emitter, delivery, queue, sender, events, sends, offFor>>

\* Rows a transaction inserted for h, or an attempt holds, make a delete wait.
InUse(h) ==
    \/ \E e \in Emitter : emitter[e].pc = "commit" /\ \E d \in emitter[e].rows : HookOf(d) = h
    \/ \E w \in Sender : sender[w].pc # "idle" /\ HookOf(sender[w].d) = h

CommitEdit ==
    LET h == admin.hook
    IN  /\ admin.pc = "commit"
        /\ ~admin.new.live => ~InUse(h)
        /\ hook' = [hook EXCEPT ![h] = admin.new]
        /\ delivery' = [d \in Delivery |->
              IF HookOf(d) = h /\ ~admin.new.live THEN NoDelivery ELSE delivery[d]]
        /\ offFor' = [offFor EXCEPT ![h] =
              IF hook[h].private /\ ~admin.new.private THEN 0 ELSE @]
        /\ admin' = [pc |-> "drop"]
        /\ UNCHANGED <<cache, emitter, queue, sender, events, edits, hookFaults, sends>>

\* _after_commit starts the second drop.
DropAgain ==
    /\ admin.pc = "drop"
    /\ DropCache
    /\ admin' = [pc |-> "idle"]
    /\ UNCHANGED <<hook, emitter, delivery, queue, sender, events, edits, sends, offFor>>

-----------------------------------------------------------------------------
(* deliver, sweep and purge.                                                 *)

Locked(d) == \E w \in Sender : sender[w].pc # "idle" /\ sender[w].d = d

\* A bug: the row is read without FOR UPDATE SKIP LOCKED.
AttemptableUnlocked(m) ==
    /\ delivery[m.d].status = "pending"
    /\ delivery[m.d].attempts = m.attempts

\* A bug: the row's state is not compared with the message.
AttemptableAnyState(m) == ~Locked(m.d) /\ delivery[m.d].status # "none"

\* The row is there, free, pending, and at the attempt the message is for.
Attemptable(m) ==
    /\ ~Locked(m.d)
    /\ delivery[m.d].status = "pending"
    /\ delivery[m.d].attempts = m.attempts

\* A worker takes a message; one the broker repeats stays in the queue.
TakeMessage(w, m) ==
    /\ sender[w].pc = "idle"
    /\ sender' = IF Attemptable(m)
                   THEN [sender EXCEPT ![w] = [pc |-> "post", d |-> m.d]]
                   ELSE sender
    /\ \/ queue' = queue \ {m} /\ UNCHANGED hookFaults
       \/ Fault /\ UNCHANGED queue
    /\ UNCHANGED <<hook, cache, emitter, admin, delivery, events, edits, sends, offFor>>

\* The request to the receiver, unless the webhook is disabled.
SendRequest(w) ==
    LET d == sender[w].d
    IN  /\ sender[w].pc = "post"
        /\ IF ~hook[HookOf(d)].active /\ delivery[d].kind # "ping"
             THEN /\ sender' = [sender EXCEPT ![w] = [pc |-> "save", d |-> d,
                                                      result |-> "refused"]]
                  /\ UNCHANGED sends
             ELSE /\ \E result \in {"ok", "retry", "refused"} :
                        sender' = [sender EXCEPT ![w] = [pc |-> "save", d |-> d,
                                                         result |-> result]]
                  /\ sends' = [sends EXCEPT ![d] = @ + 1]
        /\ UNCHANGED <<hook, cache, emitter, admin, delivery, queue,
                       events, edits, hookFaults, offFor>>

\* A bug: one attempt more than WEBHOOK_MAX_ATTEMPTS.
AfterAttemptOnceMore(row, result) ==
    LET attempts == row.attempts + 1
        to(status, due) == [status |-> status, attempts |-> attempts,
                            due |-> due, kind |-> row.kind]
    IN  CASE result = "ok" -> to("succeeded", 0)
          [] result = "retry" /\ attempts <= MaxAttempts -> to("pending", Backoff)
          [] OTHER -> to("failed", 0)

\* A bug: an attempt that succeeds is not counted.
AfterAttemptUncounted(row, result) ==
    LET attempts == row.attempts + 1
    IN  CASE result = "ok" -> [row EXCEPT !.status = "succeeded", !.due = 0]
          [] result = "retry" /\ attempts < MaxAttempts ->
                [row EXCEPT !.attempts = attempts, !.due = Backoff]
          [] OTHER -> [row EXCEPT !.status = "failed", !.attempts = attempts, !.due = 0]

\* The row after an attempt.
AfterAttempt(row, result) ==
    LET attempts == row.attempts + 1
        to(status, due) == [status |-> status, attempts |-> attempts,
                            due |-> due, kind |-> row.kind]
    IN  CASE result = "ok" -> to("succeeded", 0)
          [] result = "retry" /\ attempts < MaxAttempts -> to("pending", Backoff)
          [] OTHER -> to("failed", 0)

\* The result is committed, then the retry is queued.
SaveAttempt(w) ==
    LET d   == sender[w].d
        row == AfterAttempt(delivery[d], sender[w].result)
    IN  /\ sender[w].pc = "save"
        /\ delivery' = [delivery EXCEPT ![d] = row]
        /\ IF row.status = "pending"
             THEN Dispatch({[d |-> d, attempts |-> row.attempts]})
             ELSE UNCHANGED <<queue, hookFaults>>
        /\ sender' = [sender EXCEPT ![w] = [pc |-> "idle"]]
        /\ UNCHANGED <<hook, cache, emitter, admin, events, edits, sends, offFor>>

\* The worker dies before it committed: nothing of the attempt is recorded.
CrashSender(w) ==
    /\ sender[w].pc # "idle"
    /\ Fault
    /\ sender' = [sender EXCEPT ![w] = [pc |-> "idle"]]
    /\ UNCHANGED <<hook, cache, emitter, admin, delivery, queue,
                   events, edits, sends, offFor>>

LoseMessage(m) ==
    /\ Fault
    /\ queue' = queue \ {m}
    /\ UNCHANGED <<hook, cache, emitter, admin, delivery, sender,
                   events, edits, sends, offFor>>

\* claim_due: what is overdue and not being sent is leased and queued again.
Overdue == {d \in Delivery : delivery[d].status = "pending" /\ delivery[d].due = 0 /\ ~Locked(d)}

\* A bug: overdue deliveries are leased but not queued.
SweepWithoutQueueing ==
    /\ Overdue # {}
    /\ delivery' = [d \in Delivery |->
          IF d \in Overdue THEN [delivery[d] EXCEPT !.due = Lease] ELSE delivery[d]]
    /\ UNCHANGED <<hook, cache, emitter, admin, queue, sender, events, edits, hookFaults,
                   sends, offFor>>

Sweep ==
    /\ Overdue # {}
    /\ delivery' = [d \in Delivery |->
          IF d \in Overdue THEN [delivery[d] EXCEPT !.due = Lease] ELSE delivery[d]]
    /\ Dispatch({[d |-> d, attempts |-> delivery[d].attempts] : d \in Overdue})
    /\ UNCHANGED <<hook, cache, emitter, admin, sender, events, edits, sends, offFor>>

\* purge_old_deliveries: settled rows only.
Purge(d) ==
    /\ delivery[d].status \in Settled /\ ~Locked(d)
    /\ delivery' = [delivery EXCEPT ![d] = NoDelivery]
    /\ UNCHANGED <<hook, cache, emitter, admin, queue, sender,
                   events, edits, hookFaults, sends, offFor>>

Down(n) == IF n = 0 THEN 0 ELSE n - 1

\* Time passes; no request is that slow.
HookTick ==
    /\ \A e \in Emitter : emitter[e].pc = "idle"
    /\ \/ cache.ttl > 0
       \/ \E d \in Delivery : delivery[d].due > 0
       \/ \E h \in Hook : offFor[h] < CacheTtl
    /\ cache' = IF cache.ttl <= 1 THEN NoCache ELSE [cache EXCEPT !.ttl = @ - 1]
    /\ delivery' = [d \in Delivery |-> [delivery[d] EXCEPT !.due = Down(@)]]
    /\ offFor' = [h \in Hook |-> IF offFor[h] < CacheTtl THEN offFor[h] + 1 ELSE CacheTtl]
    /\ UNCHANGED <<hook, emitter, admin, queue, sender, events, edits, hookFaults, sends>>

EmitGoesOn(e) == CacheSubscriptions(e) \/ WriteDeliveries(e) \/ CommitEmit(e)

SenderStep(w) == SendRequest(w) \/ SaveAttempt(w)

HookAction ==
    \/ \E e \in Emitter : ReadSubscriptions(e) \/ EmitGoesOn(e) \/ RollbackEmit(e)
                          \/ \E h \in Hook : SendTest(e, h)
    \/ \E h \in Hook : BeginEdit(h)
    \/ CommitEdit \/ DropAgain
    \/ \E w \in Sender :
          SenderStep(w) \/ CrashSender(w) \/ \E m \in queue : TakeMessage(w, m)
    \/ \E m \in queue : LoseMessage(m)
    \/ Sweep
    \/ \E d \in Delivery : Purge(d)
    \/ HookTick

HookNext == HookAction /\ UNCHANGED hookBudget

(* Workers and requests go on, beat runs the sweeper, time passes.           *)
HookFairness ==
    /\ \A e \in Emitter : WF_hookVars(EmitGoesOn(e) /\ UNCHANGED hookBudget)
    /\ \A w \in Sender : WF_hookVars(SenderStep(w) /\ UNCHANGED hookBudget)
    /\ WF_hookVars((\E w \in Sender, m \in queue : TakeMessage(w, m))
                      /\ UNCHANGED hookBudget)
    /\ WF_hookVars(Sweep /\ UNCHANGED hookBudget)
    /\ WF_hookVars(HookTick /\ UNCHANGED hookBudget)

HookSpec == HookInit /\ [][HookNext]_hookVars /\ HookFairness

-----------------------------------------------------------------------------
\* The state has its shape.
HookTypeOK ==
    /\ cache.ttl \in 0..CacheTtl
    /\ \A d \in Delivery : delivery[d].attempts \in 0..MaxAttempts
    /\ \A m \in queue : m.d \in Delivery /\ m.attempts \in 0..MaxAttempts
    /\ \A w \in Sender : sender[w].pc \in {"idle", "post", "save"}

(* A receiver is sent no more requests for a delivery than the row counts,   *)
(* plus those a crash kept from being recorded and the one under way: neither *)
(* a repeated message nor a sweep that overtakes a queued task sends one     *)
(* twice ("one attempt is sent at a time").                                  *)
SendsAreCounted ==
    \A d \in Delivery : delivery[d].status # "none" =>
        sends[d] <= delivery[d].attempts + hookFaults
                      + Cardinality({w \in Sender : sender[w].pc = "save" /\ sender[w].d = d})

(* Two workers never work on the same delivery, whatever the queue holds     *)
(* (deliver: the row lock with skip_locked).                                 *)
OneSenderPerDelivery ==
    \A v, w \in Sender : v # w /\ sender[v].pc # "idle" /\ sender[w].pc # "idle"
        => sender[v].d # sender[w].d

(* A settled delivery stays as it is until the purge, and no late or         *)
(* repeated message sends it again.                                          *)
SettledIsFinal ==
    [][\A d \in Delivery : delivery[d].status \in Settled =>
          /\ delivery'[d] \in {delivery[d], NoDelivery}
          /\ sends'[d] = sends[d]]_hookVars

(* A delivery that was committed is settled in the end, or goes with its     *)
(* webhook: lost messages, a broker that is down at commit time and dying    *)
(* workers delay it but do not lose it.                                      *)
EveryDeliverySettles ==
    \A d \in Delivery : []<>(delivery[d].status # "pending")

(* Private content is written only for webhooks that include it, or did less *)
(* than the cache's time to live ago: a request that read the list before an *)
(* edit committed and stores it after the second drop does no more harm than *)
(* that (invalidate_subscriptions; "the TTL bounds anything missed").        *)
PrivateWithinTtl ==
    [][\A d \in Delivery :
          delivery[d].status = "none" /\ delivery'[d].status = "pending"
             /\ delivery'[d].kind = "private"
          => hook[HookOf(d)].private \/ offFor[HookOf(d)] < CacheTtl]_hookVars

=============================================================================
