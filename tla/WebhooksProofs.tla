--------------------------- MODULE WebhooksProofs ---------------------------
(***************************************************************************)
(* Proofs about Webhooks, for any number of webhooks, emitting requests    *)
(* and workers, any lifetimes and retry limits, and any budget of faults.  *)
(***************************************************************************)
EXTENDS Webhooks, FiniteSetTheorems, TLAPS

-----------------------------------------------------------------------------
(* The inductive invariant.                                                *)

HookRecord == [live : BOOLEAN, active : BOOLEAN, private : BOOLEAN]

DeliveryRecord ==
    [status : {"none", "pending", "succeeded", "failed"}, attempts : 0..MaxAttempts,
     due : Nat, kind : {"public", "private", "ping"}]

SenderRecord ==
    [pc : {"idle"}] \union [pc : {"post"}, d : Delivery]
       \union [pc : {"save"}, d : Delivery, result : {"ok", "retry", "refused"}]

EmitterRecord ==
    [pc : {"idle"}]
       \union [pc : {"cache", "write"}, list : SUBSET (Hook \X BOOLEAN),
               kind : {"public", "private"}, event : 1..MaxEvents]
       \union [pc : {"commit"}, kind : {"public", "private", "ping"}, rows : SUBSET Delivery]

HookShapes ==
    /\ hook \in [Hook -> HookRecord]
    /\ cache \in [list : SUBSET (Hook \X BOOLEAN), ttl : 0..CacheTtl]
    /\ emitter \in [Emitter -> EmitterRecord]
    /\ admin \in [pc : {"idle", "drop"}] \union [pc : {"commit"}, hook : Hook, new : HookRecord]
    /\ delivery \in [Delivery -> DeliveryRecord]
    /\ queue \subseteq [d : Delivery, attempts : 0..MaxAttempts]
    /\ sender \in [Sender -> SenderRecord]
    /\ hookBudget \in HookBudgets
    /\ events \in 0..MaxEvents
    /\ hookFaults \in Nat
    /\ sends \in [Delivery -> Nat]
    /\ offFor \in [Hook -> 0..CacheTtl]

\* A pending row has attempts left, a settled one is not due, and a row that is
\* not there says nothing.
RowsSound ==
    \A d \in Delivery :
        /\ delivery[d].status = "pending" => delivery[d].attempts < MaxAttempts
        /\ delivery[d].status \in Settled => delivery[d].due = 0
        /\ delivery[d].status = "none" => delivery[d] = NoDelivery

\* The events whose rows a request is about to write or has not committed: each
\* belongs to one request, and none of its rows was ever there.
EventsOf(e) ==
    IF emitter[e].pc = "idle" THEN {}
    ELSE IF emitter[e].pc = "commit" THEN {d[1] : d \in emitter[e].rows}
    ELSE {emitter[e].event}

Untouched(d) == delivery[d].status = "none" /\ sends[d] = 0

EventsFresh ==
    /\ \A e \in Emitter : EventsOf(e) \subseteq 1..events
    /\ \A e, f \in Emitter : e # f => EventsOf(e) \intersect EventsOf(f) = {}
    /\ \A d \in Delivery : d[1] > events => Untouched(d)
    /\ \A e \in Emitter, d \in Delivery : d[1] \in EventsOf(e) => Untouched(d)

\* A worker works on a pending row, alone.
SendersHold ==
    /\ \A w \in Sender : sender[w].pc # "idle" => delivery[sender[w].d].status = "pending"
    /\ OneSenderPerDelivery

\* Requests sent, against attempts counted: one worker at most is in between.
Savers(d) == {w \in Sender : sender[w].pc = "save" /\ sender[w].d = d}

Counted ==
    \A d \in Delivery : delivery[d].status # "none" =>
        sends[d] <= delivery[d].attempts + hookFaults + IF Savers(d) = {} THEN 0 ELSE 1

\* A list that says a webhook includes private content: it still does, or the
\* list is younger than the edit that switched it off, or only so much older.
PrivateBound ==
    /\ \A sub \in cache.list : cache.ttl > 0 /\ sub[2] =>
          hook[sub[1]].private \/ offFor[sub[1]] + cache.ttl <= CacheTtl
    /\ \A e \in Emitter : emitter[e].pc = "cache" =>
          \A sub \in emitter[e].list : sub[2] => hook[sub[1]].private \/ offFor[sub[1]] = 0
    /\ \A e \in Emitter : emitter[e].pc = "write" =>
          \A sub \in emitter[e].list : sub[2] => hook[sub[1]].private \/ offFor[sub[1]] < CacheTtl
    /\ \A e \in Emitter : emitter[e].pc = "commit" /\ emitter[e].kind = "private" =>
          \A d \in emitter[e].rows : hook[HookOf(d)].private \/ offFor[HookOf(d)] < CacheTtl

HookInv == HookShapes /\ RowsSound /\ EventsFresh /\ SendersHold /\ Counted /\ PrivateBound

-----------------------------------------------------------------------------
(* Shapes.                                                                 *)

\* What the record of a worker holds at each step of deliver.
LEMMA SenderFields ==
    ASSUME HookShapes, NEW w \in Sender
    PROVE  /\ sender[w].pc \in {"idle", "post", "save"}
           /\ sender[w].pc # "idle" => sender[w].d \in Delivery
           /\ sender[w].pc = "save" => sender[w].result \in {"ok", "retry", "refused"}
  BY DEF HookShapes, SenderRecord

\* What the record of an emitting request holds at each step of emit.
LEMMA EmitterFields ==
    ASSUME HookShapes, NEW e \in Emitter
    PROVE  /\ emitter[e].pc \in {"idle", "cache", "write", "commit"}
           /\ emitter[e].pc \in {"cache", "write"} =>
                 /\ emitter[e].list \in SUBSET (Hook \X BOOLEAN)
                 /\ emitter[e].kind \in {"public", "private"}
                 /\ emitter[e].event \in 1..MaxEvents
           /\ emitter[e].pc = "commit" =>
                 /\ emitter[e].kind \in {"public", "private", "ping"}
                 /\ emitter[e].rows \in SUBSET Delivery
  BY DEF HookShapes, EmitterRecord

\* What the administrator's request holds before its commit.
LEMMA AdminFields ==
    ASSUME HookShapes, admin.pc = "commit"
    PROVE  admin.hook \in Hook /\ admin.new \in HookRecord
  BY DEF HookShapes

\* A delivery is an event and a webhook.
LEMMA DeliveryParts ==
    ASSUME NEW d \in Delivery
    PROVE  d[1] \in 1..MaxEvents /\ HookOf(d) \in Hook /\ d = <<d[1], d[2]>>
  BY DEF Delivery, HookOf

\* AfterAttempt counts the attempt, and leaves a row pending only when there are
\* attempts left.
LEMMA AfterAttemptFacts ==
    ASSUME NEW row \in DeliveryRecord, row.attempts < MaxAttempts, NEW result
    PROVE  /\ AfterAttempt(row, result) \in DeliveryRecord
           /\ AfterAttempt(row, result).attempts = row.attempts + 1
           /\ AfterAttempt(row, result).status \in {"pending", "succeeded", "failed"}
           /\ AfterAttempt(row, result).status = "pending" => row.attempts + 1 < MaxAttempts
           /\ AfterAttempt(row, result).status \in Settled => AfterAttempt(row, result).due = 0
  <1>1. row.attempts + 1 \in 0..MaxAttempts /\ Backoff \in Nat /\ row.kind \in {"public", "private", "ping"}
    BY WebhooksAssumption DEF DeliveryRecord
  <1>2. QED
    BY <1>1 DEF AfterAttempt, DeliveryRecord, Settled

\* The messages a step queues are about rows.
LEMMA DispatchKeepsShape ==
    ASSUME HookShapes, NEW messages \in SUBSET [d : Delivery, attempts : 0..MaxAttempts],
           Dispatch(messages)
    PROVE  /\ queue' \subseteq [d : Delivery, attempts : 0..MaxAttempts]
           /\ hookFaults' \in Nat /\ hookFaults' >= hookFaults
  BY DEF Dispatch, Fault, HookShapes

\* Faults are counted upwards.
LEMMA FaultCounts ==
    ASSUME HookShapes, Fault
    PROVE  hookFaults' \in Nat /\ hookFaults' = hookFaults + 1
  BY DEF Fault, HookShapes

\* Every step keeps the shapes.
LEMMA ShapesKept ==
    ASSUME HookShapes, RowsSound, SendersHold, HookNext
    PROVE  HookShapes'
  <1> USE WebhooksAssumption
  <1>0. hookBudget' = hookBudget /\ hookBudget.events \in 0..MaxEvents /\ hookBudget.kinds \subseteq {"public", "private", "ping"}
    BY DEF HookNext, HookShapes
  <1>1. ASSUME NEW e \in Emitter, ReadSubscriptions(e)
        PROVE  HookShapes'
    <2>1. Subscriptions \in SUBSET (Hook \X BOOLEAN)
      BY DEF Subscriptions, HookShapes, HookRecord
    <2>2. events + 1 \in 1..MaxEvents
      BY <1>0, <1>1 DEF ReadSubscriptions, HookShapes
    <2>3. PICK kind \in {"public", "private"} :
              emitter' = [emitter EXCEPT ![e] =
                  [pc |-> IF cache.ttl > 0 THEN "write" ELSE "cache",
                   list |-> IF cache.ttl > 0 THEN cache.list ELSE Subscriptions,
                   kind |-> kind, event |-> events + 1]]
      BY <1>0, <1>1 DEF ReadSubscriptions
    <2>4. [pc |-> IF cache.ttl > 0 THEN "write" ELSE "cache",
           list |-> IF cache.ttl > 0 THEN cache.list ELSE Subscriptions,
           kind |-> kind, event |-> events + 1] \in EmitterRecord
      BY <2>1, <2>2 DEF HookShapes, EmitterRecord
    <2>5. emitter' \in [Emitter -> EmitterRecord] /\ events' \in 0..MaxEvents
      BY <1>1, <2>2, <2>3, <2>4 DEF HookShapes, ReadSubscriptions
    <2>6. QED
      BY <1>0, <1>1, <2>5 DEF HookShapes, ReadSubscriptions
  <1>2. ASSUME NEW e \in Emitter, CacheSubscriptions(e)
        PROVE  HookShapes'
    <2>1. cache' \in [list : SUBSET (Hook \X BOOLEAN), ttl : 0..CacheTtl] /\ hookFaults' \in Nat
      BY <1>2, EmitterFields, FaultCounts DEF CacheSubscriptions, HookShapes
    <2>2. [emitter[e] EXCEPT !.pc = "write"] \in EmitterRecord
      BY <1>2 DEF CacheSubscriptions, HookShapes, EmitterRecord
    <2>3. QED
      BY <1>0, <1>2, <2>1, <2>2 DEF CacheSubscriptions, HookShapes
  <1>3. ASSUME NEW e \in Emitter, WriteDeliveries(e)
        PROVE  HookShapes'
    <2>1. [pc |-> "idle"] \in EmitterRecord
      BY DEF EmitterRecord
    <2>2. /\ emitter[e].list \in SUBSET (Hook \X BOOLEAN)
          /\ emitter[e].kind \in {"public", "private"} /\ emitter[e].event \in 1..MaxEvents
      BY <1>3, EmitterFields DEF WriteDeliveries
    <2>3. {<<emitter[e].event, h>> : h \in Targets(e)} \in SUBSET Delivery
      BY <2>2 DEF Targets, Delivery
    <2>4. [pc |-> "commit", kind |-> emitter[e].kind,
           rows |-> {<<emitter[e].event, h>> : h \in Targets(e)}] \in EmitterRecord
      BY <2>2, <2>3 DEF EmitterRecord
    <2>5. emitter' \in [Emitter -> EmitterRecord]
      BY <1>3, <2>1, <2>4 DEF WriteDeliveries, HookShapes
    <2>6. QED
      BY <1>0, <1>3, <2>5 DEF WriteDeliveries, HookShapes
  <1>4. ASSUME NEW e \in Emitter, CommitEmit(e)
        PROVE  HookShapes'
    <2>1. /\ emitter[e].kind \in {"public", "private", "ping"} /\ emitter[e].rows \in SUBSET Delivery
      BY <1>4, EmitterFields DEF CommitEmit
    <2>2. Pending(emitter[e].kind) \in DeliveryRecord
      BY <2>1 DEF Pending, DeliveryRecord
    <2>3. delivery' \in [Delivery -> DeliveryRecord]
      BY <1>4, <2>2 DEF CommitEmit, HookShapes
    <2>4. {[d |-> d, attempts |-> 0] : d \in emitter[e].rows} \in SUBSET [d : Delivery, attempts : 0..MaxAttempts]
      BY <2>1
    <2>5. queue' \subseteq [d : Delivery, attempts : 0..MaxAttempts] /\ hookFaults' \in Nat
      BY <1>4, <2>4, DispatchKeepsShape DEF CommitEmit
    <2>6. [pc |-> "idle"] \in EmitterRecord
      BY DEF EmitterRecord
    <2>7. QED
      BY <1>0, <1>4, <2>3, <2>5, <2>6 DEF CommitEmit, HookShapes
  <1>5. ASSUME NEW e \in Emitter, RollbackEmit(e)
        PROVE  HookShapes'
    <2>1. [pc |-> "idle"] \in EmitterRecord
      BY DEF EmitterRecord
    <2>2. QED
      BY <1>0, <1>5, <2>1, FaultCounts DEF RollbackEmit, HookShapes
  <1>6. ASSUME NEW e \in Emitter, NEW h \in Hook, SendTest(e, h)
        PROVE  HookShapes'
    <2>1. events + 1 \in 1..MaxEvents
      BY <1>0, <1>6 DEF SendTest, HookShapes
    <2>2. [pc |-> "commit", kind |-> "ping", rows |-> {<<events + 1, h>>}] \in EmitterRecord
      BY <2>1 DEF EmitterRecord, Delivery
    <2>3. QED
      BY <1>0, <1>6, <2>1, <2>2 DEF SendTest, HookShapes
  <1>7. DropCache => /\ cache' \in [list : SUBSET (Hook \X BOOLEAN), ttl : 0..CacheTtl]
                     /\ hookFaults' \in Nat
    BY FaultCounts DEF DropCache, NoCache, HookShapes
  <1>8. ASSUME NEW h \in Hook, BeginEdit(h)
        PROVE  HookShapes'
    <2>1. PICK new \in {[hook[h] EXCEPT !.active = ~@], [hook[h] EXCEPT !.private = ~@],
                        [hook[h] EXCEPT !.live = FALSE]} :
              admin' = [pc |-> "commit", hook |-> h, new |-> new]
      BY <1>8 DEF BeginEdit
    <2>2. new \in HookRecord
      BY <2>1 DEF HookShapes, HookRecord
    <2>3. QED
      BY <1>0, <1>7, <1>8, <2>1, <2>2 DEF BeginEdit, HookShapes
  <1>9. CASE CommitEdit
    <2>1. admin.hook \in Hook /\ admin.new \in HookRecord
      BY <1>9, AdminFields DEF CommitEdit
    <2>2. NoDelivery \in DeliveryRecord
      BY DEF NoDelivery, DeliveryRecord
    <2>3. delivery' \in [Delivery -> DeliveryRecord] /\ hook' \in [Hook -> HookRecord]
      BY <1>9, <2>1, <2>2 DEF CommitEdit, HookShapes
    <2>4. offFor' \in [Hook -> 0..CacheTtl]
      BY <1>9, <2>1 DEF CommitEdit, HookShapes
    <2>5. QED
      BY <1>0, <1>9, <2>3, <2>4 DEF CommitEdit, HookShapes
  <1>10. CASE DropAgain
    BY <1>0, <1>7, <1>10 DEF DropAgain, HookShapes
  <1>11. ASSUME NEW w \in Sender, SendRequest(w)
         PROVE  HookShapes'
    <2>1. sender[w].d \in Delivery
      BY <1>11, SenderFields DEF SendRequest
    <2>2. \A result \in {"ok", "retry", "refused"} :
              [pc |-> "save", d |-> sender[w].d, result |-> result] \in SenderRecord
      BY <2>1 DEF SenderRecord
    <2>3. PICK result \in {"ok", "retry", "refused"} :
              sender' = [sender EXCEPT ![w] = [pc |-> "save", d |-> sender[w].d, result |-> result]]
      BY <1>11 DEF SendRequest
    <2>4. sends' \in [Delivery -> Nat]
      BY <1>11, <2>1 DEF SendRequest, HookShapes
    <2>5. QED
      BY <1>0, <1>11, <2>2, <2>3, <2>4 DEF SendRequest, HookShapes
  <1>12. ASSUME NEW w \in Sender, SaveAttempt(w)
         PROVE  HookShapes'
    <2>1. PICK d \in Delivery : d = sender[w].d
      BY <1>12, SenderFields DEF SaveAttempt
    <2>2. delivery[d] \in DeliveryRecord /\ delivery[d].attempts < MaxAttempts
      BY <1>12, <2>1 DEF SaveAttempt, SendersHold, RowsSound, HookShapes
    <2>3. PICK row \in DeliveryRecord : row = AfterAttempt(delivery[d], sender[w].result)
      BY <2>2, AfterAttemptFacts
    <2>4. /\ delivery' = [delivery EXCEPT ![d] = row]
          /\ row.status = "pending" => Dispatch({[d |-> d, attempts |-> row.attempts]})
          /\ row.status # "pending" => UNCHANGED <<queue, hookFaults>>
      BY <1>12, <2>1, <2>3 DEF SaveAttempt
    <2>5. {[d |-> d, attempts |-> row.attempts]} \in SUBSET [d : Delivery, attempts : 0..MaxAttempts]
      BY DEF DeliveryRecord
    <2>6. queue' \subseteq [d : Delivery, attempts : 0..MaxAttempts] /\ hookFaults' \in Nat
      BY <2>4, <2>5, DispatchKeepsShape DEF HookShapes
    <2>7. [pc |-> "idle"] \in SenderRecord
      BY DEF SenderRecord
    <2>8. delivery' \in [Delivery -> DeliveryRecord]
      BY <2>4 DEF HookShapes
    <2>9. sender' \in [Sender -> SenderRecord]
      BY <1>12, <2>7 DEF SaveAttempt, HookShapes
    <2>10. QED
      BY <1>0, <1>12, <2>6, <2>8, <2>9 DEF SaveAttempt, HookShapes
  <1>13. ASSUME NEW w \in Sender, CrashSender(w)
         PROVE  HookShapes'
    <2>1. [pc |-> "idle"] \in SenderRecord
      BY DEF SenderRecord
    <2>2. QED
      BY <1>0, <1>13, <2>1, FaultCounts DEF CrashSender, HookShapes
  <1>14. ASSUME NEW w \in Sender, NEW m \in queue, TakeMessage(w, m)
         PROVE  HookShapes'
    <2>1. [pc |-> "post", d |-> m.d] \in SenderRecord
      BY DEF HookShapes, SenderRecord
    <2>2. sender' \in [Sender -> SenderRecord]
      BY <1>14, <2>1 DEF TakeMessage, HookShapes
    <2>3. QED
      BY <1>0, <1>14, <2>2, FaultCounts DEF TakeMessage, HookShapes
  <1>15. ASSUME NEW m \in queue, LoseMessage(m)
         PROVE  HookShapes'
    BY <1>0, <1>15, FaultCounts DEF LoseMessage, HookShapes
  <1>16. CASE Sweep
    <2>1. \A d \in Delivery : [delivery[d] EXCEPT !.due = Lease] \in DeliveryRecord
      BY DEF HookShapes, DeliveryRecord
    <2>2. delivery' \in [Delivery -> DeliveryRecord]
      BY <1>16, <2>1 DEF Sweep, HookShapes
    <2>3. {[d |-> d, attempts |-> delivery[d].attempts] : d \in Overdue}
             \in SUBSET [d : Delivery, attempts : 0..MaxAttempts]
      BY DEF Overdue, HookShapes, DeliveryRecord
    <2>4. queue' \subseteq [d : Delivery, attempts : 0..MaxAttempts] /\ hookFaults' \in Nat
      BY <1>16, <2>3, DispatchKeepsShape DEF Sweep
    <2>5. QED
      BY <1>0, <1>16, <2>2, <2>4 DEF Sweep, HookShapes
  <1>17. ASSUME NEW d \in Delivery, Purge(d)
         PROVE  HookShapes'
    <2>1. NoDelivery \in DeliveryRecord
      BY DEF NoDelivery, DeliveryRecord
    <2>2. QED
      BY <1>0, <1>17, <2>1 DEF Purge, HookShapes
  <1>18. CASE HookTick
    <2>1. \A d \in Delivery : [delivery[d] EXCEPT !.due = Down(@)] \in DeliveryRecord
      BY DEF HookShapes, DeliveryRecord, Down
    <2>2. delivery' \in [Delivery -> DeliveryRecord]
      BY <1>18, <2>1 DEF HookTick, HookShapes
    <2>3. cache' \in [list : SUBSET (Hook \X BOOLEAN), ttl : 0..CacheTtl]
      BY <1>18 DEF HookTick, NoCache, HookShapes
    <2>4. offFor' \in [Hook -> 0..CacheTtl]
      BY <1>18 DEF HookTick, HookShapes
    <2>5. QED
      BY <1>0, <1>18, <2>2, <2>3, <2>4 DEF HookTick, HookShapes
  <1>19. QED
    BY <1>1, <1>2, <1>3, <1>4, <1>5, <1>6, <1>8, <1>9, <1>10, <1>11, <1>12, <1>13, <1>14,
       <1>15, <1>16, <1>17, <1>18 DEF HookNext, HookAction, EmitGoesOn, SenderStep

-----------------------------------------------------------------------------
(* Rows.                                                                   *)

\* What a step does to a row, as far as the other parts of the invariant care.
\* The actions that touch webhook_deliveries, and how.
LEMMA RowSteps ==
    ASSUME HookShapes, RowsSound, SendersHold, HookNext, NEW d \in Delivery
    PROVE  \/ delivery'[d] = delivery[d]
           \/ /\ delivery[d].status # "none"
              /\ delivery'[d] = NoDelivery
              /\ \A w \in Sender : sender[w].pc # "idle" => sender[w].d # d
           \/ /\ delivery[d].status = "pending"
              /\ delivery'[d] \in DeliveryRecord
              /\ delivery'[d].status = "pending"
              /\ delivery'[d].attempts = delivery[d].attempts
           \/ \E e \in Emitter : CommitEmit(e) /\ d \in emitter[e].rows
           \/ \E w \in Sender : SaveAttempt(w) /\ sender[w].d = d
  <1> USE WebhooksAssumption
  <1>1. CASE delivery' = delivery
    BY <1>1
  <1>2. ASSUME NEW e \in Emitter, CommitEmit(e)
        PROVE  delivery'[d] = delivery[d] \/ d \in emitter[e].rows
    BY <1>2 DEF CommitEmit
  <1>3. CASE CommitEdit
    <2>1. CASE delivery'[d] = delivery[d]
      BY <2>1
    <2>2. CASE HookOf(d) = admin.hook /\ ~admin.new.live
      <3>1. \A w \in Sender : sender[w].pc # "idle" => sender[w].d # d
        BY <1>3, <2>2 DEF CommitEdit, InUse
      <3>2. delivery'[d] = NoDelivery
        BY <1>3, <2>2 DEF CommitEdit
      <3>3. delivery[d].status = "none" => delivery[d] = NoDelivery
        BY DEF RowsSound
      <3>4. QED
        BY <3>1, <3>2, <3>3
    <2>3. QED
      BY <1>3, <2>1, <2>2 DEF CommitEdit
  <1>4. ASSUME NEW w \in Sender, SaveAttempt(w)
        PROVE  delivery'[d] = delivery[d] \/ sender[w].d = d
    BY <1>4 DEF SaveAttempt, HookShapes
  <1>5. CASE Sweep
    <2>1. CASE d \in Overdue
      <3>1. delivery'[d] = [delivery[d] EXCEPT !.due = Lease] /\ delivery[d].status = "pending"
        BY <1>5, <2>1 DEF Sweep, Overdue
      <3>2. delivery[d] \in DeliveryRecord
        BY DEF HookShapes
      <3>3. QED
        BY <3>1, <3>2 DEF DeliveryRecord
    <2>2. CASE d \notin Overdue
      BY <1>5, <2>2 DEF Sweep
    <2>3. QED
      BY <2>1, <2>2
  <1>6. ASSUME NEW x \in Delivery, Purge(x)
        PROVE  \/ delivery'[d] = delivery[d]
               \/ /\ delivery[d].status # "none"
                  /\ delivery'[d] = NoDelivery
                  /\ \A w \in Sender : sender[w].pc # "idle" => sender[w].d # d
    BY <1>6 DEF Purge, Locked, Settled, HookShapes
  <1>7. CASE HookTick
    <2>1. delivery'[d] = [delivery[d] EXCEPT !.due = Down(@)] /\ delivery[d] \in DeliveryRecord
      BY <1>7 DEF HookTick, HookShapes
    <2>2. CASE delivery[d].status = "pending"
      BY <2>1, <2>2 DEF DeliveryRecord, Down
    <2>3. CASE delivery[d].status # "pending"
      <3>1. delivery[d].due = 0
        BY <2>1, <2>3 DEF RowsSound, Settled, NoDelivery, DeliveryRecord
      <3>2. delivery'[d] = delivery[d]
        BY <2>1, <3>1 DEF DeliveryRecord, Down
      <3>3. QED
        BY <3>2
    <2>4. QED
      BY <2>2, <2>3
  <1>8. QED
    BY <1>1, <1>2, <1>3, <1>4, <1>5, <1>6, <1>7
    DEF HookNext, HookAction, EmitGoesOn, SenderStep, ReadSubscriptions, CacheSubscriptions,
        WriteDeliveries, RollbackEmit, SendTest, BeginEdit, DropAgain, SendRequest, CrashSender,
        TakeMessage, LoseMessage

\* The row a worker has taken, and what SaveAttempt makes of it.
LEMMA SavedRow ==
    ASSUME HookShapes, RowsSound, SendersHold, NEW w \in Sender, SaveAttempt(w),
           NEW d \in Delivery, d = sender[w].d
    PROVE  /\ delivery[d].status = "pending"
           /\ delivery'[d] \in DeliveryRecord
           /\ delivery'[d].attempts = delivery[d].attempts + 1
           /\ delivery'[d].status \in {"pending", "succeeded", "failed"}
           /\ delivery'[d].status = "pending" => delivery[d].attempts + 1 < MaxAttempts
           /\ delivery'[d].status \in Settled => delivery'[d].due = 0
  <1>1. /\ delivery[d].status = "pending" /\ delivery[d].attempts < MaxAttempts
        /\ delivery[d] \in DeliveryRecord
    BY DEF SaveAttempt, SendersHold, RowsSound, HookShapes
  <1>2. delivery'[d] = AfterAttempt(delivery[d], sender[w].result)
    BY DEF SaveAttempt, HookShapes
  <1>3. QED
    BY <1>1, <1>2, AfterAttemptFacts

\* Every step keeps the rows sound.
LEMMA RowsKept ==
    ASSUME HookShapes, RowsSound, SendersHold, HookNext
    PROVE  RowsSound'
  <1> USE WebhooksAssumption
  <1> SUFFICES ASSUME NEW d \in Delivery
               PROVE  /\ delivery'[d].status = "pending" => delivery'[d].attempts < MaxAttempts
                      /\ delivery'[d].status \in Settled => delivery'[d].due = 0
                      /\ delivery'[d].status = "none" => delivery'[d] = NoDelivery
    BY DEF RowsSound
  <1>1. ASSUME NEW e \in Emitter, CommitEmit(e), d \in emitter[e].rows
        PROVE  delivery'[d].status = "pending" /\ delivery'[d].attempts = 0
    BY <1>1 DEF CommitEmit, Pending
  <1>2. ASSUME NEW w \in Sender, SaveAttempt(w), sender[w].d = d
        PROVE  /\ delivery'[d].status = "pending" => delivery'[d].attempts < MaxAttempts
               /\ delivery'[d].status \in Settled => delivery'[d].due = 0
               /\ delivery'[d].status # "none"
    BY <1>2, SavedRow
  <1>3. NoDelivery.status = "none"
    BY DEF NoDelivery
  <1>4. QED
    BY <1>1, <1>2, <1>3, RowSteps DEF RowsSound, Settled

-----------------------------------------------------------------------------
(* Workers.                                                                *)

\* The steps of workers.
LEMMA SenderSteps ==
    ASSUME HookShapes, HookNext
    PROVE  \/ sender' = sender
           \/ \E w \in Sender, m \in queue : TakeMessage(w, m) /\ Attemptable(m)
           \/ \E w \in Sender : SendRequest(w) \/ SaveAttempt(w) \/ CrashSender(w)
  BY DEF HookNext, HookAction, EmitGoesOn, SenderStep, ReadSubscriptions, CacheSubscriptions,
         WriteDeliveries, CommitEmit, RollbackEmit, SendTest, BeginEdit, CommitEdit, DropAgain,
         TakeMessage, LoseMessage, Sweep, Purge, HookTick

\* The rows a request has not committed are not there.
LEMMA UncommittedRows ==
    ASSUME EventsFresh, NEW e \in Emitter, emitter[e].pc = "commit",
           NEW d \in Delivery, d \in emitter[e].rows
    PROVE  delivery[d].status = "none"
  <1>1. d[1] \in EventsOf(e)
    BY DEF EventsOf
  <1>2. QED
    BY <1>1 DEF EventsFresh, Untouched

\* A pending row of a worker stays pending until that worker saves.
LEMMA HeldRowStays ==
    ASSUME HookInv, HookNext, NEW d \in Delivery, delivery[d].status = "pending",
           NEW w \in Sender, sender[w].pc # "idle", sender[w].d = d,
           ~ SaveAttempt(w)
    PROVE  delivery'[d].status = "pending"
  <1>1. \A e \in Emitter : CommitEmit(e) => d \notin emitter[e].rows
    BY UncommittedRows DEF HookInv, CommitEmit
  <1>2. \A v \in Sender : SaveAttempt(v) /\ sender[v].d = d => v = w
    BY DEF HookInv, SendersHold, OneSenderPerDelivery, SaveAttempt
  <1>3. QED
    BY <1>1, <1>2, RowSteps DEF HookInv

\* Every step keeps one worker per pending row.
LEMMA SendersKept ==
    ASSUME HookInv, HookNext
    PROVE  SendersHold'
  <1>0. HookShapes /\ RowsSound /\ EventsFresh /\ SendersHold
    BY DEF HookInv
  <1>1. CASE sender' = sender
    <2>1. \A w \in Sender : sender[w].pc # "idle" => ~SaveAttempt(w)
      BY <1>0, <1>1, SenderFields DEF SaveAttempt, HookShapes
    <2>2. \A w \in Sender : sender[w].pc # "idle" => delivery'[sender[w].d].status = "pending"
      BY <1>0, <2>1, HeldRowStays, SenderFields DEF SendersHold
    <2>3. QED
      BY <1>0, <1>1, <2>2 DEF SendersHold, OneSenderPerDelivery
  <1>2. ASSUME NEW w \in Sender, NEW m \in queue, TakeMessage(w, m), Attemptable(m)
        PROVE  SendersHold'
    <2>1. sender' = [sender EXCEPT ![w] = [pc |-> "post", d |-> m.d]] /\ delivery' = delivery
      BY <1>2 DEF TakeMessage
    <2>2. delivery[m.d].status = "pending" /\ \A v \in Sender : sender[v].pc # "idle" => sender[v].d # m.d
      BY <1>2 DEF Attemptable, Locked
    <2>3. QED
      BY <1>0, <2>1, <2>2 DEF SendersHold, OneSenderPerDelivery, HookShapes
  <1>3. ASSUME NEW w \in Sender, SendRequest(w)
        PROVE  SendersHold'
    <2>1. PICK new : /\ sender' = [sender EXCEPT ![w] = new]
                     /\ new.pc = "save" /\ new.d = sender[w].d
      BY <1>3 DEF SendRequest
    <2>2. delivery' = delivery /\ sender[w].pc = "post"
      BY <1>3 DEF SendRequest
    <2>3. QED
      BY <1>0, <2>1, <2>2 DEF SendersHold, OneSenderPerDelivery, HookShapes
  <1>4. ASSUME NEW w \in Sender, SaveAttempt(w) \/ CrashSender(w)
        PROVE  SendersHold'
    <2>1. sender' = [sender EXCEPT ![w] = [pc |-> "idle"]] /\ sender[w].pc # "idle"
      BY <1>4 DEF SaveAttempt, CrashSender
    <2>2. \A v \in Sender \ {w} : /\ sender[v].pc # "idle" => sender[v].d # sender[w].d
                                  /\ sender'[v] = sender[v]
      BY <1>0, <2>1 DEF SendersHold, OneSenderPerDelivery, HookShapes
    <2>3. \A v \in Sender \ {w} : sender[v].pc # "idle" =>
              delivery'[sender[v].d] = delivery[sender[v].d]
      BY <1>0, <1>4, <2>2, SenderFields DEF SaveAttempt, CrashSender, HookShapes
    <2>4. QED
      BY <1>0, <2>1, <2>2, <2>3 DEF SendersHold, OneSenderPerDelivery, HookShapes
  <1>5. QED
    BY <1>0, <1>1, <1>2, <1>3, <1>4, SenderSteps

-----------------------------------------------------------------------------
(* Events.                                                                 *)

\* Where a row that was never there stays so: emitting requests apart.
LEMMA UntouchedStays ==
    ASSUME HookInv, HookNext, NEW d \in Delivery, Untouched(d),
           \A e \in Emitter : CommitEmit(e) => d \notin emitter[e].rows
    PROVE  Untouched(d)'
  <1>0. HookShapes /\ RowsSound /\ SendersHold
    BY DEF HookInv
  <1>1. \A w \in Sender : sender[w].pc # "idle" => sender[w].d # d
    BY <1>0 DEF SendersHold, Untouched
  <1>2. delivery'[d].status = "none"
    BY <1>0, <1>1, RowSteps DEF Untouched, SaveAttempt, NoDelivery
  <1>3. sends'[d] = sends[d]
    <2>1. ASSUME NEW w \in Sender, SendRequest(w)
          PROVE  sends'[d] = sends[d]
      BY <1>0, <1>1, <2>1 DEF SendRequest, HookShapes
    <2>2. QED
      BY <2>1 DEF HookNext, HookAction, EmitGoesOn, SenderStep, ReadSubscriptions,
         CacheSubscriptions, WriteDeliveries, CommitEmit, RollbackEmit, SendTest, BeginEdit,
         CommitEdit, DropAgain, SaveAttempt, CrashSender, TakeMessage, LoseMessage, Sweep,
         Purge, HookTick
  <1>4. QED
    BY <1>2, <1>3 DEF Untouched

\* The steps of emitting requests, and what they do to their events.
LEMMA EmitterSteps ==
    ASSUME HookShapes, HookNext
    PROVE  \/ UNCHANGED <<emitter, events>>
           \/ \E e \in Emitter :
                 /\ \A f \in Emitter \ {e} : emitter'[f] = emitter[f]
                 /\ \/ EventsOf(e)' \subseteq EventsOf(e) /\ UNCHANGED events /\ ~CommitEmit(e)
                    \/ EventsOf(e)' = {} /\ UNCHANGED events /\ CommitEmit(e)
                    \/ EventsOf(e)' = {events + 1} /\ events' = events + 1 /\ ~CommitEmit(e)
  <1>1. ASSUME NEW e \in Emitter, ReadSubscriptions(e)
        PROVE  /\ \A f \in Emitter \ {e} : emitter'[f] = emitter[f]
               /\ EventsOf(e)' = {events + 1} /\ events' = events + 1 /\ ~CommitEmit(e)
    <2>1. PICK kind \in hookBudget.kinds \ {"ping"} :
              emitter' = [emitter EXCEPT ![e] =
                  [pc |-> IF cache.ttl > 0 THEN "write" ELSE "cache",
                   list |-> IF cache.ttl > 0 THEN cache.list ELSE Subscriptions,
                   kind |-> kind, event |-> events + 1]]
      BY <1>1 DEF ReadSubscriptions
    <2>2. /\ emitter'[e].pc \in {"write", "cache"} /\ emitter'[e].event = events + 1
          /\ \A f \in Emitter \ {e} : emitter'[f] = emitter[f]
      BY <2>1 DEF HookShapes
    <2>3. QED
      BY <1>1, <2>2 DEF ReadSubscriptions, EventsOf, CommitEmit
  <1>2. ASSUME NEW e \in Emitter, NEW h \in Hook, SendTest(e, h)
        PROVE  /\ \A f \in Emitter \ {e} : emitter'[f] = emitter[f]
               /\ EventsOf(e)' = {events + 1} /\ events' = events + 1 /\ ~CommitEmit(e)
    <2>1. emitter'[e] = [pc |-> "commit", kind |-> "ping", rows |-> {<<events + 1, h>>}]
      BY <1>2 DEF SendTest, HookShapes
    <2>2. EventsOf(e)' = {events + 1}
      BY <2>1 DEF EventsOf
    <2>3. QED
      BY <1>2, <2>2 DEF SendTest, CommitEmit, HookShapes
  <1>3. ASSUME NEW e \in Emitter, CacheSubscriptions(e)
        PROVE  /\ \A f \in Emitter \ {e} : emitter'[f] = emitter[f]
               /\ EventsOf(e)' \subseteq EventsOf(e) /\ UNCHANGED events /\ ~CommitEmit(e)
    <2>1. emitter'[e] = [emitter[e] EXCEPT !.pc = "write"]
      BY <1>3 DEF CacheSubscriptions, HookShapes
    <2>2. emitter'[e].pc = "write" /\ emitter'[e].event = emitter[e].event
      BY <1>3, <2>1 DEF CacheSubscriptions, HookShapes, EmitterRecord
    <2>3. QED
      BY <1>3, <2>2 DEF CacheSubscriptions, EventsOf, CommitEmit, HookShapes
  <1>4. ASSUME NEW e \in Emitter, WriteDeliveries(e)
        PROVE  /\ \A f \in Emitter \ {e} : emitter'[f] = emitter[f]
               /\ EventsOf(e)' \subseteq EventsOf(e) /\ UNCHANGED events /\ ~CommitEmit(e)
    <2>1. \/ emitter'[e].pc = "idle"
          \/ emitter'[e].pc = "commit" /\ emitter'[e].rows = {<<emitter[e].event, h>> : h \in Targets(e)}
      BY <1>4 DEF WriteDeliveries, HookShapes
    <2>2. EventsOf(e) = {emitter[e].event}
      BY <1>4 DEF WriteDeliveries, EventsOf
    <2>3. EventsOf(e)' \subseteq {emitter[e].event}
      BY <2>1 DEF EventsOf
    <2>4. QED
      BY <1>4, <2>2, <2>3 DEF WriteDeliveries, CommitEmit, HookShapes
  <1>5. ASSUME NEW e \in Emitter, RollbackEmit(e) \/ CommitEmit(e)
        PROVE  /\ \A f \in Emitter \ {e} : emitter'[f] = emitter[f]
               /\ EventsOf(e)' = {} /\ UNCHANGED events
    BY <1>5 DEF RollbackEmit, CommitEmit, EventsOf, HookShapes
  <1>6. QED
    BY <1>1, <1>2, <1>3, <1>4, <1>5 DEF HookNext, HookAction, EmitGoesOn, SenderStep,
       BeginEdit, CommitEdit, DropAgain, SendRequest, SaveAttempt, CrashSender, TakeMessage,
       LoseMessage, Sweep, Purge, HookTick

\* A request that commits is done.
LEMMA CommitMoves ==
    ASSUME HookShapes, NEW e \in Emitter, CommitEmit(e)
    PROVE  emitter[e].pc = "commit" /\ emitter'[e].pc = "idle"
  BY DEF CommitEmit, HookShapes

\* A step that commits the rows of one request commits those of no other.
LEMMA OneCommitAtATime ==
    ASSUME HookShapes, NEW e \in Emitter, CommitEmit(e), NEW f \in Emitter, CommitEmit(f)
    PROVE  e = f
  BY DEF CommitEmit, HookShapes

\* Every step keeps the events of emitting requests apart and their rows unborn.
LEMMA EventsKept ==
    ASSUME HookInv, HookNext
    PROVE  EventsFresh'
  <1>0. HookShapes /\ RowsSound /\ EventsFresh /\ SendersHold /\ events \in Nat
    BY DEF HookInv, HookShapes
  <1>1. CASE UNCHANGED <<emitter, events>>
    <2>1. \A e \in Emitter : EventsOf(e)' = EventsOf(e) /\ ~CommitEmit(e)
      BY <1>0, <1>1 DEF EventsOf, CommitEmit, HookShapes
    <2>2. \A d \in Delivery : Untouched(d) => Untouched(d)'
      BY <2>1, UntouchedStays
    <2>3. QED
      BY <1>0, <1>1, <2>1, <2>2 DEF EventsFresh
  <1>2. ASSUME NEW e \in Emitter, \A f \in Emitter \ {e} : emitter'[f] = emitter[f],
               EventsOf(e)' \subseteq EventsOf(e), UNCHANGED events, ~CommitEmit(e)
        PROVE  EventsFresh'
    <2>1. \A f \in Emitter \ {e} : EventsOf(f)' = EventsOf(f) /\ ~CommitEmit(f)
      BY <1>0, <1>2, CommitMoves DEF EventsOf
    <2>2. \A d \in Delivery : Untouched(d) => Untouched(d)'
      BY <1>2, <2>1, UntouchedStays
    <2>3. \A f \in Emitter : EventsOf(f)' \subseteq EventsOf(f)
      BY <1>2, <2>1
    <2>4. QED
      BY <1>0, <1>2, <2>2, <2>3 DEF EventsFresh
  <1>3. ASSUME NEW e \in Emitter, \A f \in Emitter \ {e} : emitter'[f] = emitter[f],
               EventsOf(e)' = {}, UNCHANGED events, CommitEmit(e)
        PROVE  EventsFresh'
    <2>1. \A f \in Emitter \ {e} : EventsOf(f)' = EventsOf(f) /\ ~CommitEmit(f)
      BY <1>0, <1>3, OneCommitAtATime DEF EventsOf
    <2>2. \A d \in emitter[e].rows : d[1] \in EventsOf(e)
      BY <1>3 DEF EventsOf, CommitEmit
    <2>3. \A d \in Delivery : Untouched(d) /\ d[1] \notin EventsOf(e) => Untouched(d)'
      BY <1>3, <2>1, <2>2, UntouchedStays
    <2>4. \A f \in Emitter : EventsOf(f)' \subseteq EventsOf(f)
      BY <1>3, <2>1
    <2>5. \A d \in Delivery : d[1] > events => d[1] \notin EventsOf(e)
      BY <1>0, DeliveryParts DEF EventsFresh
    <2>6. \A d \in Delivery : d[1] > events' => Untouched(d)'
      BY <1>0, <1>3, <2>3, <2>5 DEF EventsFresh
    <2>7. \A f \in Emitter, d \in Delivery : d[1] \in EventsOf(f)' => Untouched(d)'
      BY <1>0, <1>3, <2>1, <2>3 DEF EventsFresh
    <2>8. QED
      BY <1>0, <1>3, <2>4, <2>6, <2>7 DEF EventsFresh
  <1>4. ASSUME NEW e \in Emitter, \A f \in Emitter \ {e} : emitter'[f] = emitter[f],
               EventsOf(e)' = {events + 1}, events' = events + 1, ~CommitEmit(e)
        PROVE  EventsFresh'
    <2>1. \A f \in Emitter \ {e} : EventsOf(f)' = EventsOf(f) /\ ~CommitEmit(f)
      BY <1>0, <1>4, CommitMoves DEF EventsOf
    <2>2. \A d \in Delivery : Untouched(d) => Untouched(d)'
      BY <1>4, <2>1, UntouchedStays
    <2>3. \A d \in Delivery : d[1] \in Int /\ (d[1] > events => Untouched(d))
      BY <1>0, DeliveryParts, WebhooksAssumption DEF EventsFresh
    <2>4. \A f \in Emitter : EventsOf(f) \subseteq 1..events
      BY <1>0 DEF EventsFresh
    <2>5. \A f \in Emitter : EventsOf(f)' \subseteq 1..events'
      BY <1>0, <1>4, <2>1, <2>4
    <2>6. \A f, g \in Emitter : f # g => EventsOf(f)' \intersect EventsOf(g)' = {}
      <3>1. \A f \in Emitter : events + 1 \notin EventsOf(f)
        BY <1>0, <2>4
      <3>2. QED
        BY <1>0, <1>4, <2>1, <3>1 DEF EventsFresh
    <2>7. \A d \in Delivery : d[1] > events' => Untouched(d)'
      BY <1>0, <1>4, <2>2, <2>3
    <2>8. \A f \in Emitter, d \in Delivery : d[1] \in EventsOf(f)' => Untouched(d)'
      BY <1>0, <1>4, <2>1, <2>2, <2>3 DEF EventsFresh
    <2>9. QED
      BY <2>5, <2>6, <2>7, <2>8 DEF EventsFresh
  <1>5. QED
    BY <1>0, <1>1, <1>2, <1>3, <1>4, EmitterSteps

-----------------------------------------------------------------------------
(* Counting.                                                               *)

\* Every step keeps the requests sent within the attempts counted, the faults
\* and the attempt that is not saved yet.
LEMMA CountsKept ==
    ASSUME HookInv, HookNext
    PROVE  Counted'
  <1>0. HookShapes /\ HookShapes' /\ RowsSound /\ EventsFresh /\ SendersHold /\ Counted
    BY ShapesKept DEF HookInv
  <1> SUFFICES ASSUME NEW d \in Delivery, delivery'[d].status # "none"
               PROVE  sends'[d] <= delivery'[d].attempts + hookFaults'
                                     + IF Savers(d)' = {} THEN 0 ELSE 1
    BY DEF Counted
  <1>1. /\ sends[d] \in Nat /\ sends'[d] \in Nat /\ hookFaults \in Nat /\ hookFaults' \in Nat
        /\ delivery[d] \in DeliveryRecord /\ delivery'[d] \in DeliveryRecord
    BY <1>0 DEF HookShapes
  <1>2. delivery[d].attempts \in Nat /\ delivery'[d].attempts \in Nat
    BY <1>1, WebhooksAssumption DEF DeliveryRecord
  <1>3. hookFaults' >= hookFaults
    <2>1. hookFaults' = hookFaults \/ hookFaults' = hookFaults + 1
      BY DEF HookNext, HookAction, EmitGoesOn, SenderStep, ReadSubscriptions,
         CacheSubscriptions, WriteDeliveries, CommitEmit, RollbackEmit, SendTest, BeginEdit,
         CommitEdit, DropAgain, DropCache, SendRequest, SaveAttempt, CrashSender, TakeMessage,
         LoseMessage, Sweep, Purge, HookTick, Dispatch, Fault
    <2>2. QED
      BY <1>1, <2>1
  <1>4. ASSUME NEW w \in Sender, SaveAttempt(w) \/ CrashSender(w), sender[w].d = d
        PROVE  /\ sends'[d] = sends[d]
               /\ delivery[d].status = "pending"
               /\ delivery'[d].attempts + hookFaults' >= delivery[d].attempts + hookFaults + 1
    <2>1. delivery[d].status = "pending" /\ sends' = sends
      BY <1>0, <1>4 DEF SaveAttempt, CrashSender, SendersHold
    <2>2. CASE SaveAttempt(w)
      BY <1>0, <1>1, <1>2, <1>3, <1>4, <2>1, <2>2, SavedRow
    <2>3. CASE CrashSender(w)
      <3>1. delivery' = delivery /\ hookFaults' = hookFaults + 1
        BY <2>3 DEF CrashSender, Fault
      <3>2. QED
        BY <1>1, <1>2, <2>1, <3>1
    <2>4. QED
      BY <1>4, <2>2, <2>3
  <1>5. ASSUME NEW w \in Sender, SendRequest(w), sender[w].d = d
        PROVE  sends'[d] <= sends[d] + 1 /\ delivery' = delivery /\ Savers(d) = {} /\ Savers(d)' # {}
    <2>1. PICK new : sender' = [sender EXCEPT ![w] = new] /\ new.pc = "save" /\ new.d = d
      BY <1>5 DEF SendRequest
    <2>2. w \in Savers(d)'
      BY <1>0, <2>1 DEF Savers, HookShapes
    <2>3. Savers(d) = {}
      BY <1>0, <1>5 DEF Savers, SendRequest, SendersHold, OneSenderPerDelivery
    <2>4. sends'[d] <= sends[d] + 1
      BY <1>0, <1>1, <1>5 DEF SendRequest, HookShapes
    <2>5. QED
      BY <1>5, <2>2, <2>3, <2>4 DEF SendRequest
  <1>6. ASSUME NEW e \in Emitter, CommitEmit(e), d \in emitter[e].rows
        PROVE  sends'[d] = 0
    <2>1. d[1] \in EventsOf(e)
      BY <1>6 DEF EventsOf, CommitEmit
    <2>2. QED
      BY <1>0, <1>6, <2>1 DEF EventsFresh, Untouched, CommitEmit
  <1>7. ASSUME ~ \E e \in Emitter : CommitEmit(e) /\ d \in emitter[e].rows,
               ~ \E w \in Sender : SaveAttempt(w) /\ sender[w].d = d
        PROVE  delivery'[d].attempts = delivery[d].attempts /\ delivery[d].status # "none"
    BY <1>0, <1>7, RowSteps DEF NoDelivery
  <1>8. ASSUME ~ \E w \in Sender : SendRequest(w) /\ sender[w].d = d
        PROVE  sends'[d] = sends[d]
    BY <1>0, <1>8 DEF HookNext, HookAction, EmitGoesOn, SenderStep, ReadSubscriptions,
       CacheSubscriptions, WriteDeliveries, CommitEmit, RollbackEmit, SendTest, BeginEdit,
       CommitEdit, DropAgain, SendRequest, SaveAttempt, CrashSender, TakeMessage,
       LoseMessage, Sweep, Purge, HookTick, HookShapes
  <1>9. ASSUME ~ \E w \in Sender : sender[w].d = d /\ (SaveAttempt(w) \/ CrashSender(w))
        PROVE  Savers(d) \subseteq Savers(d)'
    <2> SUFFICES ASSUME NEW w \in Savers(d)
                 PROVE  w \in Savers(d)'
      OBVIOUS
    <2>1. w \in Sender /\ sender[w].pc = "save" /\ sender[w].d = d
      BY DEF Savers
    <2>2. sender'[w] = sender[w]
      BY <1>0, <1>9, <2>1, SenderSteps DEF TakeMessage, SendRequest, SaveAttempt, CrashSender, HookShapes
    <2>3. QED
      BY <2>1, <2>2 DEF Savers
  <1>10. delivery[d].status # "none" =>
            sends[d] <= delivery[d].attempts + hookFaults + IF Savers(d) = {} THEN 0 ELSE 1
    BY <1>0 DEF Counted
  <1>11. CASE \E e \in Emitter : CommitEmit(e) /\ d \in emitter[e].rows
    BY <1>1, <1>2, <1>6, <1>11
  <1>12. CASE \E w \in Sender : sender[w].d = d /\ (SaveAttempt(w) \/ CrashSender(w))
    BY <1>1, <1>2, <1>4, <1>10, <1>12
  <1>13. CASE \E w \in Sender : SendRequest(w) /\ sender[w].d = d
    <2>1. delivery'[d] = delivery[d] /\ sends'[d] <= sends[d] + 1 /\ Savers(d) = {} /\ Savers(d)' # {}
      BY <1>5, <1>13
    <2>2. QED
      BY <1>1, <1>2, <1>3, <1>10, <2>1
  <1>14. CASE /\ ~ \E e \in Emitter : CommitEmit(e) /\ d \in emitter[e].rows
              /\ ~ \E w \in Sender : sender[w].d = d /\ (SaveAttempt(w) \/ CrashSender(w))
              /\ ~ \E w \in Sender : SendRequest(w) /\ sender[w].d = d
    <2>1. /\ delivery'[d].attempts = delivery[d].attempts /\ delivery[d].status # "none"
          /\ sends'[d] = sends[d] /\ Savers(d) \subseteq Savers(d)'
      BY <1>7, <1>8, <1>9, <1>14
    <2>2. QED
      BY <1>1, <1>2, <1>3, <1>10, <2>1
  <1>15. QED
    BY <1>11, <1>12, <1>13, <1>14

-----------------------------------------------------------------------------
(* Private content.                                                        *)

\* Every step keeps the bound on private content.
LEMMA PrivateKept ==
    ASSUME HookInv, HookNext
    PROVE  PrivateBound'
  <1> USE WebhooksAssumption
  <1>0. HookShapes /\ HookShapes' /\ PrivateBound
    BY ShapesKept DEF HookInv
  <1>1. ASSUME NEW e \in Emitter, ReadSubscriptions(e)
        PROVE  PrivateBound'
    <2>1. /\ emitter'[e].pc = IF cache.ttl > 0 THEN "write" ELSE "cache"
          /\ emitter'[e].list = IF cache.ttl > 0 THEN cache.list ELSE Subscriptions
          /\ \A f \in Emitter \ {e} : emitter'[f] = emitter[f]
      BY <1>0, <1>1 DEF ReadSubscriptions, HookShapes
    <2>2. UNCHANGED <<hook, cache, offFor>>
      BY <1>1 DEF ReadSubscriptions
    <2>3. \A sub \in Subscriptions : sub[2] => hook[sub[1]].private
      BY DEF Subscriptions
    <2>4. cache.ttl > 0 => \A sub \in cache.list : sub[2] =>
              hook[sub[1]].private \/ offFor[sub[1]] < CacheTtl
      BY <1>0 DEF PrivateBound, HookShapes
    <2>5. QED
      BY <1>0, <2>1, <2>2, <2>3, <2>4 DEF PrivateBound
  <1>2. ASSUME NEW e \in Emitter, CacheSubscriptions(e)
        PROVE  PrivateBound'
    <2>1. /\ emitter'[e].pc = "write" /\ emitter'[e].list = emitter[e].list
          /\ \A f \in Emitter \ {e} : emitter'[f] = emitter[f]
      BY <1>0, <1>2 DEF CacheSubscriptions, HookShapes, EmitterRecord
    <2>2. emitter[e].pc = "cache" /\ UNCHANGED <<hook, offFor>>
      BY <1>2 DEF CacheSubscriptions
    <2>3. cache' = cache \/ cache' = [list |-> emitter[e].list, ttl |-> CacheTtl]
      BY <1>2 DEF CacheSubscriptions
    <2>4. \A sub \in emitter[e].list : sub[2] => hook[sub[1]].private \/ offFor[sub[1]] = 0
      BY <1>0, <2>2 DEF PrivateBound
    <2>5. \A sub \in cache'.list : cache'.ttl > 0 /\ sub[2] =>
              hook[sub[1]].private \/ offFor[sub[1]] + cache'.ttl <= CacheTtl
      BY <1>0, <2>3, <2>4 DEF PrivateBound
    <2>6. QED
      BY <1>0, <2>1, <2>2, <2>4, <2>5 DEF PrivateBound
  <1>3. ASSUME NEW e \in Emitter, WriteDeliveries(e)
        PROVE  PrivateBound'
    <2>1. /\ \A f \in Emitter \ {e} : emitter'[f] = emitter[f]
          /\ \/ emitter'[e].pc = "idle"
             \/ /\ emitter'[e].pc = "commit" /\ emitter'[e].kind = emitter[e].kind
                /\ emitter'[e].rows = {<<emitter[e].event, h>> : h \in Targets(e)}
      BY <1>0, <1>3 DEF WriteDeliveries, HookShapes
    <2>2. emitter[e].pc = "write" /\ UNCHANGED <<hook, cache, offFor>>
      BY <1>3 DEF WriteDeliveries
    <2>3. \A sub \in emitter[e].list : sub[2] => hook[sub[1]].private \/ offFor[sub[1]] < CacheTtl
      BY <1>0, <2>2 DEF PrivateBound
    <2>4. emitter[e].kind = "private" =>
              \A h \in Targets(e) : hook[h].private \/ offFor[h] < CacheTtl
      BY <2>3 DEF Targets, Wants
    <2>5. emitter'[e].pc = "commit" /\ emitter'[e].kind = "private" =>
              \A d \in emitter'[e].rows : hook[HookOf(d)].private \/ offFor[HookOf(d)] < CacheTtl
      BY <2>1, <2>4 DEF HookOf
    <2>6. QED
      BY <1>0, <2>1, <2>2, <2>5 DEF PrivateBound
  <1>4. ASSUME NEW e \in Emitter, CommitEmit(e) \/ RollbackEmit(e)
        PROVE  PrivateBound'
    <2>1. /\ \A f \in Emitter \ {e} : emitter'[f] = emitter[f]
          /\ emitter'[e].pc = "idle" /\ UNCHANGED <<hook, cache, offFor>>
      BY <1>0, <1>4 DEF CommitEmit, RollbackEmit, HookShapes
    <2>2. QED
      BY <1>0, <2>1 DEF PrivateBound
  <1>5. ASSUME NEW e \in Emitter, NEW h \in Hook, SendTest(e, h)
        PROVE  PrivateBound'
    <2>1. /\ \A f \in Emitter \ {e} : emitter'[f] = emitter[f]
          /\ emitter'[e].pc = "commit" /\ emitter'[e].kind = "ping"
          /\ UNCHANGED <<hook, cache, offFor>>
      BY <1>0, <1>5 DEF SendTest, HookShapes
    <2>2. QED
      BY <1>0, <2>1 DEF PrivateBound
  <1>6. ASSUME UNCHANGED <<hook, emitter, offFor>>, DropCache
        PROVE  PrivateBound'
    BY <1>0, <1>6 DEF PrivateBound, DropCache, NoCache
  <1>7. CASE CommitEdit
    <2>1. PICK h \in Hook : h = admin.hook
      BY <1>0, <1>7, AdminFields DEF CommitEdit
    <2>2. /\ UNCHANGED <<cache, emitter>>
          /\ \A k \in Hook \ {h} : hook'[k] = hook[k] /\ offFor'[k] = offFor[k]
          /\ hook'[h] = admin.new
          /\ offFor'[h] = IF hook[h].private /\ ~admin.new.private THEN 0 ELSE offFor[h]
      BY <1>0, <1>7, <2>1 DEF CommitEdit, HookShapes
    <2>3. \A k \in Hook : \/ hook'[k].private
                          \/ offFor'[k] = 0
                          \/ ~hook[k].private /\ offFor'[k] = offFor[k]
      BY <2>2
    <2>4. /\ \A sub \in cache.list : sub[1] \in Hook
          /\ \A e \in Emitter : emitter[e].pc \in {"cache", "write"} =>
                \A sub \in emitter[e].list : sub[1] \in Hook
          /\ \A e \in Emitter : emitter[e].pc = "commit" =>
                \A d \in emitter[e].rows : HookOf(d) \in Hook
      BY <1>0, EmitterFields, DeliveryParts DEF HookShapes
    <2>5. \A sub \in cache.list : cache.ttl > 0 /\ sub[2] =>
              hook'[sub[1]].private \/ offFor'[sub[1]] + cache.ttl <= CacheTtl
      BY <1>0, <2>3, <2>4 DEF PrivateBound, HookShapes
    <2>6. \A e \in Emitter : emitter[e].pc = "cache" =>
              \A sub \in emitter[e].list : sub[2] => hook'[sub[1]].private \/ offFor'[sub[1]] = 0
      BY <1>0, <2>3, <2>4 DEF PrivateBound
    <2>7. \A e \in Emitter : emitter[e].pc = "write" =>
              \A sub \in emitter[e].list : sub[2] => hook'[sub[1]].private \/ offFor'[sub[1]] < CacheTtl
      BY <1>0, <2>3, <2>4 DEF PrivateBound
    <2>8. \A e \in Emitter : emitter[e].pc = "commit" /\ emitter[e].kind = "private" =>
              \A d \in emitter[e].rows : hook'[HookOf(d)].private \/ offFor'[HookOf(d)] < CacheTtl
      BY <1>0, <2>3, <2>4 DEF PrivateBound
    <2>9. QED
      BY <2>2, <2>5, <2>6, <2>7, <2>8 DEF PrivateBound
  <1>8. CASE HookTick
    <2>1. /\ \A e \in Emitter : emitter'[e].pc = "idle"
          /\ hook' = hook
          /\ cache' = NoCache \/ (cache.ttl > 1 /\ cache' = [cache EXCEPT !.ttl = @ - 1])
          /\ \A h \in Hook : offFor[h] < CacheTtl => offFor'[h] = offFor[h] + 1
      BY <1>0, <1>8 DEF HookTick, HookShapes
    <2>2. \A sub \in cache'.list : cache'.ttl > 0 /\ sub[2] =>
              hook[sub[1]].private \/ offFor'[sub[1]] + cache'.ttl <= CacheTtl
      <3>1. CASE cache' = NoCache
        BY <3>1 DEF NoCache
      <3>2. CASE cache.ttl > 1 /\ cache' = [cache EXCEPT !.ttl = @ - 1]
        <4>1. cache'.list = cache.list /\ cache'.ttl = cache.ttl - 1 /\ cache.ttl \in Nat
          BY <1>0, <3>2 DEF HookShapes
        <4> SUFFICES ASSUME NEW sub \in cache.list, sub[2], ~hook[sub[1]].private
                     PROVE  offFor'[sub[1]] + cache'.ttl <= CacheTtl
          BY <4>1
        <4>2. sub[1] \in Hook /\ offFor[sub[1]] \in Nat
          BY <1>0 DEF HookShapes
        <4>3. offFor[sub[1]] + cache.ttl <= CacheTtl
          BY <1>0, <3>2, <4>1 DEF PrivateBound
        <4>4. QED
          BY <2>1, <3>2, <4>1, <4>2, <4>3
      <3>3. QED
        BY <2>1, <3>1, <3>2
    <2>3. QED
      BY <2>1, <2>2 DEF PrivateBound
  <1>9. CASE UNCHANGED <<hook, cache, emitter, offFor>>
    BY <1>0, <1>9 DEF PrivateBound
  <1>10. QED
    BY <1>1, <1>2, <1>3, <1>4, <1>5, <1>6, <1>7, <1>8, <1>9
    DEF HookNext, HookAction, EmitGoesOn, SenderStep, BeginEdit, DropAgain, SendRequest,
        SaveAttempt, CrashSender, TakeMessage, LoseMessage, Sweep, Purge

-----------------------------------------------------------------------------
(* The theorems.                                                           *)

\* No delivery, message or request at the start.
LEMMA InitSatisfiesHookInv ==
    ASSUME HookInit
    PROVE  HookInv
  <1> USE WebhooksAssumption
  <1>1. HookShapes
    <2>1. NoDelivery \in DeliveryRecord /\ [pc |-> "idle"] \in SenderRecord
             /\ [pc |-> "idle"] \in EmitterRecord
             /\ NoCache \in [list : SUBSET (Hook \X BOOLEAN), ttl : 0..CacheTtl]
      BY DEF NoDelivery, DeliveryRecord, SenderRecord, EmitterRecord, NoCache
    <2>2. hook \in [Hook -> HookRecord]
      BY DEF HookInit, HookRecord
    <2>3. QED
      BY <2>1, <2>2 DEF HookInit, HookShapes
  <1>2. RowsSound
    BY DEF HookInit, RowsSound, NoDelivery, Settled
  <1>3. EventsFresh
    BY DEF HookInit, EventsFresh, EventsOf, Untouched, NoDelivery
  <1>4. SendersHold
    BY DEF HookInit, SendersHold, OneSenderPerDelivery
  <1>5. Counted
    BY DEF HookInit, Counted, NoDelivery
  <1>6. PrivateBound
    BY DEF HookInit, PrivateBound, NoCache
  <1>7. QED
    BY <1>1, <1>2, <1>3, <1>4, <1>5, <1>6 DEF HookInv

\* The inductive invariant of emitting, delivering and editing webhooks.
THEOREM HookInvariant == HookSpec => []HookInv
  <1>1. HookInit => HookInv
    BY InitSatisfiesHookInv
  <1>2. HookInv /\ [HookNext]_hookVars => HookInv'
    <2> SUFFICES ASSUME HookInv, [HookNext]_hookVars
                 PROVE  HookInv'
      OBVIOUS
    <2>1. CASE HookNext
      BY <2>1, ShapesKept, RowsKept, EventsKept, SendersKept, CountsKept, PrivateKept DEF HookInv
    <2>2. CASE UNCHANGED hookVars
      <3>1. HookShapes' /\ RowsSound'
        BY <2>2 DEF HookInv, hookVars, HookShapes, RowsSound
      <3>2. EventsFresh'
        BY <2>2 DEF HookInv, hookVars, EventsFresh, EventsOf, Untouched
      <3>3. SendersHold' /\ Counted'
        BY <2>2 DEF HookInv, hookVars, SendersHold, OneSenderPerDelivery, Counted, Savers
      <3>4. PrivateBound'
        BY <2>2 DEF HookInv, hookVars, PrivateBound
      <3>5. QED
        BY <3>1, <3>2, <3>3, <3>4 DEF HookInv
    <2>3. QED
      BY <2>1, <2>2
  <1>3. QED
    BY <1>1, <1>2, PTL DEF HookSpec

\* Webhooks, rows, messages and workers keep their shapes.
THEOREM WebhooksTypeCorrect == HookSpec => []HookTypeOK
  <1>1. HookInv => HookTypeOK
    BY SenderFields DEF HookInv, HookTypeOK, HookShapes, DeliveryRecord
  <1>2. QED
    BY <1>1, HookInvariant, PTL

\* deliver, the row lock with skip_locked: two workers never work on the same
\* delivery.
THEOREM OneSender == HookSpec => []OneSenderPerDelivery
  <1>1. HookInv => OneSenderPerDelivery
    BY DEF HookInv, SendersHold
  <1>2. QED
    BY <1>1, HookInvariant, PTL

\* A receiver is sent no more requests than the row counts, plus those a crash
\* kept from being recorded and the one under way.
THEOREM SendsCounted == HookSpec => []SendsAreCounted
  <1>1. HookInv => SendsAreCounted
    <2> SUFFICES ASSUME HookInv, NEW d \in Delivery, delivery[d].status # "none"
                 PROVE  sends[d] <= delivery[d].attempts + hookFaults + Cardinality(Savers(d))
      BY DEF SendsAreCounted, Savers
    <2>1. sends[d] <= delivery[d].attempts + hookFaults + IF Savers(d) = {} THEN 0 ELSE 1
      BY DEF HookInv, Counted
    <2>2. \A v, w \in Savers(d) : v = w
      BY DEF HookInv, SendersHold, OneSenderPerDelivery, Savers
    <2>3. CASE Savers(d) = {}
      BY <2>1, <2>3, FS_EmptySet
    <2>4. CASE Savers(d) # {}
      <3>1. PICK w : Savers(d) = {w}
        BY <2>2, <2>4
      <3>2. Cardinality(Savers(d)) = 1
        BY <3>1, FS_Singleton
      <3>3. QED
        BY <2>1, <2>4, <3>2
    <2>5. QED
      BY <2>3, <2>4
  <1>2. QED
    BY <1>1, HookInvariant, PTL

\* A settled delivery stays as it is until the purge, and is not sent again.
THEOREM SettledStaysSettled == HookSpec => SettledIsFinal
  <1>1. ASSUME HookInv, [HookNext]_hookVars
        PROVE  [\A d \in Delivery : delivery[d].status \in Settled =>
                   /\ delivery'[d] \in {delivery[d], NoDelivery}
                   /\ sends'[d] = sends[d]]_hookVars
    <2> SUFFICES ASSUME HookNext, NEW d \in Delivery, delivery[d].status \in Settled
                 PROVE  delivery'[d] \in {delivery[d], NoDelivery} /\ sends'[d] = sends[d]
      BY <1>1
    <2>0. HookShapes /\ RowsSound /\ SendersHold /\ EventsFresh
      BY <1>1 DEF HookInv
    <2>1. \A w \in Sender : sender[w].pc # "idle" => sender[w].d # d
      BY <2>0 DEF SendersHold, Settled
    <2>2. \A e \in Emitter : CommitEmit(e) => d \notin emitter[e].rows
      BY <2>0, UncommittedRows DEF Settled, CommitEmit
    <2>3. delivery'[d] \in {delivery[d], NoDelivery}
      BY <2>0, <2>1, <2>2, RowSteps DEF Settled, SaveAttempt
    <2>4. ASSUME NEW w \in Sender, SendRequest(w)
          PROVE  sends'[d] = sends[d]
      BY <2>0, <2>1, <2>4 DEF SendRequest, HookShapes
    <2>5. sends'[d] = sends[d]
      BY <2>4 DEF HookNext, HookAction, EmitGoesOn, SenderStep, ReadSubscriptions,
         CacheSubscriptions, WriteDeliveries, CommitEmit, RollbackEmit, SendTest, BeginEdit,
         CommitEdit, DropAgain, SaveAttempt, CrashSender, TakeMessage, LoseMessage, Sweep,
         Purge, HookTick
    <2>6. QED
      BY <2>3, <2>5
  <1>2. QED
    BY <1>1, HookInvariant, PTL DEF HookSpec, SettledIsFinal

\* Private content is written only for webhooks that include it, or did less
\* than the cache's time to live ago, however edits, drops and readers overlap.
THEOREM PrivateStaysWithinTtl == HookSpec => PrivateWithinTtl
  <1>1. ASSUME HookInv, [HookNext]_hookVars
        PROVE  [\A d \in Delivery :
                   delivery[d].status = "none" /\ delivery'[d].status = "pending"
                      /\ delivery'[d].kind = "private"
                   => hook[HookOf(d)].private \/ offFor[HookOf(d)] < CacheTtl]_hookVars
    <2> SUFFICES ASSUME HookNext, NEW d \in Delivery, delivery[d].status = "none",
                        delivery'[d].status = "pending", delivery'[d].kind = "private"
                 PROVE  hook[HookOf(d)].private \/ offFor[HookOf(d)] < CacheTtl
      BY <1>1
    <2>0. HookShapes /\ RowsSound /\ SendersHold /\ PrivateBound
      BY <1>1 DEF HookInv
    <2>1. PICK e \in Emitter : CommitEmit(e) /\ d \in emitter[e].rows
      BY <2>0, RowSteps DEF SendersHold, SaveAttempt, NoDelivery
    <2>2. delivery'[d] = Pending(emitter[e].kind) /\ emitter[e].pc = "commit"
      BY <2>1 DEF CommitEmit
    <2>3. emitter[e].kind = "private"
      BY <2>2 DEF Pending
    <2>4. QED
      BY <2>0, <2>1, <2>2, <2>3 DEF PrivateBound
  <1>2. QED
    BY <1>1, HookInvariant, PTL DEF HookSpec, PrivateWithinTtl

=============================================================================
