----------------------- MODULE RepositoryHooksProofs -----------------------
(***************************************************************************)
(* Proofs about RepositoryHooks, for any number of issues and workers, any *)
(* length of the forge's history and any budget of faults.                 *)
(***************************************************************************)
EXTENDS RepositoryHooks, TLAPS

-----------------------------------------------------------------------------
(* The inductive invariant.                                                *)

RequestStates == {"none", "open", "closed", "merged"}

PostRecord ==
    [kind : {"pull_request"}, action : {"opened", "closed", "edited", "reopened"},
     state : RequestStates \ {"none"}, text : Texts, at : Nat]
       \union [kind : {"push"}, text : Texts]

LinkRecord ==
    [on : BOOLEAN, closing : BOOLEAN, qualified : BOOLEAN, handled : BOOLEAN, refused : BOOLEAN]

HandRecord ==
    [pc : {"idle"}]
       \union [pc : {"start", "upsert"}, e : 1..MaxPosts, holds : SUBSET Target]
       \union [pc : {"automate"}, e : 1..MaxPosts, holds : SUBSET Target,
               stored : [state : RequestStates, at : Nat], links : [Target -> LinkRecord]]
       \union [pc : {"link"}, e : 1..MaxPosts, holds : SUBSET Target, new : SUBSET Target]

RepoShapes ==
    /\ repoBudget \in RepoBudgets
    /\ forge \in [state : RequestStates, text : Texts, at : Nat]
    /\ post \in Seq(PostRecord) /\ Len(post) <= MaxPosts
    /\ inbox \in [1..MaxPosts -> {"none", "accepted", "processed", "ignored", "failed"}]
    /\ \A e \in 1..MaxPosts : inbox[e] # "none" => e \in Post
    /\ tasks \subseteq Post
    /\ hand \in [Processor -> HandRecord]
    /\ \A w \in Processor : hand[w].pc # "idle" => hand[w].e \in Post
    /\ stored \in [state : RequestStates, at : Nat]
    /\ link \in [Target -> LinkRecord]
    /\ commitOn \subseteq Target
    /\ moves \in [Target -> Nat] /\ notes \in [Target -> Nat] /\ commands \in [Target -> Nat]

IsRequest(e) == post[e].kind = "pull_request"

\* The forge's events are in the order of its time, and nothing leads away from
\* a merge.
PostsOrdered ==
    /\ \A e \in Post : IsRequest(e) =>
          post[e].at <= forge.at /\ (post[e].state = "merged" => forge.state = "merged")
    /\ \A d, e \in Post : d < e /\ IsRequest(d) /\ IsRequest(e) =>
          post[d].at <= post[e].at /\ (post[d].state = "merged" => post[e].state = "merged")

\* A stored request is what some event said.
FromPost(req) ==
    IF req.state = "none" THEN req.at = 0
    ELSE \E e \in Post : IsRequest(e) /\ post[e].state = req.state /\ post[e].at = req.at

\* Some merge event's text fixes the issue.
MergeFixes(i) == \E e \in MergePosts : post[e].text[i] = "fixes"

LinksSound(links) ==
    \A i \in Target : /\ ~links[i].on => links[i] = NoLink
                      /\ links[i].qualified => MergeFixes(i)

\* A worker between the upsert and the commit holds the request's row alone, so
\* what it computed from the stored request and links still follows them.
Follows(w) ==
    /\ hand[w].stored.at >= stored.at
    /\ stored.state = "merged" => hand[w].stored.state = "merged"
    /\ \A i \in Target : /\ hand[w].links[i].handled = link[i].handled
                         /\ hand[w].links[i].refused = link[i].refused
    /\ hand[w].e \in MergePosts =>
          /\ hand[w].stored.state = "merged"
          /\ \A i \in Target : post[hand[w].e].text[i] = "fixes" =>
                hand[w].links[i].closing /\ hand[w].links[i].qualified

HandsHold ==
    /\ \A w \in Processor : hand[w].pc \in {"upsert", "automate"} => IsRequest(hand[w].e)
    /\ \A w \in Processor : hand[w].pc = "link" =>
          ~IsRequest(hand[w].e) /\ hand[w].new \intersect commitOn = {}
    /\ \A v, w \in Processor : hand[v].pc = hand[w].pc /\ hand[v].pc \in {"automate", "link"} => v = w
    /\ \A w \in Processor : hand[w].pc = "automate" =>
          FromPost(hand[w].stored) /\ LinksSound(hand[w].links) /\ Follows(w)

\* What was done for an issue is on record, and so is done once.
OnRecord ==
    /\ FromPost(stored) /\ LinksSound(link)
    /\ \A i \in Target :
          /\ moves[i] <= 1 /\ (moves[i] > 0 => link[i].handled /\ MergeFixes(i))
          /\ notes[i] <= 1 /\ (notes[i] > 0 => link[i].refused)
          /\ commands[i] <= 1 /\ (commands[i] > 0 => i \in commitOn)

RepoInv == RepoShapes /\ PostsOrdered /\ HandsHold /\ OnRecord /\ MergeIsActedOn

-----------------------------------------------------------------------------
(* The forge's history grows.                                              *)

\* What the record of a worker holds at each step of process_delivery.
LEMMA HandFields ==
    ASSUME RepoShapes, NEW w \in Processor
    PROVE  /\ hand[w].pc \in {"idle", "start", "upsert", "automate", "link"}
           /\ hand[w].pc # "idle" => /\ hand[w].e \in Post /\ hand[w].e \in 1..MaxPosts
                                     /\ hand[w].holds \in SUBSET Target
           /\ hand[w].pc = "automate" => /\ hand[w].stored \in [state : RequestStates, at : Nat]
                                         /\ hand[w].links \in [Target -> LinkRecord]
           /\ hand[w].pc = "link" => hand[w].new \in SUBSET Target
  BY DEF RepoShapes, HandRecord

\* What an event about the request says.
LEMMA PostFields ==
    ASSUME RepoShapes, NEW e \in Post
    PROVE  /\ post[e].kind \in {"pull_request", "push"} /\ post[e].text \in Texts
           /\ IsRequest(e) => /\ post[e].state \in RequestStates \ {"none"} /\ post[e].at \in Nat
                              /\ post[e].action \in {"opened", "closed", "edited", "reopened"}
  <1>1. post[e] \in PostRecord
    BY DEF RepoShapes, Post
  <1>2. QED
    BY <1>1 DEF PostRecord, IsRequest

\* Appending an event leaves the others where they are.
LEMMA PostGrows ==
    ASSUME RepoShapes, NEW rec \in PostRecord, post' = Append(post, rec)
    PROVE  /\ post' \in Seq(PostRecord) /\ Len(post') = Len(post) + 1
           /\ Post' = Post \union {Len(post) + 1} /\ Post \subseteq Nat
           /\ \A e \in Post : post'[e] = post[e] /\ e < Len(post) + 1
           /\ post'[Len(post) + 1] = rec
  <1>1. post \in Seq(PostRecord) /\ Len(post) \in Nat
    BY DEF RepoShapes
  <1>2. post' \in Seq(PostRecord) /\ Len(post') = Len(post) + 1
    BY <1>1
  <1>3. \A e \in 1..Len(post) : post'[e] = post[e]
    BY <1>1
  <1>4. post'[Len(post) + 1] = rec
    BY <1>1
  <1>5. QED
    BY <1>1, <1>2, <1>3, <1>4 DEF Post

\* What the forge has said is not unsaid: facts about past events hold on.
LEMMA PastHolds ==
    ASSUME RepoShapes, Post \subseteq Post', \A e \in Post : post'[e] = post[e]
    PROVE  /\ MergePosts \subseteq MergePosts'
           /\ \A i \in Target : MergeFixes(i) => MergeFixes(i)'
  <1>1. \A e \in MergePosts : e \in MergePosts' /\ post'[e] = post[e]
    BY DEF MergePosts, IsMergeEvent
  <1>2. QED
    BY <1>1 DEF MergeFixes

\* A new event keeps the invariant, if it is not older than the forge's time and
\* does not lead away from a merge.
LEMMA NewPostKeepsInv ==
    ASSUME RepoInv, NEW rec \in PostRecord, post' = Append(post, rec),
           Len(post) < MaxPosts,
           forge' \in [state : RequestStates, text : Texts, at : Nat],
           forge'.at >= forge.at, forge.state = "merged" => forge'.state = "merged",
           rec.kind = "pull_request" => rec.at = forge'.at /\ rec.state = forge'.state,
           UNCHANGED <<inbox, tasks, hand, stored, link, commitOn, moves, notes, commands, repoBudget>>
    PROVE  RepoInv'
  <1> USE RepositoryHooksAssumption
  <1>0. RepoShapes /\ PostsOrdered /\ HandsHold /\ OnRecord /\ MergeIsActedOn
    BY DEF RepoInv
  <1> DEFINE n == Len(post) + 1
  <1>1. /\ post' \in Seq(PostRecord) /\ Len(post') = n
        /\ Post' = Post \union {n} /\ Post \subseteq Nat
        /\ \A e \in Post : post'[e] = post[e] /\ e < n
        /\ post'[n] = rec
    BY <1>0, PostGrows
  <1>2. n \in 1..MaxPosts /\ n \notin Post
    BY <1>0, <1>1 DEF RepoShapes
  <1>3. inbox[n] = "none"
    BY <1>0, <1>2 DEF RepoShapes
  <1> HIDE DEF n
  <1>4. RepoShapes'
    BY <1>0, <1>1, <1>2 DEF RepoShapes
  <1>5. PostsOrdered'
    <2>1. \A e \in Post : IsRequest(e) => post[e].at \in Nat
      BY <1>0, PostFields
    <2>2. forge.at \in Nat /\ forge'.at \in Nat
      BY <1>0 DEF RepoShapes
    <2>3. \A e \in Post : IsRequest(e) =>
              post[e].at <= forge'.at /\ (post[e].state = "merged" => forge'.state = "merged")
      BY <1>0, <2>1, <2>2 DEF PostsOrdered
    <2>4. ASSUME NEW e \in Post', IsRequest(e)'
          PROVE  post'[e].at <= forge'.at /\ (post'[e].state = "merged" => forge'.state = "merged")
      <3>1. CASE e \in Post
        <4>1. IsRequest(e) /\ post'[e] = post[e]
          BY <1>1, <2>4, <3>1 DEF IsRequest
        <4>2. QED
          BY <2>3, <3>1, <4>1
      <3>2. CASE e = n
        BY <1>1, <2>2, <2>4, <3>2 DEF IsRequest
      <3>3. QED
        BY <1>1, <3>1, <3>2
    <2>5. ASSUME NEW d \in Post', NEW e \in Post', d < e, IsRequest(d)', IsRequest(e)'
          PROVE  post'[d].at <= post'[e].at /\ (post'[d].state = "merged" => post'[e].state = "merged")
      <3>1. d \in Post
        <4>1. n \in Nat
          BY <1>2
        <4>2. d # n
          BY <1>1, <2>5, <4>1
        <4>3. QED
          BY <1>1, <4>2
      <3>2. IsRequest(d) /\ post'[d] = post[d]
        BY <1>1, <2>5, <3>1 DEF IsRequest
      <3>3. CASE e \in Post
        <4>1. IsRequest(e) /\ post'[e] = post[e]
          BY <1>1, <2>5, <3>3 DEF IsRequest
        <4>2. QED
          BY <1>0, <2>5, <3>1, <3>2, <3>3, <4>1 DEF PostsOrdered
      <3>4. CASE e = n
        BY <1>1, <2>3, <2>5, <3>1, <3>2, <3>4 DEF IsRequest
      <3>5. QED
        BY <1>1, <3>3, <3>4
    <2>6. QED
      BY <2>4, <2>5 DEF PostsOrdered
  <1>6. \A i \in Target : MergeFixes(i) => MergeFixes(i)'
    BY <1>0, <1>1, PastHolds
  <1>7. ASSUME NEW req, FromPost(req)
        PROVE  req.state # "none" =>
                  \E e \in Post' : IsRequest(e)' /\ post'[e].state = req.state /\ post'[e].at = req.at
    <2> SUFFICES ASSUME req.state # "none"
                 PROVE  \E e \in Post' : IsRequest(e)' /\ post'[e].state = req.state /\ post'[e].at = req.at
      OBVIOUS
    <2>1. PICK e \in Post : IsRequest(e) /\ post[e].state = req.state /\ post[e].at = req.at
      BY <1>7 DEF FromPost
    <2>2. e \in Post' /\ post'[e] = post[e]
      BY <1>1
    <2>3. QED
      BY <2>1, <2>2 DEF IsRequest
  <1>8. HandsHold'
    <2>1. \A w \in Processor : hand[w].pc # "idle" => hand[w].e \in Post
      BY <1>0 DEF RepoShapes
    <2>2. /\ \A w \in Processor : hand[w].pc \in {"upsert", "automate"} => IsRequest(hand[w].e)'
          /\ \A w \in Processor : hand[w].pc = "link" =>
                ~IsRequest(hand[w].e)' /\ hand[w].new \intersect commitOn = {}
      BY <1>0, <1>1, <2>1 DEF HandsHold, IsRequest
    <2>3. \A w \in Processor : hand[w].pc = "automate" =>
              FromPost(hand[w].stored)' /\ LinksSound(hand[w].links)'
      <3> SUFFICES ASSUME NEW w \in Processor, hand[w].pc = "automate"
                   PROVE  FromPost(hand[w].stored)' /\ LinksSound(hand[w].links)'
        OBVIOUS
      <3>1. FromPost(hand[w].stored) /\ LinksSound(hand[w].links)
        BY <1>0 DEF HandsHold
      <3>2. FromPost(hand[w].stored)'
        BY <1>7, <3>1 DEF FromPost
      <3>3. LinksSound(hand[w].links)'
        BY <1>6, <3>1 DEF LinksSound
      <3>4. QED
        BY <3>2, <3>3
    <2>4. \A w \in Processor : hand[w].pc = "automate" => Follows(w)'
      <3> SUFFICES ASSUME NEW w \in Processor, hand[w].pc = "automate"
                   PROVE  Follows(w)'
        OBVIOUS
      <3>1. hand[w].e \in Post /\ Follows(w)
        BY <1>0, <2>1 DEF HandsHold
      <3>2. post'[hand[w].e] = post[hand[w].e] /\ (hand[w].e \in MergePosts' => hand[w].e \in MergePosts)
        BY <1>1, <3>1 DEF MergePosts, IsMergeEvent
      <3>3. QED
        BY <3>1, <3>2 DEF Follows
    <2>5. QED
      BY <1>0, <2>2, <2>3, <2>4 DEF HandsHold
  <1>9. OnRecord'
    BY <1>0, <1>6, <1>7 DEF OnRecord, FromPost, LinksSound
  <1>10. MergeIsActedOn'
    <2>1. \A e \in MergePosts' : inbox[e] = "processed" => e \in MergePosts /\ post'[e] = post[e]
      <3> SUFFICES ASSUME NEW e \in MergePosts', inbox[e] = "processed"
                   PROVE  e \in MergePosts /\ post'[e] = post[e]
        OBVIOUS
      <3>1. e \in Post' /\ e # n
        BY <1>3 DEF MergePosts
      <3>2. e \in Post /\ post'[e] = post[e]
        BY <1>1, <3>1
      <3>3. QED
        BY <3>2 DEF MergePosts, IsMergeEvent
    <2> SUFFICES ASSUME NEW e \in MergePosts', inbox[e] = "processed",
                        NEW i \in Target, post'[e].text[i] = "fixes"
                 PROVE  link[i].handled \/ link[i].refused
      BY DEF MergeIsActedOn
    <2>2. e \in MergePosts /\ post[e].text[i] = "fixes"
      BY <2>1
    <2>3. QED
      BY <1>0, <2>2 DEF MergeIsActedOn
  <1>11. QED
    BY <1>4, <1>5, <1>8, <1>9, <1>10 DEF RepoInv

\* ForgeEvent and ForgePush are such events.
LEMMA ForgeKeepsInv ==
    ASSUME RepoInv, ForgeEvent \/ ForgePush, UNCHANGED repoBudget
    PROVE  RepoInv'
  <1> USE RepositoryHooksAssumption
  <1>0. RepoShapes
    BY DEF RepoInv
  <1>1. Len(post) < MaxPosts
    <2>1. repoBudget.posts \in 0..MaxPosts /\ Len(post) \in Nat
      BY <1>0 DEF RepoShapes
    <2>2. QED
      BY <2>1 DEF ForgeEvent, ForgePush
  <1>2. CASE ForgePush
    <2>1. [kind |-> "push", text |-> forge.text] \in PostRecord
      BY <1>0 DEF RepoShapes, PostRecord
    <2>2. /\ post' = Append(post, [kind |-> "push", text |-> forge.text]) /\ forge' = forge
          /\ UNCHANGED <<inbox, tasks, hand, stored, link, commitOn, moves, notes, commands, repoBudget>>
      BY <1>2 DEF ForgePush, theLinks
    <2>3. forge' \in [state : RequestStates, text : Texts, at : Nat] /\ forge'.at >= forge.at
      BY <1>0, <2>2 DEF RepoShapes
    <2>4. [kind |-> "push", text |-> forge.text].kind # "pull_request"
      OBVIOUS
    <2>5. QED
      BY <1>1, <2>1, <2>2, <2>3, <2>4, NewPostKeepsInv
  <1>3. CASE ForgeEvent
    <2>1. PICK h \in Happenings :
              /\ forge' = [state |-> h.state, text |-> h.text, at |-> forge.at + repoBudget.pace]
              /\ post' = Append(post, [kind |-> "pull_request", action |-> h.action,
                                       state |-> h.state, text |-> h.text,
                                       at |-> forge.at + repoBudget.pace])
      BY <1>3 DEF ForgeEvent
    <2>2. forge.text \in Texts /\ forge.state \in RequestStates /\ forge.at \in Nat /\ repoBudget.pace \in {0, 1}
      BY <1>0 DEF RepoShapes
    <2>3. /\ h.action \in {"opened", "closed", "edited", "reopened"} /\ h.state \in RequestStates \ {"none"}
          /\ h.text \in Texts /\ (forge.state = "merged" => h.state = "merged")
      BY <2>2 DEF Happenings, RequestStates
    <2>4. forge.at + repoBudget.pace \in Nat /\ forge.at + repoBudget.pace >= forge.at
      BY <2>2
    <2>5. [kind |-> "pull_request", action |-> h.action, state |-> h.state, text |-> h.text,
           at |-> forge.at + repoBudget.pace] \in PostRecord
      BY <2>3, <2>4 DEF PostRecord
    <2>6. forge' \in [state : RequestStates, text : Texts, at : Nat]
      BY <2>1, <2>3, <2>4
    <2>7. UNCHANGED <<inbox, tasks, hand, stored, link, commitOn, moves, notes, commands, repoBudget>>
      BY <1>3 DEF ForgeEvent, theLinks
    <2>8. QED
      BY <1>1, <2>1, <2>3, <2>4, <2>5, <2>6, <2>7, NewPostKeepsInv
  <1>4. QED
    BY <1>2, <1>3

-----------------------------------------------------------------------------
(* Steps that store nothing.                                               *)

\* A step that stores nothing about the request, the links or the commit.
LEMMA NothingStored ==
    ASSUME RepoInv,
           UNCHANGED <<forge, post, stored, link, commitOn, moves, notes, commands, repoBudget>>,
           inbox' \in [1..MaxPosts -> {"none", "accepted", "processed", "ignored", "failed"}],
           \A e \in 1..MaxPosts : inbox'[e] # "none" => e \in Post,
           \A e \in MergePosts : inbox'[e] = "processed" => inbox[e] = "processed",
           tasks' \subseteq Post,
           hand' \in [Processor -> HandRecord],
           \A w \in Processor : hand'[w].pc # "idle" => hand'[w].e \in Post,
           HandsHold'
    PROVE  RepoInv'
  <1>0. RepoShapes /\ PostsOrdered /\ OnRecord /\ MergeIsActedOn
    BY DEF RepoInv
  <1>1. RepoShapes'
    BY <1>0 DEF RepoShapes, Post
  <1>2. PostsOrdered'
    BY <1>0 DEF PostsOrdered, Post, IsRequest
  <1>3. OnRecord'
    BY <1>0 DEF OnRecord, FromPost, LinksSound, MergeFixes, MergePosts, IsMergeEvent, Post, IsRequest
  <1>4. MergeIsActedOn'
    <2>1. MergePosts' = MergePosts
      BY DEF MergePosts, IsMergeEvent, Post
    <2>2. QED
      BY <1>0, <2>1 DEF MergeIsActedOn
  <1>5. QED
    BY <1>1, <1>2, <1>3, <1>4 DEF RepoInv

\* The endpoint, the broker, the sweeper, the purge and people: they leave the
\* workers alone, and none of them calls a delivery processed.
LEMMA OutsideStepKeepsInv ==
    ASSUME RepoInv, UNCHANGED repoBudget,
           \/ \E e \in Post : Receive(e) \/ Redeliver(e) \/ LoseTask(e) \/ PurgeInbox(e)
           \/ SweepInbox
           \/ \E i \in Target : ReopenIssue(i)
           \/ GrantTransition \/ SwitchIntegration
    PROVE  RepoInv'
  <1> USE RepositoryHooksAssumption
  <1>0. RepoShapes /\ HandsHold
    BY DEF RepoInv
  <1>1. /\ UNCHANGED <<forge, post, stored, link, commitOn, moves, notes, commands, repoBudget>>
        /\ hand' = hand
    BY DEF Receive, Redeliver, LoseTask, PurgeInbox, SweepInbox, ReopenIssue, GrantTransition,
           SwitchIntegration, theForge, theLinks
  <1>2. tasks' \subseteq Post
    BY <1>0 DEF Receive, Redeliver, LoseTask, PurgeInbox, SweepInbox, ReopenIssue,
           GrantTransition, SwitchIntegration, Queue, RepoShapes
  <1>3. \/ inbox' = inbox
        \/ \E e \in Post : inbox' = [inbox EXCEPT ![e] = "accepted"]
        \/ \E e \in Post : inbox' = [inbox EXCEPT ![e] = "none"]
    BY DEF Receive, Redeliver, LoseTask, PurgeInbox, SweepInbox, ReopenIssue, GrantTransition,
           SwitchIntegration
  <1>4. /\ inbox' \in [1..MaxPosts -> {"none", "accepted", "processed", "ignored", "failed"}]
        /\ \A e \in 1..MaxPosts : inbox'[e] # "none" => e \in Post
        /\ \A e \in 1..MaxPosts : inbox'[e] = "processed" => inbox[e] = "processed"
    BY <1>0, <1>3 DEF RepoShapes
  <1>5. MergePosts \subseteq 1..MaxPosts
    BY <1>0 DEF MergePosts, Post, RepoShapes
  <1>6. HandsHold'
    <2>1. /\ \A w \in Processor : hand[w].pc = "automate" =>
                FromPost(hand[w].stored)' /\ LinksSound(hand[w].links)'
      BY <1>0, <1>1 DEF HandsHold, FromPost, LinksSound, MergeFixes, MergePosts,
         IsMergeEvent, Post, IsRequest
    <2>2. \A w \in Processor : hand[w].pc = "automate" => Follows(w)'
      BY <1>0, <1>1 DEF HandsHold, Follows, MergePosts, IsMergeEvent, Post
    <2>3. QED
      BY <1>0, <1>1, <2>1, <2>2 DEF HandsHold, IsRequest
  <1>7. /\ hand' \in [Processor -> HandRecord]
        /\ \A w \in Processor : hand'[w].pc # "idle" => hand'[w].e \in Post
    BY <1>0, <1>1 DEF RepoShapes
  <1>8. QED
    BY <1>1, <1>2, <1>4, <1>5, <1>6, <1>7, NothingStored

\* What a worker has computed and not committed still follows what is stored
\* when another worker goes on.
LEMMA OthersFollow ==
    ASSUME RepoInv, NEW w \in Processor, NEW new \in HandRecord,
           hand' = [hand EXCEPT ![w] = new],
           UNCHANGED <<post, stored, link, commitOn>>,
           new.pc # "idle" => new.e \in Post,
           new.pc \in {"upsert", "automate"} => IsRequest(new.e),
           new.pc = "link" => ~IsRequest(new.e) /\ new.new \intersect commitOn = {},
           new.pc \in {"automate", "link"} => \A v \in Processor \ {w} : hand[v].pc # new.pc,
           new.pc = "automate" => FromPost(new.stored) /\ LinksSound(new.links) /\ Follows(w)'
    PROVE  /\ HandsHold' /\ hand' \in [Processor -> HandRecord]
           /\ \A v \in Processor : hand'[v].pc # "idle" => hand'[v].e \in Post
  <1>0. RepoShapes /\ HandsHold
    BY DEF RepoInv
  <1>1. hand'[w] = new /\ \A v \in Processor \ {w} : hand'[v] = hand[v]
    BY <1>0 DEF RepoShapes
  <1>2. hand' \in [Processor -> HandRecord] /\ \A v \in Processor : hand'[v].pc # "idle" => hand'[v].e \in Post
    BY <1>0, <1>1 DEF RepoShapes
  <1>3. /\ \A v \in Processor : hand'[v].pc \in {"upsert", "automate"} => IsRequest(hand'[v].e)
        /\ \A v \in Processor : hand'[v].pc = "link" =>
              ~IsRequest(hand'[v].e) /\ hand'[v].new \intersect commitOn = {}
        /\ \A u, v \in Processor : hand'[u].pc = hand'[v].pc /\ hand'[u].pc \in {"automate", "link"} => u = v
    BY <1>0, <1>1 DEF HandsHold
  <1>4. \A v \in Processor : hand'[v].pc = "automate" =>
            FromPost(hand'[v].stored) /\ LinksSound(hand'[v].links)
    BY <1>0, <1>1 DEF HandsHold
  <1>5. \A v \in Processor : hand'[v].pc = "automate" => Follows(v)'
    <2> SUFFICES ASSUME NEW v \in Processor \ {w}, hand[v].pc = "automate"
                 PROVE  Follows(v)'
      BY <1>1
    <2>1. Follows(v)
      BY <1>0 DEF HandsHold
    <2>2. QED
      BY <1>1, <2>1 DEF Follows, MergePosts, IsMergeEvent, Post
  <1>6. \A v \in Processor : hand'[v].pc = "automate" =>
            FromPost(hand[v].stored)' /\ LinksSound(hand[v].links)'
    BY <1>4 DEF FromPost, LinksSound, MergeFixes, MergePosts, IsMergeEvent, Post, IsRequest
  <1>7. HandsHold'
    BY <1>3, <1>5, <1>6 DEF HandsHold, IsRequest
  <1>8. QED
    BY <1>2, <1>7

-----------------------------------------------------------------------------
(* Steps of process_delivery that commit nothing.                          *)

\* A worker takes a message, ends without having stored anything, or goes on to
\* lock issues; it calls no merge processed.
LEMMA PlainHandStepKeepsInv ==
    ASSUME RepoInv, UNCHANGED repoBudget, NEW w \in Processor, NEW new \in HandRecord,
           hand' = [hand EXCEPT ![w] = new], new.pc \in {"idle", "start", "upsert"},
           new.pc # "idle" => new.e \in Post,
           new.pc = "upsert" => IsRequest(new.e),
           UNCHANGED <<forge, post, stored, link, commitOn, moves, notes, commands>>,
           tasks' \subseteq tasks,
           \/ inbox' = inbox
           \/ /\ hand[w].pc # "idle"
              /\ \E outcome \in {"processed", "ignored", "failed"} :
                    /\ inbox' = [inbox EXCEPT ![hand[w].e] = outcome]
                    /\ outcome = "processed" => hand[w].e \notin MergePosts
    PROVE  RepoInv'
  <1> USE RepositoryHooksAssumption
  <1>0. RepoShapes
    BY DEF RepoInv
  <1>1. /\ HandsHold' /\ hand' \in [Processor -> HandRecord]
        /\ \A v \in Processor : hand'[v].pc # "idle" => hand'[v].e \in Post
    BY OthersFollow
  <1>2. hand[w].pc # "idle" => hand[w].e \in Post /\ hand[w].e \in 1..MaxPosts
    BY <1>0, HandFields
  <1>3. MergePosts \subseteq 1..MaxPosts
    BY <1>0 DEF MergePosts, Post, RepoShapes
  <1>4. /\ inbox' \in [1..MaxPosts -> {"none", "accepted", "processed", "ignored", "failed"}]
        /\ \A e \in 1..MaxPosts : inbox'[e] # "none" => e \in Post
        /\ \A e \in MergePosts : inbox'[e] = "processed" => inbox[e] = "processed"
    BY <1>0, <1>2, <1>3 DEF RepoShapes
  <1>5. tasks' \subseteq Post
    BY <1>0 DEF RepoShapes
  <1>6. QED
    BY <1>1, <1>4, <1>5, NothingStored

\* Take, Ignore, LockIssues, FailDelivery and KillWorker are such steps.
LEMMA EarlyStepsKeepInv ==
    ASSUME RepoInv, UNCHANGED repoBudget, NEW w \in Processor,
           \/ \E e \in Post : Take(w, e)
           \/ Ignore(w) \/ LockIssues(w) \/ FailDelivery(w) \/ KillWorker(w)
    PROVE  RepoInv'
  <1> USE RepositoryHooksAssumption
  <1>0. RepoShapes
    BY DEF RepoInv
  <1>1. Resting \in HandRecord /\ Resting.pc = "idle"
    BY DEF Resting, HandRecord
  <1>2. hand[w].pc # "idle" => hand[w].e \in Post /\ hand[w].e \in 1..MaxPosts
    BY <1>0, HandFields
  <1>3. UNCHANGED <<forge, post, stored, link, commitOn, moves, notes, commands>> /\ tasks' \subseteq tasks
    BY DEF Take, Ignore, LockIssues, FailDelivery, KillWorker, theForge, theLinks
  <1>4. ASSUME NEW e \in Post, Take(w, e)
        PROVE  RepoInv'
    <2>1. e \in 1..MaxPosts
      BY <1>0 DEF RepoShapes, Post
    <2>2. [pc |-> "start", e |-> e, holds |-> {}] \in HandRecord
      BY <2>1 DEF HandRecord
    <2>3. hand' = hand => hand' = [hand EXCEPT ![w] = hand[w]] /\ hand[w] \in HandRecord
      BY <1>0 DEF RepoShapes
    <2>4. hand[w].pc = "idle" /\ inbox' = inbox
      BY <1>4 DEF Take
    <2>5. CASE hand' = hand
      BY <1>3, <2>3, <2>4, <2>5, PlainHandStepKeepsInv
    <2>6. CASE hand' = [hand EXCEPT ![w] = [pc |-> "start", e |-> e, holds |-> {}]]
      BY <1>3, <2>2, <2>4, <2>6, PlainHandStepKeepsInv
    <2>7. QED
      BY <1>4, <2>5, <2>6 DEF Take, To
  <1>5. CASE Ignore(w) \/ FailDelivery(w) \/ KillWorker(w)
    <2>1. hand[w].pc # "idle" /\ hand' = [hand EXCEPT ![w] = Resting]
      BY <1>5 DEF Ignore, FailDelivery, KillWorker, Close, To
    <2>2. \/ inbox' = inbox
          \/ \E outcome \in {"processed", "ignored", "failed"} :
                /\ inbox' = [inbox EXCEPT ![hand[w].e] = outcome]
                /\ outcome = "processed" => hand[w].e \notin MergePosts
      BY <1>5 DEF Ignore, FailDelivery, KillWorker, Close
    <2>3. QED
      BY <1>1, <1>3, <2>1, <2>2, PlainHandStepKeepsInv
  <1>6. CASE LockIssues(w)
    <2>1. PICK e \in Post : e = hand[w].e
      BY <1>2, <1>6 DEF LockIssues
    <2>2. hand[w].pc # "idle" /\ IsRequest(e)
      BY <1>6, <2>1 DEF LockIssues, IsRequest
    <2>3. CASE post[e].state # "merged" /\ Close(w, "processed")
      <3>1. hand[w].e \notin MergePosts
        BY <2>1, <2>3 DEF MergePosts, IsMergeEvent
      <3>2. inbox' = [inbox EXCEPT ![hand[w].e] = "processed"] /\ hand' = [hand EXCEPT ![w] = Resting]
        BY <2>3 DEF Close, To
      <3>3. QED
        BY <1>1, <1>3, <2>2, <3>1, <3>2, PlainHandStepKeepsInv
    <2>4. CASE To(w, [pc |-> "upsert", e |-> e, holds |-> Referenced(e)]) /\ UNCHANGED inbox
      <3>1. [pc |-> "upsert", e |-> e, holds |-> Referenced(e)] \in HandRecord
        BY <1>2, <2>1, <2>2 DEF HandRecord, Referenced
      <3>2. QED
        BY <1>3, <2>2, <2>4, <3>1, PlainHandStepKeepsInv DEF To
    <2>5. QED
      BY <1>6, <2>1, <2>3, <2>4 DEF LockIssues
  <1>7. QED
    BY <1>4, <1>5, <1>6

\* A merge event is stored as merged, also when something newer was stored
\* before it: only edits of the merged request are newer (Upserted, IsNewer).
LEMMA MergeIsStored ==
    ASSUME RepoInv, NEW e \in MergePosts
    PROVE  Upserted(post[e]).state = "merged"
  <1>0. RepoShapes /\ PostsOrdered /\ OnRecord
    BY DEF RepoInv
  <1>1. e \in Post /\ IsRequest(e) /\ post[e].state = "merged" /\ post[e].at \in Nat
    BY <1>0, PostFields DEF MergePosts, IsMergeEvent, IsRequest
  <1>2. CASE IsNewer(stored, post[e])
    BY <1>1, <1>2 DEF Upserted
  <1>3. CASE ~IsNewer(stored, post[e])
    <2>1. stored.state # "none" /\ ~(post[e].at >= stored.at)
      BY <1>1, <1>3 DEF IsNewer
    <2>2. PICK d \in Post : IsRequest(d) /\ post[d].state = stored.state /\ post[d].at = stored.at
      BY <1>0, <2>1 DEF OnRecord, FromPost
    <2>3. post[d].at \in Nat /\ d \in Nat /\ e \in Nat
      BY <1>0, <1>1, <2>2, PostFields DEF Post, RepoShapes
    <2>4. ~(d < e) /\ d # e
      BY <1>0, <1>1, <2>1, <2>2, <2>3 DEF PostsOrdered
    <2>5. e < d
      BY <2>3, <2>4
    <2>6. post[d].state = "merged"
      BY <1>0, <1>1, <2>2, <2>5 DEF PostsOrdered
    <2>7. QED
      BY <1>3, <2>2, <2>6 DEF Upserted
  <1>4. QED
    BY <1>2, <1>3

\* What _upsert stores is an event's, no older than what was stored, and merged
\* if that was.
LEMMA UpsertedFacts ==
    ASSUME RepoInv, NEW e \in Post, IsRequest(e)
    PROVE  /\ Upserted(post[e]) \in [state : RequestStates, at : Nat]
           /\ FromPost(Upserted(post[e]))
           /\ Upserted(post[e]).at >= stored.at
           /\ stored.state = "merged" => Upserted(post[e]).state = "merged"
  <1>0. RepoShapes /\ OnRecord
    BY DEF RepoInv
  <1>1. post[e].state \in RequestStates /\ post[e].at \in Nat
    BY <1>0, PostFields
  <1>2. stored \in [state : RequestStates, at : Nat] /\ FromPost(stored)
    BY <1>0 DEF RepoShapes, OnRecord
  <1>3. CASE ~IsNewer(stored, post[e])
    BY <1>2, <1>3 DEF Upserted
  <1>4. CASE IsNewer(stored, post[e])
    <2>1. Upserted(post[e]) = [state |-> post[e].state, at |-> post[e].at]
      BY <1>4 DEF Upserted
    <2>2. post[e].state # "none"
      BY <1>0, PostFields
    <2>3. QED
      BY <1>1, <1>2, <1>4, <2>1, <2>2 DEF IsNewer, FromPost
  <1>5. QED
    BY <1>3, <1>4

\* The links an event computes: qualified only by the merge's text, and with the
\* marks of what was done kept.
LEMMA NewLinkFacts ==
    ASSUME RepoInv, NEW e \in Post, NEW i \in Target, NEW before \in BOOLEAN,
           NEW mergeEvent \in BOOLEAN, mergeEvent => e \in MergePosts
    PROVE  /\ NewLink(i, post[e], before, mergeEvent) \in LinkRecord
           /\ ~NewLink(i, post[e], before, mergeEvent).on =>
                 NewLink(i, post[e], before, mergeEvent) = NoLink
           /\ NewLink(i, post[e], before, mergeEvent).qualified => MergeFixes(i)
           /\ NewLink(i, post[e], before, mergeEvent).handled = link[i].handled
           /\ NewLink(i, post[e], before, mergeEvent).refused = link[i].refused
           /\ mergeEvent /\ post[e].text[i] = "fixes" =>
                 /\ NewLink(i, post[e], before, mergeEvent).closing
                 /\ NewLink(i, post[e], before, mergeEvent).qualified
  <1>0. link[i] \in LinkRecord /\ (~link[i].on => link[i] = NoLink) /\ (link[i].qualified => MergeFixes(i))
    BY DEF RepoInv, RepoShapes, OnRecord, LinksSound
  <1>1. mergeEvent /\ post[e].text[i] = "fixes" => MergeFixes(i)
    BY DEF MergeFixes
  <1>2. CASE ~(post[e].text[i] # "none") /\ ~link[i].on
    <2>1. NewLink(i, post[e], before, mergeEvent) = NoLink
      BY <1>2 DEF NewLink
    <2>2. NoLink \in LinkRecord
      BY DEF NoLink, LinkRecord
    <2>3. QED
      BY <1>0, <1>2, <2>1, <2>2 DEF NoLink
  <1>3. CASE post[e].text[i] # "none" \/ link[i].on
    <2>1. NewLink(i, post[e], before, mergeEvent) =
             [on |-> TRUE,
              closing |-> IF before THEN link[i].closing \/ post[e].text[i] = "fixes"
                                    ELSE post[e].text[i] = "fixes",
              qualified |-> link[i].qualified \/ (mergeEvent /\ post[e].text[i] = "fixes"),
              handled |-> link[i].handled, refused |-> link[i].refused]
      BY <1>3 DEF NewLink
    <2>2. NewLink(i, post[e], before, mergeEvent) \in LinkRecord
      <3>1. link[i].handled \in BOOLEAN /\ link[i].refused \in BOOLEAN
        BY <1>0 DEF LinkRecord
      <3>2. /\ (IF before THEN link[i].closing \/ post[e].text[i] = "fixes"
                          ELSE post[e].text[i] = "fixes") \in BOOLEAN
            /\ (link[i].qualified \/ (mergeEvent /\ post[e].text[i] = "fixes")) \in BOOLEAN
        OBVIOUS
      <3>3. QED
        BY <2>1, <3>1, <3>2 DEF LinkRecord
    <2>3. /\ NewLink(i, post[e], before, mergeEvent).on
          /\ NewLink(i, post[e], before, mergeEvent).handled = link[i].handled
          /\ NewLink(i, post[e], before, mergeEvent).refused = link[i].refused
      BY <2>1
    <2>4. NewLink(i, post[e], before, mergeEvent).qualified =
             (link[i].qualified \/ (mergeEvent /\ post[e].text[i] = "fixes"))
      BY <2>1
    <2>5. NewLink(i, post[e], before, mergeEvent).closing =
             (IF before THEN link[i].closing \/ post[e].text[i] = "fixes"
                        ELSE post[e].text[i] = "fixes")
      BY <2>1
    <2>6. NewLink(i, post[e], before, mergeEvent).qualified => MergeFixes(i)
      BY <1>0, <1>1, <2>4
    <2>7. mergeEvent /\ post[e].text[i] = "fixes" =>
             /\ NewLink(i, post[e], before, mergeEvent).closing
             /\ NewLink(i, post[e], before, mergeEvent).qualified
      BY <2>4, <2>5
    <2>8. QED
      BY <2>2, <2>3, <2>6, <2>7
  <1>4. QED
    BY <1>2, <1>3

\* _upsert computes from the locked row what the request and its links become.
LEMMA UpsertKeepsInv ==
    ASSUME RepoInv, UNCHANGED repoBudget, NEW w \in Processor, Upsert(w)
    PROVE  RepoInv'
  <1> USE RepositoryHooksAssumption
  <1>0. RepoShapes /\ HandsHold
    BY DEF RepoInv
  <1>1. hand[w].pc = "upsert" /\ ~RequestHeld(w)
    BY DEF Upsert
  <1>2. PICK e \in Post : e = hand[w].e
    BY <1>0, <1>1, HandFields
  <1>3. IsRequest(e) /\ e \in 1..MaxPosts /\ hand[w].holds \in SUBSET Target
    BY <1>0, <1>1, <1>2, HandFields DEF HandsHold
  <1>4. /\ UNCHANGED <<forge, post, stored, link, commitOn, moves, notes, commands>>
        /\ tasks' = tasks
    BY DEF Upsert, theForge, theLinks
  <1>5. PICK mergeEvent \in BOOLEAN :
            mergeEvent = (IsMergeEvent(post[e]) /\ Upserted(post[e]).state = "merged")
    OBVIOUS
  <1>6. mergeEvent <=> e \in MergePosts
    BY <1>3, <1>5, MergeIsStored DEF MergePosts, IsRequest
  <1>7. PICK before \in BOOLEAN : before = (stored.state = "merged")
    OBVIOUS
  <1>8. CASE ~mergeEvent /\ Close(w, "processed")
    <2>1. inbox' = [inbox EXCEPT ![hand[w].e] = "processed"] /\ hand' = [hand EXCEPT ![w] = Resting]
      BY <1>8 DEF Close, To
    <2>2. Resting \in HandRecord /\ Resting.pc = "idle"
      BY DEF Resting, HandRecord
    <2>3. QED
      BY <1>1, <1>2, <1>4, <1>6, <1>8, <2>1, <2>2, PlainHandStepKeepsInv
  <1>9. ASSUME hand' = [hand EXCEPT ![w] =
                   [pc |-> "automate", e |-> e, holds |-> hand[w].holds,
                    stored |-> Upserted(post[e]),
                    links |-> [i \in Target |-> NewLink(i, post[e], before, mergeEvent)]]],
               inbox' = inbox
        PROVE  RepoInv'
    <2>1. PICK links : links = [i \in Target |-> NewLink(i, post[e], before, mergeEvent)]
      OBVIOUS
    <2>2. \A i \in Target :
              /\ links[i] \in LinkRecord /\ (~links[i].on => links[i] = NoLink)
              /\ links[i].qualified => MergeFixes(i)
              /\ links[i].handled = link[i].handled /\ links[i].refused = link[i].refused
              /\ mergeEvent /\ post[e].text[i] = "fixes" => links[i].closing /\ links[i].qualified
      <3> SUFFICES ASSUME NEW i \in Target
                   PROVE  /\ links[i] \in LinkRecord /\ (~links[i].on => links[i] = NoLink)
                          /\ links[i].qualified => MergeFixes(i)
                          /\ links[i].handled = link[i].handled /\ links[i].refused = link[i].refused
                          /\ mergeEvent /\ post[e].text[i] = "fixes" =>
                                links[i].closing /\ links[i].qualified
        OBVIOUS
      <3>1. links[i] = NewLink(i, post[e], before, mergeEvent)
        BY <2>1
      <3>2. QED
        BY <1>6, <3>1, NewLinkFacts
    <2>3. links \in [Target -> LinkRecord] /\ LinksSound(links)
      BY <2>1, <2>2 DEF LinksSound
    <2>4. PICK up : up = Upserted(post[e])
      OBVIOUS
    <2>5. /\ up \in [state : RequestStates, at : Nat] /\ FromPost(up) /\ up.at >= stored.at
          /\ stored.state = "merged" => up.state = "merged"
          /\ e \in MergePosts => up.state = "merged"
      BY <1>3, <2>4, UpsertedFacts, MergeIsStored
    <2>6. PICK new : new = [pc |-> "automate", e |-> e, holds |-> hand[w].holds,
                            stored |-> up, links |-> links]
      OBVIOUS
    <2>7. new \in HandRecord
      BY <1>3, <2>3, <2>5, <2>6 DEF HandRecord
    <2>8. /\ new.pc = "automate" /\ new.e = e /\ new.stored = up /\ new.links = links
          /\ hand' = [hand EXCEPT ![w] = new]
      BY <1>9, <2>1, <2>4, <2>6
    <2>9. hand'[w] = new
      BY <1>0, <2>8 DEF RepoShapes
    <2>10. Follows(w)'
      <3>1. MergePosts' = MergePosts
        BY <1>4 DEF MergePosts, IsMergeEvent, Post
      <3>2. QED
        BY <1>4, <1>6, <2>2, <2>5, <2>8, <2>9, <3>1 DEF Follows
    <2>11. \A v \in Processor \ {w} : hand[v].pc # new.pc
      BY <1>1, <2>8 DEF RequestHeld
    <2>12. /\ HandsHold' /\ hand' \in [Processor -> HandRecord]
           /\ \A v \in Processor : hand'[v].pc # "idle" => hand'[v].e \in Post
      BY <1>3, <1>4, <2>3, <2>5, <2>7, <2>8, <2>10, <2>11, OthersFollow
    <2>13. /\ inbox' \in [1..MaxPosts -> {"none", "accepted", "processed", "ignored", "failed"}]
           /\ \A d \in 1..MaxPosts : inbox'[d] # "none" => d \in Post
           /\ tasks' \subseteq Post
      BY <1>0, <1>4, <1>9 DEF RepoShapes
    <2>14. QED
      BY <1>4, <1>9, <2>12, <2>13, NothingStored
  <1>10. QED
    BY <1>2, <1>5, <1>7, <1>8, <1>9 DEF Upsert, To

\* Of a push only the links nobody inserted before are new, and only one worker
\* inserts them at a time.
LEMMA InsertLinksKeepsInv ==
    ASSUME RepoInv, UNCHANGED repoBudget, NEW w \in Processor, InsertLinks(w)
    PROVE  RepoInv'
  <1>0. RepoShapes
    BY DEF RepoInv
  <1>1. hand[w].pc = "start" /\ ~Linking(w) /\ post[hand[w].e].kind = "push"
    BY DEF InsertLinks
  <1>2. PICK e \in Post : e = hand[w].e
    BY <1>0, <1>1, HandFields
  <1>3. ~IsRequest(e) /\ e \in 1..MaxPosts
    BY <1>0, <1>1, <1>2, HandFields DEF IsRequest
  <1>4. /\ UNCHANGED <<forge, post, stored, link, commitOn, moves, notes, commands>>
        /\ tasks' = tasks /\ inbox' = inbox
    BY DEF InsertLinks, theForge, theLinks
  <1>5. PICK new : new = [pc |-> "link", e |-> e, holds |-> {}, new |-> Referenced(e) \ commitOn]
    OBVIOUS
  <1>6. /\ new \in HandRecord /\ new.pc = "link" /\ new.e = e /\ new.new \intersect commitOn = {}
        /\ hand' = [hand EXCEPT ![w] = new]
    BY <1>2, <1>3, <1>5 DEF HandRecord, Referenced, InsertLinks, To
  <1>7. \A v \in Processor \ {w} : hand[v].pc # new.pc
    BY <1>1, <1>6 DEF Linking
  <1>8. /\ HandsHold' /\ hand' \in [Processor -> HandRecord]
        /\ \A v \in Processor : hand'[v].pc # "idle" => hand'[v].e \in Post
    BY <1>3, <1>4, <1>6, <1>7, OthersFollow
  <1>9. /\ inbox' \in [1..MaxPosts -> {"none", "accepted", "processed", "ignored", "failed"}]
        /\ \A d \in 1..MaxPosts : inbox'[d] # "none" => d \in Post
        /\ tasks' \subseteq Post
    BY <1>0, <1>4 DEF RepoShapes
  <1>10. QED
    BY <1>4, <1>8, <1>9, NothingStored

-----------------------------------------------------------------------------
(* The steps that commit.                                                  *)

\* A worker that ends leaves what the others hold as it was, if none of them
\* holds what it stored.
LEMMA EndingKeepsHands ==
    ASSUME RepoInv, NEW w \in Processor, hand[w].pc \in {"automate", "link"},
           hand' = [hand EXCEPT ![w] = Resting], post' = post,
           hand[w].pc = "automate" => commitOn' = commitOn,
           hand[w].pc = "link" => stored' = stored /\ link' = link
    PROVE  /\ HandsHold' /\ hand' \in [Processor -> HandRecord]
           /\ \A v \in Processor : hand'[v].pc # "idle" => hand'[v].e \in Post
  <1>0. RepoShapes /\ HandsHold
    BY DEF RepoInv
  <1>1. Resting \in HandRecord /\ Resting.pc = "idle"
    BY DEF Resting, HandRecord
  <1>2. hand'[w] = Resting /\ \A v \in Processor \ {w} : hand'[v] = hand[v]
    BY <1>0 DEF RepoShapes
  <1>3. hand' \in [Processor -> HandRecord] /\ \A v \in Processor : hand'[v].pc # "idle" => hand'[v].e \in Post
    BY <1>0, <1>1, <1>2 DEF RepoShapes
  <1>4. \A v \in Processor \ {w} : hand[v].pc # hand[w].pc
    BY <1>0 DEF HandsHold
  <1>5. \A v \in Processor : hand'[v].pc \in {"upsert", "automate"} => IsRequest(hand'[v].e)
    BY <1>0, <1>1, <1>2 DEF HandsHold
  <1>6. \A v \in Processor : hand'[v].pc = "link" =>
            ~IsRequest(hand'[v].e) /\ hand'[v].new \intersect commitOn' = {}
    BY <1>0, <1>1, <1>2, <1>4 DEF HandsHold
  <1>7. \A u, v \in Processor : hand'[u].pc = hand'[v].pc /\ hand'[u].pc \in {"automate", "link"} => u = v
    BY <1>0, <1>1, <1>2 DEF HandsHold
  <1>8. ASSUME NEW v \in Processor, hand'[v].pc = "automate"
        PROVE  FromPost(hand[v].stored)' /\ LinksSound(hand[v].links)' /\ Follows(v)'
    <2>1. v # w /\ hand'[v] = hand[v] /\ hand[w].pc = "link"
      BY <1>1, <1>2, <1>4, <1>8
    <2>2. FromPost(hand[v].stored) /\ LinksSound(hand[v].links) /\ Follows(v)
      BY <1>0, <1>8, <2>1 DEF HandsHold
    <2>3. FromPost(hand[v].stored)'
      BY <2>1, <2>2 DEF FromPost, IsRequest, Post
    <2>4. LinksSound(hand[v].links)'
      BY <2>1, <2>2 DEF LinksSound, MergeFixes, MergePosts, IsMergeEvent, Post
    <2>5. Follows(v)'
      BY <2>1, <2>2 DEF Follows, MergePosts, IsMergeEvent, Post
    <2>6. QED
      BY <2>3, <2>4, <2>5
  <1>9. HandsHold'
    BY <1>5, <1>6, <1>7, <1>8 DEF HandsHold, IsRequest
  <1>10. QED
    BY <1>3, <1>9

\* A commit closes the delivery it worked on and no other.
LEMMA CommitClosesOne ==
    ASSUME RepoShapes, NEW w \in Processor, hand[w].pc # "idle", Close(w, "processed"), post' = post
    PROVE  /\ inbox' \in [1..MaxPosts -> {"none", "accepted", "processed", "ignored", "failed"}]
           /\ \A d \in 1..MaxPosts : inbox'[d] # "none" => d \in Post
           /\ \A d \in 1..MaxPosts : d # hand[w].e => inbox'[d] = inbox[d]
           /\ MergePosts' = MergePosts /\ MergePosts \subseteq 1..MaxPosts
  <1> USE RepositoryHooksAssumption
  <1>1. hand[w].e \in Post /\ hand[w].e \in 1..MaxPosts
    BY HandFields
  <1>2. inbox' = [inbox EXCEPT ![hand[w].e] = "processed"]
    BY DEF Close
  <1>3. MergePosts' = MergePosts
    BY DEF MergePosts, IsMergeEvent, Post
  <1>4. MergePosts \subseteq 1..MaxPosts
    BY DEF MergePosts, Post, RepoShapes
  <1>5. QED
    BY <1>1, <1>2, <1>3, <1>4 DEF RepoShapes

\* The links merge automation commits: what it acted on is marked, as moved (or
\* found there) or as refused, and no mark is taken back.
LEMMA AutomatedLinks ==
    ASSUME RepoInv, NEW w \in Processor, Automate(w), NEW i \in Target
    PROVE  /\ link'[i] \in LinkRecord
           /\ ~link'[i].on => link'[i] = NoLink
           /\ link'[i].qualified => MergeFixes(i)
           /\ (link[i].handled => link'[i].handled) /\ (link[i].refused => link'[i].refused)
           /\ i \in ToMove(w) => /\ ~link[i].handled /\ MergeFixes(i)
                                 /\ Refused(i) => link'[i].refused
                                 /\ ~Refused(i) => link'[i].handled
  <1>0. RepoShapes /\ HandsHold
    BY DEF RepoInv
  <1>1. PICK l \in LinkRecord : l = hand[w].links[i]
    BY <1>0, HandFields DEF Automate
  <1>2. /\ ~l.on => l = NoLink
        /\ l.qualified => MergeFixes(i)
        /\ l.handled = link[i].handled /\ l.refused = link[i].refused
    BY <1>0, <1>1 DEF Automate, HandsHold, LinksSound, Follows
  <1>3. i \in ToMove(w) => l.closing /\ l.qualified /\ ~l.handled
    BY <1>1 DEF ToMove, PendingLinks
  <1>4. PICK a \in BOOLEAN : a = (i \in ToMove(w) /\ ~Refused(i))
    OBVIOUS
  <1>5. PICK r \in BOOLEAN : r = (i \in ToMove(w) /\ Refused(i))
    OBVIOUS
  <1>6. link'[i] = [l EXCEPT !.handled = l.handled \/ a, !.refused = l.refused \/ r]
    BY <1>1, <1>4, <1>5 DEF Automate
  <1>7. /\ link'[i].on = l.on /\ link'[i].closing = l.closing /\ link'[i].qualified = l.qualified
        /\ link'[i].handled = (l.handled \/ a) /\ link'[i].refused = (l.refused \/ r)
    BY <1>6 DEF LinkRecord
  <1>8. link'[i] \in LinkRecord
    <2>1. (l.handled \/ a) \in BOOLEAN /\ (l.refused \/ r) \in BOOLEAN
      OBVIOUS
    <2>2. QED
      BY <1>6, <2>1 DEF LinkRecord
  <1>9. ~link'[i].on => link'[i] = NoLink
    <2> SUFFICES ASSUME ~l.on
                 PROVE  link'[i] = NoLink
      BY <1>7
    <2>1. l = NoLink /\ ~l.closing
      BY <1>2 DEF NoLink
    <2>2. ~a /\ ~r
      BY <1>3, <1>4, <1>5, <2>1
    <2>3. QED
      BY <1>6, <2>1, <2>2 DEF NoLink
  <1>10. QED
    BY <1>2, <1>3, <1>4, <1>5, <1>7, <1>8, <1>9

\* _merge_automation and the commit of the whole delivery.
LEMMA AutomateKeepsInv ==
    ASSUME RepoInv, UNCHANGED repoBudget, NEW w \in Processor, Automate(w)
    PROVE  RepoInv'
  <1> USE RepositoryHooksAssumption
  <1>0. RepoShapes /\ PostsOrdered /\ HandsHold /\ OnRecord /\ MergeIsActedOn
    BY DEF RepoInv
  <1>1. /\ hand[w].pc = "automate" /\ Close(w, "processed") /\ hand' = [hand EXCEPT ![w] = Resting]
        /\ UNCHANGED <<forge, post, tasks, commitOn, commands>> /\ stored' = hand[w].stored
    BY DEF Automate, Close, To, theForge
  <1>2. /\ hand[w].stored \in [state : RequestStates, at : Nat] /\ FromPost(hand[w].stored) /\ Follows(w)
    BY <1>0, <1>1, HandFields DEF HandsHold
  <1>3. /\ inbox' \in [1..MaxPosts -> {"none", "accepted", "processed", "ignored", "failed"}]
        /\ \A d \in 1..MaxPosts : inbox'[d] # "none" => d \in Post
        /\ \A d \in 1..MaxPosts : d # hand[w].e => inbox'[d] = inbox[d]
        /\ MergePosts' = MergePosts /\ MergePosts \subseteq 1..MaxPosts
    BY <1>0, <1>1, CommitClosesOne
  <1>4. /\ HandsHold' /\ hand' \in [Processor -> HandRecord]
        /\ \A v \in Processor : hand'[v].pc # "idle" => hand'[v].e \in Post
    BY <1>1, EndingKeepsHands
  <1>5. /\ DOMAIN link' = Target /\ link' = [i \in Target |-> link'[i]]
        /\ moves' = [i \in Target |-> moves[i] + IF i \in ToMove(w) /\ Movable(i) THEN 1 ELSE 0]
        /\ notes' = [i \in Target |-> notes[i] +
              IF i \in ToMove(w) /\ Refused(i) /\ ~hand[w].links[i].refused THEN 1 ELSE 0]
    BY DEF Automate
  <1>6. link' \in [Target -> LinkRecord]
    BY <1>5, AutomatedLinks
  <1>7. LinksSound(link)'
    <2>1. \A i \in Target : MergeFixes(i)' = MergeFixes(i)
      BY <1>1, <1>3 DEF MergeFixes
    <2>2. QED
      BY <2>1, AutomatedLinks DEF LinksSound
  <1>8. \A i \in Target : /\ moves'[i] \in Nat /\ moves'[i] <= 1
                          /\ moves'[i] > 0 => link'[i].handled /\ MergeFixes(i)
    <2> SUFFICES ASSUME NEW i \in Target
                 PROVE  /\ moves'[i] \in Nat /\ moves'[i] <= 1
                        /\ moves'[i] > 0 => link'[i].handled /\ MergeFixes(i)
      OBVIOUS
    <2>1. moves[i] \in Nat /\ moves[i] <= 1 /\ (moves[i] > 0 => link[i].handled /\ MergeFixes(i))
      BY <1>0 DEF RepoShapes, OnRecord
    <2>2. link[i].handled => link'[i].handled
      BY AutomatedLinks
    <2>3. CASE i \in ToMove(w) /\ Movable(i)
      <3>1. ~link[i].handled /\ MergeFixes(i) /\ link'[i].handled
        BY <2>3, AutomatedLinks DEF Movable, Refused
      <3>2. moves[i] = 0 /\ moves'[i] = moves[i] + 1
        BY <1>5, <2>1, <2>3, <3>1
      <3>3. QED
        BY <3>1, <3>2
    <2>4. CASE ~(i \in ToMove(w) /\ Movable(i))
      <3>1. moves'[i] = moves[i]
        BY <1>5, <2>1, <2>4
      <3>2. QED
        BY <2>1, <2>2, <3>1
    <2>5. QED
      BY <2>3, <2>4
  <1>9. \A i \in Target : notes'[i] \in Nat /\ notes'[i] <= 1 /\ (notes'[i] > 0 => link'[i].refused)
    <2> SUFFICES ASSUME NEW i \in Target
                 PROVE  notes'[i] \in Nat /\ notes'[i] <= 1 /\ (notes'[i] > 0 => link'[i].refused)
      OBVIOUS
    <2>1. notes[i] \in Nat /\ notes[i] <= 1 /\ (notes[i] > 0 => link[i].refused)
      BY <1>0 DEF RepoShapes, OnRecord
    <2>2. link[i].refused => link'[i].refused
      BY AutomatedLinks
    <2>3. CASE i \in ToMove(w) /\ Refused(i) /\ ~hand[w].links[i].refused
      <3>1. ~link[i].refused /\ link'[i].refused
        BY <1>2, <2>3, AutomatedLinks DEF Follows
      <3>2. notes[i] = 0 /\ notes'[i] = notes[i] + 1
        BY <1>5, <2>1, <2>3, <3>1
      <3>3. QED
        BY <3>1, <3>2
    <2>4. CASE ~(i \in ToMove(w) /\ Refused(i) /\ ~hand[w].links[i].refused)
      <3>1. notes'[i] = notes[i]
        BY <1>5, <2>1, <2>4
      <3>2. QED
        BY <2>1, <2>2, <3>1
    <2>5. QED
      BY <2>3, <2>4
  <1>10. moves' \in [Target -> Nat] /\ notes' \in [Target -> Nat]
    BY <1>5, <1>8, <1>9
  <1>11. RepoShapes'
    BY <1>0, <1>1, <1>2, <1>3, <1>4, <1>6, <1>10 DEF RepoShapes, Post
  <1>12. PostsOrdered'
    BY <1>0, <1>1 DEF PostsOrdered, Post, IsRequest
  <1>13. OnRecord'
    <2>1. FromPost(stored)'
      BY <1>1, <1>2 DEF FromPost, IsRequest, Post
    <2>2. \A i \in Target : commands'[i] <= 1 /\ (commands'[i] > 0 => i \in commitOn')
      BY <1>0, <1>1 DEF OnRecord
    <2>3. \A i \in Target : MergeFixes(i)' = MergeFixes(i)
      BY <1>1, <1>3 DEF MergeFixes
    <2>4. QED
      BY <1>7, <1>8, <1>9, <2>1, <2>2, <2>3 DEF OnRecord
  <1>14. MergeIsActedOn'
    <2> SUFFICES ASSUME NEW d \in MergePosts, inbox'[d] = "processed",
                        NEW i \in Target, post[d].text[i] = "fixes"
                 PROVE  link'[i].handled \/ link'[i].refused
      BY <1>1, <1>3 DEF MergeIsActedOn
    <2>1. (link[i].handled => link'[i].handled) /\ (link[i].refused => link'[i].refused)
      BY AutomatedLinks
    <2>2. CASE d # hand[w].e
      BY <1>0, <1>3, <2>1, <2>2 DEF MergeIsActedOn
    <2>3. CASE d = hand[w].e
      <3>1. /\ hand[w].stored.state = "merged" /\ hand[w].links[i].closing /\ hand[w].links[i].qualified
            /\ hand[w].links[i].handled = link[i].handled
        BY <1>2, <2>3 DEF Follows
      <3>2. link[i].handled \/ i \in ToMove(w)
        BY <3>1 DEF ToMove, PendingLinks
      <3>3. QED
        BY <2>1, <3>2, AutomatedLinks
    <2>4. QED
      BY <2>2, <2>3
  <1>15. QED
    BY <1>4, <1>11, <1>12, <1>13, <1>14 DEF RepoInv

\* _record_new_links runs the commands of the links its push inserted.
LEMMA RunCommandsKeepsInv ==
    ASSUME RepoInv, UNCHANGED repoBudget, NEW w \in Processor, RunCommands(w)
    PROVE  RepoInv'
  <1> USE RepositoryHooksAssumption
  <1>0. RepoShapes /\ PostsOrdered /\ HandsHold /\ OnRecord /\ MergeIsActedOn
    BY DEF RepoInv
  <1>1. /\ hand[w].pc = "link" /\ Close(w, "processed") /\ hand' = [hand EXCEPT ![w] = Resting]
        /\ UNCHANGED <<forge, post, tasks, stored, link, moves, notes>>
        /\ commitOn' = commitOn \union hand[w].new
        /\ commands' = [i \in Target |-> commands[i] + IF i \in hand[w].new THEN 1 ELSE 0]
    BY DEF RunCommands, Close, To, theForge
  <1>2. /\ hand[w].new \in SUBSET Target /\ hand[w].new \intersect commitOn = {}
        /\ ~IsRequest(hand[w].e)
    BY <1>0, <1>1, HandFields DEF HandsHold
  <1>3. /\ inbox' \in [1..MaxPosts -> {"none", "accepted", "processed", "ignored", "failed"}]
        /\ \A d \in 1..MaxPosts : inbox'[d] # "none" => d \in Post
        /\ \A d \in 1..MaxPosts : d # hand[w].e => inbox'[d] = inbox[d]
        /\ MergePosts' = MergePosts /\ MergePosts \subseteq 1..MaxPosts
    BY <1>0, <1>1, CommitClosesOne
  <1>4. /\ HandsHold' /\ hand' \in [Processor -> HandRecord]
        /\ \A v \in Processor : hand'[v].pc # "idle" => hand'[v].e \in Post
    BY <1>1, EndingKeepsHands
  <1>5. \A i \in Target : /\ commands'[i] \in Nat /\ commands'[i] <= 1
                          /\ commands'[i] > 0 => i \in commitOn'
    <2> SUFFICES ASSUME NEW i \in Target
                 PROVE  commands'[i] \in Nat /\ commands'[i] <= 1 /\ (commands'[i] > 0 => i \in commitOn')
      OBVIOUS
    <2>1. commands[i] \in Nat /\ commands[i] <= 1 /\ (commands[i] > 0 => i \in commitOn)
      BY <1>0 DEF RepoShapes, OnRecord
    <2>2. QED
      BY <1>1, <1>2, <2>1
  <1>6. commands' \in [Target -> Nat] /\ commitOn' \subseteq Target
    BY <1>0, <1>1, <1>2, <1>5 DEF RepoShapes
  <1>7. RepoShapes'
    BY <1>0, <1>1, <1>3, <1>4, <1>6 DEF RepoShapes, Post
  <1>8. PostsOrdered'
    BY <1>0, <1>1 DEF PostsOrdered, Post, IsRequest
  <1>9. OnRecord'
    <2>1. FromPost(stored)'
      BY <1>0, <1>1 DEF OnRecord, FromPost, IsRequest, Post
    <2>2. \A i \in Target : MergeFixes(i)' = MergeFixes(i)
      BY <1>1, <1>3 DEF MergeFixes
    <2>3. LinksSound(link)'
      BY <1>0, <1>1, <2>2 DEF OnRecord, LinksSound
    <2>4. QED
      BY <1>0, <1>1, <1>5, <2>1, <2>2, <2>3 DEF OnRecord
  <1>10. MergeIsActedOn'
    <2>1. hand[w].e \notin MergePosts
      BY <1>2 DEF MergePosts, IsRequest
    <2>2. QED
      BY <1>0, <1>1, <1>3, <2>1 DEF MergeIsActedOn
  <1>11. QED
    BY <1>4, <1>7, <1>8, <1>9, <1>10 DEF RepoInv

-----------------------------------------------------------------------------
(* The specification.                                                      *)

\* Before the first event nothing is stored.
LEMMA RepoInitHolds ==
    ASSUME RepoInit
    PROVE  RepoInv
  <1> USE RepositoryHooksAssumption
  <1>1. Post = {}
    BY DEF RepoInit, Post
  <1>2. NoLink \in LinkRecord /\ ~NoLink.qualified /\ Resting \in HandRecord /\ Resting.pc = "idle"
    BY DEF NoLink, LinkRecord, Resting, HandRecord
  <1>3. RepoShapes
    <2>1. forge \in [state : RequestStates, text : Texts, at : Nat]
      BY DEF RepoInit, RequestStates
    <2>2. post \in Seq(PostRecord) /\ Len(post) = 0
      BY DEF RepoInit
    <2>3. /\ inbox \in [1..MaxPosts -> {"none", "accepted", "processed", "ignored", "failed"}]
          /\ \A e \in 1..MaxPosts : inbox[e] = "none"
      BY DEF RepoInit
    <2>4. hand \in [Processor -> HandRecord] /\ \A w \in Processor : hand[w].pc = "idle"
      BY <1>2 DEF RepoInit
    <2>5. stored \in [state : RequestStates, at : Nat] /\ link \in [Target -> LinkRecord]
      BY <1>2 DEF RepoInit, RequestStates
    <2>6. moves \in [Target -> Nat] /\ notes \in [Target -> Nat] /\ commands \in [Target -> Nat]
      BY DEF RepoInit
    <2>7. QED
      BY <2>1, <2>2, <2>3, <2>4, <2>5, <2>6 DEF RepoInit, RepoShapes
  <1>4. PostsOrdered
    BY <1>1 DEF PostsOrdered
  <1>5. HandsHold
    BY <1>2 DEF RepoInit, HandsHold
  <1>6. OnRecord
    <2>1. FromPost(stored)
      BY DEF RepoInit, FromPost
    <2>2. LinksSound(link)
      BY <1>2 DEF RepoInit, LinksSound
    <2>3. \A i \in Target : moves[i] = 0 /\ notes[i] = 0 /\ commands[i] = 0
      BY DEF RepoInit
    <2>4. QED
      BY <2>1, <2>2, <2>3 DEF OnRecord
  <1>7. MergeIsActedOn
    BY <1>1 DEF MergeIsActedOn, MergePosts
  <1>8. QED
    BY <1>3, <1>4, <1>5, <1>6, <1>7 DEF RepoInv

\* Every step keeps the invariant.
LEMMA RepoStepKeepsInv ==
    ASSUME RepoInv, [RepoNext]_repoVars
    PROVE  RepoInv'
  <1>1. CASE UNCHANGED repoVars
    BY <1>1 DEF repoVars, RepoInv, RepoShapes, PostsOrdered, HandsHold, OnRecord, MergeIsActedOn,
       FromPost, LinksSound, Follows, MergeFixes, MergePosts, IsMergeEvent, Post, IsRequest
  <1>2. CASE RepoNext
    <2>1. UNCHANGED repoBudget
      BY <1>2 DEF RepoNext
    <2>2. CASE ForgeEvent \/ ForgePush
      BY <2>1, <2>2, ForgeKeepsInv
    <2>3. CASE \/ \E e \in Post : Receive(e) \/ Redeliver(e) \/ LoseTask(e) \/ PurgeInbox(e)
               \/ SweepInbox
               \/ \E i \in Target : ReopenIssue(i)
               \/ GrantTransition \/ SwitchIntegration
      BY <2>1, <2>3, OutsideStepKeepsInv
    <2>4. ASSUME NEW w \in Processor,
                 (\E e \in Post : Take(w, e)) \/ TaskGoesOn(w) \/ FailDelivery(w) \/ KillWorker(w)
          PROVE  RepoInv'
      <3>1. CASE \/ \E e \in Post : Take(w, e)
                 \/ Ignore(w) \/ LockIssues(w) \/ FailDelivery(w) \/ KillWorker(w)
        BY <2>1, <3>1, EarlyStepsKeepInv
      <3>2. CASE Upsert(w)
        BY <2>1, <3>2, UpsertKeepsInv
      <3>3. CASE Automate(w)
        BY <2>1, <3>3, AutomateKeepsInv
      <3>4. CASE InsertLinks(w)
        BY <2>1, <3>4, InsertLinksKeepsInv
      <3>5. CASE RunCommands(w)
        BY <2>1, <3>5, RunCommandsKeepsInv
      <3>6. QED
        BY <2>4, <3>1, <3>2, <3>3, <3>4, <3>5 DEF TaskGoesOn
    <2>5. QED
      BY <1>2, <2>2, <2>3, <2>4 DEF RepoNext, RepoAction
  <1>3. QED
    BY <1>1, <1>2

\* The invariant holds in every reachable state.
THEOREM RepoInvariant == RepoSpec => []RepoInv
  <1>1. RepoInit => RepoInv
    BY RepoInitHolds
  <1>2. RepoInv /\ [RepoNext]_repoVars => RepoInv'
    BY RepoStepKeepsInv
  <1>3. QED
    BY <1>1, <1>2, PTL DEF RepoSpec

\* Deliveries, messages, workers and the stored request keep their shapes,
\* whatever the forge sends and whichever worker fails.
THEOREM RepositoryHooksTypeCorrect == RepoSpec => []RepoTypeOK
  <1>1. RepoInv => RepoTypeOK
    <2> SUFFICES ASSUME RepoInv
                 PROVE  RepoTypeOK
      OBVIOUS
    <2>1. RepoShapes
      BY DEF RepoInv
    <2>2. \A w \in Processor : hand[w].pc \in {"idle", "start", "upsert", "automate", "link"}
      BY <2>1, HandFields
    <2>3. QED
      BY <2>1, <2>2 DEF RepoShapes, RepoTypeOK, RequestStates
  <1>2. QED
    BY <1>1, RepoInvariant, PTL

\* Automation moves an issue only if the text of a merge event fixes it: no edit
\* before or after the merge qualifies an issue, in whatever order and however
\* often process_delivery meets the events.
THEOREM OnlyTheMergeMoves == RepoSpec => []OnlyTheMergeTextMoves
  <1>1. RepoInv => OnlyTheMergeTextMoves
    BY DEF RepoInv, OnRecord, MergeFixes, OnlyTheMergeTextMoves
  <1>2. QED
    BY <1>1, RepoInvariant, PTL

\* An issue is moved once and noted once at most, and a commit's commands run
\* once for it, although deliveries are queued twice, swept while they are being
\* processed, redelivered and purged.
THEOREM ActsOnlyOnce == RepoSpec => []ActsOnce
  <1>1. RepoInv => ActsOnce
    BY DEF RepoInv, OnRecord, ActsOnce
  <1>2. QED
    BY <1>1, RepoInvariant, PTL

\* A merge that was processed was acted on for every issue its text fixes, also
\* when an edit of the merged request was stored before it.
THEOREM MergeActedOn == RepoSpec => []MergeIsActedOn
  <1>1. RepoInv => MergeIsActedOn
    BY DEF RepoInv
  <1>2. QED
    BY <1>1, RepoInvariant, PTL

\* No commit takes the stored request back in the forge's time, or away from a
\* merge (is_newer under the row's lock).
THEOREM RequestNeverBackwards == RepoSpec => NeverBackwards
  <1>1. RepoInv /\ [RepoNext]_repoVars =>
           [/\ stored'.at >= stored.at
            /\ stored.state = "merged" => stored'.state = "merged"]_repoVars
    <2> SUFFICES ASSUME RepoInv, RepoNext
                 PROVE  /\ stored'.at >= stored.at
                        /\ stored.state = "merged" => stored'.state = "merged"
      OBVIOUS
    <2>1. RepoShapes /\ HandsHold
      BY DEF RepoInv
    <2>2. stored.at \in Nat
      BY <2>1 DEF RepoShapes
    <2>3. CASE stored' = stored
      BY <2>2, <2>3
    <2>4. ASSUME NEW w \in Processor, Automate(w)
          PROVE  /\ stored'.at >= stored.at
                 /\ stored.state = "merged" => stored'.state = "merged"
      BY <2>1, <2>4 DEF Automate, HandsHold, Follows
    <2>5. stored' = stored \/ \E w \in Processor : Automate(w)
      BY DEF RepoNext, RepoAction, ForgeEvent, ForgePush, Receive, Redeliver, LoseTask, PurgeInbox,
         Take, TaskGoesOn, Ignore, LockIssues, Upsert, InsertLinks, RunCommands, FailDelivery,
         KillWorker, SweepInbox, ReopenIssue, GrantTransition, SwitchIntegration, theLinks
    <2>6. QED
      BY <2>3, <2>4, <2>5
  <1>2. QED
    BY <1>1, RepoInvariant, PTL DEF RepoSpec, NeverBackwards

=============================================================================
