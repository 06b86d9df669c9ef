CONSTANTS
  NonWorking = {3, 4, 6, 7, 8}
  WalkLimit = 4
  CutOff = 2
  MaxCandidates = 4
  Pattern = {1, 2}
  Worker = {w1, w2}
  NoWorker = NoWorker
  Lead = 0
  BatchSize = 1
  OverrideKinds = {"override", "bad"}
  Rules <- MCRules
  MaxDay = 2
  RecBudgets <- MCRecBudgets
  Hook = {h1}
  Emitter = {e1}
  Sender = {w1, w2}
  CacheTtl = 1
  Lease = 1
  Backoff = 1
  MaxAttempts = 2
  MaxEvents = 2
  HookBudgets <- MCHookBudgets
  p1 = p1
  p2 = p2
  p3 = p3
  k1 = k1
  k2 = k2
  k3 = k3
  Project = {p1, p2, p3}
  FirstKey <- MCFirstKey
  Key = {k1, k2, k3}
  NoKey = NoKey
  IssueId = {1, 2}
  Clerk = {w1, w2}
  ReusedKeys = {}
  RefOps = 5
  Target = {a}
  Wordings = {"none", "fixes"}
  Processor = {w1, w2}
  MaxPosts = 3
  RepoBudgets <- MCRepoBudgets
  Sprint = {s1, s2}
  Backlog = Backlog
  Story = {a}
  Planner = {w1, w2}
  Assigner = {e1}
  SprintOps = 5
SPECIFICATION ServicesSpec
INVARIANTS
  RecTypeOK HookTypeOK RefTypeOK RepoTypeOK
  SendsAreCounted OneSenderPerDelivery
  RefsKeepTheirIssue NoClash
  OnlyTheMergeTextMoves ActsOnce MergeIsActedOn
  OneActiveSprint
  ExpandMeetsReference
PROPERTIES
  GeneratesFromCurrentRule FlexibleWaitsForClosing HealthyPatternsCatchUp ClosedSeriesGoesOn
  SettledIsFinal PrivateWithinTtl EveryDeliverySettles
  NeverBackwards EveryPostIsProcessed
CHECK_DEADLOCK FALSE
