CONSTANTS
  Sprint = {s1, s2}
  Backlog = Backlog
  Story = {i1}
  Planner = {r1, r2}
  Assigner = {a1}
  SprintOps = 6
SPECIFICATION SprintSpec
INVARIANT MovedIssuesAreCounted
CHECK_DEADLOCK FALSE
