CONSTANTS
  c1 = c1
  c2 = c2
  Clients = {c1, c2}
  MaxJobs <- TwoAndOne
  MaxOpens = 1
  MaxSessions = 2
  Failures <- AllFailures
SPECIFICATION Spec
INVARIANT AnsweredOnce
PROPERTY EveryJobEnds
