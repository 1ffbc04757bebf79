SPECIFICATION DistillSpec
CONSTANTS
  alice = alice
  l1 = l1
  s1 = s1
  c1 = c1
  c2 = c2
  Sessions <- MCSessions1
  Labels <- MCLabels1
  Members <- MCMembers1
  DeploymentOwner = alice
  Calls <- MCCalls
  Ops <- MCOps
  Grades <- NoGrades
  MaxSessions = 2
  Retries = 1
  MaxJobs = 2
  MaxEntries = 1
  MaxAttempts = 2
  MaxCrashes = 1
  NoJob = NoJob
  NoSession = NoSession
  NoMember = NoMember
  NoLabel = NoLabel
  NoMeta = NoMeta
  Idle = Idle
INVARIANTS
  NeverStuckQueued
  SuccessMeansLearned
  
PROPERTIES
  
  QueuedIsResolved
