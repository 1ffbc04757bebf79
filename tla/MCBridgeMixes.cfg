SPECIFICATION MixSpec
CONSTANTS
  alice = alice
  bob = bob
  l1 = l1
  l2 = l2
  s1 = s1
  s2 = s2
  c1 = c1
  c2 = c2
  Sessions <- MCSessions2
  Labels <- MCLabels2
  Members <- MCMembers
  DeploymentOwner = alice
  Calls <- MCCalls
  Ops <- AllOps
  Grades <- TwoGrades
  MaxSessions = 2
  Retries = 1
  MaxJobs = 2
  MaxEntries = 1
  NoSession = NoSession
  NoMember = NoMember
  NoLabel = NoLabel
  NoMeta = NoMeta
  Idle = Idle
SYMMETRY Symmetric2
PROPERTIES
  FirstGradeWins
  
