SPECIFICATION AloneSpec
CONSTANTS
  alice = alice
  bob = bob
  l1 = l1
  l2 = l2
  s1 = s1
  s2 = s2
  c1 = c1
  c2 = c2
  Sessions <- MCSessions2
  Labels <- MCLabels1
  Members <- MCMembers
  DeploymentOwner = alice
  Calls <- MCCall
  Ops <- AllOps
  Grades <- NoGrades
  MaxSessions = 1
  Retries = 1
  MaxJobs = 1
  MaxEntries = 1
  NoSession = NoSession
  NoMember = NoMember
  NoLabel = NoLabel
  NoMeta = NoMeta
  Idle = Idle
  Parts = {"undone"}
  LastText = 2
  Stores <- MCStores
  MaxWrites = 1
  RollsBack = TRUE
  Other = Other
  Nothing = Nothing
SYMMETRY Symmetric1
INVARIANTS
  ScoresSurvive
