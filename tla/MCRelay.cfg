SPECIFICATION RelaySpec
CONSTANTS
  alice = alice
  bob = bob
  l1 = l1
  l2 = l2
  p1 = p1
  p2 = p2
  Labels <- MCLabels
  Members <- MCMembers
  DeploymentOwner = alice
  Procs <- MCProcs
  ClaimTtl = 1
  MaxTtl = 2
  MaxFence = 2
  NoLease = NoLease
  NoClaim = NoClaim
  NoMember = NoMember
  NoReq = NoReq
  s1 = s1
  c1 = c1
  c2 = c2
  Screens <- MCScreens
  Owner = alice
  Admins <- MCAdmins
  Choices = {"x", "y"}
  Surfaces <- MCSurfaces
  Ttl = 2
  AbandonAfter = 1
  MaxDay = 3
  NoScope = NoScope
  NoScreen = NoScreen
  NoAnswer = NoAnswer
  NoCall = NoCall
INVARIANTS
  OneAnswer
  OwnersKey
  ToldOncePerTtl
PROPERTIES
  OwnedLeaseEndsByOwner
  ImplementsLock
  LeaseLapses
