SPECIFICATION DeviceSpec
CONSTANTS
  p1 = p1
  p2 = p2
  t1 = t1
  t2 = t2
  c1 = c1
  c2 = c2
  kit = kit
  phone = phone
  http = http
  chord = chord
  j1 = j1
  j2 = j2
  h1 = h1
  h2 = h2
  Parts = {"announce"}
  Permits <- MCPermits
  Challenges <- MCChallenges
  Prompts <- MCPrompts
  Tasks <- MCTasks
  Creds <- MCCreds
  Threads <- MCThreads
  Requester = kit
  Strangers = {}
  Approvers = {}
  TTL = 1
  Retain = 1
  MaxNow = 2
  NoPermit = NoPermit
  NoTask = NoTask
  NoCred = NoCred
  Nobody = Nobody
  Members = {owner, m}
  Owner = owner
  Tickets <- MCTickets
  Hashes <- MCHashes
  Clients = {device}
  MaxAttempts = 2
  Requests <- MCRequests
  Removers = {remover}
  None = None
CHECK_DEADLOCK FALSE
SYMMETRY Symmetry
INVARIANTS
  NeverWaitsForItself
