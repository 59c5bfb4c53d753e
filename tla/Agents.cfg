SPECIFICATION AgentsSpec
CONSTANTS
  BgTasks = {b1, b2}
  NoTask = NoTask
  MaxCommands = 2
  MaxMintFailures = 1
  AgentIds = {i1}
  Askers = {a1, a2}
  CentsMax = 3
  AskCents = {1, 2}
  MaxInstances = 2
  Delegations = {d1, d2, d3}
  MaxConcurrency = 2
  Calls = {a, b}
  failure_threshold = 2
  open_duration = 2
  Policies <- ManyPolicies
  U64Max = 3
  MaxDrops = 1
  f1 = f1
  f2 = f2
  f3 = f3
  Facts = {f1, f2, f3}
  FactOf <- MCFactOf
  Tombs = {t1}
  CutTimes = {2}
  MemoryWriters = {w1, w2}
  ScrollLimit = 2
  PoolSize = 3
  TopK = 1
  MaxMemFaults = 1
  Scopes <- MCScopes
  Narrowings <- MCNarrowings
  Requests <- MCCapRequests
  I64Max = 2
  MaxBlocks = 4
  BlockIds = {1, 2}
  TokenIds <- MCTokenIds
  Revokers = {r1, r2}
  Verifiers = {v1, v2}
  MaxKills = 1
  Wires <- MCWires
  MaxLineBytes = 2
  ContentMax = 3
  SlackRequests = {"message", "reaction"}
  SignedAt <- MCSignedAt
  IsMessage <- MCIsMessage
  Handlers = {h1, h2}
  Inbound = {"other"}
  ReplayWindow = 1
  QueueCapacity = 1
  LastSecond = 2
  MaxDeliveries = 3
  MaxDeltas = 1
CHECK_DEADLOCK FALSE
INVARIANTS AgentsTypeOK RecordMatchesReceipt ChildAgentsSound ReliedOnSound IncomingSound HalfOpenHasProbe CallsBounded
PROPERTY WorkEnds
