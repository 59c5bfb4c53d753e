SPECIFICATION OperatorSpec
CONSTANTS
  k1 = k1
  k2 = k2
  Keys = {k1, k2}
  Cards = {c1, c2, c3}
  Decisions = {d1, d2, d3}
  HttpDecisions = {d1, d2}
  MaxCrashes = 1
  NoKey = NoKey
  NoCard = NoCard
  Invocations = {p1, p2}
  StoreOf <- MCStoreOf
  Present = {"c1", "e1", "t1"}
  MaxKills = 1
  MaxTurns = 1
  MaxRounds = 2
  MaxMarks = 3
  MaxFaults = 1
  MaxResumes = 2
  LogReaders = {v1, v2}
  MaxLogged = 2
  MaxLogCrashes = 1
  Restores = {r1, r2}
  Boots = {b1}
  Prior = Prior
  NoTree = NoTree
  EmptyTree = EmptyTree
  Stub = Stub
  MaxTreeFaults = 2
  MaxTreeKills = 1
  FileCalls = {k1, k2}
  ChunkOf <- MCChunkOf
  MaxChunks = 2
  MaxCaptureChunks = 1
  MaxOutside = 1
SYMMETRY Symmetry
CHECK_DEADLOCK FALSE
INVARIANTS OperatorTypeOK RunsPaidFor CardsUsedOnce AloneSound SessionSound ReadersSound PriorComesBack
PROPERTIES OffUnlessOverlapped ExcisedStaysOut
