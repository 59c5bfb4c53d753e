SPECIFICATION Spec
CONSTANTS
  h1 = h1
  h2 = h2
  s1 = s1
  p1 = p1
  HttpTurns = {}
  StreamTurns = {s1}
  PlainTurns = {}
  OwnSession = {s1}
  Concurrency = 1
  QueueCap = 1
  MaxRounds = 1
  Strategies = {"AppendSyntheticJournal"}
  Control = control
  Cli = cli
  CliBesideServer = FALSE
  NoTurn = NoTurn
  NoReceipt = NoReceipt
  Failures = {}
  Tears = {}
  MaxFailures = 0
  MaxCrashes = 0
  MaxControls = 0
  MaxCli = 0
CHECK_DEADLOCK FALSE
INVARIANT DroppedStreamUncharged
