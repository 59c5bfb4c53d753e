SPECIFICATION Spec
CONSTANTS
  h1 = h1
  h2 = h2
  s1 = s1
  p1 = p1
  HttpTurns = {h1}
  StreamTurns = {}
  PlainTurns = {p1}
  OwnSession = {h1, p1, control}
  Concurrency = 1
  QueueCap = 1
  MaxRounds = 2
  Strategies = {"AppendSyntheticJournal", "TruncateOrphans"}
  Control = control
  Cli = cli
  CliBesideServer = FALSE
  NoTurn = NoTurn
  NoReceipt = NoReceipt
  Failures = {"nothing"}
  Tears = {"nothing", "payload", "ok"}
  MaxFailures = 1
  MaxCrashes = 2
  MaxControls = 1
  MaxCli = 1
CHECK_DEADLOCK FALSE
INVARIANTS ChainLinear AcknowledgedDurable Reconciled
PROPERTY ImplementsLedger
