SPECIFICATION FairSpec
CONSTANTS
  h1 = h1
  h2 = h2
  s1 = s1
  p1 = p1
  HttpTurns = {h1}
  StreamTurns = {s1}
  PlainTurns = {}
  OwnSession = {h1, s1}
  Concurrency = 2
  QueueCap = 1
  MaxRounds = 2
  Strategies = {"AppendSyntheticJournal"}
  Control = control
  Cli = cli
  CliBesideServer = FALSE
  NoTurn = NoTurn
  NoReceipt = NoReceipt
  Failures = {"nothing"}
  Tears = {}
  MaxFailures = 1
  MaxCrashes = 0
  MaxControls = 0
  MaxCli = 0
CHECK_DEADLOCK FALSE
INVARIANTS TypeOK BilledIffReceipted CancelledTurnMarked
PROPERTIES EveryoneAnswered ImplementsLedger
