SPECIFICATION BgSpec
CONSTANTS
  BgTasks = {b1}
  NoTask = NoTask
  MaxCommands = 1
  MaxMintFailures = 0
CHECK_DEADLOCK FALSE
PROPERTY TerminalIsFinal
