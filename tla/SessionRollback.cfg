SPECIFICATION HistorySpec
CONSTANTS
  MaxTurns = 1
  MaxRounds = 1
  MaxMarks = 4
  MaxFaults = 0
  MaxResumes = 0
CHECK_DEADLOCK FALSE
INVARIANT RollbackMatchesReplay
