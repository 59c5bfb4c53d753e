SPECIFICATION WindowsSpec
CONSTANTS
  k1 = k1
  k2 = k2
  Sids = {k1, k2}
  Drivers = {d1}
  Firers = {f1}
  DueMinutes <- MCDueMinutes
  MinuteTicks = 2
  TokenTtl = 1
  MaxClock = 3
  MaxFaults = 1
  MaxFires = 2
  MinuteMax = 1
  HourMax = 1
  DayMax = 3
  MonthMax = 2
  WeekdayMax = 3
  U8Max = 5
  SearchMinutes = 22
  Calendar <- MCCalendar
  CronInputs <- MCCronInputs
  Signatures = {"a", "b", "c"}
  SourceWindow <- MCSourceWindow
  TicksPerSecond = 2
  MaxEntries = 2
  MaxTicks = 6
  MaxAdmissions = 2
  CallKinds = {"x", "y"}
  Exempt = {"y"}
  Costs = {1, 2}
  Budgets <- MCBudgets
  Requests <- MCRequests
  MaxLoopTurns = 5
  MaxCalls = 2
  MaxOverrides = 1
  Sends = {s1, s2, s3}
  RoomMessages = {m1, m2}
  NoMessage = NoMessage
  Unsaved = Unsaved
  MaxStoreFaults = 1
  MaxPairings = 1
  MaxSeq = 3
  MaxRetries = 1
CHECK_DEADLOCK FALSE
INVARIANTS WindowsTypeOK DeliveriesSound CronExact DetectorSound HomeClientSound
PROPERTIES DeletedIsOver NotAgainWithinWindow HaltAfterQuietGrace
