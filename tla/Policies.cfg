SPECIFICATION MCSpec
CONSTANTS
  PerMilli = 3
  Dates = {1, 2, 4, 6}
  WarningThreshold = 2
  MinLogInterval = 2
  MaxCalls = 8
  BaseDelay = 100
  MaxDelay = 850
  MaxExponent = 6
  Percents <- AllPercents
  MaxClients = 3
  MaxExecutions = 1
  Helpers <- AllHelpers
  MaxCount = 4
  MaxLimit = 3
  RefreshCalls = {r1, r2, r3}
  MaxIndex = 6
  MaxResolutions = 4
  MaxHandedOut = 5
  Addresses = {a1, a2, a3, a4}
  Topologies = {t1, t2}
  MaxRefreshes = 4
CHECK_DEADLOCK FALSE
INVARIANTS
  DriftBounded
  WarningsApart
  SettingsReachTheSession
  CallersAreAnsweredOnce
PROPERTIES
  StrictlyIncreasing
  ScheduleSound
  HandsOutCurrent
  SameObjectSameState
