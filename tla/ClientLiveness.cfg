\* One client, three calls, under fairness.
SPECIFICATION FairSpec
CONSTANTS
  a = a
  b = b
  d = d
  e = e
  k1 = k1
  k2 = k2
  k3 = k3
  Clients = {a}
  Calls = {k1, k2, k3}
  LogLevel <- OnlyInfo
  ThrowingLog = {}
CHECK_DEADLOCK FALSE
PROPERTIES
  EveryCallSettles
  ShutdownSilencesLog
