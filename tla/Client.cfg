\* Two clients that log, one whose log listener throws and one that does not
\* log; two calls.
SPECIFICATION Spec
CONSTANTS
  a = a
  b = b
  d = d
  e = e
  k1 = k1
  k2 = k2
  k3 = k3
  Clients = {a, b, d, e}
  Calls = {k1, k2}
  LogLevel <- MixedLevels
  ThrowingLog = {d}
SYMMETRY ClientSymmetry
CHECK_DEADLOCK FALSE
INVARIANTS
  ConnectShared
  SessionReady
  LoggingOwned
  ShutdownIsComplete
PROPERTIES
  RejectsOnceShutDown
  ImplementsConnectOnce
