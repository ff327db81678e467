SPECIFICATION ValuesSpec
CONSTANTS
  Samples <- MCSamples
  Trees <- MCTrees
  ByteBits = 4
  NanosPer <- MCNanosPer
  Amounts = {1, 16, 128}
  MaxParts = 3
  Half = 4
  Precision = 13
  Operands <- MCOperands
  Limit = 200000
  MaxOps = 1
  Years <- MCYears
  DayCounts <- MCDayCounts
  EsLimit = 100000000
  DateCenter = 1073741824
  Hours = 2
  Minutes = 3
  Seconds = 4
  MilliDigits = 1
  NanoDigits = 1
  Texts <- MCTexts
  Instants <- MCInstants
  Unscaled <- MCUnscaled
  Scales <- MCScales
  Groups = {0, 1}
  Written <- MCWritten
  Junk = {0, 9}
  TicksInMs = 3
  MicrosInMs = 2
  UnixToGregorian = 5
  LowRange = 8
  MidRange = 2
  HighRange = 2
  MaxTime = 2
  MaxMade = 5
CHECK_DEADLOCK FALSE
INVARIANTS
  ReadsBackWhatWasBound
  RoutingKeyHoldsItsParts
  NamesKeepTheirType
  DurationsExact
  IntegersExact
  TextsReadBack
  TimeUuidsIncrease
