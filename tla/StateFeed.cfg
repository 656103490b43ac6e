\* Units of 5 ms, the limits shortened in their order: 20, 10, 30, 60, 5.
SPECIFICATION Spec
CONSTANTS
  capacity = 3
  Entries = {1, 2, 3, 4, 5, 6}
  Zero = 0
  kControlDt = 4
  kWatchdogDt = 2
  stale_ms = 6
  kStateStaleMs = 12
  kPollPeriod = 1
  MaxWrite = 4
  MaxLag = 1
  MaxTicks = 6
INVARIANTS
  HistoryIsLatest
  NeverBlind
PROPERTIES
  MissesMeanSilence
  TokensAreRecorded
