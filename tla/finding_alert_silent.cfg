SPECIFICATION AlertSpec
CONSTANTS
  Alerts = {quote}
  NoEntry = NoEntry
CHECK_DEADLOCK FALSE
INVARIANT NeverSilent
