\* A source that panics, fails and reconnects while messages are sent to it.
SPECIFICATION FairSpec
CONSTANTS
  MaxConns = 3  MaxPanics = 2  Capacity = 1  MaxQueued = 2  OnConnect = 1  MaxBackoff = 3
INVARIANT RegisteredIsLatest
PROPERTIES PanicIsSurvived 
CHECK_DEADLOCK FALSE
