\* Sends to a source whose upstream does not read.
SPECIFICATION HungUpstream
CONSTANTS
  MaxConns = 1  MaxPanics = 0  Capacity = 2  MaxQueued = 6  OnConnect = 1  MaxBackoff = 3
INVARIANT OutboundBounded
CHECK_DEADLOCK FALSE
