\* A timed-out follower removes the slot of a later leader.
SPECIFICATION Spec
CONSTANTS
  c1 = c1  c2 = c2  c3 = c3  ka = ka  kb = kb  kc = kc  kd = kd
  Callers = {c1, c2, c3}
  Cancellable = {}
  Keys = {ka}
  MaxEntries = 1
PROPERTY TimeoutEvictsHungSlot
