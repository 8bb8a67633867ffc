\* Two callers, one of which may be cancelled, four keys and a registry for one.
SPECIFICATION FairSpec
CONSTANTS
  c1 = c1  c2 = c2  c3 = c3  ka = ka  kb = kb  kc = kc  kd = kd
  Callers = {c1, c2}
  Cancellable = {c1}
  Keys = {ka, kb, kc, kd}
  MaxEntries = 1
INVARIANTS Coalesces RegistryBounded
PROPERTIES HungSlotLeaves FollowersReturn
