\* The watcher and a reload_dsl step, dropped signals, a broken version, a request.
SPECIFICATION FairSpec
CONSTANTS
  q1 = q1  z1 = z1
  StepReloaders = {z1}
  Requests = {q1}
  MaxEdits = 3
  QueueCap = 1
  Broken = {2}
INVARIANT PublishedIsSound
PROPERTY SettlesOnDisk
