\* Two threads that set and delete in p and q, and update in q; all keys but k1
\* share a shard.
SPECIFICATION FairSpec
CONSTANTS
  t1 = t1  t2 = t2  p = p  q = q
  k1 = k1  k2 = k2  k3 = k3  k4 = k4  s1 = s1  s2 = s2
  Threads = {t1, t2}
  Projects = {p, q}
  UpdatedProjects = {q}
  StateKey <- MCStateKey
  Shards = {s1, s2}
  ShardOf <- MCShardOf
  Cap = 2
  MaxValue = 1
INVARIANTS CountAccurate OvershootBounded
PROPERTIES UpdateAtomic OperationsFinish ImplementsAtomicStore
