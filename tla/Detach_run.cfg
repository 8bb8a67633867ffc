\* One caller of each kind, nested detach, hanging tasks, SIGTERM at any time.
SPECIFICATION FairSpec
CONSTANTS
  r1 = r1  u1 = u1  f1 = f1  d1 = d1  d2 = d2  d3 = d3
  Tcp = {r1}  Uds = {u1}  Frames = {f1}
  Tasks = {d1, d2, d3}
  Cap = 2
INVARIANTS PermitsConserved TcpWorkDrained
PROPERTY ShutdownCompletes
CHECK_DEADLOCK FALSE
