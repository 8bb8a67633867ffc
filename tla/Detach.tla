-------------------------------- MODULE Detach --------------------------------
(***************************************************************************)
(* The `detach` step and its registry (steps/detach.rs), and the shutdown  *)
(* sequence of main.rs that drains it.                                     *)
(*                                                                         *)
(* A detach step takes a permit, waits for the mutex of the JoinSet and    *)
(* spawns a task that owns the permit.  The steps of a task may be detach  *)
(* steps themselves.  On SIGTERM the listeners stop, and then `drain`      *)
(* keeps the mutex while it joins every task.                              *)
(*                                                                         *)
(* Three kinds of caller run detach steps, told apart by what shutdown     *)
(* does with them: requests on TCP listeners (axum waits for them),        *)
(* requests on UDS connections (waited for with a grace, then aborted but  *)
(* not joined), and frames of WebSocket connections and sources (nothing   *)
(* waits for them).  A registry with max_inflight is modelled; with `null` *)
(* there are no permits.                                                   *)
(***************************************************************************)
EXTENDS Integers, FiniteSets

CONSTANTS
  Tcp, Uds, Frames,  \* the callers of each kind
  Tasks,             \* identities for detached tasks (bounds the JoinSet)
  Cap                \* detach.max_inflight

Callers == Tcp \cup Uds \cup Frames

ASSUME DetachAssumption ==
  /\ IsFiniteSet(Callers) /\ IsFiniteSet(Tasks)
  /\ Tcp \cap Uds = {} /\ Tcp \cap Frames = {} /\ Uds \cap Frames = {}
  /\ Callers \cap Tasks = {}
  /\ Cap \in Nat

VARIABLES
  phase,      \* of the process
  udsOpen,    \* the UDS listener's task has not ended
  doomed,     \* UDS requests that were aborted and have not yielded yet
  pc,         \* caller or task -> "off", "run", "lock" (in try_spawn), "ended"
  permits,    \* available permits of the semaphore
  joinSet,    \* the tasks spawned and not joined
  locked,     \* the mutex of the JoinSet is held by `drain`
  root        \* history: task -> the kind of caller it descends from

vars == <<phase, udsOpen, doomed, pc, permits, joinSet, locked, root>>

Phases == {"serving", "stopping", "draining", "drained", "exited"}

Kinds == {"tcp", "uds", "frame"}

KindOf(x) == CASE x \in Tcp -> "tcp" [] x \in Uds -> "uds"
               [] x \in Frames -> "frame" [] OTHER -> root[x]

\* The permits a caller or task owns: its own as a task, and the one it has
\* acquired for a task it is about to spawn.
Holding(x) == (IF x \in Tasks /\ pc[x] \in {"run", "lock"} THEN 1 ELSE 0)
                + (IF pc[x] = "lock" THEN 1 ELSE 0)

TypeOK ==
  /\ phase \in Phases
  /\ udsOpen \in BOOLEAN
  /\ doomed \subseteq Uds
  /\ pc \in [Callers \cup Tasks -> {"off", "run", "lock", "ended"}]
  /\ permits \in 0..Cap
  /\ joinSet \subseteq Tasks
  /\ locked \in BOOLEAN
  /\ root \in [Tasks -> Kinds]

Init ==
  /\ phase = "serving"
  /\ udsOpen = TRUE
  /\ doomed = {}
  /\ pc = [x \in Callers \cup Tasks |-> "off"]
  /\ permits = Cap
  /\ joinSet = {}
  /\ locked = FALSE
  /\ root = [t \in Tasks |-> "tcp"]

Goto(x, stage) == pc' = [pc EXCEPT ![x] = stage]

Alive == phase # "exited"

-----------------------------------------------------------------------------
\* A request or a frame arrives.  A UDS connection that is open serves requests
\* until its listener's task has ended.
Arrive(c) ==
  /\ Alive
  /\ pc[c] = "off"
  /\ c \in Tcp => phase = "serving"
  /\ c \in Uds => udsOpen
  /\ Goto(c, "run")
  /\ UNCHANGED <<phase, udsOpen, doomed, permits, joinSet, locked, root>>

\* Faulty variant: the permit of a cancelled try_spawn is not given back.
LeaveWithPermit(c) ==
  /\ Alive
  /\ pc[c] # "off"
  /\ Goto(c, "off")
  /\ doomed' = doomed \ {c}
  /\ UNCHANGED <<phase, udsOpen, permits, joinSet, locked, root>>

\* The caller is done, has failed ("detach registry full" included), is
\* cancelled by its timeout, or is aborted: wherever it is, a permit it has
\* acquired for a task not spawned yet is dropped.
Leave(c) ==
  /\ Alive
  /\ pc[c] # "off"
  /\ Goto(c, "off")
  /\ doomed' = doomed \ {c}
  /\ permits' = permits + Holding(c)
  /\ UNCHANGED <<phase, udsOpen, joinSet, locked, root>>

\* try_spawn: try_acquire_owned succeeds.  (An aborted request that finds the
\* mutex taken yields there, and is gone: Leave.)
Acquire(x) ==
  /\ Alive
  /\ pc[x] = "run"
  /\ permits > 0
  /\ ~(x \in doomed /\ locked)
  /\ permits' = permits - 1
  /\ Goto(x, "lock")
  /\ UNCHANGED <<phase, udsOpen, doomed, joinSet, locked, root>>

\* try_spawn: the mutex is free; the permit moves into the new task.
Spawn(x, t) ==
  /\ Alive
  /\ pc[x] = "lock"
  /\ ~locked
  /\ pc[t] = "off"
  /\ pc' = [pc EXCEPT ![x] = "run", ![t] = "run"]
  /\ joinSet' = joinSet \cup {t}
  /\ root' = [root EXCEPT ![t] = KindOf(x)]
  /\ UNCHANGED <<phase, udsOpen, doomed, permits, locked>>

\* A task ends: last sub-step, an error, a panic, or timeout_ms (which may find
\* it in a nested try_spawn).  It stays in the JoinSet until it is joined.
TaskEnds(t) ==
  /\ Alive
  /\ pc[t] \in {"run", "lock"}
  /\ Goto(t, "ended")
  /\ permits' = permits + Holding(t)
  /\ UNCHANGED <<phase, udsOpen, doomed, joinSet, locked, root>>

-----------------------------------------------------------------------------
\* The watch channel flips: listeners stop accepting.
Sigterm ==
  /\ phase = "serving"
  /\ phase' = "stopping"
  /\ UNCHANGED <<udsOpen, doomed, pc, permits, joinSet, locked, root>>

\* The UDS listener's task ends: its connections have ended, or the grace is
\* over and those left are aborted.  An aborted task stops where it next yields.
UdsClose ==
  /\ phase = "stopping"
  /\ udsOpen
  /\ udsOpen' = FALSE
  /\ doomed' = {c \in Uds : pc[c] # "off"}
  /\ UNCHANGED <<phase, pc, permits, joinSet, locked, root>>

\* Faulty variant: the drain does not wait for the listeners.
DrainLockEarly ==
  /\ phase = "stopping"
  /\ IF joinSet = {} THEN phase' = "drained" /\ UNCHANGED locked
                     ELSE phase' = "draining" /\ locked' = TRUE
  /\ UNCHANGED <<udsOpen, doomed, pc, permits, joinSet, root>>

\* All listeners have drained: `drain` takes the mutex, or finds no tasks.  (An
\* aborted request on its way to the mutex gets there first or is gone.)
DrainLock ==
  /\ phase = "stopping"
  /\ \A c \in Tcp : pc[c] = "off"
  /\ ~udsOpen
  /\ \A c \in doomed : pc[c] # "lock"
  /\ IF joinSet = {} THEN phase' = "drained" /\ UNCHANGED locked
                     ELSE phase' = "draining" /\ locked' = TRUE
  /\ UNCHANGED <<udsOpen, doomed, pc, permits, joinSet, root>>

\* join_next, in either loop.
JoinNext(t) ==
  /\ phase = "draining"
  /\ t \in joinSet /\ pc[t] = "ended"
  /\ joinSet' = joinSet \ {t}
  /\ Goto(t, "off")
  /\ UNCHANGED <<phase, udsOpen, doomed, permits, locked, root>>

\* Faulty variant: the grace never runs out for a task that waits in try_spawn.
DrainTimeoutRunning ==
  /\ phase = "draining"
  /\ \E t \in joinSet : pc[t] = "run"
  /\ pc' = [x \in DOMAIN pc |-> IF x \in joinSet /\ pc[x] = "run" THEN "ended" ELSE pc[x]]
  /\ permits' = permits + Cardinality({t \in joinSet : pc[t] = "run"})
  /\ UNCHANGED <<phase, udsOpen, doomed, joinSet, locked, root>>

\* shutdown_grace_secs are over: abort_all.  The tasks' permits are dropped.
DrainTimeout ==
  /\ phase = "draining"
  /\ \E t \in joinSet : pc[t] # "ended"
  /\ pc' = [x \in DOMAIN pc |-> IF x \in joinSet THEN "ended" ELSE pc[x]]
  /\ permits' = permits + Cardinality({t \in joinSet : pc[t] # "ended"})
                        + Cardinality({t \in joinSet : pc[t] = "lock"})
  /\ UNCHANGED <<phase, udsOpen, doomed, joinSet, locked, root>>

\* The JoinSet is empty: `drain` returns and the mutex is released.
DrainEnd ==
  /\ phase = "draining"
  /\ joinSet = {}
  /\ phase' = "drained"
  /\ locked' = FALSE
  /\ UNCHANGED <<udsOpen, doomed, pc, permits, joinSet, root>>

\* main returns: whatever is still running is gone with the process.
Exit ==
  /\ phase = "drained"
  /\ phase' = "exited"
  /\ UNCHANGED <<udsOpen, doomed, pc, permits, joinSet, locked, root>>

-----------------------------------------------------------------------------
Shutdown == \/ UdsClose \/ DrainLock \/ DrainTimeout \/ DrainEnd \/ Exit
            \/ \E t \in Tasks : JoinNext(t)

Next ==
  \/ \E c \in Callers : Arrive(c) \/ Leave(c)
  \/ \E x \in Callers \cup Tasks : Acquire(x) \/ \E t \in Tasks : Spawn(x, t)
  \/ \E t \in Tasks : TaskEnds(t)
  \/ Sigterm
  \/ Shutdown

Spec == Init /\ [][Next]_vars

\* main keeps running and its timers fire; a request ends, by itself or by the
\* TimeoutLayer, and an aborted one yields.  Nothing is assumed of the tasks.
FairSpec == /\ Spec
            /\ WF_vars(Shutdown)
            /\ \A c \in Tcp \cup Uds : WF_vars(Leave(c))

-----------------------------------------------------------------------------
\* Permits are neither lost nor duplicated by completion, failure, timeout,
\* cancellation in try_spawn, or abort: what is not available is held by a live
\* task or by a try_spawn in progress.  So at most Cap tasks run.
PermitsConserved ==
  /\ TypeOK
  /\ permits = Cap - Cardinality({t \in Tasks : pc[t] \in {"run", "lock"}})
                   - Cardinality({x \in Callers \cup Tasks : pc[x] = "lock"})

\* "a just-completed inbound request may have fired detach as its last step; the
\* registry owns the task, so we wait on it separately": a task that descends
\* from a TCP request, nested detach included, is not running when the process
\* exits (it has ended or was aborted by the drain).
TcpWorkDrained ==
  phase = "exited" =>
    \A t \in Tasks : pc[t] \in {"run", "lock"} => root[t] # "tcp"

\* After SIGTERM the process exits, whatever the tasks do: in particular when a
\* task waits in a nested try_spawn for the mutex that `drain` holds while it
\* waits for that task.
ShutdownCompletes == phase = "stopping" ~> phase = "exited"

=============================================================================
