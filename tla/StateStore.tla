------------------------------ MODULE StateStore ------------------------------
(***************************************************************************)
(* The process-wide, project-scoped key/value store of state/mod.rs, used  *)
(* by the `state` step, at the granularity of its DashMap operations.      *)
(*                                                                         *)
(* The store keeps three concurrent maps: `inner` (the entries, locked per *)
(* shard), `project_counts` and `warned_projects`.  Every operation on one *)
(* map is atomic; an operation of the store touches several maps, and the  *)
(* threads of the runtime interleave between those touches.  `set` and the *)
(* second half of `update` hold the shard of their key from the call of    *)
(* `entry` to their return.                                                *)
(*                                                                         *)
(* The store with a cap is modelled.  With `max_entries_per_project: null` *)
(* neither counts nor warnings are kept and every operation is one DashMap *)
(* operation.                                                              *)
(***************************************************************************)
EXTENDS Integers, FiniteSets

CONSTANTS
  Threads,      \* runtime threads executing `state` steps
  Projects,
  UpdatedProjects, \* the projects whose state is also changed by `update`
  StateKey,     \* the keys in use, as pairs of a project and a name
  Shards,       \* the shards of `inner`
  ShardOf,      \* the shard of each StateKey (the DashMap hash)
  Cap,          \* max_entries_per_project
  MaxValue      \* stored values are 0..MaxValue, 0 standing for JSON null

Values == 0..MaxValue

Absent == -1

ASSUME ConstantsAssumption ==
  /\ IsFiniteSet(Threads) /\ Threads # {}
  /\ IsFiniteSet(Projects) /\ Projects # {}
  /\ UpdatedProjects \subseteq Projects
  /\ IsFiniteSet(StateKey) /\ StateKey # {}
  /\ \A k \in StateKey : k[1] \in Projects
  /\ IsFiniteSet(Shards)
  /\ ShardOf \in [StateKey -> Shards]
  /\ Cap \in Nat
  /\ MaxValue \in Nat

VARIABLES
  inner,          \* StateKey -> value or Absent
  projectCounts,  \* project -> count (no entry reads as 0)
  warnedProjects, \* projects whose 80% WARN has been emitted
  pc,             \* thread -> where its current operation stands
  sk,             \* thread -> the StateKey of its current operation
  current,        \* thread -> the count its cap check read
  val             \* thread -> the value its operation is about to write

vars == <<inner, projectCounts, warnedProjects, pc, sk, current, val>>

\* Stages in which a thread holds the exclusive lock of its key's shard.
LockedStages == {"set_checked", "set_warned", "set_bumped",
                 "upd_locked_new", "upd_locked_old", "upd_bump"}

Stages == LockedStages \cup
            {"idle", "del_removed", "upd_absent", "upd_new", "upd_present"}

Project(k) == k[1]

AnyKey == CHOOSE k \in StateKey : TRUE

Holds(t, s) == pc[t] \in LockedStages /\ ShardOf[sk[t]] = s

\* A DashMap operation on k waits while another thread holds k's shard.
ShardFree(k) == \A t \in Threads : ~Holds(t, ShardOf[k])

\* usize::saturating_sub(1)
SaturatingDec(n) == IF n = 0 THEN 0 ELSE n - 1

\* cap.saturating_mul(80) / 100
WarnThreshold == (Cap * 80) \div 100

\* The closure given to `update`: a counter that wraps at MaxValue.
Closure(v) == (v + 1) % (MaxValue + 1)

-----------------------------------------------------------------------------
TypeOK ==
  /\ inner \in [StateKey -> Values \cup {Absent}]
  /\ projectCounts \in [Projects -> Nat]
  /\ warnedProjects \subseteq Projects
  /\ pc \in [Threads -> Stages]
  /\ sk \in [Threads -> StateKey]
  /\ current \in [Threads -> Nat]
  /\ val \in [Threads -> Values]

Init ==
  /\ inner = [k \in StateKey |-> Absent]
  /\ projectCounts = [p \in Projects |-> 0]
  /\ warnedProjects = {}
  /\ pc = [t \in Threads |-> "idle"]
  /\ sk = [t \in Threads |-> AnyKey]
  /\ current = [t \in Threads |-> 0]
  /\ val = [t \in Threads |-> 0]

\* A return: the locals of the call go out of scope, a held shard is released.
Return(t) ==
  /\ pc' = [pc EXCEPT ![t] = "idle"]
  /\ sk' = [sk EXCEPT ![t] = AnyKey]
  /\ current' = [current EXCEPT ![t] = 0]
  /\ val' = [val EXCEPT ![t] = 0]

-----------------------------------------------------------------------------
\* Faulty variant: the overwrite does not wait for the shard.
SetOccupiedUnlocked(t, k, v) ==
  /\ pc[t] = "idle"
  /\ inner[k] # Absent
  /\ inner' = [inner EXCEPT ![k] = v]
  /\ UNCHANGED <<projectCounts, warnedProjects, pc, sk, current, val>>

\* `set`, Occupied arm: overwrite in place, whatever the count is.
SetOccupied(t, k, v) ==
  /\ pc[t] = "idle"
  /\ ShardFree(k)
  /\ inner[k] # Absent
  /\ inner' = [inner EXCEPT ![k] = v]
  /\ UNCHANGED <<projectCounts, warnedProjects, pc, sk, current, val>>

\* `set`, Vacant arm, cap check refused: Err, nothing stored.
SetReject(t, k) ==
  /\ pc[t] = "idle"
  /\ ShardFree(k)
  /\ inner[k] = Absent
  /\ projectCounts[Project(k)] >= Cap
  /\ UNCHANGED <<inner, projectCounts, warnedProjects, pc, sk, current, val>>

\* Faulty variant: `>` for `>=` in the cap check.
SetCheckOffByOne(t, k, v) ==
  /\ pc[t] = "idle"
  /\ ShardFree(k)
  /\ inner[k] = Absent
  /\ projectCounts[Project(k)] <= Cap
  /\ pc' = [pc EXCEPT ![t] = "set_checked"]
  /\ sk' = [sk EXCEPT ![t] = k]
  /\ current' = [current EXCEPT ![t] = projectCounts[Project(k)]]
  /\ val' = [val EXCEPT ![t] = v]
  /\ UNCHANGED <<inner, projectCounts, warnedProjects>>

\* `set`, Vacant arm, cap check passed: the shard stays locked from here on.
SetCheck(t, k, v) ==
  /\ pc[t] = "idle"
  /\ ShardFree(k)
  /\ inner[k] = Absent
  /\ projectCounts[Project(k)] < Cap
  /\ pc' = [pc EXCEPT ![t] = "set_checked"]
  /\ sk' = [sk EXCEPT ![t] = k]
  /\ current' = [current EXCEPT ![t] = projectCounts[Project(k)]]
  /\ val' = [val EXCEPT ![t] = v]
  /\ UNCHANGED <<inner, projectCounts, warnedProjects>>

\* The 80% WARN, decided on the count read by the check.
SetWarn(t) ==
  /\ pc[t] = "set_checked"
  /\ warnedProjects' = IF current[t] + 1 = WarnThreshold
                         THEN warnedProjects \cup {Project(sk[t])}
                         ELSE warnedProjects
  /\ pc' = [pc EXCEPT ![t] = "set_warned"]
  /\ UNCHANGED <<inner, projectCounts, sk, current, val>>

\* project_counts += 1
SetBump(t) ==
  /\ pc[t] = "set_warned"
  /\ projectCounts' = [projectCounts EXCEPT ![Project(sk[t])] = @ + 1]
  /\ pc' = [pc EXCEPT ![t] = "set_bumped"]
  /\ UNCHANGED <<inner, warnedProjects, sk, current, val>>

\* v.insert(value); the shard is released on return.
SetInsert(t) ==
  /\ pc[t] = "set_bumped"
  /\ inner' = [inner EXCEPT ![sk[t]] = val[t]]
  /\ Return(t)
  /\ UNCHANGED <<projectCounts, warnedProjects>>

-----------------------------------------------------------------------------
\* Faulty variant: what `remove` found is not looked at.
DeleteRemoveUnchecked(t, k) ==
  /\ pc[t] = "idle"
  /\ ShardFree(k)
  /\ inner' = [inner EXCEPT ![k] = Absent]
  /\ pc' = [pc EXCEPT ![t] = "del_removed"]
  /\ sk' = [sk EXCEPT ![t] = k]
  /\ UNCHANGED <<projectCounts, warnedProjects, current, val>>

\* `delete` of a present key: the entry goes, and the shard is released
\* before the count is touched.  (Deleting an absent key changes nothing.)
DeleteRemove(t, k) ==
  /\ pc[t] = "idle"
  /\ ShardFree(k)
  /\ inner[k] # Absent
  /\ inner' = [inner EXCEPT ![k] = Absent]
  /\ pc' = [pc EXCEPT ![t] = "del_removed"]
  /\ sk' = [sk EXCEPT ![t] = k]
  /\ UNCHANGED <<projectCounts, warnedProjects, current, val>>

DeleteDecrement(t) ==
  /\ pc[t] = "del_removed"
  /\ projectCounts' = [projectCounts EXCEPT ![Project(sk[t])] = SaturatingDec(@)]
  /\ Return(t)
  /\ UNCHANGED <<inner, warnedProjects>>

-----------------------------------------------------------------------------
\* `update`: contains_key, under a lock that is released at once.
UpdateContains(t, k) ==
  /\ pc[t] = "idle"
  /\ ShardFree(k)
  /\ pc' = [pc EXCEPT ![t] = IF inner[k] = Absent THEN "upd_absent" ELSE "upd_present"]
  /\ sk' = [sk EXCEPT ![t] = k]
  /\ UNCHANGED <<inner, projectCounts, warnedProjects, current, val>>

\* `update` on a key seen absent: the cap check.
UpdateReject(t) ==
  /\ pc[t] = "upd_absent"
  /\ projectCounts[Project(sk[t])] >= Cap
  /\ Return(t)
  /\ UNCHANGED <<inner, projectCounts, warnedProjects>>

UpdateCheck(t) ==
  /\ pc[t] = "upd_absent"
  /\ projectCounts[Project(sk[t])] < Cap
  /\ pc' = [pc EXCEPT ![t] = "upd_new"]
  /\ UNCHANGED <<inner, projectCounts, warnedProjects, sk, current, val>>

\* entry(..).or_insert(Null), and f(Some(&entry)) computed from what is there.
UpdateEntry(t) ==
  /\ pc[t] \in {"upd_new", "upd_present"}
  /\ ShardFree(sk[t])
  /\ LET old == IF inner[sk[t]] = Absent THEN 0 ELSE inner[sk[t]]
     IN /\ inner' = [inner EXCEPT ![sk[t]] = old]
        /\ val' = [val EXCEPT ![t] = Closure(old)]
  /\ pc' = [pc EXCEPT ![t] = IF @ = "upd_new" THEN "upd_locked_new" ELSE "upd_locked_old"]
  /\ UNCHANGED <<projectCounts, warnedProjects, sk, current>>

\* *entry = next, on a key seen present: that is all, the shard is released.
UpdateWriteOld(t) ==
  /\ pc[t] = "upd_locked_old"
  /\ inner' = [inner EXCEPT ![sk[t]] = val[t]]
  /\ Return(t)
  /\ UNCHANGED <<projectCounts, warnedProjects>>

\* *entry = next, on a key seen absent.
UpdateWriteNew(t) ==
  /\ pc[t] = "upd_locked_new"
  /\ inner' = [inner EXCEPT ![sk[t]] = val[t]]
  /\ pc' = [pc EXCEPT ![t] = "upd_bump"]
  /\ UNCHANGED <<projectCounts, warnedProjects, sk, current, val>>

\* Faulty variant: the bump asks `inner` again, whose shard it already holds.
UpdateBumpRelock(t) ==
  /\ pc[t] = "upd_bump"
  /\ ShardFree(sk[t])
  /\ projectCounts' = [projectCounts EXCEPT ![Project(sk[t])] = @ + 1]
  /\ Return(t)
  /\ UNCHANGED <<inner, warnedProjects>>

\* A key seen absent is counted, whoever inserted it in the meantime.
UpdateBump(t) ==
  /\ pc[t] = "upd_bump"
  /\ projectCounts' = [projectCounts EXCEPT ![Project(sk[t])] = @ + 1]
  /\ Return(t)
  /\ UNCHANGED <<inner, warnedProjects>>

-----------------------------------------------------------------------------
\* The steps that start an operation.
Call(t) ==
  \E k \in StateKey :
    \/ \E v \in Values : SetOccupied(t, k, v) \/ SetCheck(t, k, v)
    \/ SetReject(t, k)
    \/ DeleteRemove(t, k)
    \/ Project(k) \in UpdatedProjects /\ UpdateContains(t, k)

\* The steps of an operation that needs no lock it does not hold.
Continue(t) ==
  \/ SetWarn(t) \/ SetBump(t) \/ SetInsert(t)
  \/ DeleteDecrement(t)
  \/ UpdateReject(t) \/ UpdateCheck(t)
  \/ UpdateWriteOld(t) \/ UpdateWriteNew(t) \/ UpdateBump(t)

Next == \E t \in Threads : Call(t) \/ Continue(t) \/ UpdateEntry(t)

Spec == Init /\ [][Next]_vars

\* A thread inside the store is never descheduled for ever.
FairSpec == Spec /\ \A t \in Threads : WF_vars(Continue(t))

-----------------------------------------------------------------------------
Entries(p) == {k \in StateKey : Project(k) = p /\ inner[k] # Absent}

InStage(p, stages) == {t \in Threads : pc[t] \in stages /\ Project(sk[t]) = p}

\* The projects that only see `set` and `delete`, which is what `state` steps call.
PlainProjects == Projects \ UpdatedProjects

\* The per-project count is exact up to the operations in progress: it counts
\* every stored entry, plus each `set` that has bumped the count and not yet
\* inserted, plus each `delete` that has removed and not yet decremented.  In
\* particular saturating_sub never swallows a decrement, and a project that no
\* thread is working on reports the truthful count.
CountAccurate ==
  \A p \in PlainProjects :
    projectCounts[p] = Cardinality(Entries(p))
                         + Cardinality(InStage(p, {"set_bumped", "del_removed"}))

\* The cap is soft by at most the inserts that race on the check: as an insert
\* keeps its shard locked from check to insert, that is one per shard and one
\* per thread, so a project never holds more than Cap plus (that number - 1).
OvershootBounded ==
  \A p \in PlainProjects :
    /\ Cardinality(Entries(p)) < Cap + Cardinality(Threads)
    /\ Cardinality(Entries(p)) < Cap + Cardinality(Shards)

\* The shard locks exclude: two operations between `entry` and their return
\* are on different shards.
ShardExclusive ==
  \A t, u \in Threads :
    /\ pc[t] \in LockedStages
    /\ pc[u] \in LockedStages
    /\ ShardOf[sk[t]] = ShardOf[sk[u]]
    => t = u

\* "Atomic read-modify-write": what `update` writes is the closure applied to
\* the value that is in the store when it is written.
UpdateAtomic ==
  [][\A t \in Threads :
       UpdateWriteOld(t) \/ UpdateWriteNew(t)
         => inner'[sk[t]] = Closure(inner[sk[t]])]_vars

\* No operation keeps a shard, or a pending decrement, for ever.
OperationsFinish ==
  \A t \in Threads : pc[t] \in LockedStages \cup {"del_removed"} ~> pc[t] = "idle"

=============================================================================
