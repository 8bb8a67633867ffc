--------------------------- MODULE StateStoreProofs ---------------------------
(***************************************************************************)
(* Proofs about StateStore, for any number of threads, projects, keys and  *)
(* shards and for every cap.                                               *)
(***************************************************************************)
EXTENDS StateStore, FiniteSetTheorems, TLAPS

\* The key that an idle thread's local is reset to is a StateKey.
LEMMA AnyKeyIsKey == AnyKey \in StateKey
BY ConstantsAssumption DEF AnyKey

\* The project of a StateKey is a project.
LEMMA ProjectType == \A k \in StateKey : Project(k) \in Projects
BY ConstantsAssumption DEF Project

\* The closure given to `update` maps values to values.
LEMMA ClosureType == \A v \in Values : Closure(v) \in Values
BY ConstantsAssumption DEF Values, Closure

\* A stored value is never mistaken for a missing entry.
LEMMA AbsentIsNoValue == Absent \notin Values
BY ConstantsAssumption DEF Absent, Values

\* Every variable of the store keeps its type, whatever the callers interleave.
THEOREM TypeCorrect == Spec => []TypeOK
<1>1. Init => TypeOK
  BY AnyKeyIsKey, ConstantsAssumption DEF Init, TypeOK, Stages, Values
<1>2. TypeOK /\ [Next]_vars => TypeOK'
  <2> SUFFICES ASSUME TypeOK, [Next]_vars PROVE TypeOK'
    OBVIOUS
  <2> USE AnyKeyIsKey, ProjectType DEF TypeOK, Stages, LockedStages, Return
  <2>0. 0 \in Values
    BY ConstantsAssumption DEF Values
  <2>1. ASSUME NEW t \in Threads, NEW k \in StateKey, NEW v \in Values,
               SetOccupied(t, k, v) \/ SetCheck(t, k, v)
        PROVE  TypeOK'
    BY <2>1 DEF SetOccupied, SetCheck
  <2>2. ASSUME NEW t \in Threads, NEW k \in StateKey,
               SetReject(t, k) \/ DeleteRemove(t, k) \/ UpdateContains(t, k)
        PROVE  TypeOK'
    BY <2>2 DEF SetReject, DeleteRemove, UpdateContains
  <2>3. ASSUME NEW t \in Threads, SetWarn(t) \/ SetBump(t) \/ SetInsert(t)
        PROVE  TypeOK'
    BY <2>0, <2>3 DEF SetWarn, SetBump, SetInsert
  <2>4. ASSUME NEW t \in Threads, DeleteDecrement(t)
        PROVE  TypeOK'
    BY <2>0, <2>4 DEF DeleteDecrement, SaturatingDec
  <2>5. ASSUME NEW t \in Threads, UpdateReject(t) \/ UpdateCheck(t) \/ UpdateBump(t)
        PROVE  TypeOK'
    BY <2>0, <2>5 DEF UpdateReject, UpdateCheck, UpdateBump
  <2>6. ASSUME NEW t \in Threads, UpdateEntry(t)
        PROVE  TypeOK'
    BY <2>0, <2>6, ClosureType DEF UpdateEntry
  <2>7. ASSUME NEW t \in Threads, UpdateWriteOld(t) \/ UpdateWriteNew(t)
        PROVE  TypeOK'
    BY <2>0, <2>7 DEF UpdateWriteOld, UpdateWriteNew
  <2>8. CASE UNCHANGED vars
    BY <2>8 DEF vars
  <2>9. QED
    BY <2>1, <2>2, <2>3, <2>4, <2>5, <2>6, <2>7, <2>8 DEF Next, Call, Continue
<1>3. QED
  BY <1>1, <1>2, PTL DEF Spec

-----------------------------------------------------------------------------
\* What `update` is about to write was computed from what is in the store.
UpdateFresh ==
  \A t \in Threads :
    pc[t] \in {"upd_locked_new", "upd_locked_old"}
      => inner[sk[t]] \in Values /\ val[t] = Closure(inner[sk[t]])

LockInv == TypeOK /\ ShardExclusive /\ UpdateFresh

\* One step of any operation keeps the shards exclusive and the value an
\* `update` read unchanged until it writes.
LEMMA LockInvStep == LockInv /\ [Next]_vars => ShardExclusive' /\ UpdateFresh'
<1> SUFFICES ASSUME LockInv, [Next]_vars PROVE ShardExclusive' /\ UpdateFresh'
  OBVIOUS
<1> USE AnyKeyIsKey DEF LockInv, TypeOK, LockedStages, Stages, Return
<1>a. \A k \in StateKey : ShardFree(k)
        => \A t \in Threads : pc[t] \in LockedStages => ShardOf[sk[t]] # ShardOf[k]
  BY DEF ShardFree, Holds
<1>1. ASSUME NEW t \in Threads, NEW k \in StateKey, NEW v \in Values,
             SetOccupied(t, k, v)
      PROVE  ShardExclusive' /\ UpdateFresh'
  BY <1>1, <1>a DEF SetOccupied, ShardExclusive, UpdateFresh
<1>2. ASSUME NEW t \in Threads, NEW k \in StateKey, NEW v \in Values,
             SetCheck(t, k, v)
      PROVE  ShardExclusive' /\ UpdateFresh'
  BY <1>2, <1>a DEF SetCheck, ShardExclusive, UpdateFresh
<1>3. ASSUME NEW t \in Threads, NEW k \in StateKey,
             SetReject(t, k) \/ UpdateContains(t, k)
      PROVE  ShardExclusive' /\ UpdateFresh'
  BY <1>3 DEF SetReject, UpdateContains, ShardExclusive, UpdateFresh
<1>4. ASSUME NEW t \in Threads, NEW k \in StateKey, DeleteRemove(t, k)
      PROVE  ShardExclusive' /\ UpdateFresh'
  BY <1>4, <1>a DEF DeleteRemove, ShardExclusive, UpdateFresh
<1>5. ASSUME NEW t \in Threads, SetWarn(t) \/ SetBump(t) \/ DeleteDecrement(t)
      PROVE  ShardExclusive' /\ UpdateFresh'
  BY <1>5 DEF SetWarn, SetBump, DeleteDecrement, ShardExclusive, UpdateFresh
<1>6. ASSUME NEW t \in Threads, SetInsert(t)
      PROVE  ShardExclusive' /\ UpdateFresh'
  BY <1>6 DEF SetInsert, ShardExclusive, UpdateFresh
<1>7. ASSUME NEW t \in Threads, UpdateReject(t) \/ UpdateCheck(t) \/ UpdateBump(t)
      PROVE  ShardExclusive' /\ UpdateFresh'
  BY <1>7 DEF UpdateReject, UpdateCheck, UpdateBump, ShardExclusive, UpdateFresh
<1>8. ASSUME NEW t \in Threads, UpdateEntry(t)
      PROVE  ShardExclusive' /\ UpdateFresh'
  <2>0. 0 \in Values
    BY ConstantsAssumption DEF Values
  <2>1. ShardExclusive'
    BY <1>8, <1>a DEF UpdateEntry, ShardExclusive
  <2>2. UpdateFresh'
    BY <1>8, <1>a, <2>0 DEF UpdateEntry, UpdateFresh
  <2>3. QED
    BY <2>1, <2>2
<1>9. ASSUME NEW t \in Threads, UpdateWriteOld(t) \/ UpdateWriteNew(t)
      PROVE  ShardExclusive' /\ UpdateFresh'
  BY <1>9 DEF UpdateWriteOld, UpdateWriteNew, ShardExclusive, UpdateFresh
<1>10. CASE UNCHANGED vars
  BY <1>10 DEF vars, ShardExclusive, UpdateFresh
<1>11. QED
  BY <1>1, <1>2, <1>3, <1>4, <1>5, <1>6, <1>7, <1>8, <1>9, <1>10
  DEF Next, Call, Continue

\* Shards exclude, and `update` holds a fresh value, in every reachable state.
LEMMA LockInvariant == Spec => []LockInv
<1>1. Init => LockInv
  BY TypeCorrect, AnyKeyIsKey, ConstantsAssumption
  DEF Init, LockInv, TypeOK, ShardExclusive, UpdateFresh, LockedStages, Stages, Values
<1>2. TypeOK' /\ LockInv /\ [Next]_vars => LockInv'
  BY LockInvStep DEF LockInv
<1>3. QED
  BY <1>1, <1>2, TypeCorrect, PTL DEF Spec

\* Two operations that hold a shard of `inner` hold different shards.
THEOREM ShardsExclude == Spec => []ShardExclusive
BY LockInvariant, PTL DEF LockInv

\* `update` is an atomic read-modify-write: no step of another thread comes
\* between the read its closure is given and the write of the result.
THEOREM UpdateIsAtomic == Spec => UpdateAtomic
<1>1. LockInv /\ [Next]_vars
        => [\A t \in Threads :
              UpdateWriteOld(t) \/ UpdateWriteNew(t)
                => inner'[sk[t]] = Closure(inner[sk[t]])]_vars
  BY DEF LockInv, UpdateFresh, UpdateWriteOld, UpdateWriteNew, TypeOK
<1>2. QED
  BY <1>1, LockInvariant, PTL DEF Spec, UpdateAtomic

-----------------------------------------------------------------------------
(***************************************************************************)
(* The count and the cap of the projects that only see `set` and `delete`, *)
(* whatever happens to the others.  The inductive invariant adds to        *)
(* CountAccurate that updates stay in their projects, that a `set` in      *)
(* progress holds a key that is not in the store, and that the count       *)
(* together with the inserts past their check stays below the cap plus the *)
(* number of threads, and of shards.                                       *)
(***************************************************************************)
Pending == {"set_bumped", "del_removed"}

Racing == {"set_checked", "set_warned"}

UpdatesConfined ==
  \A t \in Threads : \/ pc[t] \in {"idle"} \cup Racing \cup Pending
                     \/ Project(sk[t]) \in UpdatedProjects

LockedVacant ==
  \A t \in Threads : pc[t] \in Racing \cup {"set_bumped"} => inner[sk[t]] = Absent

RaceBounded ==
  \A p \in PlainProjects :
    /\ projectCounts[p] + Cardinality(InStage(p, Racing)) < Cap + Cardinality(Threads)
    /\ projectCounts[p] + Cardinality(InStage(p, Racing)) < Cap + Cardinality(Shards)

CountInv == /\ TypeOK
            /\ ShardExclusive
            /\ UpdatesConfined
            /\ LockedVacant
            /\ CountAccurate
            /\ RaceBounded

\* A project has finitely many entries in the store.
LEMMA EntriesFinite ==
  \A p \in Projects : IsFiniteSet(Entries(p)) /\ Cardinality(Entries(p)) \in Nat
<1> TAKE p \in Projects
<1>1. IsFiniteSet(StateKey)
  BY ConstantsAssumption
<1>2. Entries(p) \in SUBSET StateKey
  BY DEF Entries
<1>3. IsFiniteSet(Entries(p))
  BY <1>1, <1>2, FS_Subset
<1>4. QED
  BY <1>3, FS_CardinalityType

\* Finitely many operations on a project stand at given stages.
LEMMA InStageFinite ==
  ASSUME NEW p, NEW S
  PROVE  /\ IsFiniteSet(InStage(p, S))
         /\ Cardinality(InStage(p, S)) \in Nat
         /\ Cardinality(InStage(p, S)) <= Cardinality(Threads)
<1>1. InStage(p, S) \in SUBSET Threads
  BY DEF InStage
<1>2. IsFiniteSet(InStage(p, S)) /\ Cardinality(InStage(p, S)) <= Cardinality(Threads)
  BY <1>1, FS_Subset, ConstantsAssumption
<1>3. QED
  BY <1>2, FS_CardinalityType

\* Threads on different shards are at most as many as the shards.
LEMMA OnePerShard ==
  ASSUME NEW S, NEW f \in [S -> Shards], \A t, u \in S : f[t] = f[u] => t = u
  PROVE  Cardinality(S) <= Cardinality(Shards)
<1>1. f \in Injection(S, Shards)
  BY DEF Injection, IsInjective
<1>2. QED
  BY <1>1, FS_Injection, ConstantsAssumption

\* How one step moves a project's entries and the operations in progress.
\* Each action adds or removes at most one entry and one operation, and the
\* count follows.
LEMMA CountInvStep ==
  ASSUME CountInv, [Next]_vars
  PROVE  UpdatesConfined' /\ LockedVacant' /\ CountAccurate' /\ RaceBounded'
<1> USE AnyKeyIsKey, ProjectType, AbsentIsNoValue
        DEF CountInv, TypeOK, LockedStages, Stages, Return, PlainProjects
<1> DEFINE E(p) == Cardinality(Entries(p))
           P(p) == Cardinality(InStage(p, Pending))
           R(p) == Cardinality(InStage(p, Racing))
           Kept(p) == /\ Entries(p)' = Entries(p)
                      /\ InStage(p, Pending)' = InStage(p, Pending)
                      /\ InStage(p, Racing)' = InStage(p, Racing)
                      /\ projectCounts'[p] = projectCounts[p]
<1>t. /\ Cardinality(Threads) \in Nat /\ Cardinality(Shards) \in Nat
      /\ Cap \in Nat
  BY FS_CardinalityType, ConstantsAssumption
<1>n. \A p \in Projects : E(p) \in Nat /\ P(p) \in Nat /\ R(p) \in Nat
  BY EntriesFinite, InStageFinite
<1>f. \A p \in Projects : /\ IsFiniteSet(Entries(p))
                          /\ IsFiniteSet(InStage(p, Pending))
                          /\ IsFiniteSet(InStage(p, Racing))
  BY EntriesFinite, InStageFinite
<1>c. \A p \in PlainProjects : /\ projectCounts[p] = E(p) + P(p)
                               /\ projectCounts[p] + R(p) < Cap + Cardinality(Threads)
                               /\ projectCounts[p] + R(p) < Cap + Cardinality(Shards)
  BY DEF CountAccurate, RaceBounded, Pending
<1>s. \A k \in StateKey : ShardFree(k)
        => \A t \in Threads : pc[t] \in LockedStages => sk[t] # k
  BY DEF ShardFree, Holds
<1> DEFINE Good(p) == /\ projectCounts[p] = E(p) + P(p)
                      /\ projectCounts[p] + R(p) < Cap + Cardinality(Threads)
                      /\ projectCounts[p] + R(p) < Cap + Cardinality(Shards)
<1>k. \A p \in PlainProjects : Kept(p) => Good(p)'
  BY <1>c
<1>g. (\A p \in PlainProjects : Good(p)') => CountAccurate' /\ RaceBounded'
  BY DEF CountAccurate, RaceBounded, Pending
<1>1. ASSUME NEW t \in Threads, NEW k \in StateKey, NEW v \in Values,
             SetOccupied(t, k, v)
      PROVE  UpdatesConfined' /\ LockedVacant' /\ CountAccurate' /\ RaceBounded'
  <2>1. \A p \in Projects : Kept(p)
    BY <1>1 DEF SetOccupied, Entries, InStage
  <2>2. UpdatesConfined' /\ LockedVacant'
    BY <1>1, <1>s DEF SetOccupied, UpdatesConfined, LockedVacant, Racing
  <2>3. QED
    BY <1>k, <2>1, <2>2 DEF CountAccurate, RaceBounded, Pending
<1>2. ASSUME NEW t \in Threads, NEW k \in StateKey, SetReject(t, k)
      PROVE  UpdatesConfined' /\ LockedVacant' /\ CountAccurate' /\ RaceBounded'
  <2>1. \A p \in Projects : Kept(p)
    BY <1>2 DEF SetReject, Entries, InStage
  <2>2. UpdatesConfined' /\ LockedVacant'
    BY <1>2 DEF SetReject, UpdatesConfined, LockedVacant
  <2>3. QED
    BY <1>k, <2>1, <2>2 DEF CountAccurate, RaceBounded, Pending
<1>3. ASSUME NEW t \in Threads, NEW k \in StateKey, NEW v \in Values,
             SetCheck(t, k, v)
      PROVE  UpdatesConfined' /\ LockedVacant' /\ CountAccurate' /\ RaceBounded'
  <2>1. \A p \in Projects : p # Project(k) => Kept(p)
    BY <1>3 DEF SetCheck, Entries, InStage, Pending, Racing
  <2>2. \A p \in Projects : /\ Entries(p)' = Entries(p)
                            /\ InStage(p, Pending)' = InStage(p, Pending)
                            /\ projectCounts'[p] = projectCounts[p]
    BY <1>3 DEF SetCheck, Entries, InStage, Pending
  <2>3. UpdatesConfined' /\ LockedVacant'
    BY <1>3 DEF SetCheck, UpdatesConfined, LockedVacant, Racing
  <2>4. projectCounts[Project(k)] < Cap
    BY <1>3 DEF SetCheck
  <2>5. (R(Project(k)) \in Nat)' /\ (R(Project(k)) <= Cardinality(Threads))'
    <3>1. InStage(Project(k), Racing)' \in SUBSET Threads
      BY DEF InStage
    <3>2. QED
      BY <3>1, FS_Subset, FS_CardinalityType, ConstantsAssumption
  <2>6. (R(Project(k)) <= Cardinality(Shards))'
    <3> DEFINE S == InStage(Project(k), Racing)'
               f == [u \in S |-> ShardOf[sk'[u]]]
    <3>1. f \in [S -> Shards]
      BY <1>3, ConstantsAssumption DEF SetCheck, InStage
    <3>2. \A u, w \in S : f[u] = f[w] => u = w
      BY <1>3 DEF SetCheck, InStage, Racing, ShardExclusive, ShardFree, Holds
    <3>3. QED
      BY <3>1, <3>2, OnePerShard
  <2>7. QED
    BY <1>c, <1>k, <1>n, <1>t, <2>1, <2>2, <2>3, <2>4, <2>5, <2>6
    DEF CountAccurate, RaceBounded, Pending
<1>4. ASSUME NEW t \in Threads, SetWarn(t)
      PROVE  UpdatesConfined' /\ LockedVacant' /\ CountAccurate' /\ RaceBounded'
  <2>1. \A p \in Projects : Kept(p)
    BY <1>4 DEF SetWarn, Entries, InStage, Pending, Racing
  <2>2. UpdatesConfined' /\ LockedVacant'
    BY <1>4 DEF SetWarn, UpdatesConfined, LockedVacant, Racing
  <2>3. QED
    BY <1>k, <2>1, <2>2 DEF CountAccurate, RaceBounded, Pending
<1>5. ASSUME NEW t \in Threads, SetBump(t)
      PROVE  UpdatesConfined' /\ LockedVacant' /\ CountAccurate' /\ RaceBounded'
  <2>0. PICK q \in Projects : q = Project(sk[t])
    OBVIOUS
  <2>1. \A p \in Projects : p # q => Kept(p)
    BY <2>0, <1>5 DEF SetBump, Entries, InStage, Pending, Racing
  <2>2. /\ Entries(q)' = Entries(q)
        /\ projectCounts'[q] = projectCounts[q] + 1
    BY <2>0, <1>5 DEF SetBump, Entries
  <2>3. /\ InStage(q, Pending)' = InStage(q, Pending) \cup {t}
        /\ t \notin InStage(q, Pending)
    BY <2>0, <1>5 DEF SetBump, InStage, Pending
  <2>4. /\ InStage(q, Racing)' = InStage(q, Racing) \ {t}
        /\ t \in InStage(q, Racing)
    BY <2>0, <1>5 DEF SetBump, InStage, Racing
  <2>5. P(q)' = P(q) + 1 /\ R(q)' = R(q) - 1
    <3>1. P(q)' = P(q) + 1
      BY <1>f, <2>3, FS_AddElement
    <3>2. R(q)' = R(q) - 1
      BY <1>f, <2>4, FS_RemoveElement
    <3>3. QED
      BY <3>1, <3>2
  <2>6. UpdatesConfined' /\ LockedVacant'
    BY <2>0, <1>5 DEF SetBump, UpdatesConfined, LockedVacant, Racing, Pending
  <2>7. ASSUME q \in PlainProjects PROVE Good(q)'
    <3>1. /\ E(q)' = E(q)
          /\ projectCounts[q] = E(q) + P(q)
          /\ projectCounts[q] + R(q) < Cap + Cardinality(Threads)
          /\ projectCounts[q] + R(q) < Cap + Cardinality(Shards)
      BY <1>c, <2>2, <2>7
    <3>2. /\ projectCounts[q] \in Nat /\ E(q) \in Nat
          /\ P(q) \in Nat /\ R(q) \in Nat
      BY <1>n
    <3>3. QED
      BY <1>t, <2>2, <2>5, <3>1, <3>2
  <2>8. QED
    BY <1>k, <1>g, <2>1, <2>6, <2>7
<1>6. ASSUME NEW t \in Threads, SetInsert(t)
      PROVE  UpdatesConfined' /\ LockedVacant' /\ CountAccurate' /\ RaceBounded'
  <2>0. PICK q \in Projects : q = Project(sk[t])
    OBVIOUS
  <2>1. \A p \in Projects : p # q => Kept(p)
    BY <2>0, <1>6 DEF SetInsert, Entries, InStage, Pending, Racing
  <2>2. /\ Entries(q)' = Entries(q) \cup {sk[t]}
        /\ sk[t] \notin Entries(q)
    BY <2>0, <1>6 DEF SetInsert, Entries, LockedVacant
  <2>3. /\ InStage(q, Pending)' = InStage(q, Pending) \ {t}
        /\ t \in InStage(q, Pending)
    BY <2>0, <1>6 DEF SetInsert, InStage, Pending
  <2>4. /\ InStage(q, Racing)' = InStage(q, Racing)
        /\ projectCounts'[q] = projectCounts[q]
    BY <2>0, <1>6 DEF SetInsert, InStage, Racing
  <2>5. P(q)' = P(q) - 1 /\ E(q)' = E(q) + 1
    <3>1. P(q)' = P(q) - 1
      BY <1>f, <2>3, FS_RemoveElement
    <3>2. E(q)' = E(q) + 1
      BY <1>f, <2>2, FS_AddElement
    <3>3. QED
      BY <3>1, <3>2
  <2>6. UpdatesConfined' /\ LockedVacant'
    BY <2>0, <1>6 DEF SetInsert, UpdatesConfined, LockedVacant, Racing, ShardExclusive
  <2>7. q \in PlainProjects => Good(q)'
    BY <1>c, <1>n, <1>t, <2>4, <2>5
  <2>8. QED
    BY <1>k, <1>g, <2>1, <2>6, <2>7
<1>7. ASSUME NEW t \in Threads, NEW k \in StateKey, DeleteRemove(t, k)
      PROVE  UpdatesConfined' /\ LockedVacant' /\ CountAccurate' /\ RaceBounded'
  <2>0. PICK q \in Projects : q = Project(k)
    OBVIOUS
  <2>1. \A p \in Projects : p # q => Kept(p)
    BY <2>0, <1>7 DEF DeleteRemove, Entries, InStage, Pending, Racing
  <2>2. /\ Entries(q)' = Entries(q) \ {k}
        /\ k \in Entries(q)
    BY <2>0, <1>7 DEF DeleteRemove, Entries
  <2>3. /\ InStage(q, Pending)' = InStage(q, Pending) \cup {t}
        /\ t \notin InStage(q, Pending)
    BY <2>0, <1>7 DEF DeleteRemove, InStage, Pending
  <2>4. /\ InStage(q, Racing)' = InStage(q, Racing)
        /\ projectCounts'[q] = projectCounts[q]
    BY <2>0, <1>7 DEF DeleteRemove, InStage, Racing
  <2>5. P(q)' = P(q) + 1 /\ E(q)' = E(q) - 1
    <3>1. P(q)' = P(q) + 1
      BY <1>f, <2>3, FS_AddElement
    <3>2. E(q)' = E(q) - 1
      BY <1>f, <2>2, FS_RemoveElement
    <3>3. QED
      BY <3>1, <3>2
  <2>6. UpdatesConfined' /\ LockedVacant'
    BY <2>0, <1>7 DEF DeleteRemove, UpdatesConfined, LockedVacant, Racing, Pending
  <2>7. q \in PlainProjects => Good(q)'
    BY <1>c, <1>n, <1>t, <2>4, <2>5
  <2>8. QED
    BY <1>k, <1>g, <2>1, <2>6, <2>7
<1>8. ASSUME NEW t \in Threads, DeleteDecrement(t)
      PROVE  UpdatesConfined' /\ LockedVacant' /\ CountAccurate' /\ RaceBounded'
  <2>0. PICK q \in Projects : q = Project(sk[t])
    OBVIOUS
  <2>1. \A p \in Projects : p # q => Kept(p)
    BY <2>0, <1>8 DEF DeleteDecrement, Entries, InStage, Pending, Racing
  <2>2. /\ Entries(q)' = Entries(q)
        /\ InStage(q, Racing)' = InStage(q, Racing)
        /\ projectCounts'[q] = SaturatingDec(projectCounts[q])
    BY <2>0, <1>8 DEF DeleteDecrement, Entries, InStage, Racing
  <2>3. /\ InStage(q, Pending)' = InStage(q, Pending) \ {t}
        /\ t \in InStage(q, Pending)
    BY <2>0, <1>8 DEF DeleteDecrement, InStage, Pending
  <2>4. P(q)' = P(q) - 1 /\ P(q)' \in Nat
    BY <1>f, <2>3, FS_RemoveElement, FS_CardinalityType
  <2>5. q \in PlainProjects => projectCounts'[q] = projectCounts[q] - 1
    BY <1>c, <1>n, <2>2, <2>4 DEF SaturatingDec
  <2>6. UpdatesConfined' /\ LockedVacant'
    BY <2>0, <1>8 DEF DeleteDecrement, UpdatesConfined, LockedVacant, Racing
  <2>7. q \in PlainProjects => Good(q)'
    BY <1>c, <1>n, <1>t, <2>2, <2>4, <2>5
  <2>8. QED
    BY <1>k, <1>g, <2>1, <2>6, <2>7
<1>9. ASSUME NEW t \in Threads, NEW k \in StateKey,
             Project(k) \in UpdatedProjects, UpdateContains(t, k)
      PROVE  UpdatesConfined' /\ LockedVacant' /\ CountAccurate' /\ RaceBounded'
  <2>1. \A p \in PlainProjects : Kept(p)
    BY <1>9 DEF UpdateContains, Entries, InStage, Pending, Racing
  <2>2. UpdatesConfined' /\ LockedVacant'
    BY <1>9 DEF UpdateContains, UpdatesConfined, LockedVacant, Racing
  <2>3. QED
    BY <1>k, <2>1, <2>2 DEF CountAccurate, RaceBounded, Pending
<1>u. \A t \in Threads :
        pc[t] \notin {"idle"} \cup Racing \cup Pending
          => \A p \in PlainProjects : Project(sk[t]) # p
  BY DEF UpdatesConfined
<1>10. ASSUME NEW t \in Threads,
              UpdateReject(t) \/ UpdateCheck(t) \/ UpdateEntry(t)
       PROVE  UpdatesConfined' /\ LockedVacant' /\ CountAccurate' /\ RaceBounded'
  <2>1. \A p \in PlainProjects : Kept(p)
    BY <1>10, <1>u DEF UpdateReject, UpdateCheck, UpdateEntry, Entries, InStage,
                       Pending, Racing
  <2>2. UpdatesConfined'
    BY <1>10 DEF UpdateReject, UpdateCheck, UpdateEntry, UpdatesConfined, Racing, Pending
  <2>3. LockedVacant'
    BY <1>10, <1>s DEF UpdateReject, UpdateCheck, UpdateEntry, LockedVacant, Racing
  <2>4. QED
    BY <1>k, <2>1, <2>2, <2>3 DEF CountAccurate, RaceBounded, Pending
<1>11. ASSUME NEW t \in Threads,
              UpdateWriteOld(t) \/ UpdateWriteNew(t) \/ UpdateBump(t)
       PROVE  UpdatesConfined' /\ LockedVacant' /\ CountAccurate' /\ RaceBounded'
  <2>1. \A p \in PlainProjects : Kept(p)
    BY <1>11, <1>u DEF UpdateWriteOld, UpdateWriteNew, UpdateBump, Entries, InStage,
                       Pending, Racing
  <2>2. UpdatesConfined'
    BY <1>11 DEF UpdateWriteOld, UpdateWriteNew, UpdateBump, UpdatesConfined, Racing, Pending
  <2>3. LockedVacant'
    BY <1>11 DEF UpdateWriteOld, UpdateWriteNew, UpdateBump, LockedVacant, Racing,
                 ShardExclusive
  <2>4. QED
    BY <1>k, <2>1, <2>2, <2>3 DEF CountAccurate, RaceBounded, Pending
<1>12. CASE UNCHANGED vars
  <2>1. \A p \in Projects : Kept(p)
    BY <1>12 DEF vars, Entries, InStage
  <2>2. UpdatesConfined' /\ LockedVacant'
    BY <1>12 DEF vars, UpdatesConfined, LockedVacant
  <2>3. QED
    BY <1>k, <2>1, <2>2 DEF CountAccurate, RaceBounded, Pending
<1>13. QED
  BY <1>1, <1>2, <1>3, <1>4, <1>5, <1>6, <1>7, <1>8, <1>9, <1>10,
     <1>11, <1>12
  DEF Next, Call, Continue

\* The empty store satisfies the counting invariant.
LEMMA CountInvInit == Init => CountInv
<1> SUFFICES ASSUME Init PROVE CountInv
  OBVIOUS
<1>1. TypeOK
  BY AnyKeyIsKey, ConstantsAssumption DEF Init, TypeOK, Stages, Values
<1>2. ShardExclusive /\ UpdatesConfined /\ LockedVacant
  BY DEF Init, ShardExclusive, UpdatesConfined, LockedVacant, LockedStages, Racing
<1>3. \A p \in Projects : /\ Entries(p) = {}
                          /\ InStage(p, Pending) = {}
                          /\ InStage(p, Racing) = {}
  BY DEF Init, Entries, InStage, Pending, Racing
<1>4. CountAccurate
  <2>1. \A p \in Projects : /\ projectCounts[p] = 0
                            /\ Cardinality(Entries(p)) = 0
                            /\ Cardinality(InStage(p, Pending)) = 0
    BY <1>3, FS_EmptySet DEF Init
  <2>2. QED
    BY <2>1 DEF CountAccurate, Pending, PlainProjects
<1>5. Cardinality(Threads) \in Nat \ {0} /\ Cardinality(Shards) \in Nat \ {0}
  <2>1. Shards # {}
    BY AnyKeyIsKey, ConstantsAssumption
  <2>2. QED
    BY <2>1, ConstantsAssumption, FS_EmptySet, FS_CardinalityType
<1>6. RaceBounded
  <2>1. \A p \in Projects : projectCounts[p] = 0 /\ Cardinality(InStage(p, Racing)) = 0
    BY <1>3, FS_EmptySet DEF Init
  <2>2. QED
    BY <1>5, <2>1, ConstantsAssumption DEF RaceBounded, PlainProjects
<1>7. QED
  BY <1>1, <1>2, <1>4, <1>6 DEF CountInv

\* The counting invariant holds in every reachable state.
LEMMA CountInvariant == Spec => []CountInv
<1>1. CountInv /\ LockInv' /\ [Next]_vars => CountInv'
  BY CountInvStep DEF CountInv, LockInv
<1>2. QED
  BY <1>1, CountInvInit, LockInvariant, PTL DEF Spec

\* The count of a project that only sees `set` and `delete` is exact up to the
\* operations in progress, whatever their interleaving.
THEOREM CountIsAccurate == Spec => []CountAccurate
BY CountInvariant, PTL DEF CountInv

\* In such a project the soft cap is exceeded by less than the number of threads,
\* and by less than the number of shards.
THEOREM CapOvershoot == Spec => []OvershootBounded
<1>1. CountInv => OvershootBounded
  <2> SUFFICES ASSUME CountInv, NEW p \in PlainProjects
               PROVE  /\ Cardinality(Entries(p)) < Cap + Cardinality(Threads)
                      /\ Cardinality(Entries(p)) < Cap + Cardinality(Shards)
    BY DEF OvershootBounded
  <2>1. /\ Cardinality(Threads) \in Nat /\ Cardinality(Shards) \in Nat
        /\ Cap \in Nat
    BY FS_CardinalityType, ConstantsAssumption
  <2>2. /\ Cardinality(Entries(p)) \in Nat
        /\ Cardinality(InStage(p, Pending)) \in Nat
        /\ Cardinality(InStage(p, Racing)) \in Nat
    BY EntriesFinite, InStageFinite DEF PlainProjects
  <2>3. QED
    BY <2>1, <2>2 DEF CountInv, CountAccurate, RaceBounded, Pending
<1>2. QED
  BY <1>1, CountInvariant, PTL

=============================================================================
