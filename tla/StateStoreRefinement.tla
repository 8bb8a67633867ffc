------------------------- MODULE StateStoreRefinement -------------------------
(***************************************************************************)
(* StateStore implements AtomicStore on the projects that `update` does    *)
(* not touch.  A thread is admitted when its `set` has passed the check of *)
(* the cap; `inner` is the abstract store as it stands.                    *)
(***************************************************************************)
EXTENDS StateStore

PlainKeys == {k \in StateKey : Project(k) \in PlainProjects}

plainStore == [k \in PlainKeys |-> inner[k]]

Inserting(t) ==
  pc[t] \in {"set_checked", "set_warned", "set_bumped"} /\ sk[t] \in PlainKeys

admitted == [t \in Threads |-> IF Inserting(t) THEN {<<sk[t], val[t]>>} ELSE {}]

Atomic == INSTANCE AtomicStore
            WITH Keys <- PlainKeys, store <- plainStore, pending <- admitted

\* However the map operations of `set` and `delete` interleave, a `state` step
\* sees registers that change at once.  A new key is admitted only while its
\* project really holds fewer entries than the cap (and not only according to
\* a count that lags behind), nobody else writes or deletes it before it is
\* inserted, and inserted it is.
ImplementsAtomicStore == Atomic!Spec

=============================================================================
