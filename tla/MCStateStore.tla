----------------------------- MODULE MCStateStore -----------------------------
(* Values of the constants of StateStore for TLC. *)
EXTENDS StateStoreRefinement

CONSTANTS t1, t2, p, q, k1, k2, k3, k4, s1, s2

\* Enough keys in p to exceed a cap of 2 by two, and one key in q.
MCStateKey == ({p} \X {k1, k2, k3, k4}) \cup {<<q, k1>>}

\* k1 alone in its shard; all other keys share one.
MCShardOf == [k \in StateKey |-> IF k[2] = k1 THEN s1 ELSE s2]

=============================================================================
