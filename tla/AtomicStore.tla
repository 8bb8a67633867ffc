----------------------------- MODULE AtomicStore -----------------------------
(***************************************************************************)
(* What the state store promises to the `state` steps that set and delete: *)
(* every key is a register that changes in one step, and a key that is not *)
(* there yet enters in two, an admission and a commit.  A project admits a *)
(* key while it holds fewer than Cap entries.                              *)
(***************************************************************************)
EXTENDS Naturals, FiniteSets

CONSTANTS Threads, Keys, Values, Absent, Cap

VARIABLES
  store,    \* key -> value or Absent
  pending   \* thread -> the pair of key and value it was admitted with, if any

avars == <<store, pending>>

Held(k) == {j \in Keys : j[1] = k[1] /\ store[j] # Absent}

\* No admitted key is touched by anybody else before its commit.
Untouched(k) == \A t \in Threads : \A e \in pending[t] : e[1] # k

Init ==
  /\ store = [k \in Keys |-> Absent]
  /\ pending = [t \in Threads |-> {}]

Overwrite(k, v) ==
  /\ store[k] # Absent /\ Untouched(k)
  /\ store' = [store EXCEPT ![k] = v]
  /\ UNCHANGED pending

Admit(t, k, v) ==
  /\ store[k] = Absent /\ Untouched(k)
  /\ Cardinality(Held(k)) < Cap
  /\ pending[t] = {}
  /\ pending' = [pending EXCEPT ![t] = {<<k, v>>}]
  /\ UNCHANGED store

Commit(t) ==
  /\ \E e \in pending[t] :
        /\ store[e[1]] = Absent
        /\ store' = [store EXCEPT ![e[1]] = e[2]]
  /\ pending' = [pending EXCEPT ![t] = {}]

Remove(k) ==
  /\ store[k] # Absent /\ Untouched(k)
  /\ store' = [store EXCEPT ![k] = Absent]
  /\ UNCHANGED pending

Next ==
  \/ \E k \in Keys : Remove(k) \/ \E v \in Values : Overwrite(k, v) \/ \E t \in Threads : Admit(t, k, v)
  \/ \E t \in Threads : Commit(t)

\* An admitted key is committed: the caller of `set` is not left waiting.
Spec == Init /\ [][Next]_avars /\ \A t \in Threads : WF_avars(Commit(t))

=============================================================================
