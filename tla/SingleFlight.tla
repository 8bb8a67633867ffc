----------------------------- MODULE SingleFlight -----------------------------
(***************************************************************************)
(* The `single_flight` step of steps/single_flight.rs: concurrent callers  *)
(* with the same key share one execution of the `do:` body.                *)
(*                                                                         *)
(* A caller claims the slot of its key in the registry; the caller that    *)
(* swaps the slot's leader flag leads: it runs the body, broadcasts the    *)
(* outcome and removes the slot.  The others follow: they subscribe to the *)
(* slot's channel and wait, at most ttl_ms.  A caller may be cancelled     *)
(* wherever it awaits (request timeout, client gone, panic in the body).   *)
(*                                                                         *)
(* An entry is identified by its key and a number; it lives as long as the *)
(* registry or a caller holds its Arc.  A caller that has returned may     *)
(* call again.                                                             *)
(***************************************************************************)
EXTENDS Integers, FiniteSets

CONSTANTS
  Callers,      \* concurrent executions of single_flight steps
  Cancellable,  \* the callers that may be cancelled while they await
  Keys,
  MaxEntries    \* Registry.max_entries

ASSUME SingleFlightAssumption ==
  /\ IsFiniteSet(Callers)
  /\ Cancellable \subseteq Callers
  /\ IsFiniteSet(Keys)
  /\ MaxEntries \in Nat \ {0}

\* Enough identities: the slot of a key and each caller hold at most one entry.
Ids == Keys \X (0..Cardinality(Callers))

NoEntry == <<>>

VARIABLES
  registry,    \* key -> entry registered for it, or NoEntry
  leaderSlot,  \* entries whose is_leader_slot is still true
  published,   \* entries on whose channel the outcome has been sent
  displaced,   \* history: entries whose slot was removed before they published
  pc, key, entry,  \* caller -> stage, key and entry of its call
  outcome      \* caller -> outcome produced (leader) or received (follower)

vars == <<registry, leaderSlot, published, displaced, pc, key, entry, outcome>>

LeaderStages == {"leading", "publish", "remove"}

Stages == {"idle", "evict", "insert", "swap", "subscribe", "waiting", "expired"}
            \cup LeaderStages

Outcomes == {"none", "ok", "err"}

Registered == {k \in Keys : registry[k] # NoEntry}

\* The entries an Arc is held of, by the registry or by a caller.
Held == ({registry[k] : k \in Keys} \cup {entry[c] : c \in Callers}) \ {NoEntry}

\* The identity a new entry of key k gets.
Fresh(k) ==
  {i \in Ids \ Held : /\ i[1] = k
                       /\ \A j \in Ids \ Held : j[1] = k => i[2] <= j[2]}

TypeOK ==
  /\ registry \in [Keys -> Ids \cup {NoEntry}]
  /\ leaderSlot \subseteq Ids
  /\ published \subseteq Ids
  /\ displaced \subseteq Ids
  /\ pc \in [Callers -> Stages]
  /\ key \in [Callers -> Keys]
  /\ entry \in [Callers -> Ids \cup {NoEntry}]
  /\ outcome \in [Callers -> Outcomes]

Init ==
  /\ registry = [k \in Keys |-> NoEntry]
  /\ leaderSlot = {} /\ published = {} /\ displaced = {}
  /\ pc = [c \in Callers |-> "idle"]
  /\ key = [c \in Callers |-> CHOOSE k \in Keys : TRUE]
  /\ entry = [c \in Callers |-> NoEntry]
  /\ outcome = [c \in Callers |-> "none"]

Goto(c, stage) == pc' = [pc EXCEPT ![c] = stage]

\* A call ends, by return or by cancellation; its Arc<Entry> is dropped.
End(c) ==
  /\ Goto(c, "idle")
  /\ entry' = [entry EXCEPT ![c] = NoEntry]
  /\ outcome' = [outcome EXCEPT ![c] = "none"]
  /\ key' = [key EXCEPT ![c] = CHOOSE k \in Keys : TRUE]

\* Slots leave the registry ...
Without(ks) == [k \in Keys |-> IF k \in ks THEN NoEntry ELSE registry[k]]

\* ... and an entry that has not published is displaced by it.
DisplacedBy(ks) == displaced \cup ({registry[k] : k \in ks} \ published)

\* An entry goes with the last Arc of it.
Release(d) ==
  /\ leaderSlot' = leaderSlot \cap Held'
  /\ published' = published \cap Held'
  /\ displaced' = d \cap Held'

-----------------------------------------------------------------------------
\* claim: the soft bound is looked at before anything is inserted.
ClaimCheck(c, k) ==
  /\ pc[c] = "idle"
  /\ key' = [key EXCEPT ![c] = k]
  /\ Goto(c, IF registry[k] = NoEntry /\ Cardinality(Registered) >= MaxEntries
               THEN "evict" ELSE "insert")
  /\ UNCHANGED <<registry, leaderSlot, published, displaced, entry, outcome>>

\* Faulty variant: nothing is evicted.
ClaimEvictNothing(c) ==
  /\ pc[c] = "evict"
  /\ Goto(c, "insert")
  /\ UNCHANGED <<registry, leaderSlot, published, displaced, key, entry, outcome>>

\* retain: the first max_entries slots met, in no particular order, are kept.
ClaimEvict(c) ==
  /\ pc[c] = "evict"
  /\ \E kept \in SUBSET Registered :
       /\ Cardinality(kept) = IF Cardinality(Registered) < MaxEntries
                                THEN Cardinality(Registered) ELSE MaxEntries
       /\ registry' = Without(Registered \ kept)
       /\ UNCHANGED <<key, entry, outcome>>
       /\ Release(DisplacedBy(Registered \ kept))
  /\ Goto(c, "insert")

\* entry(key).or_insert_with(Entry::new), the slot present: share its entry.
ClaimPresent(c) ==
  /\ pc[c] = "insert"
  /\ registry[key[c]] # NoEntry
  /\ entry' = [entry EXCEPT ![c] = registry[key[c]]]
  /\ Goto(c, "swap")
  /\ UNCHANGED <<registry, leaderSlot, published, displaced, key, outcome>>

\* Faulty variant: insert instead of or_insert.
ClaimNewAlways(c) ==
  /\ pc[c] = "insert"
  /\ \E i \in Fresh(key[c]) :
       /\ registry' = [registry EXCEPT ![key[c]] = i]
       /\ entry' = [entry EXCEPT ![c] = i]
       /\ leaderSlot' = leaderSlot \cup {i}
  /\ Goto(c, "swap")
  /\ UNCHANGED <<published, displaced, key, outcome>>

\* ... the slot absent: a new entry, whose leader flag is up.
ClaimNew(c) ==
  /\ pc[c] = "insert"
  /\ registry[key[c]] = NoEntry
  /\ \E i \in Fresh(key[c]) :
       /\ registry' = [registry EXCEPT ![key[c]] = i]
       /\ entry' = [entry EXCEPT ![c] = i]
       /\ leaderSlot' = leaderSlot \cup {i}
  /\ Goto(c, "swap")
  /\ UNCHANGED <<published, displaced, key, outcome>>

\* Faulty variant: the flag is loaded and not cleared.
ClaimLoad(c) ==
  /\ pc[c] = "swap"
  /\ Goto(c, IF entry[c] \in leaderSlot THEN "leading" ELSE "subscribe")
  /\ UNCHANGED <<registry, leaderSlot, published, displaced, key, entry, outcome>>

\* is_leader_slot.swap(false)
ClaimSwap(c) ==
  /\ pc[c] = "swap"
  /\ Goto(c, IF entry[c] \in leaderSlot THEN "leading" ELSE "subscribe")
  /\ leaderSlot' = leaderSlot \ {entry[c]}
  /\ UNCHANGED <<registry, published, displaced, key, entry, outcome>>

-----------------------------------------------------------------------------
\* run_as_leader: the body ends, with a value or an error.
LeaderBody(c) ==
  /\ pc[c] = "leading"
  /\ \E o \in {"ok", "err"} : outcome' = [outcome EXCEPT ![c] = o]
  /\ Goto(c, "publish")
  /\ UNCHANGED <<registry, leaderSlot, published, displaced, key, entry>>

\* tx.send: whoever is subscribed to this entry gets the outcome.
LeaderSend(c) ==
  /\ pc[c] = "publish"
  /\ outcome' = [d \in Callers |->
                   IF pc[d] = "waiting" /\ entry[d] = entry[c] THEN outcome[c]
                                                               ELSE outcome[d]]
  /\ published' = published \cup {entry[c]}
  /\ Goto(c, "remove")
  /\ UNCHANGED <<registry, leaderSlot, displaced, key, entry>>

\* registry.remove(key), by key: whatever entry is registered there now.
LeaderRemove(c) ==
  /\ pc[c] = "remove"
  /\ registry' = Without({key[c]})
  /\ End(c)
  /\ Release(DisplacedBy({key[c]}))

-----------------------------------------------------------------------------
\* run_as_follower: tx.subscribe(), then wait.
Subscribe(c) ==
  /\ pc[c] = "subscribe"
  /\ Goto(c, "waiting")
  /\ UNCHANGED <<registry, leaderSlot, published, displaced, key, entry, outcome>>

\* The outcome arrived: bind it, or fail with "leader failed".
Receive(c) ==
  /\ pc[c] = "waiting"
  /\ outcome[c] # "none"
  /\ UNCHANGED registry
  /\ End(c)
  /\ Release(displaced)

\* Faulty variant: the wait is bounded only while the slot is registered.
TimeoutIfRegistered(c) ==
  /\ pc[c] = "waiting"
  /\ outcome[c] = "none"
  /\ registry[key[c]] = entry[c]
  /\ Goto(c, "expired")
  /\ UNCHANGED <<registry, leaderSlot, published, displaced, key, entry, outcome>>

\* ttl_ms elapsed with nothing received ...
Timeout(c) ==
  /\ pc[c] = "waiting"
  /\ outcome[c] = "none"
  /\ Goto(c, "expired")
  /\ UNCHANGED <<registry, leaderSlot, published, displaced, key, entry, outcome>>

\* Faulty variant: the step fails and leaves the slot.
TimeoutKeep(c) ==
  /\ pc[c] = "expired"
  /\ UNCHANGED registry
  /\ End(c)
  /\ Release(displaced)

\* ... the slot of the key is removed and the step fails with Timeout.
TimeoutRemove(c) ==
  /\ pc[c] = "expired"
  /\ registry' = Without({key[c]})
  /\ End(c)
  /\ Release(DisplacedBy({key[c]}))

\* The future is dropped, or the body panics, at one of the two awaits: no code
\* of the step runs, the registry is left as it is.
Cancel(c) ==
  /\ pc[c] \in {"leading", "waiting"}
  /\ UNCHANGED registry
  /\ End(c)
  /\ Release(displaced)

-----------------------------------------------------------------------------
Step(c) == \/ ClaimEvict(c) \/ ClaimPresent(c) \/ ClaimNew(c) \/ ClaimSwap(c)
           \/ LeaderSend(c) \/ LeaderRemove(c)
           \/ Subscribe(c) \/ Receive(c) \/ Timeout(c) \/ TimeoutRemove(c)

Next == \E c \in Callers : \/ \E k \in Keys : ClaimCheck(c, k)
                           \/ Step(c)
                           \/ LeaderBody(c)
                           \/ c \in Cancellable /\ Cancel(c)

Spec == Init /\ [][Next]_vars

\* The runtime keeps polling a woken task and timers fire.  Nothing is assumed
\* of the body: it may hang.
FairSpec == Spec /\ \A c \in Callers : WF_vars(Step(c))

-----------------------------------------------------------------------------
\* An entry has one leader: two callers past the swap as leaders lead
\* different entries.
OneLeaderPerEntry ==
  \A c, d \in Callers :
    pc[c] \in LeaderStages /\ pc[d] \in LeaderStages /\ entry[c] = entry[d] => c = d

\* The body runs twice at a time for one key only if a slot was taken from its
\* leader before it published: by a follower's timeout, by eviction, or by the
\* late `remove` of an earlier call.
CoalescesUnlessDisplaced ==
  \A c, d \in Callers :
    pc[c] = "leading" /\ pc[d] = "leading" /\ key[c] = key[d] /\ c # d
      => entry[c] \in displaced \/ entry[d] \in displaced

\* Coalescing: an entry has one leader, and a key one body in progress unless
\* its slot was taken away.
Coalesces == TypeOK /\ OneLeaderPerEntry /\ CoalescesUnlessDisplaced

\* The registry stays within max_entries plus one slot per concurrent caller.
RegistryBounded == Cardinality(Registered) <= MaxEntries + Cardinality(Callers)

\* A key never answers for ever from a slot nobody leads: a slot that a follower
\* (one that is not cancelled) waits on leaves the registry.
HungSlotLeaves ==
  \A c \in Callers \ Cancellable, i \in Ids :
    pc[c] = "waiting" /\ entry[c] = i ~> \A k \in Keys : registry[k] # i

\* Every follower returns, whatever its leader does.
FollowersReturn == \A c \in Callers : pc[c] = "subscribe" ~> pc[c] = "idle"

-----------------------------------------------------------------------------
\* single_flight.rs:331: on timeout "evict the slot so the next arrival can lead
\* a fresh window rather than piling more followers onto the same hung leader":
\* the slot evicted is the one the follower waited on.
TimeoutEvictsHungSlot ==
  [][\A c \in Callers :
       TimeoutRemove(c) => registry[key[c]] \in {NoEntry, entry[c]}]_vars

=============================================================================
