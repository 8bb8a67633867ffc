------------------------------ MODULE HotReload -------------------------------
(***************************************************************************)
(* Hot reload of the DSL tree: the filesystem watcher and the reload_dsl   *)
(* step (dsl/hot_reload.rs), the publication of a loaded tree              *)
(* (DslRouter::publish_dsls) and the reads a request makes of it.          *)
(*                                                                         *)
(* The content of the DSL directory is a version number that every edit    *)
(* increments.  A load walks the directory file by file, so the guards and *)
(* the HTTP tree it returns may be of different versions; it is modelled   *)
(* by two reads.  The three published trees are ArcSwaps, each stored and  *)
(* loaded atomically by itself.                                            *)
(***************************************************************************)
EXTENDS Integers

CONSTANTS
  StepReloaders,  \* requests whose DSL runs a step with `reload_dsl: true`
  Requests,
  MaxEdits,       \* bound on the edits of the DSL directory
  QueueCap,       \* capacity of the channel to the consumer task (16)
  Broken          \* versions whose HTTP tree does not load

Versions == 0..MaxEdits

ASSUME HotReloadAssumption ==
  /\ MaxEdits \in Nat
  /\ QueueCap \in Nat \ {0}
  /\ Broken \subseteq Versions \ {0}
  /\ "watcher" \notin StepReloaders

Reloaders == {"watcher"} \cup StepReloaders

VARIABLES
  disk,         \* version in the DSL directory
  event,        \* the debouncer has an event to deliver
  queue,        \* signals in the channel
  pc,           \* reloader -> stage of its reload_once
  loaded,       \* reloader -> the trees it has loaded
  dsls, guards, openapi,  \* versions published in the three ArcSwaps
  loads,        \* history: the pairs of trees that were loaded successfully
  overlapped,   \* history: the last reload started while another was in progress
  mixed,        \* history: reloads have overlapped, and none alone has published since
  stage, view   \* request -> stage and the versions it has read

vars == <<disk, event, queue, pc, loaded, dsls, guards, openapi, loads, overlapped,
          mixed, stage, view>>

fs == <<disk, event, queue>>
reload == <<pc, loaded, loads, overlapped, mixed>>
published == <<dsls, guards, openapi>>
request == <<stage, view>>

Trees == [http : Versions, guards : Versions]

Views == [gate : Versions, http : Versions, guards : Versions]

TypeOK ==
  /\ disk \in Versions
  /\ event \in BOOLEAN
  /\ queue \in 0..QueueCap
  /\ pc \in [Reloaders -> {"idle", "scan", "walk", "dsls", "guards", "openapi"}]
  /\ loaded \in [Reloaders -> Trees]
  /\ dsls \in Versions /\ guards \in Versions /\ openapi \in Versions
  /\ loads \subseteq Trees
  /\ overlapped \in BOOLEAN /\ mixed \in BOOLEAN
  /\ stage \in [Requests -> {"off", "gated", "resolved", "guarded"}]
  /\ view \in [Requests -> Views]

NoTrees == [http |-> 0, guards |-> 0]

NoView == [gate |-> 0, http |-> 0, guards |-> 0]

\* Version 0 was loaded at boot.
Init ==
  /\ disk = 0 /\ event = FALSE /\ queue = 0
  /\ pc = [r \in Reloaders |-> "idle"]
  /\ loaded = [r \in Reloaders |-> NoTrees]
  /\ dsls = 0 /\ guards = 0 /\ openapi = 0
  /\ loads = {NoTrees}
  /\ overlapped = FALSE /\ mixed = FALSE
  /\ stage = [q \in Requests |-> "off"]
  /\ view = [q \in Requests |-> NoView]

-----------------------------------------------------------------------------
\* A change that batch_warrants_reload lets through.
Edit ==
  /\ disk < MaxEdits
  /\ disk' = disk + 1
  /\ event' = TRUE
  /\ UNCHANGED <<queue, reload, published, request>>

\* Faulty variant: a signal is dropped while a reload is in progress.
DebounceUnlessBusy ==
  /\ event
  /\ event' = FALSE
  /\ queue' = IF queue < QueueCap /\ pc["watcher"] = "idle" THEN queue + 1 ELSE queue
  /\ UNCHANGED <<disk, reload, published, request>>

\* The debouncer's callback: try_send, dropping the signal if the channel is full.
Debounce ==
  /\ event
  /\ event' = FALSE
  /\ queue' = IF queue < QueueCap THEN queue + 1 ELSE queue
  /\ UNCHANGED <<disk, reload, published, request>>

\* reload_once begins; nothing keeps two of them apart.
Begin(r) ==
  /\ pc[r] = "idle"
  /\ pc' = [pc EXCEPT ![r] = "scan"]
  /\ overlapped' = \E o \in Reloaders : pc[o] # "idle"
  /\ mixed' = (mixed \/ overlapped')
  /\ UNCHANGED <<loaded, loads>>

\* The consumer task takes a signal; it has awaited its previous reload.
WatcherRecv ==
  /\ queue > 0
  /\ queue' = queue - 1
  /\ Begin("watcher")
  /\ UNCHANGED <<disk, event, published, request>>

\* trigger_reload, with dsl.allow_dsl_reloading on: a reload of its own.
TriggerReload(r) ==
  /\ Begin(r)
  /\ UNCHANGED <<fs, published, request>>

\* Faulty variant: the guards are put in place as soon as they are read.
LoadGuardsInPlace(r) ==
  /\ pc[r] = "scan"
  /\ loaded' = [loaded EXCEPT ![r].guards = disk]
  /\ guards' = disk
  /\ pc' = [pc EXCEPT ![r] = "walk"]
  /\ UNCHANGED <<fs, loads, overlapped, mixed, dsls, openapi, request>>

\* load_everything: a guard file ...
LoadGuards(r) ==
  /\ pc[r] = "scan"
  /\ loaded' = [loaded EXCEPT ![r].guards = disk]
  /\ pc' = [pc EXCEPT ![r] = "walk"]
  /\ UNCHANGED <<fs, loads, overlapped, mixed, published, request>>

\* Faulty variant: a tree with a broken file is returned without the file.
LoadHttpLeniently(r) ==
  /\ pc[r] = "walk"
  /\ loaded' = [loaded EXCEPT ![r].http = disk]
  /\ loads' = loads \cup {loaded'[r]}
  /\ pc' = [pc EXCEPT ![r] = "dsls"]
  /\ UNCHANGED <<fs, overlapped, mixed, published, request>>

\* ... and, later, the HTTP tree.  A tree that does not load ends the reload.
LoadHttp(r) ==
  /\ pc[r] = "walk"
  /\ IF disk \in Broken
       THEN /\ loaded' = [loaded EXCEPT ![r] = NoTrees]
            /\ loads' = loads
            /\ pc' = [pc EXCEPT ![r] = "idle"]
       ELSE /\ loaded' = [loaded EXCEPT ![r].http = disk]
            /\ loads' = loads \cup {loaded'[r]}
            /\ pc' = [pc EXCEPT ![r] = "dsls"]
  /\ UNCHANGED <<fs, overlapped, mixed, published, request>>

\* publish_dsls: three stores.
StoreDsls(r) ==
  /\ pc[r] = "dsls"
  /\ dsls' = loaded[r].http
  /\ pc' = [pc EXCEPT ![r] = "guards"]
  /\ UNCHANGED <<fs, loaded, loads, overlapped, mixed, guards, openapi, request>>

StoreGuards(r) ==
  /\ pc[r] = "guards"
  /\ guards' = loaded[r].guards
  /\ pc' = [pc EXCEPT ![r] = "openapi"]
  /\ UNCHANGED <<fs, loaded, loads, overlapped, mixed, dsls, openapi, request>>

StoreOpenapi(r) ==
  /\ pc[r] = "openapi"
  /\ openapi' = loaded[r].http
  /\ pc' = [pc EXCEPT ![r] = "idle"]
  /\ loaded' = [loaded EXCEPT ![r] = NoTrees]
  /\ mixed' = (mixed /\ overlapped)
  /\ UNCHANGED <<fs, loads, overlapped, dsls, guards, request>>

-----------------------------------------------------------------------------
\* handle_request_inner looks the route up (proxy dispatch, internal gate) ...
RequestGate(q) ==
  /\ stage[q] = "off"
  /\ stage' = [stage EXCEPT ![q] = "gated"]
  /\ view' = [view EXCEPT ![q].gate = dsls]
  /\ UNCHANGED <<fs, reload, published>>

\* ... reads the body, and execute_dsl looks it up again ...
RequestResolve(q) ==
  /\ stage[q] = "gated"
  /\ stage' = [stage EXCEPT ![q] = "resolved"]
  /\ view' = [view EXCEPT ![q].http = dsls]
  /\ UNCHANGED <<fs, reload, published>>

\* ... and asks for the guards of the key it found.
RequestGuards(q) ==
  /\ stage[q] = "resolved"
  /\ stage' = [stage EXCEPT ![q] = "guarded"]
  /\ view' = [view EXCEPT ![q].guards = guards]
  /\ UNCHANGED <<fs, reload, published>>

RequestEnd(q) ==
  /\ stage[q] = "guarded"
  /\ stage' = [stage EXCEPT ![q] = "off"]
  /\ view' = [view EXCEPT ![q] = NoView]
  /\ UNCHANGED <<fs, reload, published>>

-----------------------------------------------------------------------------
Reload(r) == \/ LoadGuards(r) \/ LoadHttp(r)
             \/ StoreDsls(r) \/ StoreGuards(r) \/ StoreOpenapi(r)

Next ==
  \/ Edit \/ Debounce \/ WatcherRecv
  \/ \E r \in Reloaders : Reload(r)
  \/ \E r \in StepReloaders : TriggerReload(r)
  \/ \E q \in Requests : \/ RequestGate(q) \/ RequestResolve(q)
                         \/ RequestGuards(q) \/ RequestEnd(q)

Spec == Init /\ [][Next]_vars

\* The debouncer's timer fires, the consumer task is polled and the blocking
\* pool runs its loads to the end.  Edits and requests need not happen.
FairSpec == /\ Spec
            /\ WF_vars(Debounce) /\ WF_vars(WatcherRecv)
            /\ \A r \in Reloaders : WF_vars(Reload(r))

-----------------------------------------------------------------------------
Current == dsls = disk /\ guards = disk /\ openapi = disk

\* dsl/hot_reload.rs:201: "drop on backpressure (harmless because the consumer
\* always re-scans from disk)": when the edits stop at a tree that loads, it ends
\* up published, though signals were dropped and scans overlapped with edits.
\* Only a reload that started beside another may leave an older tree behind.
SettlesOnDisk == <>[](disk \in Broken \/ overlapped \/ Current)

\* "a broken save cannot take the server down": no published tree, and so no
\* request, ever has a version that does not load.
BrokenNeverLive ==
  /\ dsls \notin Broken /\ openapi \notin Broken
  /\ \A q \in Requests : view[q].http \notin Broken

\* dsl/hot_reload.rs:8: a reload "on success - atomically publishes" what it has
\* loaded.  In the end it does: once no reload is halfway through its three
\* stores, the routes, the guards and the OpenAPI document that are published
\* are those of one load, also after loads that failed.  Only reloads that
\* overlapped may leave a mixture, until one that runs alone has published.
PublishedIsOneLoad ==
  \/ mixed
  \/ \E r \in Reloaders : pc[r] \in {"guards", "openapi"}
  \/ [http |-> dsls, guards |-> guards] \in loads /\ openapi = dsls

\* What is published loads, and comes from one load (publish_dsls).
PublishedIsSound == TypeOK /\ BrokenNeverLive /\ PublishedIsOneLoad
=============================================================================
