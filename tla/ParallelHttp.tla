---------------------------- MODULE ParallelHttp ----------------------------
(***************************************************************************)
(* The parallel_http step (steps/parallel_http.rs): one task per peer, a   *)
(* semaphore, three ways to aggregate, and what becomes of the peers that  *)
(* are still in flight when first_n has its quota or the step is dropped.  *)
(*                                                                         *)
(* Peer i is called by caller i.  A task that is aborted while it is being *)
(* polled goes on to its next await: doom is then "poll" for one more step *)
(* of the task, which is dropped after it.                                 *)
(***************************************************************************)
EXTENDS UdsPool

VARIABLES
    step,     \* the step of the DSL
    ctx,      \* variables of the run: peer, response, result (optional each)
    exec,     \* the executor: [stage, ...]
    tasks     \* the JoinSet with its semaphore: [permits, state, doom]

stepVars == <<ctx, exec, tasks>>

NoTasks == [permits |-> 0, state |-> <<>>, doom |-> <<>>]

Returned == [stage |-> "returned", next |-> "next"]
Raised(why) == [stage |-> "raised", why |-> why]

-----------------------------------------------------------------------------
Methods == {"http.get", "http.post", "http.put", "http.patch", "http.delete"}

\* What the parser accepts.
validate_parallel_http(body) ==
    /\ IF body.aggregate = "first_n" THEN body.first_n # {} /\ body.first_n # {0}
       ELSE body.first_n = {} /\ body.early_exit_on = {} /\ body.remaining_peers_after = {}
    /\ \A p \in body.early_exit_on : \A range \in p.status_range : range[1] <= range[2]
    /\ body.call \in Methods

\* traceparent is forwarded unless the DSL set one.
WithTraceparent(headers) ==
    [n \in DOMAIN headers \cup (IF step.traceparent = {} THEN {} ELSE {"traceparent"}) |->
        IF n \in DOMAIN headers THEN headers[n] ELSE CHOOSE tp \in step.traceparent : TRUE]

Forwarding(q) == [q EXCEPT !.headers = WithTraceparent(@)]

-----------------------------------------------------------------------------
Peers == step.peers.items
Indices == DOMAIN Peers

\* n.max(1), or one permit for each peer.
max_concurrency ==
    IF step.max_concurrency = {} THEN Len(Peers)
    ELSE LET n == CHOOSE k \in step.max_concurrency : TRUE IN IF n = 0 THEN 1 ELSE n

quota == CHOOSE n \in step.first_n : TRUE

\* Up to the spawns nothing is awaited.  step.failing are the peers with
\* arguments that do not evaluate.
FanOut ==
    /\ step.kind = "parallel_http" /\ exec.stage = "ready"
    /\ IF step.peers.kind = "other"
       THEN exec' = Raised("peers") /\ UNCHANGED <<ctx, tasks>>
       ELSE IF Peers = <<>>
       THEN exec' = Returned /\ ctx' = [ctx EXCEPT !.result = {<<>>}] /\ UNCHANGED tasks
       ELSE IF step.failing # {}
       THEN /\ exec' = Raised("args")
            /\ ctx' = [ctx EXCEPT !.peer = {Peers[First(step.failing)]}]
            /\ UNCHANGED tasks
       ELSE /\ exec' = [stage |-> "collect", entries |-> <<>>]
            /\ ctx' = [ctx EXCEPT !.peer = {Last(Peers)}]
            /\ tasks' = [permits |-> max_concurrency,
                         state |-> [i \in Indices |-> "queued"],
                         doom |-> [i \in Indices |-> "no"]]
    /\ UNCHANGED clientVars

-----------------------------------------------------------------------------
(* The tasks. *)

Polled(i) == IF tasks.doom[i] = "poll" THEN "drop" ELSE tasks.doom[i]

\* Faulty variant: the permit is taken before the task is spawned, and not at all
\* when there is none.
Acquire_Unbounded(i) ==
    /\ tasks.state[i] = "queued" /\ tasks.doom[i] # "drop"
    /\ StartCall(i, Forwarding(step.requests[i]))
    /\ tasks' = [tasks EXCEPT !.state[i] = "calling", !.permits = @ - 1,
                              !.doom[i] = Polled(i)]
    /\ UNCHANGED <<pool, ctx, exec>>

Acquire(i) ==
    /\ tasks.state[i] = "queued" /\ tasks.doom[i] # "drop"
    /\ tasks.permits > 0
    /\ StartCall(i, Forwarding(step.requests[i]))
    /\ tasks' = [tasks EXCEPT !.state[i] = "calling", !.permits = @ - 1,
                              !.doom[i] = Polled(i)]
    /\ UNCHANGED <<pool, ctx, exec>>

\* The task goes on with its call; at the end of it the permit is dropped.
PeerCalls(i) ==
    /\ tasks.state[i] = "calling" /\ tasks.doom[i] # "drop"
    /\ TcpStep(i) \/ UdsStep(i)
    /\ LET over == calls'[i].stage = "done"
       IN  tasks' = [tasks EXCEPT !.state[i] = IF over THEN "finished" ELSE @,
                                  !.permits = IF over THEN @ + 1 ELSE @,
                                  !.doom[i] = Polled(i)]
    /\ UNCHANGED <<ctx, exec>>

\* The task's future is dropped where it stands, and with it its permit.
Unwind(i, state) ==
    /\ tasks' = [tasks EXCEPT !.state[i] = state,
                              !.permits = IF tasks.state[i] = "calling" THEN @ + 1 ELSE @]
    /\ calls' = Dropped(i)
    /\ UNCHANGED <<pool, ctx, exec>>

\* A panic inside the call, as in the route that a self-call runs.
PeerPanics(i) ==
    /\ tasks.state[i] = "calling" /\ tasks.doom[i] # "drop"
    /\ net.panics
    /\ Unwind(i, "panicked")

PeerAborted(i) ==
    /\ tasks.state[i] \in {"queued", "calling"} /\ tasks.doom[i] # "no"
    /\ Unwind(i, "aborted")

Ended == {"finished", "panicked", "aborted", "joined"}
AllEnded == \A i \in Indices : tasks.state[i] \in Ended
AllJoined == \A i \in Indices : tasks.state[i] = "joined"

\* abort_all, or the drop of the JoinSet.
AbortAll ==
    [tasks EXCEPT !.doom = [i \in Indices |->
        IF tasks.state[i] \in {"queued", "calling"} THEN "poll" ELSE @[i]]]

-----------------------------------------------------------------------------
(* Collecting. *)

is_transport_error(out) == out.status = 0 \/ out.error # {}

\* collect_filtered keeps the outcome of peer i.
KeptByFilter(i) ==
    LET out == calls[i].out
    IN  step.aggregate = "collect_ok" => out.ok /\ ~ is_transport_error(out)

early_exit(field) == UNION {p[field] : p \in step.early_exit_on}

predicate_matches(out) ==
    LET range == IF early_exit("status_range") = {} THEN <<200, 299>>
                 ELSE CHOOSE r \in early_exit("status_range") : TRUE
    IN  /\ ~ is_transport_error(out)
        /\ out.status \in range[1] .. range[2]
        /\ \A accepted \in early_exit("body_predicate") : out.body \in accepted

\* The body predicate binds the response it looks at.
BindsResponse(out) ==
    /\ early_exit("body_predicate") # {} /\ ~ is_transport_error(out)
    /\ out.status \in IF early_exit("status_range") = {} THEN 200 .. 299
                      ELSE UNION {r[1] .. r[2] : r \in early_exit("status_range")}

\* build_peer_entry and build_peer_error_entry.
Entry(i) ==
    [idx |-> i, peer |-> Peers[i],
     response |-> IF calls[i].out.ok THEN calls[i].out
                  ELSE [ok |-> TRUE, status |-> 0, error |-> {calls[i].out.why}, body |-> "null"]]

Collected(i) ==
    IF tasks.state[i] = "panicked" THEN <<>>
    ELSE IF step.aggregate = "first_n"
    THEN IF calls[i].out.ok /\ predicate_matches(calls[i].out) THEN <<Entry(i)>> ELSE <<>>
    ELSE IF KeptByFilter(i) THEN <<Entry(i)>> ELSE <<>>

QuotaMet == step.aggregate = "first_n" /\ Len(exec.entries) >= quota

\* join_next gives the result of a task that has ended.
JoinNext(i) ==
    /\ exec.stage = "collect" /\ ~ QuotaMet
    /\ tasks.state[i] \in {"finished", "panicked"}
    /\ tasks' = [tasks EXCEPT !.state[i] = "joined"]
    /\ exec' = [exec EXCEPT !.entries = @ \o Collected(i)]
    /\ ctx' = IF /\ step.aggregate = "first_n" /\ tasks.state[i] = "finished"
                 /\ calls[i].out.ok /\ BindsResponse(calls[i].out)
              THEN [ctx EXCEPT !.response = {calls[i].out}] ELSE ctx
    /\ UNCHANGED clientVars

\* Faulty variant: the result keeps the order of completion.
InPeerOrder_Completion(entries) ==
    [k \in DOMAIN entries |-> [peer |-> entries[k].peer, response |-> entries[k].response]]

\* Sorted by _idx, which is then removed.
InPeerOrder(entries) ==
    LET sorted == SortSeq(entries, LAMBDA a, b : a.idx < b.idx)
    IN  [k \in DOMAIN sorted |-> [peer |-> sorted[k].peer, response |-> sorted[k].response]]

Bind == ctx' = [ctx EXCEPT !.result = {InPeerOrder(exec.entries)}]

\* Faulty variant: cancel does not wait for the tasks it aborts.
CollectEnds_NoWait ==
    /\ exec.stage = "collect" /\ (QuotaMet \/ AllJoined)
    /\ exec' = Returned /\ Bind
    /\ tasks' = IF step.aggregate = "first_n" /\ step.remaining_peers_after # {"drain_bg"}
                THEN AbortAll ELSE tasks
    /\ UNCHANGED clientVars

\* The quota is met or no task is left.  cancel (the default) aborts the rest
\* and joins it; drain_bg leaves the JoinSet to a background task.
CollectEnds ==
    /\ exec.stage = "collect" /\ (QuotaMet \/ AllJoined)
    /\ IF step.aggregate = "first_n" /\ step.remaining_peers_after # {"drain_bg"}
       THEN exec' = [exec EXCEPT !.stage = "cancel"] /\ tasks' = AbortAll /\ UNCHANGED ctx
       ELSE exec' = Returned /\ Bind /\ UNCHANGED tasks
    /\ UNCHANGED clientVars

CancelEnds ==
    /\ exec.stage = "cancel" /\ AllEnded
    /\ exec' = Returned /\ Bind
    /\ UNCHANGED <<clientVars, tasks>>

\* The background task joins what is left.
BackgroundJoin(i) ==
    /\ exec.stage = "returned" /\ step.remaining_peers_after = {"drain_bg"}
    /\ tasks.state[i] \in {"finished", "panicked"}
    /\ tasks' = [tasks EXCEPT !.state[i] = "joined"]
    /\ UNCHANGED <<clientVars, ctx, exec>>

\* The future of the step is dropped (a request timeout, an aborted task), and
\* the JoinSet with it.
FanDropped ==
    /\ exec.stage \in {"collect", "cancel"}
    /\ exec' = [stage |-> "dropped"]
    /\ tasks' = AbortAll
    /\ UNCHANGED <<clientVars, ctx>>
==============================================================================
