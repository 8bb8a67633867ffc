------------------------------ MODULE Outbound ------------------------------
(***************************************************************************)
(* Steps that call out: the http step (steps/http.rs), its mock            *)
(* (steps/http_mock.rs) and parallel_http, over the HTTP client with its   *)
(* three transports.  A behaviour is one execution of one step, to the end *)
(* of every task it leaves behind.                                         *)
(***************************************************************************)
EXTENDS ParallelHttp

CONSTANTS
    Scenarios,         \* configurations, steps and bounds on the network
    PublicAddresses    \* the addresses outside every private range

vars == <<config, net, calls, pool, step, ctx, exec, tasks>>

Me == CHOOSE c \in Callers : \A d \in Callers : c <= d

Init ==
    /\ \E s \in Scenarios :
        /\ s.step.kind = "parallel_http" => validate_parallel_http(s.step)
        /\ config = s.config /\ net = s.net /\ step = s.step
    /\ calls = [c \in Callers |-> NoCall]
    /\ pool = [s \in {} |-> 0]
    /\ ctx = [peer |-> {}, response |-> {}, result |-> {}]
    /\ exec = [stage |-> "ready"]
    /\ tasks = NoTasks

-----------------------------------------------------------------------------
(* The http step.  Its arguments evaluate or the step fails; the result is *)
(* bound before the outcome is looked at.                                  *)

HttpStart ==
    /\ step.kind = "http" /\ exec.stage = "ready"
    /\ IF step.failing # {} THEN exec' = Raised("args") /\ UNCHANGED calls
       ELSE exec' = [stage |-> "calling"] /\ StartCall(Me, Forwarding(step.requests[1]))
    /\ UNCHANGED <<pool, ctx, tasks>>

HttpCalls ==
    /\ exec.stage = "calling"
    /\ TcpStep(Me) \/ UdsStep(Me)
    /\ UNCHANGED stepVars

\* Where the step goes with a response it may use: error: if there is one
\* and the response is not a success, else next:.
Goto(next) == exec' = [stage |-> "returned", next |-> next]


HttpResponds ==
    LET out == calls[Me].out
    IN  /\ exec.stage = "calling" /\ Stage(Me, "done") /\ out.ok
        /\ ctx' = [ctx EXCEPT !.result = {out}]
        /\ IF out.error # {} THEN Goto(IF step.error THEN "error" ELSE "next")
           ELSE IF is_status_allowed(out.status) THEN Goto("next")
           ELSE IF step.error THEN Goto("error")
           ELSE exec' = [stage |-> "fallback"]
        /\ UNCHANGED <<clientVars, tasks>>

\* request_with_ct failed.
HttpRaises ==
    /\ exec.stage = "calling" /\ Stage(Me, "done") /\ ~ calls[Me].out.ok
    /\ exec' = Raised(calls[Me].out.why)
    /\ UNCHANGED <<clientVars, ctx, tasks>>

\* The default exception DSL, if any, has run; its result is not used.
FallbackEnds ==
    /\ exec.stage = "fallback"
    /\ exec' = Raised("status")
    /\ UNCHANGED <<clientVars, ctx, tasks>>

\* The future of the step is dropped in the middle of the call.
HttpDropped ==
    /\ exec.stage = "calling"
    /\ exec' = [stage |-> "dropped"]
    /\ calls' = Dropped(Me)
    /\ UNCHANGED <<pool, ctx, tasks>>

\* reflect.mock binds the response it is given.
HttpMock ==
    /\ step.kind = "mock" /\ exec.stage = "ready"
    /\ exec' = Returned
    /\ ctx' = [ctx EXCEPT !.result =
                {Response(IF step.status = {} THEN 200 ELSE CHOOSE n \in step.status : TRUE, "json")}]
    /\ UNCHANGED <<clientVars, tasks>>

-----------------------------------------------------------------------------
PeerStep(i) == Acquire(i) \/ PeerCalls(i) \/ PeerPanics(i) \/ PeerAborted(i)

StepReturns ==
    \/ FanOut \/ CollectEnds \/ CancelEnds
    \/ HttpStart \/ HttpResponds \/ HttpRaises \/ FallbackEnds \/ HttpMock
    \/ \E i \in DOMAIN tasks.state : JoinNext(i)

Next ==
    /\ \/ StepReturns
       \/ HttpCalls \/ HttpDropped \/ FanDropped
       \/ \E i \in DOMAIN tasks.state : PeerStep(i) \/ BackgroundJoin(i)
    /\ UNCHANGED <<config, net, step>>

Spec == Init /\ [][Next]_vars

\* A call that is not waiting for the network goes on, the resolver answers,
\* the callee of a self-call returns, and timers fire.  Upstreams owe nothing.
CallGoesOn(c) ==
    \/ Dispatch(c) \/ LookupAnswers(c) \/ Timeout(c) \/ SelfCallReturns(c)
    \/ uds_request_from_unix_url(c) \/ uds_request_from_alias(c)
    \/ ClientGet(c) \/ ClientEntry(c) \/ UdsTimeout(c)

Fairness ==
    /\ WF_vars(StepReturns /\ UNCHANGED <<config, net, step>>)
    /\ WF_vars(exec.stage = "calling" /\ CallGoesOn(Me) /\ UNCHANGED <<config, net, step, stepVars>>)
    /\ \A i \in Callers :
        /\ WF_vars(i \in DOMAIN tasks.state /\ Acquire(i) /\ UNCHANGED <<config, net, step>>)
        /\ WF_vars(/\ i \in DOMAIN tasks.state /\ PeerCalls(i) /\ UNCHANGED <<config, net, step>>
                   /\ CallGoesOn(i))
        /\ WF_vars(i \in DOMAIN tasks.state /\ PeerAborted(i) /\ UNCHANGED <<config, net, step>>)
        /\ WF_vars(i \in DOMAIN tasks.state /\ BackgroundJoin(i) /\ UNCHANGED <<config, net, step>>)

FairSpec == Spec /\ Fairness

-----------------------------------------------------------------------------
(* Properties. *)

TcpStages == {"connect", "await", "read"}
UdsStages == {"client_get", "client_entry", "uds_send", "uds_read"}
OutStages == TcpStages \cup UdsStages \cup {"self", "unix", "alias", "lookup"}

Outcomes(out) ==
    IF out.ok THEN out.status \in Nat /\ out.body \in {"error", "empty", "text", "json"}
    ELSE out.why \in STRING

\* Every call, task and executor is in a stage of its code.
TypeOK ==
    /\ \A c \in Callers : /\ calls[c].stage \in OutStages \cup {"idle", "start", "done"}
                          /\ calls[c].stage = "done" => Outcomes(calls[c].out)
    /\ exec.stage \in {"ready", "calling", "fallback", "collect", "cancel", "returned",
                       "raised", "dropped"}
    /\ tasks.permits \in 0 .. Len(tasks.state)
    /\ \A i \in DOMAIN tasks.state :
        /\ tasks.state[i] \in Ended \cup {"queued", "calling"}
        /\ tasks.doom[i] \in {"no", "poll", "drop"}
    /\ exec.stage = "collect" => Len(exec.entries) <= Len(Peers)

\* With RUUTER_OFFLINE or internal_requests.disabled no transport is used: not
\* TCP, not a Unix socket, and no self-call either.
SwitchedOffIsSilent ==
    config.offline \/ config.disabled =>
        \A c \in Callers : calls[c].stage \notin OutStages

\* Maximal words between delimiters of a tail, with their places.
Delimiters == {"/", "?", "#", "&"}
Words(t) ==
    {w \in {[at |-> a, text |-> SubSeq(t, a, b)] : a \in DOMAIN t, b \in DOMAIN t} :
        LET b == w.at + Len(w.text) - 1
        IN  /\ w.text # <<>>
            /\ \A i \in w.at .. b : t[i] \notin Delimiters
            /\ w.at = 1 \/ t[w.at - 1] \in Delimiters
            /\ b = Len(t) \/ t[b + 1] \in Delimiters}

\* A call over TCP that gets past the allow-list of URLs matches an entry in
\* origin and word by word: an entry never admits a longer word that begins
\* like its last one (allow_entry_matches, "path-segment boundary").
AllowListIsWhole ==
    \A c \in Callers :
        calls[c].stage \in TcpStages /\ config.allowed_urls # {} =>
            \E e \in config.allowed_urls :
                /\ url_origin(e) = url_origin(calls[c].q.url)
                /\ Words(e.tail) \subseteq Words(req_url_path_query(calls[c].q.url))

\* With block_private_networks and no allow-list the connection goes to a
\* public address, whatever the resolver answers between the check and the
\* connection (SsrfResolution::Pinned).
ConnectsToPublic ==
    MustResolve =>
        \A c \in Callers : Stage(c, "await") => calls[c].to \in PublicAddresses

\* What the DSL leaves null is absent over TCP: no "null" header, parameter or
\* text; and the traceparent of the request goes along unless the DSL names it.
AbsentStaysAbsent ==
    \A c \in Callers :
        Stage(c, "await") =>
            LET q == calls[c].q
                w == calls[c].wire
            IN  /\ \A n \in w.headers : q.headers[n] # "null"
                /\ \A n \in w.query : q.query[n] # "null"
                /\ \A b \in w.body : b.type = "text" => b.payload # "null"
                /\ step.traceparent # {} => "traceparent" \in DOMAIN q.headers

\* No more of a response body is held than http_response_size_limit, over any
\* transport.
ResponseWithinLimit ==
    \A c \in Callers :
        calls[c].stage \in {"read", "uds_read"} => ~ OverLimit(calls[c].received)

Policy == {"disabled", "allowed_urls", "allowed_ips", "invalid url", "private", "dns",
           "size", "form", "args", "status"}

\* Issue #89: an http step over TCP fails only by a policy; a refused, broken or
\* slow upstream is a response with status 0.  A fan-out never fails for a peer.
TransportFailureIsInBand ==
    exec.stage = "raised" =>
        IF step.kind = "parallel_http" THEN exec.why \in {"peers", "args"}
        ELSE \/ exec.why \in Policy
             \/ step.requests[1].url.scheme = "unix" \/ host_alias_lookup(step.requests[1].url)
             \/ matches(step.requests[1].url)

\* When the http step goes to error: or next:, or fails for the status, the
\* result variable holds the response that decided it.
ResultIsThisResponse ==
    /\ step.kind = "http"
    /\ exec.stage \in {"returned", "fallback"} \/ (exec.stage = "raised" /\ exec.why = "status")
    => ctx.result = {calls[Me].out}

\* Callers that meet at a new socket get one client, and so one connection pool.
OneClientPerSocket ==
    \A c \in Callers :
        calls[c].stage \in {"uds_send", "uds_read"} => calls[c].client = pool[calls[c].socket]

\* No more peers are called at a time than max_concurrency, cancelled, dropped
\* and drained ones included.
ConcurrencyBounded ==
    tasks # NoTasks =>
        Cardinality({i \in Indices : calls[i].stage \notin {"idle", "done"}}) <= max_concurrency

Usable(i) == Stage(i, "done") /\ calls[i].out.ok /\ ~ is_transport_error(calls[i].out)
Matching == {i \in Indices : Usable(i) /\ predicate_matches(calls[i].out)}

\* The peers of S with their responses, in the order of the input.
Listing(S) ==
    LET order == SetToSortSeq(S, LAMBDA a, b : a < b)
    IN  [k \in DOMAIN order |->
            [peer |-> Entry(order[k]).peer, response |-> Entry(order[k]).response]]

\* The bound array lists peers in input order with their own responses:
\* collect_all every peer whose task did not panic, collect_ok those that answered,
\* first_n as many matching ones as the quota, or all there are.
ResultMatchesPeers ==
    step.kind = "parallel_http" /\ exec.stage = "returned" /\ tasks # NoTasks =>
        \E S \in SUBSET {i \in Indices : Stage(i, "done")} :
            /\ ctx.result = {Listing(S)}
            /\ CASE step.aggregate = "collect_all" -> S = {i \in Indices : Stage(i, "done")}
                 [] step.aggregate = "collect_ok" -> S = {i \in Indices : Usable(i)}
                 [] OTHER -> /\ S \subseteq Matching
                             /\ Cardinality(S) <= quota
                             /\ Cardinality(S) < quota => S = Matching /\ AllJoined

\* A fan-out that has returned has no peer in flight, unless it drains them in
\* the background.
NoStragglers ==
    step.kind = "parallel_http" /\ exec.stage = "returned"
    /\ step.remaining_peers_after # {"drain_bg"} => AllEnded \/ tasks = NoTasks

\* However slow the upstreams, the step ends, and so does every task it started.
EverythingEnds ==
    <>[](/\ exec.stage \in {"returned", "raised", "dropped"}
         /\ \A i \in DOMAIN tasks.state : tasks.state[i] \in Ended)

\* No call goes where the switches, the allow-lists or the block on private
\* networks forbid, nor takes in more than the limit (request_with_ct).
StaysWithinPolicy ==
    SwitchedOffIsSilent /\ AllowListIsWhole /\ ConnectsToPublic /\ ResponseWithinLimit


\* A fan-out keeps its peers within max_concurrency, and leaves none behind.
PeersConfined == TypeOK /\ ConcurrencyBounded /\ NoStragglers
==============================================================================
