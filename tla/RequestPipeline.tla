-------------------------- MODULE RequestPipeline --------------------------
(***************************************************************************)
(* handle_request (router/mod.rs): the gates, the pass-through dispatch,   *)
(* the internal gate, the body, the guards, the declaration, the DSL and   *)
(* the answer of each request, or its WebSocket upgrade and connection,    *)
(* while a reload publishes new trees.                                     *)
(*                                                                         *)
(* Each read of a published tree is a step of its own, since publish_dsls  *)
(* may store between any two of them; so is each await.  What the steps of *)
(* a guard or a DSL decide is open.  rq[r] is the request as received, an  *)
(* optional value a set of at most one element:                            *)
(*   method, project, path, upgrade ("none", "ws" or a "malformed" one),  *)
(*   origin, referer (its origin),                                         *)
(*   if_match, content_length, encodings, content_type, params, headers,   *)
(*   traceparent, peer, forwarded_for, real_ip and body, where body is     *)
(*   readable, empty, json ("object", "other", "malformed"), fields,       *)
(*   boundary, parts (sequence of [name, filename, size, ok]), subtype.    *)
(***************************************************************************)
EXTENDS DslTree, Proxy, WsClients

CONSTANTS
    Project,          \* the project on disk; a request may name another
    Scenarios,        \* initial values: [config, disk, next, rq], where
                      \* rq maps some of Requests to what they ask
    BodyLimit,        \* MAX_INBOUND_BODY_BYTES
    GuardStatuses,    \* what a guard may return
    DslStatuses,      \* what a DSL may return
    ResponseHeaders   \* headers an upstream may answer with

VARIABLES
    config,    \* the part of AppConfig that the router reads
    disk,      \* the project directory that was loaded
    edited,    \* the directory a reload finds, optional
    http,      \* the published routes
    guards,    \* the published guards
    publish,   \* "none", "guards" (the routes are stored), "done"
    rq, st,
    disturbed  \* requests received before a store of the reload

pipeVars == <<config, disk, edited, http, guards, publish, rq, st, disturbed>>
vars == <<pipeVars, proxyVars, wsVars>>

NoReply == [status |-> 0, traced |-> FALSE, allow |-> {}]

Fresh == [stage |-> "new", kind |-> "http", key |-> <<>>, path_params |-> <<>>,
          dsl |-> {}, todo |-> <<>>, passed |-> {}, refused |-> 0,
          view |-> [body |-> [n \in {} |-> ""], params |-> {}, headers |-> {}],
          origin |-> "", reply |-> NoReply]

Init ==
    /\ \E s \in Scenarios :
        /\ config = s.config /\ disk = s.disk /\ edited = s.next /\ rq = s.rq
        /\ http \in load_project(s.disk).http
        /\ guards \in load_project(s.disk).guards
    /\ publish = "none"
    /\ st = [r \in Requests |-> IF r \in DOMAIN rq THEN Fresh
                                ELSE [Fresh EXCEPT !.stage = "absent"]]
    /\ disturbed = {}
    /\ ProxyInit
    /\ WsInit

At(r, stage) == st[r].stage = stage

Go(r, stage) == st' = [st EXCEPT ![r].stage = stage]

Trees == <<config, disk, edited, http, guards, publish, rq, disturbed>>

Shared == <<Trees, wsVars>>

\* An early return: the response carries neither traceparent nor the default
\* headers.
ReplyEarly(r, status) ==
    st' = [st EXCEPT ![r].stage = "done", ![r].reply = [NoReply EXCEPT !.status = status]]

\* The response assembled at the end of handle_request_inner.
Reply(r, status, allow) ==
    st' = [st EXCEPT ![r].stage = "done",
                     ![r].reply = [status |-> status, traced |-> TRUE, allow |-> allow]]

-----------------------------------------------------------------------------
(* The gates *)

origin_allowed(q) ==
    IF q.origin # {} THEN q.origin \subseteq config.csrf_origins
    ELSE q.referer # {} /\ q.referer \subseteq config.csrf_origins

\* Headers as the DSL reads them: the configured ones and traceparent, which
\* handle_request has added to the request if it was missing, included.
HeaderNames(q) ==
    Names(q.headers) \cup {"traceparent"} \cup {LowerCase[n] : n \in config.headers}

CsrfRefuses(q) ==
    /\ config.csrf_origins # {}
    /\ q.method \in config.csrf_methods
    /\ ~ origin_allowed(q)

\* The status of the first gate that refuses, 0 if none does.  project is ""
\* for the URL "/".
GateStatus(q) ==
    IF q.method \notin config.allowed_method_types THEN 405
    ELSE IF CsrfRefuses(q) THEN 403
    ELSE IF q.method \in config.if_match_methods /\ ~ q.if_match THEN 428
    ELSE IF q.project = "" THEN 404
    ELSE 0

Upgrades(q) == q.upgrade # "none" /\ q.method = "GET"

\* An upgrade passes none of the gates.
Receive(r) ==
    /\ At(r, "new")
    /\ \/ /\ Upgrades(rq[r])
          /\ IF rq[r].upgrade = "malformed" THEN ReplyEarly(r, 400)
             ELSE IF rq[r].project = "" \/ rq[r].path = <<>> THEN ReplyEarly(r, 404)
             ELSE Go(r, "ws")
       \/ /\ ~ Upgrades(rq[r])
          /\ IF GateStatus(rq[r]) # 0 THEN ReplyEarly(r, GateStatus(rq[r])) ELSE Go(r, "lookup")
    /\ UNCHANGED <<Shared, proxyVars>>

Routes(q) == IF q.project = Project THEN http ELSE [k \in {} |-> 0]

GuardsOf(q) == IF q.project = Project THEN guards ELSE [k \in {} |-> 0]

Resolved(q) == resolve_dsl_with_path_params(Routes(q), q.method, q.path)

\* The request with the route it was resolved to; kind tells which of the
\* three guard loops it enters.
Routed(r, m, kind, view) ==
    st' = [st EXCEPT ![r].stage = "load", ![r].kind = kind, ![r].key = m.key,
                     ![r].path_params = m.params, ![r].dsl = {http[m.key]},
                     ![r].view = view]

NoBody == [n \in {} |-> ""]

\* The pass-through dispatch: the first lookup of the route.
LookupProxy(r) ==
    /\ At(r, "lookup")
    /\ LET proxied == {m \in Resolved(rq[r]) :
                        \E d \in http[m.key].declaration : d.proxy # {}}
       IN  \/ /\ proxied = {}
              /\ Go(r, "gate")
           \/ \E m \in proxied :
                Routed(r, m, "proxy", [body |-> NoBody, params |-> rq[r].params \cup {"pathParams"},
                                       headers |-> HeaderNames(rq[r])])
    /\ UNCHANGED <<Shared, proxyVars>>

\* Faulty variant: only a declaration of the DSL itself makes it internal.
Internal_NoDefault(dsl) == effective_internal(dsl, FALSE)

Internal(dsl) == effective_internal(dsl, config.default_internal)

\* The internal gate, the second lookup, and the Content-Length preflight.
InternalGate(r) ==
    /\ At(r, "gate")
    /\ IF \E m \in Resolved(rq[r]) : Internal(http[m.key]) THEN ReplyEarly(r, 404)
       ELSE IF \E n \in rq[r].content_length : n > BodyLimit THEN ReplyEarly(r, 413)
       ELSE Go(r, "body")
    /\ UNCHANGED <<Shared, proxyVars>>
-----------------------------------------------------------------------------
(* The body *)

\* The status parse_multipart_body's caller gives to part i: 400 for one that
\* does not parse, 413 for one beyond multipart_max_parts or larger than
\* multipart_max_part_size.
PartStatus(i, part) ==
    IF ~ part.ok THEN 400
    ELSE IF \E cap \in config.multipart_max_parts : i > cap THEN 413
    ELSE IF \E cap \in config.multipart_max_part_size : part.size > cap THEN 413
    ELSE 0

PartKey(part) ==
    IF part.name # "" THEN part.name
    ELSE IF part.filename # "" THEN part.filename ELSE "part"

\* [status, map]: the first part that fails decides.
parse_multipart_body(parts) ==
    LET bad == {i \in DOMAIN parts : PartStatus(i, parts[i]) # 0}
        first == CHOOSE i \in bad : \A j \in bad : i <= j
    IN  IF bad # {} THEN [status |-> PartStatus(first, parts[first]), map |-> NoBody]
        ELSE [status |-> 0,
              map |-> [k \in {PartKey(parts[i]) : i \in DOMAIN parts} |-> "string"]]

\* The body map by content type, [status, map].
body_map(q) ==
    LET b == q.body
        Map(m) == [status |-> 0, map |-> m]
    IN  IF b.empty THEN Map(NoBody)
        ELSE CASE q.content_type = "json" ->
                    (CASE b.json = "object" -> Map(b.fields)
                       [] b.json = "other" -> Map([n \in {"value"} |-> "array"])
                       [] b.json = "malformed" -> [status |-> 400, map |-> NoBody])
               [] q.content_type = "form" -> Map([n \in DOMAIN b.fields |-> "string"])
               [] q.content_type = "multipart" ->
                    IF b.boundary THEN parse_multipart_body(b.parts)
                    ELSE [status |-> 400, map |-> NoBody]
               [] q.content_type = "text" -> Map([n \in {b.subtype} |-> "string"])
               [] OTHER -> Map(NoBody)

\* The address the DSL sees: a forwarded one only from a trusted peer, and
\* only if it is an address ("junk" is not; "" is an empty header).
resolve_origin(q) ==
    LET named == IF q.forwarded_for \ {""} # {} THEN q.forwarded_for ELSE q.real_ip
        candidate == named \ {"junk", ""}
        ip == IF q.peer \cap config.trusted # {} /\ candidate # {} THEN candidate ELSE q.peer
    IN  IF ip = {} THEN "unknown" ELSE CHOOSE a \in ip : TRUE

\* to_bytes fails on a broken body and on one over the limit.
ReadBody(r) ==
    /\ At(r, "body")
    /\ LET parsed == body_map(rq[r])
       IN  IF ~ rq[r].body.readable THEN ReplyEarly(r, 400)
           ELSE IF parsed.status # 0 THEN ReplyEarly(r, parsed.status)
           ELSE st' = [st EXCEPT ![r].stage = "resolve", ![r].view.body = parsed.map,
                                 ![r].origin = resolve_origin(rq[r])]
    /\ UNCHANGED <<Shared, proxyVars>>

-----------------------------------------------------------------------------
(* execute_dsl *)

\* The third lookup of the route is the one that counts.
Resolve(r) ==
    /\ At(r, "resolve")
    /\ \/ Resolved(rq[r]) = {} /\ Go(r, "missing")
       \/ \E m \in Resolved(rq[r]) :
            Routed(r, m, "http", [body |-> st[r].view.body,
                                  params |-> rq[r].params \cup {"pathParams"},
                                  headers |-> HeaderNames(rq[r])])
    /\ UNCHANGED <<Shared, proxyVars>>

\* FileNotFound: the tree is read once more, for the Allow header.
Missing(r) ==
    /\ At(r, "missing")
    /\ LET allow == methods_allowed_for_path(Routes(rq[r]), rq[r].path)
       IN  Reply(r, IF allow = {} THEN 404 ELSE 405, allow)
    /\ UNCHANGED <<Shared, proxyVars>>

LoadGuards(r) ==
    /\ At(r, "load")
    /\ st' = [st EXCEPT ![r].stage = "guards",
                        ![r].todo = applicable_guards(GuardsOf(rq[r]), st[r].key, config.guards_mode)]
    /\ UNCHANGED <<Shared, proxyVars>>

Rejects(status) == status >= 400

ValidStatus(status) == status \in 100..999

\* Faulty variant: the configured defaults replace every status.
FinalStatus_Always(status, hasValue) ==
    LET configured == IF hasValue THEN config.dsl_with_response_status
                      ELSE config.dsl_without_response_status
        chosen == IF configured # {} THEN CHOOSE s \in configured : TRUE ELSE status
    IN  IF ValidStatus(chosen) THEN chosen ELSE 200

\* The status of a result on the normal path; only 200 takes the configured
\* defaults, and what is no HTTP status becomes 200.
FinalStatus(status, hasValue) ==
    LET configured == IF hasValue THEN config.dsl_with_response_status
                      ELSE config.dsl_without_response_status
        chosen == IF status = 200 /\ configured # {}
                  THEN CHOOSE s \in configured : TRUE ELSE status
    IN  IF ValidStatus(chosen) THEN chosen ELSE 200

\* build_guard_short_circuit, and the same in handle_ws_upgrade.
ShortCircuitStatus(status) == IF ValidStatus(status) THEN status ELSE 403

\* A guard runs to its end.  A WebSocket guard's declaration is not enforced.
RunGuard(r) ==
    /\ At(r, "guards") /\ st[r].todo # <<>>
    /\ LET g == Head(st[r].todo)
           refused == /\ st[r].kind # "ws"
                      /\ \E d \in g.dsl.declaration :
                            ~ enforce_guard_declaration(d, st[r].view, rq[r].method)
       IN  \/ /\ refused
              /\ IF st[r].kind = "http" THEN Reply(r, 400, {}) ELSE ReplyEarly(r, 400)
           \/ /\ ~ refused
              /\ \E status \in GuardStatuses :
                    IF Rejects(status)
                    THEN LET reply == IF st[r].kind = "http"
                                      THEN [status |-> FinalStatus(status, TRUE),
                                            traced |-> TRUE, allow |-> {}]
                                      ELSE [NoReply EXCEPT !.status = ShortCircuitStatus(status)]
                         IN  st' = [st EXCEPT ![r].stage = "done", ![r].refused = status,
                                              ![r].reply = reply]
                    ELSE st' = [st EXCEPT ![r].todo = Tail(@),
                                          ![r].passed = IF status < 400 THEN @ \cup {g.key} ELSE @]
           \/ /\ ~ refused
              /\ IF st[r].kind = "http" THEN Reply(r, 500, {}) ELSE ReplyEarly(r, 500)
    /\ UNCHANGED <<Shared, proxyVars>>

GuardsDone(r) == At(r, "guards") /\ st[r].todo = <<>>

\* The declaration of the DSL: the view is filtered, or the answer is 400.
Declare(r) ==
    /\ GuardsDone(r) /\ st[r].kind = "http"
    /\ LET d == UNION {x.declaration : x \in st[r].dsl}
           views == IF d = {} THEN {st[r].view}
                    ELSE UNION {apply_declaration(x, st[r].view, rq[r].method) : x \in d}
       IN  \/ views = {} /\ Reply(r, 400, {})
           \/ \E v \in views : st' = [st EXCEPT ![r].stage = "run", ![r].view = v]
    /\ UNCHANGED <<Shared, proxyVars>>

\* The DSL ends, with or without a value, or fails.
RunDsl(r) ==
    /\ At(r, "run")
    /\ \/ \E status \in DslStatuses, hasValue \in BOOLEAN :
            Reply(r, FinalStatus(status, hasValue), {})
       \/ Reply(r, 500, {})
    /\ UNCHANGED <<Shared, proxyVars>>

\* The caller's traceparent, verbatim, or the one generated for the request.
Traceparent(r) == IF rq[r].traceparent # {} THEN CHOOSE t \in rq[r].traceparent : TRUE ELSE r

Forward(r) ==
    /\ GuardsDone(r) /\ st[r].kind = "proxy"
    /\ \E x \in st[r].dsl : \E d \in x.declaration : \E p \in d.proxy :
            StartForward(r, p, <<rq[r].project, st[r].key>>, Traceparent(r),
                         [content_length |-> rq[r].content_length,
                          encodings |-> rq[r].encodings,
                          headers |-> rq[r].headers])
    /\ Go(r, "forward")
    /\ UNCHANGED Shared

\* forward returned: an error, or the head of the upstream's answer.
ForwardReturns(r) ==
    /\ At(r, "forward") /\ fwd[r].stage \in {"stream", "ended"}
    /\ ReplyEarly(r, fwd[r].status)
    /\ UNCHANGED <<Shared, proxyVars>>

ProxyStep(r) ==
    /\ \E h \in ResponseHeaders : ProxyNext(r, h)
    /\ UNCHANGED <<pipeVars, wsVars>>

-----------------------------------------------------------------------------
(* The WebSocket upgrade: an exact key, no path params, no gate. *)

WsLookup(r) ==
    /\ At(r, "ws")
    /\ LET key == <<Method("WS")>> \o rq[r].path
       IN  IF key \in DOMAIN Routes(rq[r])
           THEN Routed(r, [key |-> key, params |-> <<>>], "ws",
                       [body |-> NoBody, params |-> rq[r].params,
                        headers |-> Names(rq[r].headers) \cup {"traceparent"}])
           ELSE ReplyEarly(r, 404)
    /\ UNCHANGED <<Shared, proxyVars>>

Accept(r) ==
    /\ GuardsDone(r) /\ st[r].kind = "ws"
    /\ ReplyEarly(r, 101)
    /\ Upgraded(r)
    /\ UNCHANGED <<Trees, proxyVars>>

WsStep(r) == WsNext(r) /\ UNCHANGED <<pipeVars, proxyVars>>

-----------------------------------------------------------------------------
(* The request timeout drops the handler at an await and answers 408. *)

Awaiting(r) == \/ st[r].stage \in {"body", "run"}
               \/ At(r, "guards") /\ st[r].todo # <<>>

\* Faulty variant: the timeout does not cover the pass-through path.
Timeout_HttpOnly(r) ==
    /\ config.request_timeout
    /\ Awaiting(r) /\ UNCHANGED proxyVars
    /\ ReplyEarly(r, 408)
    /\ UNCHANGED Shared

Timeout(r) ==
    /\ config.request_timeout
    /\ \/ Awaiting(r) /\ UNCHANGED proxyVars
       \/ At(r, "forward") /\ DropForward(r)
    /\ ReplyEarly(r, 408)
    /\ UNCHANGED Shared

-----------------------------------------------------------------------------
(* publish_dsls: two stores.  A directory that does not load is left alone. *)

Received == {r \in DOMAIN rq : ~ At(r, "new")}

PublishRoutes ==
    /\ publish = "none"
    /\ \E pd \in edited : ~ LoadFails(pd) /\ http' \in load_project(pd).http
    /\ publish' = "guards"
    /\ disturbed' = disturbed \cup Received
    /\ UNCHANGED <<config, disk, edited, guards, rq, st, proxyVars, wsVars>>

PublishGuards ==
    /\ publish = "guards"
    /\ \E pd \in edited : guards' \in load_project(pd).guards /\ disk' = pd
    /\ publish' = "done"
    /\ disturbed' = disturbed \cup Received
    /\ UNCHANGED <<config, edited, http, rq, st, proxyVars, wsVars>>

-----------------------------------------------------------------------------
Handle(r) ==
    \/ Receive(r) \/ LookupProxy(r) \/ InternalGate(r) \/ ReadBody(r) \/ Resolve(r)
    \/ Missing(r) \/ LoadGuards(r) \/ RunGuard(r) \/ Declare(r) \/ RunDsl(r)
    \/ Forward(r) \/ ForwardReturns(r) \/ WsLookup(r) \/ Accept(r)

Next ==
    \/ \E r \in Requests : Handle(r) \/ ProxyStep(r) \/ WsStep(r) \/ Timeout(r)
    \/ PublishRoutes
    \/ PublishGuards

\* What the runtime does by itself for a request: it polls the handler, whose
\* guards and DSL end because the step loop does, or the connection's task,
\* and timers fire.  The client need not send its body, nor the upstream
\* answer.
RuntimeStep(r) ==
    \/ Handle(r) /\ ~ At(r, "body")
    \/ Timeout(r)
    \/ TaskStep(r) /\ UNCHANGED <<pipeVars, proxyVars>>
    \/ /\ \/ Preflight(r) \/ CheckSsrf(r) \/ Acquire(r) \/ Prepare(r) \/ Deadline(r)
          \/ SendFails(r) /\ fwd[r].upload = "failed"
       /\ UNCHANGED <<pipeVars, wsVars>>

FairSpec ==
    /\ Init /\ [][Next]_vars
    /\ WF_vars(PublishGuards)
    /\ \A r \in Requests : WF_vars(RuntimeStep(r))

-----------------------------------------------------------------------------
(* Properties *)

Stages == {"absent", "new", "ws", "lookup", "gate", "body", "resolve", "missing", "load",
           "guards", "run", "forward", "done"}

\* Types of the router's state.
TypeOK ==
    /\ publish \in {"none", "guards", "done"}
    /\ disturbed \subseteq Requests
    /\ \A r \in Requests :
        /\ st[r].stage \in Stages /\ st[r].kind \in {"http", "proxy", "ws"}
        /\ At(r, "done") <=> st[r].reply.status # 0
        /\ st[r].reply.status \in 0..999
        /\ fwd[r].stage # "idle" => st[r].stage \in {"forward", "done"}
        /\ conn[r].task # "none" <=> st[r].reply.status = 101
        /\ conn[r].writer \in {"none", "recv", "sending", "ended"}

Undisturbed(r) == r \notin disturbed /\ publish # "guards"

\* The request is past its guards: its DSL runs, its bytes are forwarded or
\* its WebSocket is accepted.
Admitted(r) == \/ st[r].stage \in {"run", "forward"}
               \/ st[r].kind = "ws" /\ st[r].reply.status = 101

FilePath(f) == f.dir \o <<Front(f.name)>>

\* The files that serve a path, read off the directory: those with the
\* longest path that begins the request's; a WebSocket needs the whole path.
ServingFiles(method, path) ==
    LET named == {f \in ScannedFiles(disk) :
                    /\ ~ is_guard_file(f.name) /\ f.top = method
                    /\ IF method = "WS" THEN FilePath(f) = path ELSE IsPrefix(FilePath(f), path)}
    IN  {f \in named : \A g \in named : Len(g.dir) <= Len(f.dir)}

\* A guard protects a name: that of its folder, or its own up to ".guard".
ProtectedName(g) ==
    IF is_in_folder_guard(g.name) THEN g.dir
    ELSE g.dir \o <<SelectSeq(SubSeq(g.name, 1, Len(g.name) - 1), LAMBDA p : p # "guard")>>

Closest(gs) == {g \in gs : \A h \in gs : Len(ProtectedName(h)) <= Len(ProtectedName(g))}

\* The keys of the guards that the layout puts before a file.
GuardsOnDisk(f) ==
    LET covering == {g \in ScannedFiles(disk) : /\ is_guard_file(g.name) /\ g.top = f.top
                                                /\ IsPrefix(ProtectedName(g), FilePath(f))}
        overriding == {g \in covering : is_override_guard(g.dsl)}
        chosen == IF overriding # {} THEN Closest(overriding)
                  ELSE IF config.guards_mode = "ClosestOnly" THEN Closest(covering)
                  ELSE covering
    IN  {<<Method(g.top)>> \o ProtectedName(g) : g \in chosen}
        \cup (IF overriding = {} /\ ProjectGuards(disk) # {} THEN {PROJECT_GUARD_KEY} ELSE {})

\* A request that no reload crosses is served by the file its path names on
\* disk, with the rest of the path as pathParams, after exactly the guards
\* that the layout of the directory puts before that file have passed: in
\* the normal path, the pass-through path and the WebSocket upgrade alike.
ServedByItsFile ==
    \A r \in Requests :
        Admitted(r) /\ Undisturbed(r) =>
            \E f \in ServingFiles(IF st[r].kind = "ws" THEN "WS" ELSE rq[r].method, rq[r].path) :
                /\ rq[r].project = Project
                /\ st[r].dsl = {f.dsl}
                /\ FilePath(f) \o st[r].path_params = rq[r].path
                /\ st[r].passed = GuardsOnDisk(f)

\* The audit report (dsl-lint --require-guard, GET /_/unguarded) and the
\* router agree: a request is admitted without a guard exactly on the routes
\* reported as unguarded.
UnguardedIsReported ==
    \A r \in Requests :
        Admitted(r) /\ Undisturbed(r) =>
            (st[r].passed = {} <=>
                \E row \in handle_unguarded(http, guards, config.guards_mode, config.default_internal) :
                    row.key = st[r].key /\ row.guards = <<>>)

\* A DSL that is internal runs for a request from outside only if a reload
\* came between the gate and the lookup that counts.
InternalHidden ==
    \A r \in Requests :
        At(r, "run") /\ Undisturbed(r) =>
            \A dsl \in st[r].dsl : ~ effective_internal(dsl, config.default_internal)

\* What the running DSL sees: declared names only (unless additive), the
\* required body fields of a POST with their types, always pathParams and
\* traceparent, and a forwarded address only from a trusted peer.
ViewKeepsContract ==
    \A r \in Requests : At(r, "run") =>
        LET v == st[r].view
            Declared(d, s) == {e.field : e \in UNION d.structured[s]} \cup UNION d.flat[s]
            listed(d, s) == d.structured[s] # {} \/ d.flat[s] # {}
        IN  /\ "pathParams" \in v.params /\ "traceparent" \in v.headers
            /\ st[r].origin \in rq[r].peer \cup {"unknown"} \/ rq[r].peer \subseteq config.trusted
            /\ \A dsl \in st[r].dsl : \A d \in dsl.declaration :
                /\ ~ d.additive =>
                    /\ listed(d, "body") => DOMAIN v.body \subseteq Declared(d, "body")
                    /\ listed(d, "params") => v.params \subseteq Declared(d, "params") \cup {"pathParams"}
                    /\ listed(d, "headers") => v.headers \subseteq Declared(d, "headers") \cup {"traceparent"}
                /\ \A e \in UNION d.structured["body"] :
                    /\ rq[r].method = "POST" /\ e.required /\ d.flat["body"] = {} => e.field \in DOMAIN v.body
                    /\ e.field \in DOMAIN v.body /\ e.type = "string" => v.body[e.field] \in {"string", "null"}

\* A guard's rejection reaches the client as it is, whatever defaults are
\* configured, unless its status is no HTTP status; then it is 403, or on
\* the normal path 200.
RejectionReachesClient ==
    \A r \in Requests : st[r].refused # 0 =>
        \/ st[r].reply.status = st[r].refused
        \/ /\ st[r].refused > 999
           /\ st[r].reply.status = IF st[r].kind = "http" THEN 200 ELSE 403

\* Without a reload, a request that passed the gates is told 404 only if no
\* method has a file for its path or the file is internal, and 405 with
\* exactly the methods that have one, its own not among them.
AnswersMatchRoutes ==
    \A r \in Requests :
        LET methods == IF rq[r].project # Project THEN {} ELSE
                {f.top : f \in {g \in ScannedFiles(disk) :
                    ~ is_guard_file(g.name) /\ IsPrefix(FilePath(g), rq[r].path)}}
        IN  At(r, "done") /\ Undisturbed(r) /\ ~ Upgrades(rq[r]) /\ GateStatus(rq[r]) = 0 =>
                /\ st[r].reply.status = 404 =>
                    \/ methods = {}
                    \/ \E f \in ServingFiles(rq[r].method, rq[r].path) :
                            effective_internal(f.dsl, config.default_internal)
                /\ st[r].reply.status = 405 =>
                    /\ st[r].reply.allow = methods
                    /\ methods # {} /\ rq[r].method \notin methods

\* Nothing but a deadline bounds these waits: for the client's body, and for
\* the upstream's answer.
Unbounded(r) ==
    /\ ~ config.request_timeout
    /\ \/ At(r, "body")
       \/ fwd[r].stage = "send" /\ ~ fwd[r].decl.request_timeout_ms

\* Every request is answered, or waits for a peer without any timeout
\* configured (TimeoutLayer, request_timeout_ms).
RequestAnswered ==
    \A r \in Requests : At(r, "new") ~> (At(r, "done") \/ Unbounded(r))

\* A request runs the file its path names, after the guards of that file, and
\* never an internal one (find_dsl, guards_for_dsl, the internal gate).
ServedAsLaidOut == ServedByItsFile /\ InternalHidden

\* Declarations hold for what the DSL sees and for what the upstream receives.
ContractsKept == ViewKeepsContract /\ ForwardedWithinContract

\* The answer is the one that the guards and the routes call for.
AnswersHold == TypeOK /\ RejectionReachesClient /\ AnswersMatchRoutes
=============================================================================
