------------------------------- MODULE Proxy -------------------------------
(***************************************************************************)
(* ProxyClient::forward (router/proxy.rs): one request of a pass-through   *)
(* route, from the Content-Length preflight to the end of the streamed     *)
(* response, with the semaphore per route.                                 *)
(*                                                                         *)
(* fwd[r] is what forward holds for request r.  The upload of the request  *)
(* body and the answer of the upstream proceed side by side: the upstream  *)
(* may answer before it has read the body.  Sizes count frames of bytes.   *)
(***************************************************************************)
EXTENDS Integers, Sequences, FiniteSets

CONSTANTS
    Requests,
    FrameSizes,          \* sizes of a frame
    ResponseSizeLimit,   \* config http_response_size_limit, an optional size
    MaxResponse,         \* bound: the upstream sends no more than this
    UpstreamStatuses

ASSUME ProxyAssumption ==
    /\ FrameSizes \subseteq Nat \ {0}
    /\ ResponseSizeLimit \subseteq Nat /\ Cardinality(ResponseSizeLimit) <= 1
    /\ MaxResponse \in Nat

VARIABLES
    semaphores, \* route -> [cap, free], created by the first request
    fwd

proxyVars == <<semaphores, fwd>>

NoForward == [stage |-> "idle"]

HOP_BY_HOP_REQUEST ==
    {"connection", "keep-alive", "proxy-authenticate", "proxy-authorization",
     "te", "trailer", "transfer-encoding", "upgrade", "host", "expect"}

HOP_BY_HOP_RESPONSE == HOP_BY_HOP_REQUEST \ {"host", "expect"}

-----------------------------------------------------------------------------
(* Headers: a sequence of [name, value] in, a map out, so that of the      *)
(* headers of one name the last stays.  The value of "connection" is the   *)
(* set of names it lists; only the first such header is read.              *)

Names(headers) == {headers[i].name : i \in DOMAIN headers}

ConnectionNamed(headers) ==
    LET at == {i \in DOMAIN headers : headers[i].name = "connection"}
    IN  UNION {headers[i].value : i \in {j \in at : \A k \in at : j <= k}}

LastValue(headers, n) ==
    LET at == {i \in DOMAIN headers : headers[i].name = n}
    IN  headers[CHOOSE i \in at : \A k \in at : i >= k].value

Forwardable(headers, hopByHop) ==
    Names(headers) \ (hopByHop \cup ConnectionNamed(headers))

build_forward_request_headers(headers, preserve_headers, traceparent) ==
    LET names == IF preserve_headers
                 THEN Forwardable(headers, HOP_BY_HOP_REQUEST)
                 ELSE Names(headers) \cap {"content-type", "content-length"}
    IN  [n \in names \cup {"traceparent"} |->
            IF n = "traceparent" THEN traceparent ELSE LastValue(headers, n)]

strip_response_hop_by_hop(headers) ==
    [n \in Forwardable(headers, HOP_BY_HOP_RESPONSE) |-> LastValue(headers, n)]

-----------------------------------------------------------------------------
ProxyInit ==
    /\ semaphores = [route \in {} |-> 0]
    /\ fwd = [r \in Requests |-> NoForward]

\* The router calls forward.  parts: content_length (optional), encodings
\* (of Content-Encoding, {"identity"} without that header) and headers.
StartForward(r, decl, route, traceparent, parts) ==
    /\ fwd' = [fwd EXCEPT ![r] =
            [stage |-> "preflight", decl |-> decl, route |-> route, parts |-> parts,
             traceparent |-> traceparent, permit |-> FALSE, sent |-> 0,
             upload |-> "none", headers |-> [n \in {} |-> 0], received |-> 0,
             status |-> 0, answer |-> <<>>]]
    /\ UNCHANGED semaphores

\* Faulty variant: the permit of a failed request is not given back.
Released_OnStream(r) ==
    IF fwd[r].permit /\ fwd[r].stage = "stream"
    THEN [semaphores EXCEPT ![fwd[r].route].free = @ + 1]
    ELSE semaphores

\* The permit, if r holds one, is dropped.
Released(r) ==
    IF fwd[r].permit
    THEN [semaphores EXCEPT ![fwd[r].route].free = @ + 1]
    ELSE semaphores

\* forward returns (or its response stream ends) and what it owns is dropped.
EndForward(r, status) ==
    /\ semaphores' = Released(r)
    /\ fwd' = [fwd EXCEPT ![r].stage = "ended", ![r].status = status,
                          ![r].permit = FALSE, ![r].upload = "none"]

Stage(r, s) == fwd[r].stage = s

Preflight(r) ==
    /\ Stage(r, "preflight")
    /\ CASE \E n \in fwd[r].parts.content_length : n > fwd[r].decl.max_body_bytes ->
                EndForward(r, 413)
         [] /\ \A n \in fwd[r].parts.content_length : n <= fwd[r].decl.max_body_bytes
            /\ ~ fwd[r].parts.encodings \subseteq fwd[r].decl.allowed_encodings ->
                EndForward(r, 415)
         [] OTHER -> fwd' = [fwd EXCEPT ![r].stage = "ssrf"] /\ UNCHANGED semaphores

\* check_ssrf awaits name resolution; it may refuse the upstream.
CheckSsrf(r) ==
    /\ Stage(r, "ssrf")
    /\ \/ EndForward(r, 502)
       \/ fwd' = [fwd EXCEPT ![r].stage = "acquire"] /\ UNCHANGED semaphores

\* The first request of a route fixes its semaphore.
semaphore_for_route(route, cap) ==
    IF route \in DOMAIN semaphores THEN semaphores[route]
    ELSE [cap |-> cap, free |-> cap]

Acquire(r) ==
    /\ Stage(r, "acquire")
    /\ \/ /\ fwd[r].decl.max_in_flight = {}
          /\ fwd' = [fwd EXCEPT ![r].stage = "prepare"]
          /\ UNCHANGED semaphores
       \/ \E cap \in fwd[r].decl.max_in_flight :
            LET route == fwd[r].route
                sem   == semaphore_for_route(route, cap)
                got   == sem.free > 0
                left  == IF got THEN [sem EXCEPT !.free = @ - 1] ELSE sem
            IN  /\ semaphores' = [x \in DOMAIN semaphores \cup {route} |->
                                    IF x = route THEN left ELSE semaphores[x]]
                /\ fwd' = [fwd EXCEPT
                            ![r].stage = IF got THEN "prepare" ELSE "ended",
                            ![r].permit = got,
                            ![r].status = IF got THEN 0 ELSE 503]

\* client_for may fail to build the client of a pinned address; the headers
\* are built and send() is called.
Prepare(r) ==
    /\ Stage(r, "prepare")
    /\ \/ EndForward(r, 502)
       \/ /\ fwd' = [fwd EXCEPT
                ![r].stage = "send", ![r].upload = "open",
                ![r].headers = build_forward_request_headers(fwd[r].parts.headers,
                                  fwd[r].decl.preserve_headers, fwd[r].traceparent)]
          /\ UNCHANGED semaphores

-----------------------------------------------------------------------------
(* metered_request_body *)

Uploading(r) == fwd[r].stage \in {"send", "stream"} /\ fwd[r].upload = "open"

\* Faulty variant: the cap is compared before the frame is counted.
Exceeds_Before(sent, n, cap) == sent > cap

Exceeds(sent, n, cap) == sent + n > cap

\* A frame of n bytes arrives; one that exceeds the cap becomes an error.
UploadFrame(r) ==
    /\ Uploading(r)
    /\ \E n \in FrameSizes :
        fwd' = [fwd EXCEPT ![r] =
            IF Exceeds(@.sent, n, @.decl.max_body_bytes)
            THEN [@ EXCEPT !.upload = "failed"]
            ELSE [@ EXCEPT !.sent = @ + n]]
    /\ UNCHANGED semaphores

\* The client finishes, breaks off, or is silent for the idle timeout.
UploadEnds(r) ==
    /\ Uploading(r)
    /\ fwd' = [fwd EXCEPT ![r].upload = "done"]
    /\ UNCHANGED semaphores

UploadBreaks(r) ==
    /\ Uploading(r)
    /\ fwd' = [fwd EXCEPT ![r].upload = "failed"]
    /\ UNCHANGED semaphores

-----------------------------------------------------------------------------
(* The answer *)

\* The upstream answers, possibly before the whole body was sent.
UpstreamAnswers(r, headers) ==
    /\ Stage(r, "send") /\ fwd[r].upload # "failed"
    /\ \E status \in UpstreamStatuses :
        fwd' = [fwd EXCEPT ![r].stage = "stream", ![r].status = status,
                           ![r].answer = <<strip_response_hop_by_hop(headers)>>]
    /\ UNCHANGED semaphores

\* send fails: a transport error, or the error of the metered body.
SendFails(r) == Stage(r, "send") /\ EndForward(r, 502)

\* request_timeout_ms covers send only.
Deadline(r) == Stage(r, "send") /\ fwd[r].decl.request_timeout_ms /\ EndForward(r, 502)

\* capped_response_stream: a frame over the cap ends the stream.
ResponseFrame(r) ==
    /\ Stage(r, "stream")
    /\ \E n \in FrameSizes :
        /\ fwd[r].received + n <= MaxResponse
        /\ IF \E limit \in ResponseSizeLimit : fwd[r].received + n > limit
           THEN EndForward(r, fwd[r].status)
           ELSE /\ fwd' = [fwd EXCEPT ![r].received = @ + n]
                /\ UNCHANGED semaphores

\* The body is complete, breaks off, or its reader is gone: in each case the
\* stream lets go of the permit.
ResponseEnds(r) == Stage(r, "stream") /\ EndForward(r, fwd[r].status)

\* The future of the request is dropped at an await.
DropForward(r) ==
    /\ fwd[r].stage \in {"ssrf", "send"}
    /\ EndForward(r, 0)

ProxyNext(r, headers) ==
    \/ Preflight(r) \/ CheckSsrf(r) \/ Acquire(r) \/ Prepare(r)
    \/ UploadFrame(r) \/ UploadEnds(r) \/ UploadBreaks(r)
    \/ UpstreamAnswers(r, headers) \/ SendFails(r) \/ Deadline(r)
    \/ ResponseFrame(r) \/ ResponseEnds(r)

-----------------------------------------------------------------------------
Active == {r \in Requests : fwd[r].stage \notin {"idle", "ended"}}

\* Every slot of a route's semaphore is free or held by a request that is
\* still being forwarded (OwnedSemaphorePermit in forward and in the
\* response stream), so no more requests are in flight than the first request
\* of the route allowed, and none is lost however a request ends.
ProxySlotsConserved ==
    \A route \in DOMAIN semaphores :
        LET held == {r \in Active : fwd[r].permit /\ fwd[r].route = route}
        IN  /\ semaphores[route].free >= 0
            /\ semaphores[route].free + Cardinality(held) = semaphores[route].cap

\* What reaches the upstream: no more bytes than max_body_bytes (nor the
\* client more than http_response_size_limit), no hop-by-hop header and none
\* that the (first) Connection header names, and the request's own traceparent.
ForwardedWithinContract ==
    \A r \in Active :
        /\ fwd[r].sent <= fwd[r].decl.max_body_bytes
        /\ \A limit \in ResponseSizeLimit : fwd[r].received <= limit
        /\ fwd[r].stage \in {"send", "stream"} =>
            /\ fwd[r].parts.encodings \subseteq fwd[r].decl.allowed_encodings
            /\ fwd[r].headers["traceparent"] = fwd[r].traceparent
            /\ LET seen == DOMAIN fwd[r].headers \ {"traceparent"}
               IN  /\ seen \cap HOP_BY_HOP_REQUEST = {}
                   /\ seen \subseteq Names(fwd[r].parts.headers)
                   /\ fwd[r].decl.preserve_headers =>
                        seen \cap ConnectionNamed(fwd[r].parts.headers) = {}
=============================================================================
