----------------------------- MODULE HttpClient -----------------------------
(***************************************************************************)
(* HttpClient::request_with_ct (http_client/mod.rs): one outbound call per *)
(* caller, from the dispatch between self-call, Unix socket and TCP to the *)
(* decoded response.  The transports over Unix sockets are in UdsPool.     *)
(*                                                                         *)
(* A URL is [scheme, host, port, tail]: scheme is "" when the text does    *)
(* not parse, port is optional (a set of at most one), and tail is what    *)
(* follows the authority, cut into tokens.  Delimiters are tokens of their *)
(* own, so two adjacent words are one segment: <<"/", "v1", "x">> is /v1x. *)
(* What the resolver and the upstreams may do is open, within net.         *)
(***************************************************************************)
EXTENDS Integers, Sequences, FiniteSets, SequencesExt

CONSTANTS
    Callers,
    IpLiteral      \* the hosts that are IP literals, with their address

VARIABLES
    config,        \* AppConfig, as HttpClient::new reads it
    net,           \* bounds on the resolver and the upstreams
    calls,         \* caller -> its call of request_with_ct
    pool           \* UdsPool.inner: socket path -> the id of its client

clientVars == <<calls, pool>>

NoCall == [stage |-> "idle"]

\* An HttpResponse, the stub of a transport failure, and a raised error.
Response(status, body) == [ok |-> TRUE, status |-> status, error |-> {}, body |-> body]
Stub(kind) == [ok |-> TRUE, status |-> 0, error |-> {kind}, body |-> "error"]
Fail(why) == [ok |-> FALSE, why |-> why]

Stage(c, s) == calls[c].stage = s
End(c, out) == calls' = [calls EXCEPT ![c] = [stage |-> "done", out |-> out]]

-----------------------------------------------------------------------------
(* Our own listeners. *)

Web == {"http", "https"}
Port(u) == IF u.port # {} THEN CHOOSE p \in u.port : TRUE
           ELSE IF u.scheme = "https" THEN 443 ELSE 80

LoopbackSynonyms == {"localhost", "127.0.0.1", "0.0.0.0", "[::1]", "::1"}

\* A listener is [bind], an optional <<host, port>>; one on a socket has none.
SelfOrigins ==
    IF config.listeners = {}
    THEN {<<h, config.port>> : h \in LoopbackSynonyms}
    ELSE UNION {{bind} \cup {<<h, bind[2]>> : h \in LoopbackSynonyms} :
                    bind \in UNION {l.bind : l \in config.listeners}}

matches(u) == u.scheme \in Web /\ <<u.host, Port(u)>> \in SelfOrigins

-----------------------------------------------------------------------------
(* Addresses: [v |-> 4, o |-> four octets] or [v |-> 6, s |-> eight words]. *)

PrivateV4(o) ==
    \/ o[1] = 127
    \/ o[1] = 169 /\ o[2] = 254
    \/ o \in {<<0, 0, 0, 0>>, <<255, 255, 255, 255>>}
    \/ o[1] = 10
    \/ o[1] = 172 /\ o[2] \in 16 .. 31
    \/ o[1] = 192 /\ o[2] = 168
    \/ o[1] = 100 /\ o[2] \in 64 .. 127

IsMapped(s) == SubSeq(s, 1, 6) = <<0, 0, 0, 0, 0, 65535>>
MappedOctets(s) == <<s[7] \div 256, s[7] % 256, s[8] \div 256, s[8] % 256>>

\* fe80::/10 is the block 1018 of the words cut at 6 bits, fc00::/7 the
\* block 126 of those cut at 9.
PrivateV6(s) ==
    \/ SubSeq(s, 1, 7) = <<0, 0, 0, 0, 0, 0, 0>> /\ s[8] \in {0, 1}
    \/ IsMapped(s) /\ PrivateV4(MappedOctets(s))
    \/ s[1] \div 64 = 1018
    \/ s[1] \div 512 = 126

is_private_or_local(ip) == IF ip.v = 4 THEN PrivateV4(ip.o) ELSE PrivateV6(ip.s)

-----------------------------------------------------------------------------
(* The allow-list of URLs.  An entry has the shape of a URL, with the tail *)
(* as written (<<>> for a bare origin).                                    *)

url_origin(u) == <<u.scheme, u.host, Port(u)>>

\* Path and query of a parsed URL: an absent path is "/", no fragment.
req_url_path_query(u) ==
    LET hash  == {i \in DOMAIN u.tail : u.tail[i] = "#"}
        cut   == IF hash = {} THEN u.tail
                 ELSE SubSeq(u.tail, 1, (CHOOSE i \in hash : \A j \in hash : i <= j) - 1)
    IN  IF cut = <<>> \/ cut[1] # "/" THEN <<"/">> \o cut ELSE cut

\* Faulty variant: a prefix is enough, wherever it ends.
allow_entry_matches_Prefix(e, u) ==
    /\ e.scheme \in Web
    /\ url_origin(e) = url_origin(u)
    /\ e.tail = <<>> \/ IsPrefix(e.tail, req_url_path_query(u))

allow_entry_matches(e, u) ==
    LET req == req_url_path_query(u)
    IN  /\ e.scheme \in Web
        /\ url_origin(e) = url_origin(u)
        /\ \/ e.tail = <<>>
           \/ /\ IsPrefix(e.tail, req)
              /\ \/ Last(e.tail) \in {"/", "?", "#"}
                 \/ Len(req) = Len(e.tail)
                 \/ req[Len(e.tail) + 1] \in {"/", "?", "#", "&"}

UrlAllowed(u) ==
    \/ config.allowed_urls = {}
    \/ u.scheme \in Web /\ \E e \in config.allowed_urls : allow_entry_matches(e, u)

HostAllowed(u) ==
    \/ config.allowed_ips = {}
    \/ u.scheme # "" /\ u.host \in config.allowed_ips

MustResolve ==
    /\ config.block_private_networks
    /\ config.allowed_urls = {} /\ config.allowed_ips = {}

-----------------------------------------------------------------------------
(* What is sent over TCP. *)

\* Null-valued parameters and headers are left out.
NonNull(fields) == {n \in DOMAIN fields : fields[n] # "null"}

\* The body by content_type: [type, payload].  A body is [kind, keys], keys
\* being those of an object.
WireBody(q) ==
    CASE q.content_type = "plaintext" ->
            [type |-> "text",
             payload |-> IF q.body.kind = "null" THEN ""
                         ELSE IF q.body.kind = "object"
                         THEN IF "text" \in q.body.keys THEN "text"
                              ELSE IF "plaintext" \in q.body.keys THEN "plaintext"
                              ELSE "json"
                         ELSE q.body.kind]
      [] q.content_type = "formdata" ->
            [type |-> IF "file:" \in q.body.keys THEN "multipart" ELSE "urlencoded",
             payload |-> "fields"]
      [] q.content_type = "dynamicBody" ->
            [type |-> "json",
             payload |-> IF q.body.kind # "object" THEN q.body.kind
                         ELSE IF "dynamicBody" \in q.body.keys THEN "dynamicBody" ELSE "null"]
      [] OTHER -> [type |-> "json", payload |-> q.body.kind]

FormRefused(q) == q.content_type = "formdata" /\ q.body.kind \notin {"none", "object"}

\* Faulty variant: a null-valued header or parameter is sent as "null".
OnWire_Nulls(q) ==
    [query |-> DOMAIN q.query, headers |-> DOMAIN q.headers,
     body |-> IF q.body.kind = "none" THEN {} ELSE {WireBody(q)}]

OnWire(q) ==
    [query |-> NonNull(q.query), headers |-> NonNull(q.headers),
     body |-> IF q.body.kind = "none" THEN {} ELSE {WireBody(q)}]

-----------------------------------------------------------------------------
(* The call. *)

\* An executor calls request_with_ct.
StartCall(c, q) == calls' = [calls EXCEPT ![c] = [stage |-> "start", q |-> q]]

\* The future of the call is dropped.
Dropped(c) == [calls EXCEPT ![c] = NoCall]

At(c, s) == calls' = [calls EXCEPT ![c].stage = s]

\* After check_ssrf: the client is chosen and the request built.  pin is what
\* the client may connect to, {} when nothing is pinned.
Prepare(c, pin) ==
    IF FormRefused(calls[c].q) THEN End(c, Fail("form"))
    ELSE calls' = [calls EXCEPT ![c] = [stage |-> "connect", q |-> calls[c].q, pin |-> pin]]

check_ssrf(c) ==
    LET u == calls[c].q.url
    IN  IF ~ UrlAllowed(u) THEN End(c, Fail("allowed_urls"))
        ELSE IF ~ HostAllowed(u) THEN End(c, Fail("allowed_ips"))
        ELSE IF ~ MustResolve THEN Prepare(c, {})
        ELSE IF u.scheme = "" THEN End(c, Fail("invalid url"))
        ELSE IF u.host \in DOMAIN IpLiteral
        THEN IF is_private_or_local(IpLiteral[u.host]) THEN End(c, Fail("private"))
             ELSE Prepare(c, {})
        ELSE At(c, "lookup")

host_alias_lookup(u) ==
    u.scheme # "" /\ u.host \in DOMAIN config.unix_socket_map

\* Faulty variant: the switch is only looked at by check_ssrf.
Dispatch_TcpOnly(c) ==
    LET u == calls[c].q.url
    IN  /\ Stage(c, "start")
        /\ IF config.offline THEN End(c, Stub("offline"))
           ELSE IF matches(u) /\ config.router THEN At(c, "self")
           ELSE IF u.scheme = "unix" THEN At(c, "unix")
           ELSE IF host_alias_lookup(u) THEN At(c, "alias")
           ELSE IF config.disabled THEN End(c, Fail("disabled"))
           ELSE check_ssrf(c)
        /\ UNCHANGED pool

Dispatch(c) ==
    LET u == calls[c].q.url
    IN  /\ Stage(c, "start")
        /\ IF config.offline THEN End(c, Stub("offline"))
           ELSE IF config.disabled THEN End(c, Fail("disabled"))
           ELSE IF matches(u) /\ config.router THEN At(c, "self")
           ELSE IF u.scheme = "unix" THEN At(c, "unix")
           ELSE IF host_alias_lookup(u) THEN At(c, "alias")
           ELSE check_ssrf(c)
        /\ UNCHANGED pool

\* lookup_host answers: every address is looked at, and all are pinned.
LookupAnswers(c) ==
    /\ Stage(c, "lookup")
    /\ \E addrs \in net.dns[calls[c].q.url.host] :
        IF addrs = {} THEN End(c, Fail("dns"))
        ELSE IF \E a \in addrs : is_private_or_local(a) THEN End(c, Fail("private"))
        ELSE Prepare(c, addrs)
    /\ UNCHANGED pool

\* Faulty variant: the connection is made to a fresh answer of the resolver.
Targets_Fresh(c) ==
    LET host == calls[c].q.url.host
    IN  IF host \in DOMAIN IpLiteral THEN {IpLiteral[host]} ELSE UNION net.dns[host]

\* The addresses the chosen client may connect to: the pinned ones, or what
\* the host resolves to by then.
Targets(c) ==
    LET host == calls[c].q.url.host
    IN  IF calls[c].pin # {} THEN calls[c].pin
        ELSE IF host \in DOMAIN IpLiteral THEN {IpLiteral[host]}
        ELSE UNION net.dns[host]

\* request.send(): to is the address connected to, wire what was sent.
Connect(c) ==
    /\ Stage(c, "connect")
    /\ calls[c].q.url.scheme \in Web
    /\ \E a \in Targets(c) :
        calls' = [calls EXCEPT ![c] =
            [stage |-> "await", q |-> calls[c].q, to |-> a, wire |-> OnWire(calls[c].q)]]
    /\ UNCHANGED pool

\* Faulty variant: a transport failure is raised.
TransportFailure_Raised(c, kind) == End(c, Fail(kind))

TransportFailure(c, kind) == End(c, Stub(kind))

\* A refused connection, a broken one, or a URL that reqwest does not take.
SendFails(c) ==
    /\ \/ Stage(c, "connect") /\ calls[c].q.url.scheme = "" /\ TransportFailure(c, "unknown")
       \/ Stage(c, "connect") /\ net.faults /\ TransportFailure(c, "connect")
       \/ Stage(c, "await") /\ net.faults /\ TransportFailure(c, "request")
    /\ UNCHANGED pool

OverLimit(size) == \E cap \in config.response_size_limit : size > cap

\* json_override replaces the content type of the response.
ContentType(q, answer) == IF q.content_type = "json_override" THEN "json" ELSE answer.type

\* The head of the response: [status, declared, type, parses].
ResponseHead(c) ==
    /\ Stage(c, "await")
    /\ \E answer \in net.answers :
        IF \E n \in answer.declared : OverLimit(n) THEN End(c, Fail("size"))
        ELSE calls' = [calls EXCEPT ![c] =
                [stage |-> "read", q |-> calls[c].q, answer |-> answer, received |-> 0]]
    /\ UNCHANGED pool

\* Faulty variant: the limit is looked at before the chunk is counted.
Chunk_Late(c) ==
    /\ Stage(c, "read")
    /\ \E n \in net.chunks :
        /\ calls[c].received + n <= net.total
        /\ IF OverLimit(calls[c].received) THEN End(c, Fail("size"))
           ELSE calls' = [calls EXCEPT ![c].received = @ + n]
    /\ UNCHANGED pool

\* net.total bounds what an upstream sends.
Chunk(c) ==
    /\ Stage(c, "read")
    /\ \E n \in net.chunks :
        /\ calls[c].received + n <= net.total
        /\ \A d \in calls[c].answer.declared : calls[c].received + n <= d
        /\ IF OverLimit(calls[c].received + n) THEN End(c, Fail("size"))
           ELSE calls' = [calls EXCEPT ![c].received = @ + n]
    /\ UNCHANGED pool

\* content_type_is_json is what type = "json" stands for.
decode_response_body(received, type, parses) ==
    IF received = 0 THEN "empty" ELSE IF type = "json" /\ parses THEN "json" ELSE "text"

BodyEnds(c) ==
    /\ Stage(c, "read")
    /\ \A d \in calls[c].answer.declared : calls[c].received = d
    /\ End(c, Response(calls[c].answer.status,
                       decode_response_body(calls[c].received,
                                            ContentType(calls[c].q, calls[c].answer),
                                            calls[c].answer.parses)))
    /\ UNCHANGED pool

BodyBreaks(c) ==
    /\ Stage(c, "read")
    /\ net.faults
    /\ TransportFailure(c, "body")
    /\ UNCHANGED pool

\* Faulty variant: the deadline ends when the head of the response is in.
Timeout_HeadOnly(c) ==
    /\ calls[c].stage \in {"connect", "await"}
    /\ TransportFailure(c, "timeout")
    /\ UNCHANGED pool

\* One deadline over connecting, sending and reading the body.
Timeout(c) ==
    /\ calls[c].stage \in {"connect", "await", "read"}
    /\ TransportFailure(c, "timeout")
    /\ UNCHANGED pool

\* self_call_dispatch: the router runs the route; its error is raised.
SelfCallReturns(c) ==
    /\ Stage(c, "self")
    /\ \/ \E answer \in net.answers : End(c, Response(answer.status, "json"))
       \/ net.faults /\ End(c, Fail("self"))
    /\ UNCHANGED pool

is_status_allowed(status) ==
    config.status_allow_list = {} \/ status \in config.status_allow_list

TcpStep(c) ==
    \/ Dispatch(c) \/ LookupAnswers(c) \/ Connect(c) \/ SendFails(c) \/ ResponseHead(c)
    \/ Chunk(c) \/ BodyEnds(c) \/ BodyBreaks(c) \/ Timeout(c) \/ SelfCallReturns(c)
==============================================================================
