----------------------------- MODULE MCOutbound -----------------------------
(* Scenarios for Outbound: one group per question, each a configuration, a *)
(* step and what the network may do.                                       *)
EXTENDS Outbound

V4(a, b, c, d) == [v |-> 4, o |-> <<a, b, c, d>>]
V6(a, z) == [v |-> 6, s |-> <<a, 0, 0, 0, 0, 0, 0, z>>]
MappedV4(a, b) == [v |-> 6, s |-> <<0, 0, 0, 0, 0, 65535, 256 * a + b, 1>>]

\* Addresses on both sides of the edges of the private ranges.
MCPublic == {V4(8, 8, 8, 8), V4(9, 255, 0, 1), V4(172, 15, 0, 1), V4(172, 32, 0, 1),
             V4(192, 167, 0, 1), V4(100, 63, 0, 1), V4(100, 128, 0, 1), V4(169, 253, 0, 1),
             V6(65216, 1), V6(8193, 1), V6(65024, 1), MappedV4(8, 8)}
MCPrivate == {V4(127, 0, 0, 1), V4(10, 0, 0, 1), V4(172, 16, 0, 1), V4(172, 31, 0, 1),
              V4(192, 168, 0, 1), V4(100, 64, 0, 1), V4(100, 127, 0, 1), V4(169, 254, 0, 1),
              V4(0, 0, 0, 0), V4(255, 255, 255, 255), V6(0, 1), V6(0, 0), V6(65152, 1),
              V6(65215, 1), V6(64512, 1), V6(65023, 1), MappedV4(10, 0), MappedV4(172, 20)}
MCIpLiteral == [h \in {"8.8.8.8", "10.0.0.1"} |->
                    IF h = "8.8.8.8" THEN V4(8, 8, 8, 8) ELSE V4(10, 0, 0, 1)]

Url(scheme, host, port, tail) == [scheme |-> scheme, host |-> host, port |-> port, tail |-> tail]
Api == Url("http", "api", {}, <<"/", "v1">>)
Sock == Url("unix", "", {}, <<"/", "run", "/", "a", ".sock", "/", "x">>)
Alias == Url("http", "resql", {}, <<"/", "q">>)
Here == Url("http", "localhost", {8080}, <<"/", "p">>)
Garbage == Url("", "", {}, <<>>)

NoFields == [n \in {} |-> ""]
NoBody == [kind |-> "none", keys |-> {}]
Request(url) == [url |-> url, body |-> NoBody, query |-> NoFields, headers |-> NoFields,
                 content_type |-> ""]

Config == [offline |-> FALSE, disabled |-> FALSE, router |-> TRUE, listeners |-> {},
           port |-> 8080, allowed_urls |-> {}, allowed_ips |-> {},
           block_private_networks |-> FALSE,
           unix_socket_map |-> [h \in {"resql"} |-> <<"/", "run", "/", "a", ".sock">>],
           response_size_limit |-> {2}, status_allow_list |-> {}]

Answer(status) == [status |-> status, declared |-> {0}, type |-> "json", parses |-> TRUE]
Net == [dns |-> [h \in {"api"} |-> {{V4(8, 8, 8, 8)}}], answers |-> {Answer(200)},
        chunks |-> {1}, total |-> 0, faults |-> FALSE, panics |-> FALSE]

Http(q) == [kind |-> "http", requests |-> <<q>>, failing |-> {}, error |-> FALSE,
            traceparent |-> {"t"}]
Scenario(cfg, nt, st) == [config |-> cfg, net |-> nt, step |-> st]

-----------------------------------------------------------------------------
(* Which transport, with the switches. *)
Listen == {{}, {[bind |-> {<<"0.0.0.0", 9090>>}], [bind |-> {}]}}
DispatchScenarios ==
    {Scenario([Config EXCEPT !.offline = o, !.disabled = d, !.router = r, !.listeners = l],
              [Net EXCEPT !.faults = TRUE, !.dns = [h \in {"api", "localhost"} |-> {{V4(8, 8, 8, 8)}}]],
              [Http(Request(u)) EXCEPT !.error = e]) :
        o \in BOOLEAN, d \in BOOLEAN, r \in BOOLEAN, l \in Listen, e \in BOOLEAN,
        u \in {Api, Sock, Alias, Here, Garbage, [Here EXCEPT !.port = {9090}],
               [Api EXCEPT !.scheme = "https"],
               [Sock EXCEPT !.tail = <<"run">>], [Sock EXCEPT !.tail = <<"/", "a", "/", "b">>],
               [Sock EXCEPT !.tail = <<"/", "a">>],
               [Sock EXCEPT !.tail = <<"/", "a", ".socket">>]}}

(* The resolver. *)
ResolverScenarios ==
    {Scenario([Config EXCEPT !.block_private_networks = TRUE],
              [Net EXCEPT !.dns = [h \in {"api"} |-> {{}, {a}, {V4(8, 8, 8, 8), a}}]],
              Http(Request(Api))) : a \in MCPublic \cup MCPrivate}
    \cup
    {Scenario([Config EXCEPT !.block_private_networks = TRUE],
              [Net EXCEPT !.dns = [h \in {"api"} |-> {{V4(8, 8, 8, 8)}, {V4(10, 0, 0, 1)}}]],
              Http(Request(u))) :
        u \in {Api, Garbage, [Api EXCEPT !.host = "10.0.0.1"], [Api EXCEPT !.host = "8.8.8.8"]}}

(* Allow-lists. *)
Tails == {<<>>, <<"/">>, <<"/", "v1">>, <<"/", "v1", "x">>, <<"/", "v1", "/">>,
          <<"/", "v1", "/", "x">>, <<"/", "v1", "?", "k">>, <<"/", "v1", "?", "k", "&", "x">>,
          <<"/", "v1", "?", "k", "x">>, <<"?", "k">>, <<"/", "v1", "#", "x">>, <<"/", "x">>}
AllowScenarios ==
    {Scenario([Config EXCEPT !.allowed_urls = {[e EXCEPT !.tail = t]}, !.block_private_networks = b],
              Net, Http(Request([u EXCEPT !.tail = t2]))) :
        e \in {Api, [Api EXCEPT !.port = {80}]}, t \in Tails, t2 \in Tails, b \in {TRUE},
        u \in {Api}}
    \cup
    {Scenario([Config EXCEPT !.allowed_urls = us, !.allowed_ips = ips], Net, Http(Request(u))) :
        us \in {{}, {Api}}, ips \in {{}, {"api"}, {"8.8.8.8"}},
        u \in {Api, [Api EXCEPT !.scheme = "https"], [Api EXCEPT !.port = {81}], Garbage}}

(* What is sent. *)
BodyScenarios ==
    {Scenario(Config, Net,
              [Http([Request(Api) EXCEPT !.content_type = ct, !.body = [kind |-> k, keys |-> ks],
                                         !.headers = h, !.query = q]) EXCEPT !.traceparent = tp]) :
        ct \in {"", "plaintext", "formdata", "dynamicBody", "json_override"},
        k \in {"none", "null", "string", "object"},
        ks \in {{}, {"text"}, {"plaintext"}, {"file:"}, {"dynamicBody"}},
        h \in {NoFields, [n \in {"x", "traceparent"} |-> "null"]},
        q \in {[n \in {"a", "b"} |-> IF n = "a" THEN "null" ELSE "v"]}, tp \in {{}, {"t"}}}

(* What comes back. *)
Answers == [status : {200, 503}, declared : {{}, {0}, {1}, {3}}, type : {"json", "other"},
            parses : BOOLEAN]
ResponseScenarios ==
    {Scenario([Config EXCEPT !.status_allow_list = al, !.response_size_limit = cap],
              [Net EXCEPT !.answers = Answers, !.chunks = {1, 2}, !.total = 3, !.faults = TRUE,
                          !.dns = [h \in {"api"} |-> {{V4(8, 8, 8, 8)}}]],
              [Http([Request(u) EXCEPT !.content_type = ct]) EXCEPT !.error = e, !.failing = f]) :
        al \in {{}, {200}}, cap \in {{}, {2}}, u \in {Api, Sock, Here}, e \in BOOLEAN,
        ct \in {"", "json_override"}, f \in {{}, {1}}}
    \cup {Scenario(Config, Net, [kind |-> "mock", status |-> st, requests |-> <<>>,
                                 traceparent |-> {}, failing |-> {}]) : st \in {{}, {404}}}

-----------------------------------------------------------------------------
(* Fan-out. *)
Fan(urls, agg) ==
    [kind |-> "parallel_http", call |-> "http.get", traceparent |-> {"t"}, failing |-> {},
     peers |-> [kind |-> "array", items |-> [i \in DOMAIN urls |-> urls[i].host]],
     requests |-> [i \in DOMAIN urls |-> Request(urls[i])],
     aggregate |-> agg, first_n |-> {}, early_exit_on |-> {}, remaining_peers_after |-> {},
     max_concurrency |-> {}]

FirstN(urls, n, rest, exit) ==
    [Fan(urls, "first_n") EXCEPT !.first_n = n, !.remaining_peers_after = rest,
                                 !.early_exit_on = exit]
Exit(range, bodies) == {[status_range |-> range, body_predicate |-> bodies]}

FanNet == [Net EXCEPT !.answers = {Answer(200), Answer(503)}, !.faults = TRUE]
BodyNet == [Net EXCEPT !.answers = {[Answer(200) EXCEPT !.declared = {}]}, !.total = 1]

AggregateScenarios ==
    {Scenario(Config, FanNet, [Fan(urls, agg) EXCEPT !.max_concurrency = m]) :
        urls \in {<<Api, Api>>, <<Api, Sock>>, <<Sock, Alias>>, <<Api, Garbage>>},
        agg \in {"collect_ok", "collect_all"}, m \in {{}, {0}, {1}, {2}}}
    \cup
    {Scenario(Config, [FanNet EXCEPT !.faults = FALSE, !.panics = TRUE],
              [Fan(<<Here, Here, Api>>, agg) EXCEPT !.max_concurrency = {2}]) :
        agg \in {"collect_ok", "collect_all"}}
    \cup
    {Scenario([Config EXCEPT !.block_private_networks = TRUE],
              [BodyNet EXCEPT !.dns = [h \in {"api"} |-> {{V4(8, 8, 8, 8)}, {V4(10, 0, 0, 1)}}]],
              Fan(<<Api, Sock>>, "collect_all"))}
    \cup
    {Scenario(Config, Net, [Fan(urls, "collect_all") EXCEPT !.peers.kind = k, !.failing = f]) :
        urls \in {<<>>, <<Api, Sock>>}, k \in {"array", "other"}, f \in {{}, {1}, {2}}}

QuotaScenarios ==
    {Scenario(Config, FanNet, [FirstN(urls, n, rest, exit) EXCEPT !.max_concurrency = m]) :
        urls \in {<<Api, Sock>>}, n \in {{0}, {1}, {2}, {3}}, m \in {{}, {1}},
        rest \in {{}, {"cancel"}, {"drain_bg"}},
        exit \in {{}, Exit({<<503, 503>>}, {}), Exit({}, {{"json"}}), Exit({<<503, 200>>}, {})}}
    \cup
    {Scenario(Config, BodyNet, [FirstN(<<Api, Api>>, {1}, rest, Exit({}, {{"json"}}))
                                    EXCEPT !.max_concurrency = {1}]) :
        rest \in {{}, {"drain_bg"}}}
    \cup
    {Scenario(Config, [Net EXCEPT !.answers = {Answer(200), Answer(503)}],
              [FirstN(<<Here, Here, Here>>, n, rest, {}) EXCEPT !.max_concurrency = {2}]) :
        n \in {{1}, {2}}, rest \in {{}, {"drain_bg"}}}
    \cup
    {Scenario(Config, FanNet, [FirstN(<<Api, Sock, Here>>, {1}, rest, {}) EXCEPT !.max_concurrency = {2}]) :
        rest \in {{}, {"drain_bg"}}}

MCScenarios ==
    DispatchScenarios \cup ResolverScenarios \cup AllowScenarios \cup BodyScenarios
    \cup ResponseScenarios \cup AggregateScenarios \cup QuotaScenarios
==============================================================================
