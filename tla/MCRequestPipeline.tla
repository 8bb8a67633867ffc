------------------------- MODULE MCRequestPipeline -------------------------
(* Scenarios for RequestPipeline: one group per question, each a small     *)
(* directory, a configuration and one or two requests.                     *)
EXTENDS RequestPipeline, TLC

CONSTANTS r1, r2

MCLowerCase == [n \in {"x-key", "X-Tenant", "x-tenant", "X-Canary", "x-canary"} |->
                  CASE n = "X-Tenant" -> "x-tenant"
                    [] n = "X-Canary" -> "x-canary"
                    [] OTHER -> n]

Seg(a) == <<a>>
Yml(a) == <<a, "yml">>
SiblingGuard(a) == <<a, "guard", "yml">>
FolderGuard == <<"", "guard", "yml">>
File(top, dir, name, dsl) == [top |-> top, dir |-> dir, name |-> name, dsl |-> dsl]

Each(x) == [s \in Sections |-> x]
Decl == [flat |-> Each({}), structured |-> Each({}), one_of |-> Each({}),
         strict |-> FALSE, additive |-> FALSE, override_ancestors |-> FALSE,
         internal |-> {}, proxy |-> {}]
Dsl(id, decl) == [id |-> id, declaration |-> decl, steps |-> TRUE, wellFormed |-> TRUE]
Plain(id) == Dsl(id, {})
Override(id) == Dsl(id, {[Decl EXCEPT !.override_ancestors = TRUE]})

Config == [allowed_method_types |-> {"GET", "POST", "PUT"}, csrf_origins |-> {},
           csrf_methods |-> {"POST"}, if_match_methods |-> {}, headers |-> {},
           default_internal |-> FALSE, multipart_max_parts |-> {1},
           multipart_max_part_size |-> {1}, trusted |-> {"proxy"}, guards_mode |-> "Stack",
           dsl_with_response_status |-> {}, dsl_without_response_status |-> {},
           request_timeout |-> FALSE]

Body == [readable |-> TRUE, empty |-> FALSE, json |-> "object", fields |-> NoBody,
         boundary |-> TRUE, parts |-> <<>>, subtype |-> "plain"]
Ask(method, path) ==
    [method |-> method, project |-> "p", path |-> path, upgrade |-> "none",
     origin |-> {}, referer |-> {}, if_match |-> FALSE, content_length |-> {},
     encodings |-> {"identity"}, content_type |-> "json", params |-> {}, headers |-> <<>>,
     traceparent |-> {}, peer |-> {"client"}, forwarded_for |-> {}, real_ip |-> {}, body |-> Body]

Scenario(cfg, pd, next, q) == [config |-> cfg, disk |-> pd, next |-> next, rq |-> (r1 :> q)]

-----------------------------------------------------------------------------
(* Layouts: which file, which guards. *)

Routes1 == {File("GET", <<>>, Yml("a"), Plain("a")), File("GET", <<Seg("a")>>, Yml("b"), Plain("b")),
            File("POST", <<Seg("a")>>, Yml("b"), Plain("pb"))}
Guard0 == File("GET", <<>>, FolderGuard, Plain("g0"))
GuardA == File("GET", <<>>, SiblingGuard("a"), Plain("ga"))
GuardAo == File("GET", <<>>, SiblingGuard("a"), Override("ga"))
GuardB == File("GET", <<Seg("a")>>, SiblingGuard("b"), Plain("gb"))
GuardIn == File("GET", <<Seg("a")>>, FolderGuard, Plain("gin"))
Root == [name |-> FolderGuard, dsl |-> Plain("root")]
Dir(gs, fs) == [guards |-> gs, files |-> fs]

Layouts ==
    {Dir(gs, Routes1 \cup fs) :
        gs \in {{}, {Root}},
        fs \in {{}, {Guard0, GuardA, GuardB}, {Guard0, GuardAo, GuardB}, {GuardIn},
                {GuardA, GuardIn}, {File("GET", <<Seg("a")>>, <<"b", "yaml">>, Plain("b2"))},
                {File("GET", <<Seg("a")>>, <<"notes", "txt">>, Plain("txt")),
                 File("sources", <<>>, Yml("a"), Plain("src"))}}}

Paths == {<<Seg("a")>>, <<Seg("a"), Seg("b")>>, <<Seg("a"), Seg("b"), Seg("x")>>, <<Seg("z")>>, <<>>}

LayoutScenarios ==
    {Scenario([Config EXCEPT !.guards_mode = m], pd, {}, Ask("GET", p)) :
        m \in {"Stack", "ClosestOnly"}, pd \in Layouts, p \in Paths}
    \cup {Scenario(Config, Dir({}, Routes1), {}, [Ask(me, p) EXCEPT !.project = pr]) :
            me \in {"POST", "PUT", "DELETE"}, p \in Paths, pr \in {"p", "q", ""}}

(* WebSockets: the three layouts under WS/, and a guard. *)
WsFile(dir, id) == File("WS", dir, Yml("a"), Plain(id))
WsScenarios ==
    {Scenario(Config, Dir(gs, fs \cup Routes1), {}, [Ask(me, p) EXCEPT !.upgrade = u]) :
        gs \in {{}, {Root}}, me \in {"GET", "POST"}, u \in {"ws", "malformed"}, p \in {<<>>, <<Seg("a")>>, <<Seg("a"), Seg("b")>>},
        fs \in {{WsFile(<<>>, "old")},
                {WsFile(<<>>, "old"), WsFile(<<Seg("inbound")>>, "in")},
                {WsFile(<<>>, "old"), WsFile(<<Seg("outbound")>>, "out")}}}

\* Two connections of one WebSocket route; a guard may refuse them.
Talk == [Ask("GET", <<Seg("a")>>) EXCEPT !.upgrade = "ws"]
TalkScenarios ==
    {[config |-> Config, disk |-> Dir({}, {WsFile(<<>>, "in")}), next |-> {},
      rq |-> (r1 :> Talk) @@ (r2 :> Talk)]}

Tags(v) == [op |-> "tag", entries |-> <<[key |-> "user", value |-> {"u"}], [key |-> "roles", value |-> v]>>]
Where(t, e, c) == [op |-> "where", bw |-> [tag |-> t, equals |-> e, contains |-> c]]
\* The first connection is tagged, fails and fills queues; the second sends.
MCFrames ==
    (r1 :> {Tags({"admin", "ops"}), Where("roles", {}, {{}}), [op |-> "send", to |-> {}], [op |-> "panic"]}) @@
    (r2 :> {Where("roles", {}, {{"admin"}}), [op |-> "prefix"], [op |-> "fanout", ids |-> <<r1, r2>>]})
MCMaxFrames == (r1 :> 2) @@ (r2 :> 1)

-----------------------------------------------------------------------------
(* Declarations on the DSL, and on a guard. *)

Field(f, t, req) == [field |-> f, type |-> t, required |-> req]
Contract == [Decl EXCEPT !.structured["body"] = {{Field("u", "string", TRUE), Field("n", "number", FALSE)}},
                         !.structured["params"] = {{Field("u", "none", FALSE)}},
                         !.structured["headers"] = {{Field("x-key", "none", FALSE), Field("X-Tenant", "none", FALSE)}}]
Declarations ==
    {Contract, [Contract EXCEPT !.strict = TRUE], [Contract EXCEPT !.additive = TRUE],
     [Contract EXCEPT !.one_of["headers"] = {{"x-key", "X-Tenant"}}],
     [Contract EXCEPT !.flat["body"] = {{"u", "n"}}],
     [Decl EXCEPT !.flat["headers"] = {{"x-key"}}]}

DeclScenarios ==
    {Scenario(Config, Dir({}, {File(me, <<>>, Yml("a"), Dsl("a", {d})),
                               File(me, <<>>, FolderGuard, Dsl("g", g))}), {},
              [Ask(me, <<Seg("a")>>) EXCEPT !.body.fields = b, !.params = ps, !.headers = hs]) :
        me \in {"GET", "POST", "PUT"}, d \in Declarations, g \in {{}, {Contract}},
        b \in {[x \in {"u"} |-> "string"], [x \in {"n"} |-> "integer"],
              [x \in {"u", "n", "z"} |-> IF x = "n" THEN "boolean" ELSE "null"],
              [x \in {"u", "z"} |-> IF x = "u" THEN "string" ELSE "array"]},
        ps \in {{}, {"u", "z"}},
        hs \in {<<>>, <<[name |-> "x-tenant", value |-> "1"]>>, <<[name |-> "x-key", value |-> "1"]>>}}

-----------------------------------------------------------------------------
(* Gates, bodies, addresses, internal DSLs. *)

OneFile(d) == Dir({}, {File("POST", <<>>, Yml("a"), Dsl("a", d))})
Post == Ask("POST", <<Seg("a")>>)
Part(n, f, size, ok) == [name |-> n, filename |-> f, size |-> size, ok |-> ok]

GateScenarios ==
    {Scenario([Config EXCEPT !.csrf_origins = {"site"}, !.if_match_methods = im, !.headers = {"X-Canary"}],
              OneFile({}), {},
              [Post EXCEPT !.origin = o, !.referer = rf, !.if_match = i, !.content_length = cl]) :
        im \in {{}, {"POST"}}, o \in {{}, {"site"}, {"else"}}, rf \in {{}, {"site"}, {"else"}},
        i \in BOOLEAN, cl \in {{}, {BodyLimit}, {BodyLimit + 1}}}

BodyScenarios ==
    {Scenario(Config, OneFile({}), {},
              [Post EXCEPT !.content_type = ct, !.body = b, !.peer = pe, !.forwarded_for = ff, !.real_ip = {"real"}]) :
        ct \in {"json", "form", "multipart", "text", "other"},
        b \in {[Body EXCEPT !.readable = FALSE], [Body EXCEPT !.empty = TRUE], [Body EXCEPT !.json = "other"],
              [Body EXCEPT !.json = "malformed", !.boundary = FALSE],
              [Body EXCEPT !.parts = <<Part("", "", 1, TRUE)>>], [Body EXCEPT !.parts = <<Part("n", "f", 2, TRUE)>>],
              [Body EXCEPT !.parts = <<Part("", "f", 1, TRUE), Part("m", "", 1, TRUE)>>],
              [Body EXCEPT !.parts = <<Part("n", "f", 1, FALSE)>>]},
        pe \in {{}, {"proxy"}, {"client"}}, ff \in {{}, {""}, {"junk"}, {"far"}}}

InternalScenarios ==
    {Scenario([Config EXCEPT !.default_internal = df, !.request_timeout = to,
                             !.dsl_with_response_status = ws, !.dsl_without_response_status = {204}],
              Dir({}, {File("POST", <<>>, Yml("a"), Dsl("a", d)), File("POST", <<>>, FolderGuard, Plain("g"))}),
              {OneFile(e)}, Post) :
        df \in BOOLEAN, to \in BOOLEAN, ws \in {{}, {202}},
        d \in {{}, {Decl}, {[Decl EXCEPT !.internal = {TRUE}]}, {[Decl EXCEPT !.internal = {FALSE}]}},
        e \in {{}, {[Decl EXCEPT !.internal = {TRUE}]}, {[Decl EXCEPT !.strict = TRUE]}}}

\* A reload that moves a file, its guard, or both, during a request.
ReloadScenarios ==
    {Scenario(Config, pd, {next}, Ask("GET", p)) :
        pd \in {Dir({}, Routes1), Dir({Root}, Routes1 \cup {GuardA})},
        next \in {Dir({}, Routes1 \cup {GuardIn}), Dir({}, {}), Dir({Root, [Root EXCEPT !.name = <<"", "guard">>]}, Routes1),
                 Dir({}, {File("POST", <<>>, Yml("a"), Plain("a"))})},
        p \in {<<Seg("a")>>, <<Seg("a"), Seg("b")>>}}

-----------------------------------------------------------------------------
(* Pass-through routes: two requests share one route of one slot. *)

Pass == [blank_upstream |-> FALSE, preserve_headers |-> TRUE, max_body_bytes |-> 2, max_in_flight |-> {1},
         allowed_encodings |-> {"identity"}, request_timeout_ms |-> TRUE]
PassDsl(p) == [id |-> "pass", declaration |-> {[Decl EXCEPT !.proxy = {p}]}, steps |-> FALSE, wellFormed |-> TRUE]
PassDir(p) == Dir({}, {File("POST", <<>>, Yml("a"), PassDsl(p))})
Hop == <<[name |-> "connection", value |-> {"x-key"}], [name |-> "x-key", value |-> "1"],
         [name |-> "x-tenant", value |-> "1"], [name |-> "x-tenant", value |-> "2"],
         [name |-> "content-type", value |-> "c"], [name |-> "te", value |-> "t"]>>
MCResponseHeaders == {<<[name |-> "te", value |-> "t"], [name |-> "x-tenant", value |-> "1"]>>}

PassScenarios ==
    {[config |-> [Config EXCEPT !.request_timeout = to], disk |-> PassDir(p), next |-> {},
      rq |-> (r1 :> Post) @@ (r2 :> Post)] :
        to \in BOOLEAN, p \in {Pass, [Pass EXCEPT !.request_timeout_ms = FALSE]}}
    \cup
    {Scenario(Config, Dir({Root}, PassDir(p).files), {},
              [Post EXCEPT !.headers = h, !.encodings = e, !.content_length = cl, !.traceparent = {"00-t"}]) :
        p \in {[Pass EXCEPT !.max_in_flight = {}], [Pass EXCEPT !.preserve_headers = FALSE]},
        h \in {<<>>, Hop}, e \in {{"identity"}, {"gzip"}}, cl \in {{}, {2}, {3}}}
    \cup \* the reload changes max_in_flight; a guard on the route has a declaration
    {[config |-> Config, disk |-> PassDir(Pass), next |-> {PassDir([Pass EXCEPT !.max_in_flight = {2}])},
      rq |-> (r1 :> Post)]}
    \cup
    {Scenario(Config, Dir({}, PassDir(Pass).files \cup {File("POST", <<>>, FolderGuard, Dsl("g", {Contract}))}), {}, Post)}

MCScenarios ==
    LayoutScenarios \cup WsScenarios \cup TalkScenarios \cup DeclScenarios \cup GateScenarios \cup BodyScenarios
    \cup InternalScenarios \cup ReloadScenarios \cup PassScenarios

\* Every directory that a scenario starts from loads.
ASSUME ScenariosLoad == \A s \in MCScenarios : ~ LoadFails(s.disk)
=============================================================================
