---------------------------- MODULE Declaration ----------------------------
(***************************************************************************)
(* The declaration block of a DSL: what the loader accepts (dsl/mod.rs,    *)
(* dsl/parser.rs), and what the router makes of a request by it            *)
(* (router/mod.rs).                                                        *)
(*                                                                         *)
(* An optional value is a set of at most one element.  A declaration is    *)
(*   flat[s]      : allowed_body, allowed_params, allowed_header, optional *)
(*                  sets of names;                                         *)
(*   structured[s]: allowlist.body, .params, .headers, optional sets of    *)
(*                  [field, type, required], type "none" when not given;   *)
(*   one_of[s]    : the groups of allowlist.required_one_of;               *)
(*   strict, additive, override_ancestors: booleans; internal: an optional *)
(*   boolean; proxy: an optional record with blank_upstream,               *)
(*   max_body_bytes and allowed_encodings among others.                    *)
(* A request view is [body, params, headers]: body maps names to JSON      *)
(* types, of which "integer" is a number without a fraction.               *)
(***************************************************************************)
EXTENDS Naturals, FiniteSets

CONSTANT LowerCase \* header name -> its lower-case form

Sections == {"body", "params", "headers"}

KNOWN_CONTENT_ENCODINGS == {"identity", "gzip", "deflate", "br", "zstd"}

\* The names of a section's allowlist, if it has one; the flat form wins.
effective_allowed(d, s) ==
    IF d.flat[s] # {} THEN d.flat[s]
    ELSE {{e.field : e \in entries} : entries \in d.structured[s]}

effective_internal(dsl, default_internal) ==
    IF \E d \in dsl.declaration : d.internal # {}
    THEN \E d \in dsl.declaration : TRUE \in d.internal
    ELSE default_internal

-----------------------------------------------------------------------------
(* Load-time validation *)

OneOfDeclared(d, s) ==
    \A group \in d.one_of[s] : \A name \in group :
        \E entries \in d.structured[s] : \E e \in entries :
            \/ e.field = name
            \/ s = "headers" /\ LowerCase[e.field] = LowerCase[name]

validate_posture(d) ==
    /\ ~ (d.strict /\ d.additive)
    /\ d.strict => \E s \in Sections : d.flat[s] # {} \/ d.structured[s] # {}
    /\ \A s \in Sections : OneOfDeclared(d, s)
    /\ \A p \in d.proxy :
        /\ d.structured["body"] = {} /\ d.flat["body"] = {}
        /\ ~ p.blank_upstream
        /\ p.max_body_bytes > 0
        /\ p.allowed_encodings \subseteq KNOWN_CONTENT_ENCODINGS

\* parse_content: steps tells whether the file has steps other than its
\* declaration, wellFormed whether each of them is accepted by parse_step.
parses(dsl) ==
    /\ dsl.wellFormed
    /\ \A d \in dsl.declaration :
        validate_posture(d) /\ (d.proxy # {} => ~ dsl.steps)

is_override_guard(dsl) == \E d \in dsl.declaration : d.override_ancestors

-----------------------------------------------------------------------------
(* Request-time enforcement *)

required_body_field_names(d) ==
    IF d.flat["body"] # {} THEN UNION d.flat["body"]
    ELSE {e.field : e \in {x \in UNION d.structured["body"] : x.required}}

JsonTypes == {"string", "integer", "number", "boolean", "array", "object"}

check_field_types(d, body) ==
    \A e \in UNION d.structured["body"] :
        e.field \in DOMAIN body /\ e.type \in JsonTypes =>
            \/ body[e.field] \in {"null", e.type}
            \/ e.type = "number" /\ body[e.field] = "integer"

enforce_required_one_of(d, view) ==
    /\ \A g \in d.one_of["body"]    : g \cap DOMAIN view.body # {}
    /\ \A g \in d.one_of["params"]  : g \cap view.params # {}
    /\ \A g \in d.one_of["headers"] : g \cap view.headers # {}

\* Faulty variant: names outside the allowlist are kept.
Kept_All(d, s, names, framework) == names

\* The names of a section that stay in the view.  framework holds the names
\* the router puts there itself.
Kept(d, s, names, framework) ==
    IF effective_allowed(d, s) = {} \/ d.strict \/ d.additive THEN names
    ELSE names \cap (UNION effective_allowed(d, s) \cup framework)

NoUnknown(d, s, names, framework) ==
    effective_allowed(d, s) # {} /\ d.strict =>
        names \subseteq UNION effective_allowed(d, s) \cup framework

\* The required body fields: in the body of a POST, in the query of a GET
\* that also declares its params.
RequiredPresent(d, method, bodyNames, params) ==
    effective_allowed(d, "body") # {} =>
        /\ method = "POST" => required_body_field_names(d) \subseteq bodyNames
        /\ method = "GET" /\ effective_allowed(d, "params") # {} =>
                required_body_field_names(d) \subseteq params

\* The view of the terminal DSL, {} when the request is refused with 400.
apply_declaration(d, view, method) ==
    LET bodyNames == Kept(d, "body", DOMAIN view.body, {})
        body    == [n \in bodyNames |-> view.body[n]]
        params  == Kept(d, "params", view.params, {"pathParams"})
        headers == Kept(d, "headers", view.headers, {"traceparent"})
        accepted ==
            /\ NoUnknown(d, "body", DOMAIN view.body, {})
            /\ NoUnknown(d, "params", view.params, {"pathParams"})
            /\ NoUnknown(d, "headers", view.headers, {"traceparent"})
            /\ RequiredPresent(d, method, bodyNames, params)
            /\ effective_allowed(d, "body") # {} => check_field_types(d, body)
            /\ enforce_required_one_of(d, [view EXCEPT !.body = body])
    IN  IF accepted
        THEN {[body |-> body, params |-> params, headers |-> headers]}
        ELSE {}

\* A guard's declaration checks the raw request and filters nothing.
enforce_guard_declaration(d, view, method) ==
    /\ RequiredPresent(d, method, DOMAIN view.body, view.params)
    /\ effective_allowed(d, "body") # {} => check_field_types(d, view.body)
    /\ enforce_required_one_of(d, view)
=============================================================================
