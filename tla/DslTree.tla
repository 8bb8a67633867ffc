------------------------------ MODULE DslTree ------------------------------
(***************************************************************************)
(* How a project directory becomes the trees of routes and guards          *)
(* (dsl/loader.rs), and the lookups in them: the route of a path           *)
(* (router/mod.rs) and the guards of a route (dsl/guard_audit.rs).         *)
(*                                                                         *)
(* A file name is the sequence of its dot-separated parts (".guard.yml" is *)
(* <<"", "guard", "yml">>), a path segment likewise, a key a sequence of   *)
(* segments of which the first is the method.  A project directory is      *)
(*   guards: its files named like a guard, [name, dsl];                    *)
(*   files : the files below it, [top, dir, name, dsl], where top is the   *)
(*           directory below the project and dir the path from there.      *)
(* A dsl is a record with the fields declaration (optional), steps and     *)
(* wellFormed of module Declaration.                                       *)
(***************************************************************************)
EXTENDS Declaration, Sequences, SequencesExt

CONSTANT ProcessedFiletypes \* config dsl.processed_filetypes

RESERVED_SUBDIRS == {"triggers", "sources", "cronmanager-jobs"}

PROJECT_GUARD_KEY == <<<<"*">>>>

Method(m) == <<m>>

-----------------------------------------------------------------------------
(* File names *)

is_in_folder_guard(name) ==
    name \in {<<"", "guard">>, <<"", "guard", "yml">>, <<"", "guard", "yaml">>}

\* A lone leading dot starts no extension.
HasExtension(name) == Len(name) > 1 /\ (Len(name) > 2 \/ name[1] # "")

is_processable_file(name) ==
    \/ is_in_folder_guard(name)
    \/ HasExtension(name) /\ Last(name) \in ProcessedFiletypes

\* The name contains ".guard.": the part "guard" between two dots.
is_guard_file(name) ==
    \/ is_in_folder_guard(name)
    \/ \E i \in 2..(Len(name) - 1) : name[i] = "guard"

build_dsl_key(f) == <<Method(f.top)>> \o f.dir \o <<Front(f.name)>>

\* Faulty variant: the guard in a folder is keyed like a sibling file.
build_guard_key_Sibling(f) ==
    <<Method(f.top)>> \o f.dir \o <<SubSeq(f.name, 1, Len(f.name) - 2)>>

\* The sibling form drops the last two parts of the name, whatever they are.
build_guard_key(f) ==
    <<Method(f.top)>> \o f.dir \o
    (IF is_in_folder_guard(f.name)
     THEN <<>>
     ELSE <<SubSeq(f.name, 1, Len(f.name) - 2)>>)

-----------------------------------------------------------------------------
(* Loading *)

\* WS/inbound/ alone if it exists; nothing if there is only WS/outbound/;
\* otherwise the files under WS/.
WsFiles(pd) ==
    LET ws == {f \in pd.files : f.top = "WS"}
        Under(d) == {f \in ws : f.dir # <<>> /\ f.dir[1] = <<d>>}
    IN  IF Under("inbound") # {}
        THEN {[f EXCEPT !.dir = Tail(@)] : f \in Under("inbound")}
        ELSE IF Under("outbound") # {} THEN {} ELSE ws

ScannedFiles(pd) ==
    {f \in {g \in pd.files : g.top \notin RESERVED_SUBDIRS \cup {"WS"}} \cup WsFiles(pd) :
        is_processable_file(f.name)}

\* triggers/<channel>/<key>.yml
TriggerFiles(pd) ==
    {f \in pd.files : /\ f.top = "triggers"
                      /\ Len(f.dir) = 1
                      /\ is_processable_file(f.name)
                      /\ ~ is_guard_file(f.name)}

ProjectGuards(pd) == {g \in pd.guards : is_in_folder_guard(g.name)}

\* One file that does not parse, or a second project guard, fails the load.
LoadFails(pd) ==
    \/ Cardinality(ProjectGuards(pd)) > 1
    \/ \E f \in ScannedFiles(pd) \cup TriggerFiles(pd) \cup ProjectGuards(pd) :
            ~ parses(f.dsl)

\* The maps a scan may build: of the files with one key, the last to be
\* inserted stays, and the file system decides which that is.
MapsOf(entries) ==
    {m \in [{e.key : e \in entries} -> {e.dsl : e \in entries}] :
        \A k \in DOMAIN m : [key |-> k, dsl |-> m[k]] \in entries}

load_project(pd) ==
    LET scanned == ScannedFiles(pd)
        guardFiles == {f \in scanned : is_guard_file(f.name)}
        rootKeys == IF ProjectGuards(pd) = {} THEN {} ELSE {PROJECT_GUARD_KEY}
        root == [k \in rootKeys |-> (CHOOSE g \in ProjectGuards(pd) : TRUE).dsl]
        WithRoot(m) == [k \in DOMAIN m \cup rootKeys |->
                            IF k \in rootKeys THEN root[k] ELSE m[k]]
        routes == {[key |-> build_dsl_key(f), dsl |-> f.dsl] : f \in scanned \ guardFiles}
        scoped == {[key |-> build_guard_key(f), dsl |-> f.dsl] : f \in guardFiles}
    IN  [http   |-> MapsOf(routes),
         guards |-> {WithRoot(m) : m \in MapsOf(scoped)}]

-----------------------------------------------------------------------------
(* Lookups.  http and guards map keys to DSLs; mode is config guards.mode,  *)
(* "Stack" or "ClosestOnly".                                              *)

\* Lengths of the leading parts of the path that name a route.
MatchLengths(http, method, path) ==
    {n \in 1..Len(path) : <<Method(method)>> \o SubSeq(path, 1, n) \in DOMAIN http}

\* The route of a path, as a set of at most one [key, params]: trailing
\* segments are stripped until a key is found and become pathParams.
resolve_dsl_with_path_params(http, method, path) ==
    LET ns == MatchLengths(http, method, path)
        n  == CHOOSE i \in ns : \A j \in ns : i >= j
    IN  IF ns = {} THEN {}
        ELSE {[key |-> <<Method(method)>> \o SubSeq(path, 1, n),
               params |-> SubSeq(path, n + 1, Len(path))]}

\* Faulty variant: only a route of the whole path counts.
methods_allowed_Exact(http, path) ==
    {m \in {Head(k)[1] : k \in DOMAIN http} : <<Method(m)>> \o path \in DOMAIN http}

methods_allowed_for_path(http, path) ==
    {m \in {Head(k)[1] : k \in DOMAIN http} : MatchLengths(http, m, path) # {}}

\* Guards whose key is the route's key or a leading part of it, outermost
\* first.
MatchingGuards(guards, key) ==
    SelectSeq([n \in 1..Len(key) |-> SubSeq(key, 1, n)],
              LAMBDA k : k \in DOMAIN guards)

guard_keys_for_dsl(guards, key, mode) ==
    LET matches   == MatchingGuards(guards, key)
        overrides == SelectSeq(matches, LAMBDA k : is_override_guard(guards[k]))
        project   == SelectSeq(<<PROJECT_GUARD_KEY>>, LAMBDA k : k \in DOMAIN guards)
    IN  CASE overrides # <<>> -> <<Last(overrides)>>
          [] overrides = <<>> /\ mode = "ClosestOnly" /\ matches # <<>> ->
                project \o <<Last(matches)>>
          [] OTHER -> project \o matches

applicable_guards(guards, key, mode) ==
    LET keys == guard_keys_for_dsl(guards, key, mode)
    IN  [i \in DOMAIN keys |-> [key |-> keys[i], dsl |-> guards[keys[i]]]]

AuditedMethods == {"GET", "POST", "PUT", "PATCH", "DELETE", "OPTIONS", "HEAD", "WS"}

\* Faulty variant: the report leaves out the WebSocket routes.
audit_all_routes_HttpOnly(http, guards, mode) ==
    {[key |-> k, guards |-> guard_keys_for_dsl(guards, k, mode)] :
        k \in {j \in DOMAIN http : Head(j)[1] \in AuditedMethods \ {"WS"}}}

\* The report of dsl-lint --require-guard and of GET /_/unguarded.
audit_all_routes(http, guards, mode) ==
    {[key |-> k, guards |-> guard_keys_for_dsl(guards, k, mode)] :
        k \in {j \in DOMAIN http : Head(j)[1] \in AuditedMethods}}

\* GET /_/unguarded: a row per route, with what the internal gate makes of it.
handle_unguarded(http, guards, mode, default_internal) ==
    {[key |-> row.key, guards |-> row.guards,
      internal |-> effective_internal(http[row.key], default_internal)] :
        row \in audit_all_routes(http, guards, mode)}
=============================================================================
