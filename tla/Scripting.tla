------------------------------ MODULE Scripting ------------------------------
(***************************************************************************)
(* The script engines and the steps that are little more than scripts:     *)
(* assign, switch, log and return.  One request runs a program; a detach   *)
(* step in it starts a second one on a snapshot of its context.            *)
(*                                                                         *)
(* config.backend is the engine that was compiled in.  With "boa" every    *)
(* evaluation has a JavaScript context of its own.  With "quickjs" the     *)
(* evaluations of a request share a session: what one of them leaves in    *)
(* globalThis is there for the next.  An evaluation awaits nothing, so it  *)
(* is one step; between the evaluations of a step and of two steps the     *)
(* detached run may go on.                                                 *)
(***************************************************************************)
EXTENDS ScriptText, TLC

CONSTANTS
    Scenarios,   \* configurations with the programs to run
    Names,       \* identifiers of scripts and of variables
    Retries      \* MAX_UNDECLARED_RETRIES

VARIABLES
    config,      \* [backend, boot, main, detached]: texts at boot, programs
    registry,    \* the scripts that were collected at boot
    ctxs,        \* "main", "detached" -> the run and the context it is given
    vars,        \* variables, by the id of their Arc
    sessions,    \* OnceLock of a session, by the id of its Arc
    stored,      \* history: run -> what it was given or has itself assigned
    tainted,     \* history: sessions in which a script has assigned a global
    last         \* history: the last evaluation, if any

allVars == <<config, registry, ctxs, vars, sessions, stored, tainted, last>>

Runs == {"main", "detached"}

-----------------------------------------------------------------------------
\* Values: JavaScript's undefined and JSON's null, numbers and strings.
Undefined == <<"undefined">>
Null == <<"null">>
Str(t) == <<"str", t>>
NumberOf == ("0" :> 0) @@ ("7" :> 7) @@ ("65736" :> 65736)
Num(t) == <<"num", NumberOf[t]>>

js_value_to_json(v) == IF v = Undefined THEN Null ELSE v

\* The engine on one script, with globals g: a name, a literal, x ?? 0, a
\* member of x, x?.optional.f, an assignment to x, or x and then y.  Anything
\* else is a SyntaxError.
Value(v, g) == [v |-> {v}, err |-> {}, undeclared |-> {}, g |-> g]
Throw(kind, g) == [v |-> {}, err |-> {kind}, undeclared |-> {}, g |-> g]
Missing(x, g) == [v |-> {}, err |-> {}, undeclared |-> {x}, g |-> g]

Parses(s) ==
    \/ Len(s) = 1 /\ s[1] \in Names \cup DOMAIN NumberOf
    \/ Len(s) = 2 /\ s[1] \in Names /\ s[2] \in Names \cup {"?", ".", "optional"}
    \/ Len(s) = 3 /\ s[1] \in Names /\ s[2] = "=" /\ s[3] \in DOMAIN NumberOf

Nullish(v) == v \in {Undefined, Null}

JavaScript(g, s) ==
    CASE ~Parses(s) -> Throw("SyntaxError", g)
      [] Parses(s) /\ s[1] \in DOMAIN NumberOf -> Value(Num(s[1]), g)
      [] Parses(s) /\ Len(s) = 3 -> Value(Num(s[3]), (s[1] :> Num(s[3])) @@ g)
      [] Parses(s) /\ Len(s) < 3 /\ s[1] \in Names \ DOMAIN g -> Missing(s[1], g)
      [] Parses(s) /\ Len(s) = 1 /\ s[1] \in DOMAIN g -> Value(g[s[1]], g)
      [] Parses(s) /\ Len(s) = 2 /\ s[1] \in DOMAIN g ->
            CASE s[2] = "?" -> Value(IF Nullish(g[s[1]]) THEN Num("0") ELSE g[s[1]], g)
              [] s[2] = "." /\ Nullish(g[s[1]]) -> Throw("TypeError", g)
              [] s[2] = "." /\ ~Nullish(g[s[1]]) -> Value(Undefined, g)
              [] s[2] = "optional" -> Value(Undefined, g)
              [] s[2] \in Names \ DOMAIN g -> Missing(s[2], g)
              [] s[2] \in Names \cap DOMAIN g -> Value(g[s[2]], g)

-----------------------------------------------------------------------------
Fresh == [globals |-> <<>>, compiled |-> <<>>, flags |-> {}]

\* Faulty variant: a session that has bindings is not given them again.
setup_bindings_Once(ses, vs) ==
    IF "incoming" \in DOMAIN ses.globals THEN ses
    ELSE [ses EXCEPT !.globals = vs @@ ("incoming" :> Num("7")) @@ @]

\* incoming first, the variables over it; other globals stay as they are.
setup_bindings(ses, vs) == [ses EXCEPT !.globals = vs @@ ("incoming" :> Num("7")) @@ @]

Failed(kind) == <<"err", kind>>

\* Faulty variant: the flag goes up whether or not the definition was accepted.
Define_FlagFirst(ses, id, script) ==
    [ses EXCEPT !.flags = @ \cup {id},
                !.compiled = IF Parses(script) THEN (id :> script) @@ @ ELSE @]

\* A registered script is compiled at its first use in the session.
Define(ses, id, script) ==
    IF ~Parses(script) THEN ses
    ELSE [ses EXCEPT !.flags = @ \cup {id}, !.compiled = (id :> script) @@ @]

\* One try of a script; a name that is not there is declared for the next.
Try(source, st) ==
    LET After(r) ==
            [ses |-> [st.ses EXCEPT !.globals = [n \in r.undeclared |-> Undefined] @@ r.g],
             res |-> {<<"ok", js_value_to_json(v)>> : v \in r.v} \cup {Failed(e) : e \in r.err}]
    IN IF st.res # {} THEN st ELSE After(JavaScript(st.ses.globals, source))

\* `0..=MAX_UNDECLARED_RETRIES`
Retried(ses, source) ==
    LET Result(end) == [ses |-> end.ses,
                        res |-> IF end.res = {} THEN Failed("cap") ELSE CHOOSE r \in end.res : TRUE]
    IN Result(FoldLeft(LAMBDA st, n : Try(source, st), [ses |-> ses, res |-> {}],
                       [n \in 1..(Retries + 1) |-> n]))

\* execute_js: a registered script is called through its function.
execute_js(reg, ses, script) ==
    LET known == id_for(reg, script)
        Call(ready) ==
            IF known \subseteq DOMAIN ready.compiled
            THEN Retried(ready, IF known = {} THEN script ELSE ready.compiled[CHOOSE id \in known : TRUE])
            ELSE [ses |-> ready, res |-> Failed("SyntaxError")]
    IN Call(IF known \subseteq ses.flags THEN ses ELSE Define(ses, CHOOSE id \in known : TRUE, script))

-----------------------------------------------------------------------------
\* .optional. in a script turns an absent value into an empty string.
maybe_suppress_optional_null(v, script) ==
    IF v = Null /\ \E k \in DOMAIN script : script[k] = "optional" THEN Str(<<>>) ELSE v

Suppressed(res, script) ==
    IF res[1] = "ok" THEN <<"ok", maybe_suppress_optional_null(res[2], script)>> ELSE res

\* How a value reads inside a text: null leaves nothing behind.
Interpolated(v) ==
    CASE v = Null -> <<>>
      [] v[1] = "str" -> v[2]
      [] v[1] = "num" -> <<CHOOSE t \in DOMAIN NumberOf : NumberOf[t] = v[2]>>

\* A text that is one script keeps the type of its value.  In any other text
\* all scripts run, and the first error is the result.
evaluate_string(reg, ses, s) ==
    LET Whole(r, script) == [ses |-> r.ses, res |-> Suppressed(r.res, script)]
        Segment(st, seg, r) ==
            [ses |-> r.ses, cursor |-> seg.end + 1,
             err |-> IF st.err = {} /\ r.res[1] = "err" THEN {r.res} ELSE st.err,
             out |-> st.out \o SubSeq(s, st.cursor, seg.start - 1)
                     \o (IF r.res[1] = "ok" THEN Interpolated(r.res[2]) ELSE <<>>)]
        Joined(end) ==
            [ses |-> end.ses,
             res |-> IF end.err # {} THEN CHOOSE e \in end.err : TRUE
                     ELSE <<"ok", Str(end.out \o SubSeq(s, end.cursor, Len(s)))>>]
        RunOne(x, script) == Whole(execute_js(reg, x, script), script)
    IN IF WholeScript(s) # {} THEN RunOne(ses, CHOOSE x \in WholeScript(s) : TRUE)
       ELSE Joined(FoldLeft(LAMBDA st, seg : Segment(st, seg, RunOne(st.ses, seg.inner)),
                            [ses |-> ses, cursor |-> 1, err |-> {}, out |-> <<>>],
                            find_script_segments(s)))

\* A value is the sequence of its texts, objects and arrays being walked in
\* order; the first text that fails is the last one looked at.
evaluate_with(reg, ses, texts) ==
    LET Leaf(st, r) ==
            [ses |-> r.ses,
             res |-> IF r.res[1] = "ok" THEN <<"ok", Append(st.res[2], r.res[2])>> ELSE r.res]
    IN FoldLeft(LAMBDA st, s : IF st.res[1] = "err" THEN st
                               ELSE Leaf(st, evaluate_string(reg, st.ses, s)),
                [ses |-> ses, res |-> <<"ok", <<>>>>], texts)

has_expressions(texts) == \E k \in DOMAIN texts : string_has_expressions(texts[k])

\* evaluate_tracked.  slot is the OnceLock: a text without scripts does not
\* open a session.  Under "boa" the session ends with the evaluation.
evaluate_tracked(slot, vs, texts) ==
    LET ses == IF slot = {} THEN Fresh ELSE CHOOSE x \in slot : TRUE
        Keep(r) == [slot |-> IF config.backend = "quickjs" THEN {r.ses} ELSE {}, res |-> r.res]
    IN IF has_expressions(texts) THEN Keep(evaluate_with(registry, setup_bindings(ses, vs), texts))
       ELSE [slot |-> slot, res |-> <<"ok", [k \in DOMAIN texts |-> Str(texts[k])]>>]

-----------------------------------------------------------------------------
Running(c, kind) ==
    /\ ctxs[c].state = "running"
    /\ ctxs[c].at \in DOMAIN ctxs[c].prog
    /\ ctxs[c].prog[ctxs[c].at].kind = kind

Step(c) == ctxs[c].prog[ctxs[c].at]

ScriptsOf(s) ==
    IF WholeScript(s) # {} THEN WholeScript(s)
    ELSE LET segs == find_script_segments(s) IN {segs[k].inner : k \in DOMAIN segs}

Assigns(texts) ==
    \E k \in DOMAIN texts : \E x \in ScriptsOf(texts[k]) : Parses(x) /\ Len(x) = 3

\* An evaluation of texts by run c, and what it leaves behind.
Outcomes(c, texts) == {evaluate_tracked(sessions[ctxs[c].session], vars[ctxs[c].vars], texts)}

Evaluated(c, texts, r) ==
    /\ sessions' = [sessions EXCEPT ![ctxs[c].session] = r.slot]
    /\ last' = {[texts |-> texts, vs |-> vars[ctxs[c].vars], res |-> r.res,
                 tainted |-> ctxs[c].session \in tainted]}
    /\ tainted' = IF Assigns(texts) /\ config.backend = "quickjs"
                  THEN tainted \cup {ctxs[c].session} ELSE tainted

Ok(r) == r.res[1] = "ok"
Got(r) == r.res[2][1]

Goto(c, target) == ctxs' = [ctxs EXCEPT ![c].at = target, ![c].done = {}]
Fails(c) == ctxs' = [ctxs EXCEPT ![c].state = "failed"]

\* assign: the keys of a HashMap in any order, each stored as soon as it is
\* evaluated.
Assign(c) ==
    /\ Running(c, "assign")
    /\ \E k \in DOMAIN Step(c).sets \ ctxs[c].done : \E r \in Outcomes(c, <<Step(c).sets[k]>>) :
        /\ Evaluated(c, <<Step(c).sets[k]>>, r)
        /\ IF Ok(r)
           THEN /\ vars' = [vars EXCEPT ![ctxs[c].vars] = (k :> Got(r)) @@ @]
                /\ stored' = [stored EXCEPT ![c] = (k :> Got(r)) @@ @]
                /\ IF ctxs[c].done \cup {k} = DOMAIN Step(c).sets
                   THEN Goto(c, ctxs[c].at + 1)
                   ELSE ctxs' = [ctxs EXCEPT ![c].done = @ \cup {k}]
           ELSE Fails(c) /\ UNCHANGED <<vars, stored>>
    /\ UNCHANGED <<config, registry>>

is_truthy(v) ==
    CASE v = Null -> FALSE
      [] v[1] = "num" -> v[2] # 0
      [] v[1] = "str" -> v[2] # <<>>

\* switch: the first condition that holds decides, and the rest is not looked at.
Switch(c) ==
    /\ Running(c, "switch")
    /\ LET i == Cardinality(ctxs[c].done) + 1
           cond == Step(c).conds[i]
       IN \E r \in Outcomes(c, <<cond.text>>) :
          /\ Evaluated(c, <<cond.text>>, r)
          /\ CASE ~Ok(r) -> Fails(c)
               [] Ok(r) /\ is_truthy(Got(r)) -> Goto(c, cond.next)
               [] Ok(r) /\ ~is_truthy(Got(r)) ->
                    IF i = Len(Step(c).conds) THEN Goto(c, ctxs[c].at + 1)
                    ELSE ctxs' = [ctxs EXCEPT ![c].done = @ \cup {i}]
    /\ UNCHANGED <<config, registry, vars, stored>>

Log(c) ==
    /\ Running(c, "log")
    /\ \E r \in Outcomes(c, Step(c).texts) :
        /\ Evaluated(c, Step(c).texts, r)
        /\ IF Ok(r) THEN Goto(c, ctxs[c].at + 1) ELSE Fails(c)
    /\ UNCHANGED <<config, registry, vars, stored>>

-----------------------------------------------------------------------------

\* `as u16`; a status that is not a number is none.
status_of(v) == IF v[1] = "num" THEN {v[2] % 65536} ELSE {}

\* What remains of a return step once part has been dealt with.
Answered(c, part, answer) ==
    LET done == ctxs[c].done \cup {part}
    IN ctxs' = [ctxs EXCEPT ![c].done = done, ![c].answer = answer,
                            ![c].state = IF Cardinality(done) = 2 + Len(Step(c).headers)
                                         THEN "returned" ELSE @]

\* return: the value, the status, and then each header in order, of which one
\* that evaluates to null is left out.
ReturnValue(c) ==
    /\ Running(c, "return") /\ ctxs[c].done = {}
    /\ \E r \in Outcomes(c, Step(c).texts) :
        /\ Evaluated(c, Step(c).texts, r)
        /\ IF Ok(r) THEN Answered(c, "value", ctxs[c].answer) ELSE Fails(c)
    /\ UNCHANGED <<config, registry, vars, stored>>

ReturnStatus(c) ==
    /\ Running(c, "return") /\ ctxs[c].done = {"value"}
    /\ IF Step(c).status = <<>>
       THEN Answered(c, "status", ctxs[c].answer) /\ UNCHANGED <<sessions, last, tainted>>
       ELSE \E r \in Outcomes(c, Step(c).status) :
             /\ Evaluated(c, Step(c).status, r)
             /\ IF Ok(r)
                THEN Answered(c, "status", [ctxs[c].answer EXCEPT !.status = status_of(Got(r))])
                ELSE Fails(c)
    /\ UNCHANGED <<config, registry, vars, stored>>

ReturnHeader(c) ==
    /\ Running(c, "return") /\ {"value", "status"} \subseteq ctxs[c].done
    /\ LET h == Step(c).headers[Cardinality(ctxs[c].done) - 1]
       IN \E r \in Outcomes(c, <<h.text>>) :
          /\ Evaluated(c, <<h.text>>, r)
          /\ CASE ~Ok(r) -> Fails(c)
               [] Ok(r) /\ Got(r) = Null -> Answered(c, h.name, ctxs[c].answer)
               [] Ok(r) /\ Got(r) # Null ->
                    Answered(c, h.name, [ctxs[c].answer EXCEPT !.headers = (h.name :> Interpolated(Got(r))) @@ @])
    /\ UNCHANGED <<config, registry, vars, stored>>

-----------------------------------------------------------------------------
Context(prog, arc) ==
    [prog |-> prog, at |-> 1, done |-> {}, state |-> "running", vars |-> arc, session |-> arc,
     answer |-> [status |-> {}, headers |-> <<>>]]

\* Faulty variant: a clone, which shares the Arcs.
snapshot_Clone(c, prog) == Context(prog, ctxs[c].vars)

\* ExecutionContext::snapshot: Arcs of its own, the variables copied.
snapshot(c, prog) == Context(prog, "detached")

Detach(c) ==
    /\ Running(c, "detach")
    /\ ctxs' = [ctxs EXCEPT !["detached"] = snapshot(c, config.detached), ![c].at = @ + 1]
    /\ vars' = [vars EXCEPT !["detached"] = vars[ctxs[c].vars]]
    /\ stored' = [stored EXCEPT !["detached"] = vars[ctxs[c].vars]]
    /\ UNCHANGED <<config, registry, sessions, tainted, last>>

Init ==
    /\ config \in Scenarios
    /\ registry = IF config.backend = "quickjs" THEN Registry(config.boot) ELSE <<>>
    /\ ctxs = [c \in Runs |-> [Context(IF c = "main" THEN config.main ELSE <<>>, c)
                               EXCEPT !.state = IF c = "main" THEN "running" ELSE "none"]]
    /\ vars = [c \in Runs |-> <<>>]
    /\ sessions = [c \in Runs |-> {}]
    /\ stored = [c \in Runs |-> <<>>]
    /\ tainted = {}
    /\ last = {}

Next ==
    \E c \in Runs :
        \/ Assign(c) \/ Switch(c) \/ Log(c)
        \/ ReturnValue(c) \/ ReturnStatus(c) \/ ReturnHeader(c)
        \/ Detach(c)

Spec == Init /\ [][Next]_allVars

-----------------------------------------------------------------------------
Values == {Null} \cup {Num(t) : t \in DOMAIN NumberOf} \cup {<<"undefined">>}

IsValue(v) == v \in Values \/ (v[1] = "str" /\ Len(v) = 2)

\* Variables hold JSON values, sessions hold JavaScript values, a status fits
\* in sixteen bits.
TypeOK ==
    /\ \A c \in Runs :
        /\ ctxs[c].state \in {"none", "running", "failed", "returned"}
        /\ ctxs[c].vars \in Runs /\ ctxs[c].session \in Runs
        /\ ctxs[c].answer.status \subseteq 0..65535
        /\ DOMAIN vars[c] \subseteq Names
        /\ \A n \in DOMAIN vars[c] : IsValue(vars[c][n]) /\ vars[c][n] # Undefined
        /\ \A ses \in sessions[c] : \A n \in DOMAIN ses.globals : IsValue(ses.globals[n])
        /\ Cardinality(sessions[c]) <= 1
    /\ tainted \subseteq Runs

\* The names of a script that are neither variables nor incoming.
Unbound(vs, script) ==
    {n \in Names : \E k \in DOMAIN script : script[k] = n} \ (DOMAIN vs \cup {"incoming"})

\* The reference: every name is there from the start, and nothing is compiled.
Reference(vs, texts) ==
    LET all == vs @@ ("incoming" :> Num("7")) @@ [n \in Names |-> Undefined]
    IN evaluate_with(<<>>, [Fresh EXCEPT !.globals = all], texts).res

\* Whatever was evaluated before in the request, and whether or not a script
\* was registered at boot, an evaluation gives what it gives in an engine that
\* knows the variables of its context and nothing else: a name that is not a
\* variable is undefined (and not an error), a real error is not hidden.  So
\* the session of the QuickJS engine cannot be told from the fresh contexts of
\* the Boa engine, unless a script has itself assigned to a global.  (A script
\* may use no more undeclared names than there are retries.)
EvaluatesAsFresh ==
    \A e \in last :
        /\ ~e.tainted
        /\ \A k \in DOMAIN e.texts : \A x \in ScriptsOf(e.texts[k]) :
              Cardinality(Unbound(e.vs, x)) <= Retries
        => e.res = Reference(e.vs, e.texts)

\* What a run finds in its variables is what it was given and what it has
\* assigned itself: a detached block and the run that started it never write
\* into each other's context.
DetachedIsIsolated == \A c \in Runs : ctxs[c].state # "none" => vars[ctxs[c].vars] = stored[c]

\* A script that the session marks as compiled is there, and is the script that
\* has this id.
FlaggedIsCompiled ==
    \A c \in Runs : \A ses \in sessions[c] :
        \A id \in ses.flags : id \in DOMAIN ses.compiled /\ ses.compiled[id] = registry[id]

\* The session is a cache that a request cannot notice: what it has compiled
\* is what was registered, and every evaluation is that of a fresh engine.
SessionUnnoticed == TypeOK /\ FlaggedIsCompiled /\ EvaluatesAsFresh

Texts(prog) ==
    UNION {CASE prog[k].kind \in {"log", "return"} -> {prog[k].texts[i] : i \in DOMAIN prog[k].texts}
             [] prog[k].kind = "assign" -> {prog[k].sets[n] : n \in DOMAIN prog[k].sets}
             [] prog[k].kind = "switch" -> {prog[k].conds[i].text : i \in DOMAIN prog[k].conds}
             [] prog[k].kind = "detach" -> {} : k \in DOMAIN prog}


=============================================================================
