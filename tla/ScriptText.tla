----------------------------- MODULE ScriptText -----------------------------
(***************************************************************************)
(* The texts of a DSL and the scripts in them (scripting/mod.rs and        *)
(* scripting/registry.rs).  A text is a sequence of characters.  Three     *)
(* readers of a text must agree: the one that decides whether the engine   *)
(* is needed at all, the one that runs the scripts, and the one that       *)
(* collects them at boot.                                                  *)
(***************************************************************************)
EXTENDS Integers, Sequences, SequencesExt, FiniteSetsExt

Quotes == {"'", "\""}

Opens(s, i) == i < Len(s) /\ s[i] = "$" /\ s[i + 1] = "{"

\* One character of the body of a script: strings hide braces, and an escape
\* hides a quote.
Lexed(st, b) ==
    CASE st.in_str # {} /\ st.escape -> [st EXCEPT !.escape = FALSE]
      [] st.in_str # {} /\ ~st.escape /\ b = "\\" -> [st EXCEPT !.escape = TRUE]
      [] st.in_str = {b} /\ ~st.escape /\ b # "\\" -> [st EXCEPT !.in_str = {}]
      [] st.in_str = {} /\ b \in Quotes -> [st EXCEPT !.in_str = {b}]
      [] st.in_str = {} /\ b = "{" -> [st EXCEPT !.depth = @ + 1]
      [] st.in_str = {} /\ b = "}" -> [st EXCEPT !.depth = @ - 1]
      [] OTHER -> st

\* Where the script that opens at i is closed.
Ends(s, i) ==
    LET lex[j \in (i + 1)..Len(s)] ==
            IF j = i + 1 THEN [depth |-> 1, in_str |-> {}, escape |-> FALSE]
            ELSE Lexed(lex[j - 1], s[j])
    IN {j \in (i + 2)..Len(s) : lex[j].depth = 0}

\* The balanced scripts from left to right.  A script that is not closed is
\* given up, and the search goes on one character further.
find_script_segments(s) ==
    LET from[i \in 1..(Len(s) + 2)] ==
            IF i >= Len(s) THEN <<>>
            ELSE IF Opens(s, i) /\ Ends(s, i) # {}
                 THEN LET j == Min(Ends(s, i))
                      IN <<[start |-> i, end |-> j, inner |-> SubSeq(s, i + 2, j - 1)]>> \o from[j + 1]
                 ELSE from[i + 1]
    IN from[1]

\* The script of a text that is a line `$=...=` as a whole.
LineScript(s) ==
    IF Len(s) > 3 /\ s[1] = "$" /\ s[2] = "=" /\ s[Len(s)] = "="
    THEN {SubSeq(s, 3, Len(s) - 1)} ELSE {}


string_has_expressions(s) ==
    \/ \E i \in DOMAIN s : Opens(s, i)
    \/ LineScript(s) # {}

\* A text that is one script as a whole.
WholeScript(s) ==
    LET segs == find_script_segments(s)
    IN IF Len(segs) = 1 /\ segs[1].start = 1 /\ segs[1].end = Len(s) THEN {segs[1].inner}
       ELSE LineScript(s)

\* What the boot collects from a text.
scan_string(s) ==
    LET segs == find_script_segments(s)
    IN [k \in DOMAIN segs |-> segs[k].inner] \o SetToSeq(LineScript(s))

\* Builder::register: a source that was seen keeps its place.
register(sources, expr) ==
    IF \E k \in DOMAIN sources : sources[k] = expr THEN sources ELSE Append(sources, expr)

\* The registry of the texts of a tree, walked in order.
Registry(texts) == FoldLeft(register, <<>>, FlattenSeq([k \in DOMAIN texts |-> scan_string(texts[k])]))

id_for(sources, expr) == {k \in DOMAIN sources : sources[k] = expr}

=============================================================================
