---------------------------- MODULE MCScripting ----------------------------
(***************************************************************************)
(* Small instances of Scripting: short programs over scripts of every      *)
(* kind, with either engine, registered at boot or not; and single log     *)
(* steps over all short texts of the characters that delimit a script.     *)
(***************************************************************************)
EXTENDS Scripting

MCNames == {"x", "y", "incoming"}

Script(body) == <<"$", "{">> \o body \o <<"}">>

Member == Script(<<"x", ".">>)

MCAssignX == [kind |-> "assign", sets |-> ("x" :> Script(<<"y">>)) @@ ("y" :> Script(<<"7">>))]
MCAssignY == [kind |-> "assign", sets |-> "y" :> Script(<<"x", "?">>)]
MCAssignBad == [kind |-> "assign", sets |-> ("x" :> Script(<<"incoming">>)) @@ ("y" :> Member)]
MCSwitch ==
    [kind |-> "switch",
     conds |-> <<[text |-> Script(<<"x">>), next |-> 3], [text |-> Script(<<"y", "?">>), next |-> 4]>>]
MCSwitchBad == [kind |-> "switch", conds |-> <<[text |-> Member, next |-> 1]>>]
MCLogBoth == [kind |-> "log", texts |-> <<Script(<<"x", "y">>)>>]
MCLogText ==
    [kind |-> "log",
     texts |-> <<<<"a">> \o Script(<<"x">>) \o Script(<<"x", "optional">>), <<"$", "=", "y", "=">>>>]
MCLogBroken == [kind |-> "log", texts |-> <<Script(<<"?">>)>>]
MCLogMember == [kind |-> "log", texts |-> <<Member>>]
MCTaint == [kind |-> "log", texts |-> <<Script(<<"x", "=", "7">>)>>]
MCReturn ==
    [kind |-> "return", texts |-> <<Script(<<"y">>)>>, status |-> <<Script(<<"65736">>)>>,
     headers |-> <<[name |-> "etag", text |-> Script(<<"x">>)], [name |-> "vary", text |-> Script(<<"y", "?">>)]>>]
MCReturnBad ==
    [kind |-> "return", texts |-> <<<<"a">>>>, status |-> <<>>,
     headers |-> <<[name |-> "etag", text |-> Member]>>]
MCReturnStatus ==
    [kind |-> "return", texts |-> <<<<"a">>>>, status |-> <<Member>>, headers |-> <<>>]
MCReturnBroken ==
    [kind |-> "return", texts |-> <<Member>>, status |-> <<>>, headers |-> <<>>]
MCDetach == [kind |-> "detach"]

Before == {MCAssignX, MCAssignY, MCAssignBad, MCLogBoth, MCLogText, MCTaint, MCSwitch}
Between == {MCAssignX, MCAssignY, MCDetach, MCLogBroken, MCSwitch, MCSwitchBad}
After == {MCAssignX, MCLogBoth, MCLogMember, MCReturn, MCReturnBad,
          MCReturnStatus, MCReturnBroken, MCLogText}

Detached == <<MCAssignY, MCAssignX>>

\* The texts of all programs, in some order.
BootTexts ==
    FoldSet(LAMBDA text, seq : Append(seq, text), <<>>,
            UNION {Texts(<<step>>) : step \in Before \cup Between \cup After})

MCPrograms ==
    {[backend |-> e, boot |-> t, main |-> <<a, b, c, d>>, detached |-> Detached] :
        e \in {"boa", "quickjs"}, t \in {<<>>, BootTexts},
        a \in Before, b \in Between, c \in After, d \in {MCReturn, MCLogMember}}

\* The texts that the three readers are compared on.
UpTo(chars, n) == UNION {[1..k -> chars] : k \in 1..n}

MCTexts ==
    UpTo({"$", "{", "}", "x"}, 6) \cup UpTo({"$", "=", "x"}, 6)
    \cup UpTo({"$", "{", "}", "=", "x"}, 5)
    \cup {<<"$", "{">> \o t : t \in UpTo({"}", "{", "'", "\"", "\\", "x"}, 4)}

MCReaders ==
    {[backend |-> "quickjs", boot |-> <<s>>, main |-> <<[kind |-> "log", texts |-> <<s>>]>>,
      detached |-> <<>>] : s \in MCTexts}

MCScenarios == MCPrograms \cup MCReaders

=============================================================================
