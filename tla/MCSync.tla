------------------------------- MODULE MCSync -------------------------------
(***************************************************************************)
(* SyncOrchestrator on a small instance.                                   *)
(***************************************************************************)
EXTENDS SyncOrchestrator, TLC

CONSTANTS text1, text2, plugin, plugin2

\* Kind, name and plugin of every item.  "f.oo" loses its dot and meets
\* "foo"; the agent foo meets the skill agent-foo on Codex; of the two
\* skills foo the one of the plugin is newer; the name of the other
\* plugin loses a character and becomes that of the first.
Table ==
    [c1 |-> <<"command", "foo", NoPlugin>>,
     c2 |-> <<"command", "f.oo", NoPlugin>>,
     s1 |-> <<"skill", "foo", plugin>>,
     s2 |-> <<"skill", "foo", NoPlugin>>,
     s3 |-> <<"skill", "agent-foo", plugin2>>,
     a1 |-> <<"agent", "foo", NoPlugin>>,
     m1 |-> <<"mcp", "foo", NoPlugin>>,
     p1 |-> <<"prefs", "foo", NoPlugin>>,
     h1 |-> <<"hook", "foo", NoPlugin>>,
     n1 |-> <<"instruction", "foo", NoPlugin>>]

MCItems == DOMAIN Table
MCKindOf == [i \in MCItems |-> Table[i][1]]
MCNameOf == [i \in MCItems |-> Table[i][2]]
MCPluginOf == [i \in MCItems |-> Table[i][3]]
MCRankOf == [i \in MCItems |-> IF i = "s2" THEN 2 ELSE 1]
MCNames == {"foo", "f.oo", "agent-foo"}
MCStem == [t \in Targets |-> [n \in MCNames |-> IF n = "f.oo" THEN "foo" ELSE n]]
MCAgentStem == [n \in MCNames |-> "agent-foo"]
MCSafePlugin == [p \in {plugin, plugin2} |-> plugin]

\* Cursor strips frontmatter: the two texts of a command differ only there.
MCRender == [t \in Targets |-> [k \in Kinds |-> [x \in {text1, text2} |->
                IF t = "cursor" /\ k = "command" THEN text1 ELSE x]]]

Everything(side) ==
    [i \in MCItems |-> [main |-> text1,
                        side |-> IF MCKindOf[i] = "skill" THEN side ELSE Absent]]
MCSources == {Everything(text1)}

Call(kinds, skip, exclude, mirror) ==
    [kinds |-> kinds, skip |-> skip, force |-> FALSE, exclude |-> exclude, mirror |-> mirror]

MCParamSets ==
    {Call({"command", "skill", "agent", "asset"}, {}, {}, FALSE),
     Call({"command", "skill"}, {"command"}, {plugin}, TRUE),
     Call({"mcp", "prefs", "hook", "instruction"}, {"instruction"}, {}, FALSE)}
=============================================================================
