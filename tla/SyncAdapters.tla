---------------------------- MODULE SyncAdapters ----------------------------
(***************************************************************************)
(* What the four agent adapters of crates/sync (Claude, Codex, Copilot,    *)
(* Cursor) do with the items a sync hands them: which file an item goes    *)
(* to, how its text is transformed, and which kinds share one document.    *)
(* An item is one command, skill, MCP server, model preference, agent,     *)
(* hook or instruction of the source; a text is opaque.  SKILL.md and the  *)
(* files next to it are the main and the side text of a skill.             *)
(***************************************************************************)
EXTENDS Naturals, FiniteSets

CONSTANTS
    Items,        \* everything source or target may hold
    Names,        \* names of items, and the file stems made of them
    Plugins,      \* plugin names
    Texts,        \* contents of a file
    NoPlugin, Absent, Torn,
    KindOf, NameOf, PluginOf,   \* attributes of an item
    RankOf,       \* position in the source's listing; skills: newest first
    Stem,         \* sanitize_name of each target
    AgentStem,    \* Codex: the skill directory of an agent
    SafePlugin,   \* sanitize_name of a plugin
    Render,       \* the text a target stores for a text of the source
    CursorEvents, \* hooks that have a Cursor event
    ClaudeDoc     \* the name under which CLAUDE.md is read back

Kinds == {"command", "skill", "mcp", "prefs", "agent", "hook", "instruction"}
Targets == {"claude", "codex", "copilot", "cursor"}

ASSUME AttributesAssumption ==
    /\ KindOf \in [Items -> Kinds]
    /\ NameOf \in [Items -> Names]
    /\ PluginOf \in [Items -> Plugins \cup {NoPlugin}]
    /\ RankOf \in [Items -> Nat]

ASSUME RenderingAssumption ==
    /\ Stem \in [Targets -> [Names -> Names]]
    /\ AgentStem \in [Names -> Names]
    /\ SafePlugin \in [Plugins -> Plugins]
    /\ Render \in [Targets -> [Kinds -> [Texts -> Texts]]]

ASSUME MarkersAssumption ==
    /\ Absent \notin Texts
    /\ Torn \notin Texts
    /\ Absent # Torn
    /\ NoPlugin \notin Plugins
    /\ Plugins \cap Kinds = {}

\* An item as the source holds it, and a file (or skill directory) as the
\* target holds it.  A process killed inside fs::write leaves a torn text.
Entry == [main : Texts \cup {Absent}, side : Texts \cup {Absent}]
File == [main : Texts \cup {Absent, Torn}, side : Texts \cup {Absent, Torn}]
Nothing == [main |-> Absent, side |-> Absent]

-----------------------------------------------------------------------------
(* The adapters.  files: kinds written as one file or directory per item;   *)
(* document: kinds written into one document shared by all items.  A kind   *)
(* in neither is accepted and dropped.                                      *)

ClaudeAdapter == [files |-> {"command", "skill", "agent", "hook"},
                  document |-> {"mcp", "prefs", "instruction"}]
CodexAdapter == [files |-> {"command", "skill", "agent"},
                 document |-> {"mcp", "prefs"}]
CopilotAdapter == [files |-> {"command", "skill", "agent", "instruction"},
                   document |-> {"mcp", "prefs"}]
CursorAdapter == [files |-> {"command", "skill", "agent", "instruction"},
                  document |-> {"mcp", "hook"}]

AdapterOf(t) ==
    CASE t = "claude" -> ClaudeAdapter
      [] t = "codex" -> CodexAdapter
      [] t = "copilot" -> CopilotAdapter
      [] t = "cursor" -> CursorAdapter

-----------------------------------------------------------------------------
(* Files *)

\* Cursor keeps the skills of a plugin under plugins/local/<plugin>, by the
\* name of the plugin as it is; Codex keeps agents among the skills.
InPlugin(t, i) == t = "cursor" /\ KindOf[i] = "skill" /\ PluginOf[i] # NoPlugin
AsSkill(t, i) == t = "codex" /\ KindOf[i] = "agent"

PathOf(t, i) ==
    IF InPlugin(t, i) THEN <<PluginOf[i], Stem[t][NameOf[i]]>>
    ELSE IF AsSkill(t, i) THEN <<"skill", AgentStem[NameOf[i]]>>
    ELSE <<KindOf[i], Stem[t][NameOf[i]]>>

Paths == {PathOf(t, i) : t \in Targets, i \in Items}

\* Mutant: a file that does not parse is passed over.
NamesReadable(files, k) ==
    {p[2] : p \in {q \in Paths : q[1] = k /\ files[q].main \notin {Absent, Torn}}}

\* The names a target reads back from its own files.
NamesRead(files, k) == {p[2] : p \in {q \in Paths : q[1] = k /\ files[q].main # Absent}}

\* Unchanged: the hash of the file equals that of the text to be written.
Same(t, file, i, entry) == file.main = Render[t][KindOf[i]][entry.main]

\* Mutant: Cursor goes on to the next skill as well.
WritesSideNew(t, file, i, entry) == entry.side # Absent /\ ~Same(t, file, i, entry)

\* The files next to SKILL.md are written after it.  Claude, Codex and
\* Copilot go on to the next skill when SKILL.md is unchanged; Cursor
\* writes them in any case.
WritesSide(t, file, i, entry) ==
    /\ entry.side # Absent
    /\ t = "cursor" \/ ~Same(t, file, i, entry)

-----------------------------------------------------------------------------
(* Documents *)

\* Claude and Codex keep servers and model in one settings.json.
DocumentOf(t, k) == IF k = "prefs" /\ t \in {"claude", "codex"} THEN "mcp" ELSE k

\* These are read and parsed before they are written; an unreadable one is
\* an error.  Cursor writes mcp.json afresh and starts hooks.json afresh
\* when it does not parse; CLAUDE.md is not parsed.
MustParse(t, k) == k \in {"mcp", "prefs"} /\ t # "cursor"

\* The document after the items in new, with the texts in read, are written
\* to it.  The servers of the target go, also when the source has none;
\* Cursor leaves mcp.json, and Claude CLAUDE.md, when there is nothing to
\* write; preferences set the model only; hooks are merged by event.
KeepsAll(t, k, new) ==
    new = {} /\ (k \in {"prefs", "hook", "instruction"} \/ t = "cursor")
Merges(k, damaged) == k \in {"prefs", "hook"} /\ ~damaged

Documented(t, k, damaged, old, new, read) ==
    IF KeepsAll(t, k, new) THEN old
    ELSE [i \in Items |->
            IF i \in new THEN Render[t][k][read[i].main]
            ELSE IF KindOf[i] # k \/ Merges(k, damaged) THEN old[i]
            ELSE Absent]
=============================================================================
