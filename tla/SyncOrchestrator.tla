-------------------------- MODULE SyncOrchestrator --------------------------
(***************************************************************************)
(* SyncOrchestrator::sync: eight phases in a fixed order, each of which    *)
(* reads one kind from the source, filters it, and hands it to the target  *)
(* adapter, which writes it item by item.  The first error ends the sync;  *)
(* what was written stays, and nothing but the two directories survives,   *)
(* so a sync that was cut short is repeated from the start.  Meanwhile the *)
(* user, the agent CLIs and other syncs edit both directories.             *)
(***************************************************************************)
EXTENDS SyncAdapters, Sequences

CONSTANTS
    ParamSets,    \* the calls to consider (SyncParams)
    InitialSources, InitialRich,
    MaxSyncs, MaxEdits, MaxFaults

Phases == <<"command", "skill", "mcp", "prefs", "agent", "hook", "instruction", "asset">>

\* kinds: the sync_* flags; skip: the skip_existing_* flags; mirror:
\* full_plugin_mirror.
SyncParams ==
    [kinds : SUBSET (Kinds \cup {"asset"}), skip : SUBSET {"command", "instruction"},
     force : BOOLEAN, exclude : SUBSET Plugins, mirror : BOOLEAN]

ASSUME ParamsAssumption ==
    /\ ParamSets \subseteq SyncParams
    /\ InitialSources \subseteq [Items -> Entry]
    /\ \A s \in InitialSources, i \in Items : s[i].side # Absent => KindOf[i] = "skill"
    /\ InitialRich \subseteq SUBSET Plugins
ASSUME BoundsAssumption == MaxSyncs \in Nat /\ MaxEdits \in Nat /\ MaxFaults \in Nat

VARIABLES
    target,    \* the target adapter
    source,    \* [Items -> Entry]
    rich,      \* plugins of the source with scripts or other assets
    disk,      \* [Paths -> File], the target's files
    shared,    \* [Items -> text], the items in the target's documents
    damaged,   \* documents left torn
    flag,      \* Codex: the skills feature flag in config.toml
    manifest,  \* Cursor: plugins/local directories with a plugin.json
    params,    \* of the last sync
    phase,     \* index into Phases; 0: no sync is running
    stage,     \* "read" or "write"
    batch,     \* items of the phase still to be written
    read,      \* their texts
    half,      \* skills whose SKILL.md is written and whose side files are not
    result,    \* of the last sync
    used,      \* how often each bounded thing has happened
    touched,   \* history: someone else wrote since the sync started
    again,     \* history: this sync repeats an undisturbed successful one
    current    \* history: skills whose SKILL.md was current at the start

sides == <<source, rich>>
files == <<disk, shared, damaged, flag, manifest>>
run == <<params, phase, stage, batch, read, half, result>>
history == <<touched, again, current>>
vars == <<target, sides, files, run, used, history>>

NoEntries == [i \in Items |-> Nothing]
NoUse == [syncs |-> 0, edits |-> 0, faults |-> 0]

-----------------------------------------------------------------------------
(* Selecting what to write *)

Listed(k) == {i \in Items : KindOf[i] = k /\ source[i].main # Absent}

Excluded(i) == PluginOf[i] \in params.exclude

\* Of items with one name the first listed is kept; Claude lists only the
\* newest skill of a name, before any plugin is excluded.
FirstOfEachName(S) ==
    {i \in S : \A j \in S : NameOf[j] = NameOf[i] => RankOf[i] <= RankOf[j]}

Selected(k) ==
    IF k = "skill" THEN {i \in FirstOfEachName(Listed(k)) : ~Excluded(i)}
    ELSE IF k = "command" THEN FirstOfEachName({i \in Listed(k) : ~Excluded(i)})
    ELSE IF k = "agent" THEN {i \in Listed(k) : ~Excluded(i)}
    ELSE IF k = "hook" /\ target = "cursor" THEN {i \in Listed(k) : NameOf[i] \in CursorEvents}
    ELSE Listed(k)

\* skip_existing: names the target reads back are left alone.  CLAUDE.md is
\* read back under a name of its own.
Existing(k) ==
    IF k = "instruction" /\ target = "claude"
    THEN IF \E i \in Items : KindOf[i] = k /\ shared[i] # Absent THEN {ClaudeDoc} ELSE {}
    ELSE NamesRead(disk, k)

Protected(k) == ~params.force /\ k \in params.skip

\* Mutant: what is there is always skipped.
ToWriteNew(k) == {i \in Selected(k) : NameOf[i] \notin Existing(k)}

ToWrite(k) ==
    IF Protected(k) THEN {i \in Selected(k) : NameOf[i] \notin Existing(k)} ELSE Selected(k)

\* Plugins the source yields assets for: those with supplementary files, and
\* in a full mirror every installed one, with its manifest.
Installed == {p \in Plugins : p \in rich
                                \/ \E i \in Items : PluginOf[i] = p /\ source[i].main # Absent}
Assets == (IF params.mirror THEN Installed ELSE rich) \ params.exclude

-----------------------------------------------------------------------------
(* The sync *)

Writes(k) == k \in AdapterOf(target).files
Shares(k) == k \in AdapterOf(target).document

\* Mutant: the phase after n, wanted or not.
FollowingAny(n, prm) == n + 1

\* The next phase after n whose flag is set; 0 when there is none.
Following(n, prm) ==
    LET later == {m \in n + 1 .. Len(Phases) : Phases[m] \in prm.kinds}
    IN IF later = {} THEN 0 ELSE CHOOSE m \in later : \A l \in later : m <= l

Running == phase # 0
At(k) == Running /\ Phases[phase] = k

\* The phase is over: the next one, or the end of the sync.
Advance ==
    /\ phase' = Following(phase, params)
    /\ stage' = "read"
    /\ batch' = {} /\ read' = NoEntries /\ half' = {}
    /\ result' = IF phase' = 0 THEN "ok" ELSE "running"
    /\ UNCHANGED <<params, target, sides, history>>

\* `?`: the error ends the sync, and the report is lost.
Abort ==
    /\ phase' = 0
    /\ stage' = "read"
    /\ batch' = {} /\ read' = NoEntries /\ half' = {}
    /\ result' = "failed"
    /\ UNCHANGED <<params, target, sides, history>>

Start(p) ==
    /\ ~Running /\ used.syncs < MaxSyncs
    /\ params' = p
    /\ phase' = Following(0, p)
    /\ result' = IF phase' = 0 THEN "ok" ELSE "running"
    /\ touched' = FALSE
    /\ again' = (result = "ok" /\ ~touched /\ p = params)
    /\ current' = {i \in Listed("skill") : Same(target, disk[PathOf(target, i)], i, source[i])}
    /\ used' = [used EXCEPT !.syncs = @ + 1]
    /\ UNCHANGED <<target, sides, files, stage, batch, read, half>>

\* Reads the source and, for skip_existing, the target.  A kind the adapter
\* has no place for is dropped by its write method.
ReadPhase(k) ==
    /\ At(k) /\ stage = "read"
    /\ IF Writes(k) \/ Shares(k)
       THEN /\ stage' = "write"
            /\ batch' = ToWrite(k)
            /\ read' = [i \in Items |-> IF i \in batch' THEN source[i] ELSE Nothing]
            /\ UNCHANGED <<target, sides, params, phase, half, result, history>>
       ELSE Advance
    /\ UNCHANGED <<files, used>>

\* One item, in any order: the listing is that of a directory walk.  A file
\* that holds the text already is left alone.  The first
\* skill of a plugin brings its manifest, under the sanitised name.
WriteItem(k, i) ==
    LET p == PathOf(target, i)
    IN  /\ At(k) /\ stage = "write" /\ Writes(k)
        /\ half = {} /\ i \in batch
        /\ batch' = batch \ {i}
        /\ disk' = [disk EXCEPT ![p].main = Render[target][k][read[i].main]]
        /\ half' = IF WritesSide(target, disk[p], i, read[i]) THEN {i} ELSE {}
        /\ manifest' = IF InPlugin(target, i)
                       THEN manifest \cup {SafePlugin[PluginOf[i]]} ELSE manifest
        /\ UNCHANGED <<target, sides, shared, damaged, flag>>
        /\ UNCHANGED <<params, phase, stage, read, result, used, history>>

\* The files next to SKILL.md.
WriteSide(i) ==
    /\ i \in half
    /\ disk' = [disk EXCEPT ![PathOf(target, i)].side = read[i].side]
    /\ half' = {}
    /\ UNCHANGED <<target, sides, shared, damaged, flag, manifest>>
    /\ UNCHANGED <<params, phase, stage, batch, read, result, used, history>>

\* All items are written.  Codex ends skills, and agents if there were any,
\* by enabling the skills feature in config.toml.
EndFiles(k) ==
    /\ At(k) /\ stage = "write" /\ Writes(k)
    /\ batch = {} /\ half = {}
    /\ flag' = (flag \/ (target = "codex" /\ (k = "skill" \/ (k = "agent" /\ read # NoEntries))))
    /\ Advance
    /\ UNCHANGED <<disk, shared, damaged, manifest, used>>

Unreadable(k) == MustParse(target, k) /\ DocumentOf(target, k) \in damaged

WriteDocument(k) ==
    /\ At(k) /\ stage = "write" /\ Shares(k)
    /\ ~Unreadable(k)
    /\ shared' = Documented(target, k, k \in damaged, shared, batch, read)
    /\ damaged' = IF KeepsAll(target, k, batch) THEN damaged
                  ELSE damaged \ {DocumentOf(target, k)}
    /\ Advance
    /\ UNCHANGED <<disk, flag, manifest, used>>

\* A document that does not parse fails the sync, every time.
ParseError(k) ==
    /\ At(k) /\ stage = "write" /\ Shares(k)
    /\ Unreadable(k)
    /\ Abort
    /\ UNCHANGED <<files, used>>

\* Cursor only: a manifest for every plugin that brings one, then every
\* directory under plugins/local whose plugin brought no asset is removed.
\* Without any asset nothing is removed.
Registered == {SafePlugin[p] : p \in Assets}
Manifests == IF params.mirror THEN Registered ELSE {}
\* Mutant: every directory of a plugin goes.
WithoutAll(gone) == [p \in Paths |-> IF p[1] \in Plugins THEN Nothing ELSE disk[p]]
Without(gone) == [p \in Paths |-> IF p[1] \in gone THEN Nothing ELSE disk[p]]

WriteAssets ==
    /\ At("asset")
    /\ IF target = "cursor" /\ Assets # {}
       THEN /\ manifest' = (manifest \cup Manifests) \cap Registered
            /\ disk' = Without(Plugins \ Registered)
       ELSE UNCHANGED <<manifest, disk>>
    /\ Advance
    /\ UNCHANGED <<shared, damaged, flag, used>>

-----------------------------------------------------------------------------
(* Errors *)

Faulty == used.faults < MaxFaults /\ used' = [used EXCEPT !.faults = @ + 1]

\* An unreadable directory, an engaged kill switch, a full disk, the end of
\* the process between two writes.
Fail ==
    /\ Running /\ Faulty
    /\ Abort
    /\ UNCHANGED files

\* A full disk or the end of the process inside fs::write, which has
\* truncated the file.
TearItem(k, i) ==
    LET p == PathOf(target, i)
    IN  /\ At(k) /\ stage = "write" /\ Writes(k) /\ Faulty
        /\ \/ half = {} /\ i \in batch /\ ~Same(target, disk[p], i, read[i])
              /\ disk' = [disk EXCEPT ![p].main = Torn]
           \/ i \in half
              /\ disk' = [disk EXCEPT ![p].side = Torn]
        /\ Abort
        /\ UNCHANGED <<shared, damaged, flag, manifest>>

TearDocument(k) ==
    LET doc == DocumentOf(target, k)
    IN  /\ At(k) /\ stage = "write" /\ Shares(k) /\ Faulty
        /\ ~Unreadable(k) /\ (k = "prefs" \/ ~KeepsAll(target, k, batch))
        /\ damaged' = damaged \cup {doc}
        /\ shared' = [i \in Items |->
                        IF DocumentOf(target, KindOf[i]) = doc THEN Absent ELSE shared[i]]
        /\ Abort
        /\ UNCHANGED <<disk, flag, manifest>>

\* An error among the manifests ends the sync; one while pruning is only a
\* warning; the process may end anywhere.
AssetsPartly ==
    /\ At("asset") /\ target = "cursor" /\ Assets # {} /\ Faulty
    /\ \E some \in SUBSET Manifests, gone \in SUBSET (Plugins \ Registered) :
        /\ manifest' = (manifest \cup some) \ gone
        /\ disk' = Without(gone)
        /\ Abort \/ (some = Manifests /\ Advance)
    /\ UNCHANGED <<shared, damaged, flag>>

-----------------------------------------------------------------------------
(* Everyone else *)

Edit ==
    /\ used.edits < MaxEdits
    /\ used' = [used EXCEPT !.edits = @ + 1]
    /\ touched' = TRUE
    /\ UNCHANGED <<target, run, again, current>>

EditSource(i, entry) ==
    /\ entry # source[i]
    /\ entry.main = Absent => entry.side = Absent
    /\ entry.side # Absent => KindOf[i] = "skill"
    /\ source' = [source EXCEPT ![i] = entry]
    /\ Edit
    /\ UNCHANGED <<rich, files>>

EditAssets(p) ==
    /\ rich' = (rich \cup {p}) \ (rich \cap {p})
    /\ Edit
    /\ UNCHANGED <<source, files>>

EditFile(p, text) ==
    /\ text # disk[p].main
    /\ disk' = [disk EXCEPT ![p].main = text]
    /\ Edit
    /\ UNCHANGED <<sides, shared, damaged, flag, manifest>>

\* Whoever writes a document leaves one that parses.
EditDocument(i, text) ==
    /\ text # shared[i]
    /\ shared' = [shared EXCEPT ![i] = text]
    /\ damaged' = damaged \ {DocumentOf(target, KindOf[i])}
    /\ Edit
    /\ UNCHANGED <<sides, disk, flag, manifest>>

-----------------------------------------------------------------------------

Init ==
    /\ target \in Targets
    /\ source \in InitialSources
    /\ rich \in InitialRich
    /\ disk = [p \in Paths |-> Nothing]
    /\ shared = [i \in Items |-> Absent]
    /\ damaged = {} /\ flag = FALSE /\ manifest = {}
    /\ params \in ParamSets
    /\ phase = 0 /\ stage = "read"
    /\ batch = {} /\ read = NoEntries /\ half = {}
    /\ result = "none"
    /\ used = NoUse
    /\ touched = FALSE /\ again = FALSE /\ current = {}

SyncStep ==
    \/ \E k \in Kinds :
        \/ ReadPhase(k)
        \/ \E i \in Items : WriteItem(k, i)
        \/ EndFiles(k)
        \/ WriteDocument(k)
        \/ ParseError(k)
    \/ \E i \in Items : WriteSide(i)
    \/ WriteAssets

Error ==
    \/ Fail
    \/ AssetsPartly
    \/ \E k \in Kinds : TearDocument(k) \/ \E i \in Items : TearItem(k, i)

Environment ==
    \/ \E i \in Items, entry \in Entry : EditSource(i, entry)
    \/ \E p \in Plugins : EditAssets(p)
    \/ \E p \in Paths, text \in Texts \cup {Absent} : EditFile(p, text)
    \/ \E i \in Items, text \in Texts \cup {Absent} : EditDocument(i, text)

Next ==
    \/ \E p \in ParamSets : Start(p)
    \/ SyncStep
    \/ Error
    \/ Environment

Spec == Init /\ [][Next]_vars

-----------------------------------------------------------------------------
(* Properties *)

TypeOK ==
    /\ target \in Targets
    /\ source \in [Items -> Entry] /\ rich \in SUBSET Plugins
    /\ disk \in [Paths -> File]
    /\ shared \in [Items -> Texts \cup {Absent}]
    /\ damaged \in SUBSET Kinds
    /\ flag \in BOOLEAN /\ manifest \in SUBSET Plugins
    /\ params \in SyncParams
    /\ phase \in 0 .. Len(Phases) /\ stage \in {"read", "write"}
    /\ batch \in SUBSET Items /\ read \in [Items -> Entry] /\ half \in SUBSET Items
    /\ result \in {"none", "running", "ok", "failed"}
    /\ used \in [syncs : 0 .. MaxSyncs, edits : 0 .. MaxEdits, faults : 0 .. MaxFaults]
    /\ touched \in BOOLEAN /\ again \in BOOLEAN /\ current \in SUBSET Items

\* The items a sync with these parameters is about.
Wanted(k) == IF k \in params.kinds THEN Selected(k) ELSE {}
Written == {i \in Items : Writes(KindOf[i]) /\ i \in Wanted(KindOf[i])}

\* Two items for one file: the names differ, their sanitised forms do not,
\* or an agent and a skill of Codex meet.
Contested(i) == \E j \in Written \ {i} : PathOf(target, j) = PathOf(target, i)

\* The last phase removes the directory of a plugin that brings no asset, or
\* whose name sanitising changes, together with the skills of phase two.
Swept(q) ==
    /\ target = "cursor" /\ "asset" \in params.kinds
    /\ Assets # {} /\ q \in Plugins \ Registered
Pruned(i) == InPlugin(target, i) /\ Swept(PluginOf[i])

\* With skip_existing it is enough that the name is there.
Arrived(i) ==
    LET k == KindOf[i]
    IN  \/ disk[PathOf(target, i)].main = Render[target][k][source[i].main]
        \/ Protected(k) /\ NameOf[i] \in Existing(k)

Undisturbed == phase = 0 /\ result = "ok" /\ ~touched

\* A sync that reports success has brought every item to the target: after
\* any number of failed, killed or torn syncs before it, and whatever was in
\* the way there, as long as no one else wrote meanwhile.
CompletedSyncCopies ==
    Undisturbed =>
        /\ \A i \in Written : Contested(i) \/ Pruned(i) \/ Arrived(i)
        /\ \A i \in Items : (Shares(KindOf[i]) /\ i \in Wanted(KindOf[i])
                                /\ ~Protected(KindOf[i]))
              => shared[i] = Render[target][KindOf[i]][source[i].main]

\* Then the files next to SKILL.md are there as well: always on Cursor; on
\* the others if SKILL.md had to be written, so a sync that was cut short
\* between the two, or an edit of a side file alone, is never made up for.
CompanionsFollowTheirSkill ==
    Undisturbed =>
        \A i \in Written : (KindOf[i] = "skill" /\ source[i].side # Absent)
            => \/ Contested(i) \/ Pruned(i)
               \/ disk[PathOf(target, i)].side = source[i].side
               \/ target # "cursor" /\ i \in current

\* Repeating a sync that succeeded, with nothing changed in between, writes
\* nothing new, except where two items fight for a file or the last phase
\* sweeps what the second one wrote.  (On Claude, provided no instruction has
\* the name under which CLAUDE.md is read back.)
ResyncChangesNothing ==
    [][(again /\ ~touched' /\ used'.faults = used.faults) =>
         /\ \A p \in Paths : disk'[p] # disk[p] =>
              Swept(p[1]) \/ \E i \in Written : PathOf(target, i) = p /\ Contested(i)
         /\ \A q \in Plugins : (q \in manifest' <=> q \in manifest) \/ Swept(q)
         /\ UNCHANGED <<shared, damaged, flag>>]_vars

\* What the phase has written already.
JustWritten(p) ==
    \E i \in Items \ batch : PathOf(target, i) = p /\ read[i] # Nothing

\* Files called by the name of their item.
OwnName(p) == \A i \in Items : PathOf(target, i) = p => Stem[target][NameOf[i]] = NameOf[i]

\* With skip_existing_commands a command file that is on the target when its
\* phase begins is not written by it, as long as it is called by the name of
\* its item.  (A file the user adds after the names were read is.)
SkipExistingKeepsTarget ==
    [][\A i \in Items :
         LET p == PathOf(target, i)
         IN  /\ Protected(KindOf[i]) /\ Writes(KindOf[i])
             /\ Running /\ ~touched'
             /\ disk[p].main # Absent /\ OwnName(p) /\ ~JustWritten(p)
             => disk'[p].main = disk[p].main]_vars

\* What a sync may touch, whether it succeeds, fails or is torn, as long as no
\* one else writes: the files of the items its call selects, the directories
\* the last phase sweeps, its own kinds in a shared document (a neighbour in
\* the same document only if the document is left torn), manifests of plugins
\* it brings, and Codex's feature flag.
StaysWithinTheCall ==
    [][~touched' =>
         /\ \A p \in Paths : disk'[p] # disk[p] =>
              Swept(p[1]) \/ \E i \in Written : PathOf(target, i) = p
         /\ \A i \in Items : shared'[i] # shared[i] =>
              \E k \in params.kinds :
                 /\ Shares(k)
                 /\ \/ k = KindOf[i]
                    \/ /\ DocumentOf(target, k) = DocumentOf(target, KindOf[i])
                       /\ DocumentOf(target, k) \in damaged'
         /\ \A q \in manifest' \ manifest :
              \/ \E i \in Written : InPlugin(target, i) /\ q = SafePlugin[PluginOf[i]]
              \/ target = "cursor" /\ "asset" \in params.kinds /\ q \in Manifests
         /\ \A q \in manifest \ manifest' : Swept(q)
         /\ flag' # flag => target = "codex" /\ params.kinds \cap {"skill", "agent"} # {}]_vars

\* A running sync has a step to take: the guards of SyncStep.
CanStep ==
    \/ At("asset")
    \/ half # {}
    \/ \E k \in Kinds : At(k) /\ (stage = "read" \/ Shares(k) \/ (Writes(k) /\ half = {}))
SyncsAreNeverStuck == Running => CanStep

\* And every step is one towards the end, of which there are finitely many: on
\* to a later phase, on to writing, one item less, or its side files done.
\* No edit and no error takes a sync back.
SyncsMoveOn ==
    [][/\ SyncStep \/ Error =>
            \/ phase' = 0
            \/ phase' > phase
            \/ /\ phase' = phase
               /\ \/ stage = "read" /\ stage' = "write"
                  \/ /\ stage' = "write" /\ stage = "write"
                     /\ \/ batch' \subseteq batch /\ batch' # batch
                        \/ batch' = batch /\ half # {} /\ half' = {}
       /\ Environment => UNCHANGED <<phase, stage, batch, half>>]_vars
=============================================================================
