----------------------------- MODULE SyncProofs -----------------------------
(***************************************************************************)
(* Type correctness of the sync, and four of its promises: a sync that     *)
(* succeeds has copied everything, the files next to SKILL.md included;    *)
(* repeating it changes nothing; and skip_existing keeps what the target   *)
(* has.                                                                    *)
(***************************************************************************)
EXTENDS SyncOrchestrator, TLAPS

\* The phase is done: passed by the running sync, or the sync is over.
Passed(k) ==
    IF Running THEN \E n \in 1 .. phase - 1 : Phases[n] = k ELSE result = "ok"

\* The adapter is done with the item, in this phase or an earlier one.
Handled(i) ==
    \/ Passed(KindOf[i])
    \/ stage = "write" /\ Phases[phase] = KindOf[i] /\ i \notin batch

\* Of the stages: what is to be written is of the kind of the phase.
Stages ==
    /\ Running => Phases[phase] \in params.kinds
    /\ stage = "read" => batch = {} /\ half = {}
    /\ stage = "write" => /\ Running
                          /\ Phases[phase] \in Kinds
                          /\ Writes(Phases[phase]) \/ Shares(Phases[phase])
    /\ \A i \in batch : KindOf[i] = Phases[phase] /\ read[i].main \in Texts
    /\ \A i \in half : KindOf[i] = Phases[phase]

\* While no one else writes, the batch is that of the source.
Faithful ==
    (~touched /\ stage = "write") =>
        LET k == Phases[phase]
        IN  /\ batch \subseteq Selected(k)
            /\ half \subseteq Written /\ \A i, j \in half : i = j
            /\ \A i \in batch \cup half : read[i] = source[i]
            /\ (Shares(k) /\ ~Protected(k)) => Selected(k) \subseteq batch

FilesCopied ==
    ~touched => \A i \in Written : Handled(i) => Contested(i) \/ Pruned(i) \/ Arrived(i)

DocumentsCopied ==
    ~touched =>
        \A i \in Items : (Shares(KindOf[i]) /\ i \in Wanted(KindOf[i])
                            /\ ~Protected(KindOf[i]) /\ Passed(KindOf[i]))
          => shared[i] = Render[target][KindOf[i]][source[i].main]

\* A skill that is still to come is current only if it was at the start.
CurrentFromStart ==
    (~touched /\ Running) =>
        \A i \in Written : (KindOf[i] = "skill" /\ ~Handled(i)
                              /\ Same(target, disk[PathOf(target, i)], i, source[i]))
          => Contested(i) \/ i \in current

CompanionsCopied ==
    ~touched =>
        \A i \in Written : (KindOf[i] = "skill" /\ Handled(i) /\ i \notin half
                              /\ source[i].side # Absent)
          => \/ Contested(i) \/ Pruned(i)
             \/ disk[PathOf(target, i)].side = source[i].side
             \/ target # "cursor" /\ i \in current

\* With skip_existing nothing is to be written over what was there.
NewOnly ==
    (~touched /\ stage = "write" /\ Writes(Phases[phase]) /\ Protected(Phases[phase])) =>
        \A i \in batch :
            LET p == PathOf(target, i)
            IN  (OwnName(p) /\ disk[p].main # Absent) => JustWritten(p)

-----------------------------------------------------------------------------
(* The order of the phases *)

\* Every kind has one phase, and the last phase is that of the assets.
LEMMA PhaseOfKind ==
    /\ Len(Phases) = 8
    /\ \A n \in 1 .. 8 : Phases[n] \in Kinds \cup {"asset"}
    /\ \A m, n \in 1 .. 8 : Phases[m] = Phases[n] => m = n
    /\ \A k \in Kinds : \E n \in 1 .. 8 : Phases[n] = k
    /\ \A n \in 1 .. 8 : Phases[n] = "asset" <=> n = 8
BY DEF Phases, Kinds

\* Following finds the next phase whose flag is set, and 0 if there is none.
LEMMA FollowingIsNext ==
    ASSUME NEW n \in 0 .. 8, NEW prm
    PROVE  /\ Following(n, prm) \in 0 .. 8
           /\ Following(n, prm) # 0 => /\ Following(n, prm) > n
                                       /\ Phases[Following(n, prm)] \in prm.kinds
           /\ \A m \in n + 1 .. 8 : Phases[m] \in prm.kinds =>
                  Following(n, prm) # 0 /\ Following(n, prm) <= m
<1> DEFINE later == {m \in n + 1 .. Len(Phases) : Phases[m] \in prm.kinds}
<1>1. Len(Phases) = 8
  BY PhaseOfKind
<1>2. CASE later = {}
  BY <1>1, <1>2 DEF Following
<1>3. CASE later # {}
  <2>1. \E m \in later : \A l \in later : m <= l
    <3>1. later \subseteq 1 .. 8
      BY <1>1
    <3> HIDE DEF later
    <3>2. PICK m \in later : TRUE
      BY <1>3
    <3>3. \/ \A l \in later : 1 \notin later /\ 2 \notin later /\ 3 \notin later /\ 4 \notin later
          \/ \E q \in 1 .. 4 : q \in later
      BY <3>1
    <3>4. CASE \E q \in 1 .. 4 : q \in later
      BY <3>1, <3>4
    <3>5. CASE ~\E q \in 1 .. 4 : q \in later
      BY <3>1, <3>2, <3>5
    <3> QED BY <3>4, <3>5
  <2>2. Following(n, prm) = CHOOSE m \in later : \A l \in later : m <= l
    BY <1>1, <1>3 DEF Following
  <2>3. Following(n, prm) \in later /\ \A l \in later : Following(n, prm) <= l
    <3> HIDE DEF later
    <3> QED BY <2>1, <2>2
  <2> QED BY <2>3, <1>1
<1> QED BY <1>2, <1>3

-----------------------------------------------------------------------------
(* Paths, renderings and selections *)

\* An item has a path among Paths; under plugins/local only if it is a skill
\* of that plugin.
LEMMA PathIsPath ==
    ASSUME NEW t \in Targets, NEW i \in Items
    PROVE  /\ PathOf(t, i) \in Paths
           /\ PathOf(t, i)[1] \in Plugins => InPlugin(t, i) /\ PathOf(t, i)[1] = PluginOf[i]
           /\ InPlugin(t, i) => PathOf(t, i)[1] = PluginOf[i] /\ PluginOf[i] \in Plugins
<1>1. PathOf(t, i) \in Paths
  BY DEF Paths
<1>2. KindOf[i] \in Kinds /\ "skill" \in Kinds /\ PluginOf[i] \in Plugins \cup {NoPlugin}
  BY AttributesAssumption DEF Kinds
<1>3. KindOf[i] \notin Plugins /\ "skill" \notin Plugins
  BY <1>2, MarkersAssumption
<1>4. PathOf(t, i)[1] = IF InPlugin(t, i) THEN PluginOf[i]
                        ELSE IF AsSkill(t, i) THEN "skill" ELSE KindOf[i]
  BY DEF PathOf
<1>5. InPlugin(t, i) => PluginOf[i] \in Plugins
  BY <1>2 DEF InPlugin
<1> QED BY <1>1, <1>3, <1>4, <1>5

\* A target stores a text for a text.
LEMMA RenderIsText ==
    ASSUME NEW t \in Targets, NEW k \in Kinds, NEW x \in Texts
    PROVE  Render[t][k][x] \in Texts
BY RenderingAssumption

\* What is selected is of the kind and present in the source.
LEMMA SelectedIsListed ==
    ASSUME NEW k, TypeOK
    PROVE  /\ Selected(k) \subseteq Items
           /\ ToWrite(k) \subseteq Selected(k)
           /\ \A i \in Selected(k) : KindOf[i] = k /\ source[i].main \in Texts
<1>1. \A i \in Listed(k) : i \in Items /\ KindOf[i] = k /\ source[i].main \in Texts
  BY DEF Listed, TypeOK, Entry
<1>2. Selected(k) \subseteq Listed(k)
  BY DEF Selected, FirstOfEachName
<1>3. ToWrite(k) \subseteq Selected(k)
  BY DEF ToWrite
<1> QED BY <1>1, <1>2, <1>3

\* A kind that is written in files is not written in a document.
LEMMA FilesAreNotDocuments ==
    ASSUME target \in Targets
    PROVE  /\ \A k : ~(Writes(k) /\ Shares(k))
           /\ ~Writes("asset") /\ ~Shares("asset")
           /\ \A k : Shares(k) => k \in Kinds
           /\ \A k : Writes(k) => k \in Kinds
BY DEF Targets, Writes, Shares, AdapterOf, ClaudeAdapter, CodexAdapter, CopilotAdapter, CursorAdapter, Kinds

\* Updating one field of one file.
LEMMA FileUpdate ==
    ASSUME NEW d \in [Paths -> File], NEW p \in Paths, NEW x \in Texts \cup {Absent, Torn}
    PROVE  /\ [d EXCEPT ![p].main = x] \in [Paths -> File]
           /\ [d EXCEPT ![p].side = x] \in [Paths -> File]
           /\ \A q \in Paths : /\ [d EXCEPT ![p].main = x][q].main = IF q = p THEN x ELSE d[q].main
                               /\ [d EXCEPT ![p].main = x][q].side = d[q].side
                               /\ [d EXCEPT ![p].side = x][q].side = IF q = p THEN x ELSE d[q].side
                               /\ [d EXCEPT ![p].side = x][q].main = d[q].main
BY DEF File

-----------------------------------------------------------------------------
(* Types *)

TypeInv == TypeOK /\ Stages

\* The initial states are well typed.
LEMMA TypeInit == Init => TypeInv
<1> SUFFICES ASSUME Init PROVE TypeInv
  OBVIOUS
<1>1. source \in [Items -> Entry] /\ rich \in SUBSET Plugins /\ params \in SyncParams
  BY ParamsAssumption DEF Init
<1>2. disk \in [Paths -> File] /\ shared \in [Items -> Texts \cup {Absent}]
  BY DEF Init, Nothing, File
<1>3. read \in [Items -> Entry]
  BY DEF Init, NoEntries, Nothing, Entry
<1>4. used \in [syncs : 0 .. MaxSyncs, edits : 0 .. MaxEdits, faults : 0 .. MaxFaults]
  BY BoundsAssumption DEF Init, NoUse
<1>5. phase \in 0 .. Len(Phases)
  BY PhaseOfKind DEF Init
<1>6. TypeOK
  BY <1>1, <1>2, <1>3, <1>4, <1>5 DEF Init, TypeOK
<1>7. Stages
  BY DEF Init, Stages, Running
<1> QED BY <1>6, <1>7 DEF TypeInv

\* What Advance and Abort leave behind is well typed.
LEMMA AdvanceType ==
    ASSUME TypeInv, Advance \/ Abort
    PROVE  /\ phase' \in 0 .. Len(Phases) /\ stage' \in {"read", "write"}
           /\ batch' \in SUBSET Items /\ read' \in [Items -> Entry] /\ half' \in SUBSET Items
           /\ result' \in {"none", "running", "ok", "failed"}
           /\ target' = target /\ source' = source /\ rich' = rich /\ params' = params
           /\ touched' = touched /\ again' = again /\ current' = current
           /\ Stages'
<1>1. phase \in 0 .. 8
  BY PhaseOfKind DEF TypeInv, TypeOK
<1>2. phase' \in 0 .. 8 /\ (phase' # 0 => Phases[phase'] \in params.kinds)
  BY <1>1, FollowingIsNext DEF Advance, Abort
<1>3. phase' \in 0 .. Len(Phases)
  BY <1>2, PhaseOfKind
<1>4. read' = NoEntries /\ NoEntries \in [Items -> Entry]
  BY DEF Advance, Abort, NoEntries, Nothing, Entry
<1>5. UNCHANGED <<target, source, rich, params, touched, again, current>>
  BY DEF Advance, Abort, sides, history
<1>6. stage' = "read" /\ batch' = {} /\ half' = {} /\ result' \in {"none", "running", "ok", "failed"}
  BY DEF Advance, Abort
<1>7. Stages'
  BY <1>2, <1>5, <1>6 DEF Stages, Running
<1> QED BY <1>3, <1>4, <1>5, <1>6, <1>7

Counters == [syncs : 0 .. MaxSyncs, edits : 0 .. MaxEdits, faults : 0 .. MaxFaults]

\* The files of the target and the counters are well typed.
FilesTyped ==
    /\ disk \in [Paths -> File]
    /\ shared \in [Items -> Texts \cup {Absent}]
    /\ damaged \in SUBSET Kinds
    /\ flag \in BOOLEAN /\ manifest \in SUBSET Plugins
    /\ used \in Counters

\* A step that ends a phase or the sync need only keep the files well typed.
LEMMA EndOfPhaseType ==
    ASSUME TypeInv, Advance \/ Abort, FilesTyped'
    PROVE  TypeInv'
BY AdvanceType DEF TypeInv, TypeOK, FilesTyped, Counters

\* Start.
LEMMA StartType == ASSUME TypeInv, NEW p \in ParamSets, Start(p) PROVE TypeInv'
<1>1. params' \in SyncParams /\ params' = p
  BY ParamsAssumption DEF Start
<1>2. phase' \in 0 .. 8 /\ (phase' # 0 => Phases[phase'] \in p.kinds)
  BY FollowingIsNext DEF Start
<1>3. phase' \in 0 .. Len(Phases)
  BY <1>2, PhaseOfKind
<1>4. used' \in Counters
  BY BoundsAssumption DEF Start, TypeInv, TypeOK, Counters
<1>5. current' \in SUBSET Items
  BY DEF Start, Listed
<1>6. stage = "read" /\ batch = {} /\ half = {}
  BY DEF Start, TypeInv, TypeOK, Stages, Running
<1>7. UNCHANGED <<target, source, rich, disk, shared, damaged, flag, manifest, stage, batch, read, half>>
  BY DEF Start, sides, files
<1>8. result' \in {"none", "running", "ok", "failed"} /\ touched' \in BOOLEAN
  BY DEF Start
<1>9. again' \in BOOLEAN
  BY DEF Start
<1>10. TypeOK'
  BY <1>1, <1>3, <1>4, <1>5, <1>7, <1>8, <1>9 DEF TypeInv, TypeOK, Counters
<1>11. Stages'
  BY <1>1, <1>2, <1>6, <1>7 DEF Stages, Running
<1> QED BY <1>10, <1>11 DEF TypeInv

\* ReadPhase.
LEMMA ReadPhaseType == ASSUME TypeInv, NEW k \in Kinds, ReadPhase(k) PROVE TypeInv'
<1>1. CASE Advance
  <2>1. FilesTyped'
    BY DEF ReadPhase, files, TypeInv, TypeOK, FilesTyped, Counters
  <2> QED BY <1>1, <2>1, EndOfPhaseType
<1>2. CASE ~Advance
  <2>1. /\ Writes(k) \/ Shares(k)
        /\ stage' = "write" /\ batch' = ToWrite(k)
        /\ read' = [i \in Items |-> IF i \in batch' THEN source[i] ELSE Nothing]
        /\ At(k) /\ stage = "read"
        /\ UNCHANGED <<target, source, rich, disk, shared, damaged, flag, manifest, params,
                       phase, half, result, used, touched, again, current>>
    BY <1>2 DEF ReadPhase, sides, files, history
  <2>2. /\ batch' \subseteq Items
        /\ \A i \in batch' : KindOf[i] = k /\ source[i].main \in Texts
    BY <2>1, SelectedIsListed DEF TypeInv
  <2>3. read' \in [Items -> Entry]
    <3>1. \A i \in Items : source[i] \in Entry
      BY DEF TypeInv, TypeOK
    <3>2. Nothing \in Entry
      BY DEF Nothing, Entry
    <3> QED BY <2>1, <3>1, <3>2
  <2>4. \A i \in batch' : read'[i].main \in Texts
    BY <2>1, <2>2
  <2>5. TypeOK'
    BY <2>1, <2>2, <2>3 DEF TypeInv, TypeOK
  <2>6. half = {} /\ Phases[phase] = k /\ Running
    BY <2>1 DEF TypeInv, Stages, At
  <2>7. Stages'
    BY <2>1, <2>2, <2>4, <2>6 DEF TypeInv, Stages, Running, Writes, Shares
  <2> QED BY <2>5, <2>7 DEF TypeInv
<1> QED BY <1>1, <1>2

\* WriteItem.
LEMMA WriteItemType ==
    ASSUME TypeInv, NEW k \in Kinds, NEW i \in Items, WriteItem(k, i)
    PROVE  TypeInv'
<1> DEFINE p == PathOf(target, i)
<1>1. /\ UNCHANGED <<target, source, rich, shared, damaged, flag, params, phase, stage, read,
                     result, used, touched, again, current>>
      /\ i \in batch /\ batch' = batch \ {i} /\ half' \in {{}, {i}}
      /\ disk' = [disk EXCEPT ![p].main = Render[target][k][read[i].main]]
      /\ stage = "write" /\ half = {}
  BY DEF WriteItem, sides, history
<1>2. read[i].main \in Texts /\ KindOf[i] = Phases[phase] /\ target \in Targets
  BY <1>1 DEF TypeInv, TypeOK, Stages
<1>3. disk' \in [Paths -> File]
  <2>1. Render[target][k][read[i].main] \in Texts
    BY <1>2, RenderIsText
  <2>2. p \in Paths /\ disk \in [Paths -> File]
    BY <1>2, PathIsPath DEF TypeInv, TypeOK
  <2> HIDE DEF p
  <2> QED BY <1>1, <2>1, <2>2, FileUpdate
<1>4. manifest' \in SUBSET Plugins
  <2>1. InPlugin(target, i) => PluginOf[i] \in Plugins
    BY <1>2, PathIsPath
  <2>2. InPlugin(target, i) => SafePlugin[PluginOf[i]] \in Plugins
    BY <2>1, RenderingAssumption
  <2> QED BY <2>2 DEF WriteItem, TypeInv, TypeOK
<1>5. TypeOK'
  BY <1>1, <1>3, <1>4 DEF TypeInv, TypeOK
<1>6. Stages'
  BY <1>1, <1>2 DEF TypeInv, Stages, Running, Writes, Shares
<1> QED BY <1>5, <1>6 DEF TypeInv

\* WriteSide.
LEMMA WriteSideType == ASSUME TypeInv, NEW i \in Items, WriteSide(i) PROVE TypeInv'
<1> DEFINE p == PathOf(target, i)
<1>1. /\ UNCHANGED <<target, source, rich, shared, damaged, flag, manifest, params, phase, stage,
                     batch, read, result, used, touched, again, current>>
      /\ half' = {} /\ disk' = [disk EXCEPT ![p].side = read[i].side]
      /\ i \in half
  BY DEF WriteSide, sides, history
<1>2. disk' \in [Paths -> File]
  <2>1. read[i].side \in Texts \cup {Absent} /\ disk \in [Paths -> File] /\ target \in Targets
    BY DEF TypeInv, TypeOK, Entry
  <2>2. p \in Paths
    BY <2>1, PathIsPath
  <2> HIDE DEF p
  <2> QED BY <1>1, <2>1, <2>2, FileUpdate
<1>3. TypeOK'
  BY <1>1, <1>2 DEF TypeInv, TypeOK
<1>4. Stages'
  BY <1>1 DEF TypeInv, TypeOK, Stages, Running, Writes, Shares
<1> QED BY <1>3, <1>4 DEF TypeInv

\* EndFiles.
LEMMA EndFilesType == ASSUME TypeInv, NEW k \in Kinds, EndFiles(k) PROVE TypeInv'
<1>1. FilesTyped'
  BY DEF EndFiles, TypeInv, TypeOK, FilesTyped, Counters
<1> QED BY <1>1, EndOfPhaseType DEF EndFiles

\* A kind and its document are kinds.
LEMMA DocumentIsKind == \A t, k : k \in Kinds => DocumentOf(t, k) \in Kinds
BY DEF DocumentOf, Kinds

\* A document holds texts.
LEMMA DocumentedIsTyped ==
    ASSUME TypeInv, stage = "write", NEW k \in Kinds, NEW torn
    PROVE  Documented(target, k, torn, shared, batch, read) \in [Items -> Texts \cup {Absent}]
<1>1. shared \in [Items -> Texts \cup {Absent}] /\ target \in Targets
  BY DEF TypeInv, TypeOK
<1>2. \A i \in batch : Render[target][k][read[i].main] \in Texts
  BY <1>1, RenderIsText DEF TypeInv, Stages
<1> QED BY <1>1, <1>2 DEF Documented

\* WriteDocument.
LEMMA WriteDocumentType == ASSUME TypeInv, NEW k \in Kinds, WriteDocument(k) PROVE TypeInv'
<1>1. shared' \in [Items -> Texts \cup {Absent}]
  BY DocumentedIsTyped DEF WriteDocument
<1>2. damaged' \in SUBSET Kinds
  BY DEF WriteDocument, TypeInv, TypeOK
<1>3. FilesTyped'
  BY <1>1, <1>2 DEF WriteDocument, TypeInv, TypeOK, FilesTyped, Counters
<1> QED BY <1>3, EndOfPhaseType DEF WriteDocument

\* Removing directories keeps the files well typed.
LEMMA WithoutIsTyped == ASSUME TypeInv, NEW gone PROVE Without(gone) \in [Paths -> File]
<1>1. disk \in [Paths -> File] /\ Nothing \in File
  BY DEF TypeInv, TypeOK, Nothing, File
<1> QED BY <1>1 DEF Without

\* The directories that brought assets are names of plugins.
LEMMA RegisteredArePlugins == ASSUME TypeInv PROVE Registered \subseteq Plugins /\ Manifests \subseteq Plugins
<1>1. Assets \subseteq Plugins
  BY DEF Assets, Installed, TypeInv, TypeOK
<1> QED BY <1>1, RenderingAssumption DEF Registered, Manifests

\* WriteAssets.
LEMMA WriteAssetsType == ASSUME TypeInv, WriteAssets PROVE TypeInv'
<1>1. disk' \in [Paths -> File]
  BY WithoutIsTyped DEF WriteAssets, TypeInv, TypeOK
<1>2. manifest' \in SUBSET Plugins
  BY RegisteredArePlugins DEF WriteAssets, TypeInv, TypeOK
<1>3. FilesTyped'
  BY <1>1, <1>2 DEF WriteAssets, TypeInv, TypeOK, FilesTyped, Counters
<1> QED BY <1>3, EndOfPhaseType DEF WriteAssets

\* A fault is counted.
LEMMA FaultyIsCounted == ASSUME TypeInv, Faulty PROVE used' \in Counters
BY BoundsAssumption DEF Faulty, TypeInv, TypeOK, Counters

\* Fail and ParseError.
LEMMA FailType == ASSUME TypeInv, Fail \/ \E k \in Kinds : ParseError(k) PROVE TypeInv'
<1>1. used' \in Counters
  BY FaultyIsCounted DEF Fail, ParseError, TypeInv, TypeOK, Counters
<1>2. FilesTyped'
  BY <1>1 DEF Fail, ParseError, files, TypeInv, TypeOK, FilesTyped
<1> QED BY <1>2, EndOfPhaseType DEF Fail, ParseError

\* TearItem.
LEMMA TearItemType ==
    ASSUME TypeInv, NEW k \in Kinds, NEW i \in Items, TearItem(k, i)
    PROVE  TypeInv'
<1> DEFINE p == PathOf(target, i)
<1>1. \/ disk' = [disk EXCEPT ![p].main = Torn]
      \/ disk' = [disk EXCEPT ![p].side = Torn]
  BY DEF TearItem
<1>2. p \in Paths /\ disk \in [Paths -> File]
  BY PathIsPath DEF TypeInv, TypeOK
<1>3. disk' \in [Paths -> File]
  <2> HIDE DEF p
  <2>1. /\ [disk EXCEPT ![p].main = Torn] \in [Paths -> File]
        /\ [disk EXCEPT ![p].side = Torn] \in [Paths -> File]
    BY <1>2, FileUpdate
  <2> QED BY <1>1, <2>1
<1>4. FilesTyped'
  BY <1>3, FaultyIsCounted DEF TearItem, TypeInv, TypeOK, FilesTyped
<1> QED BY <1>4, EndOfPhaseType DEF TearItem

\* TearDocument.
LEMMA TearDocumentType == ASSUME TypeInv, NEW k \in Kinds, TearDocument(k) PROVE TypeInv'
<1>1. shared' \in [Items -> Texts \cup {Absent}]
  BY DEF TearDocument, TypeInv, TypeOK
<1>2. damaged' \in SUBSET Kinds
  BY DocumentIsKind DEF TearDocument, TypeInv, TypeOK
<1>3. FilesTyped'
  BY <1>1, <1>2, FaultyIsCounted DEF TearDocument, TypeInv, TypeOK, FilesTyped
<1> QED BY <1>3, EndOfPhaseType DEF TearDocument

\* AssetsPartly.
LEMMA AssetsPartlyType == ASSUME TypeInv, AssetsPartly PROVE TypeInv'
<1>1. PICK some \in SUBSET Manifests, gone \in SUBSET (Plugins \ Registered) :
        /\ manifest' = (manifest \cup some) \ gone
        /\ disk' = Without(gone)
        /\ Abort \/ Advance
  BY DEF AssetsPartly
<1>2. disk' \in [Paths -> File]
  BY <1>1, WithoutIsTyped
<1>3. manifest' \in SUBSET Plugins
  BY <1>1, RegisteredArePlugins DEF TypeInv, TypeOK
<1>4. FilesTyped'
  BY <1>2, <1>3, FaultyIsCounted DEF AssetsPartly, TypeInv, TypeOK, FilesTyped
<1> QED BY <1>1, <1>4, EndOfPhaseType

\* An edit leaves the sync where it is.
LEMMA EditStages == ASSUME TypeInv, Edit PROVE Stages' /\ touched' = TRUE /\ used' \in Counters
<1>1. UNCHANGED <<target, params, phase, stage, batch, read, half, result>> /\ touched' = TRUE
  BY DEF Edit, run
<1>2. Stages'
  BY <1>1 DEF TypeInv, Stages, Running, Writes, Shares
<1>3. used' \in Counters
  BY BoundsAssumption DEF Edit, TypeInv, TypeOK, Counters
<1> QED BY <1>1, <1>2, <1>3

\* The environment.
LEMMA EnvironmentType == ASSUME TypeInv, Environment PROVE TypeInv' /\ touched' = TRUE
<1>1. Edit
  BY DEF Environment, EditSource, EditAssets, EditFile, EditDocument
<1>2. UNCHANGED <<target, params, phase, stage, batch, read, half, result, again, current>>
  BY <1>1 DEF Edit, run
<1>3. source' \in [Items -> Entry] /\ rich' \in SUBSET Plugins
  BY DEF Environment, EditSource, EditAssets, EditFile, EditDocument, sides, TypeInv, TypeOK
<1>4. disk' \in [Paths -> File]
  <2>1. CASE \E p \in Paths, text \in Texts \cup {Absent} : EditFile(p, text)
    <3>1. PICK p \in Paths, text \in Texts \cup {Absent} : disk' = [disk EXCEPT ![p].main = text]
      BY <2>1 DEF EditFile
    <3>2. [disk EXCEPT ![p].main = text] \in [Paths -> File]
      BY FileUpdate DEF TypeInv, TypeOK
    <3> QED BY <3>1, <3>2
  <2>2. CASE ~\E p \in Paths, text \in Texts \cup {Absent} : EditFile(p, text)
    BY <2>2 DEF Environment, EditSource, EditAssets, EditDocument, files, TypeInv, TypeOK
  <2> QED BY <2>1, <2>2
<1>5. shared' \in [Items -> Texts \cup {Absent}] /\ damaged' \in SUBSET Kinds
  BY DEF Environment, EditSource, EditAssets, EditFile, EditDocument, files, TypeInv, TypeOK
<1>6. flag' \in BOOLEAN /\ manifest' \in SUBSET Plugins
  BY DEF Environment, EditSource, EditAssets, EditFile, EditDocument, files, TypeInv, TypeOK
<1>7. TypeOK'
  BY <1>1, <1>2, <1>3, <1>4, <1>5, <1>6, EditStages DEF TypeInv, TypeOK, Counters
<1> QED BY <1>1, <1>7, EditStages DEF TypeInv

\* Every step keeps the types.
LEMMA TypeStep == TypeInv /\ [Next]_vars => TypeInv'
<1> SUFFICES ASSUME TypeInv, [Next]_vars PROVE TypeInv'
  OBVIOUS
<1>1. CASE \E p \in ParamSets : Start(p)
  BY <1>1, StartType
<1>2. CASE SyncStep
  BY <1>2, ReadPhaseType, WriteItemType, EndFilesType, WriteDocumentType, FailType, WriteSideType,
     WriteAssetsType DEF SyncStep
<1>3. CASE Error
  BY <1>3, FailType, AssetsPartlyType, TearDocumentType, TearItemType DEF Error
<1>4. CASE Environment
  BY <1>4, EnvironmentType
<1>5. CASE UNCHANGED vars
  BY <1>5 DEF vars, sides, files, run, history, TypeInv, TypeOK, Stages, Running, Writes, Shares
<1> QED BY <1>1, <1>2, <1>3, <1>4, <1>5 DEF Next

\* Every variable of the sync keeps its type, for any items, names, adapters'
\* renderings and parameter sets.
THEOREM TypeCorrect == Spec => []TypeOK
<1>1. TypeInv => TypeOK
  BY DEF TypeInv
<1> QED BY <1>1, TypeInit, TypeStep, PTL DEF Spec

-----------------------------------------------------------------------------
(* Copying *)

CopyInv ==
    /\ TypeInv
    /\ Faithful
    /\ FilesCopied
    /\ DocumentsCopied
    /\ CurrentFromStart
    /\ CompanionsCopied

\* The selection depends on the source and the call only.
LEMMA SameSelection ==
    ASSUME UNCHANGED <<target, source, rich, params>>
    PROVE  /\ \A k : Selected(k)' = Selected(k)
           /\ \A k : Wanted(k)' = Wanted(k)
           /\ \A k : Protected(k)' <=> Protected(k)
           /\ \A k : Writes(k)' <=> Writes(k)
           /\ \A k : Shares(k)' <=> Shares(k)
           /\ Written' = Written
           /\ \A i : Contested(i)' <=> Contested(i)
           /\ \A i : Pruned(i)' <=> Pruned(i)
<1>1. \A k : Selected(k)' = Selected(k)
  BY DEF Selected, FirstOfEachName, Listed, Excluded
<1>2. \A k : Wanted(k)' = Wanted(k)
  BY <1>1 DEF Wanted
<1>3. \A k : (Writes(k)' <=> Writes(k)) /\ (Shares(k)' <=> Shares(k))
  BY DEF Writes, Shares
<1>4. Written' = Written
  BY <1>2, <1>3 DEF Written
<1>5. \A i : Contested(i)' <=> Contested(i)
  BY <1>4 DEF Contested
<1>6. Registered' = Registered /\ Assets' = Assets
  BY DEF Registered, Assets, Installed
<1>7. \A i : Pruned(i)' <=> Pruned(i)
  BY <1>6 DEF Pruned, Swept
<1> QED BY <1>1, <1>2, <1>3, <1>4, <1>5, <1>7 DEF Protected

\* What a sync is about: items of the source whose flag is set.
LEMMA WrittenIsWanted ==
    ASSUME TypeInv, NEW i, i \in Written
    PROVE  /\ i \in Items /\ KindOf[i] \in Kinds /\ KindOf[i] \in params.kinds
           /\ Writes(KindOf[i]) /\ i \in Selected(KindOf[i]) /\ source[i].main \in Texts
<1>1. i \in Items /\ Writes(KindOf[i]) /\ i \in Wanted(KindOf[i])
  BY DEF Written
<1>2. KindOf[i] \in params.kinds /\ i \in Selected(KindOf[i])
  BY <1>1 DEF Wanted
<1>3. KindOf[i] \in Kinds
  BY <1>1, AttributesAssumption
<1> QED BY <1>1, <1>2, <1>3, SelectedIsListed DEF TypeInv

\* The other way round.
LEMMA SelectedIsWritten ==
    ASSUME TypeInv, NEW k, Writes(k), k \in params.kinds, NEW i \in Selected(k)
    PROVE  i \in Written
<1>1. i \in Items /\ KindOf[i] = k
  BY SelectedIsListed DEF TypeInv
<1> QED BY <1>1 DEF Written, Wanted

\* When a phase ends its kind has been passed, and no other.
LEMMA PassedOn ==
    ASSUME TypeInv, Running, Advance, NEW k \in Kinds, k \in params.kinds
    PROVE  Passed(k)' <=> (Passed(k) \/ Phases[phase] = k)
<1>1. phase \in 1 .. 8
  BY PhaseOfKind DEF TypeInv, TypeOK, Running
<1>2. PICK n \in 1 .. 8 : Phases[n] = k
  BY PhaseOfKind
<1>3. phase' = Following(phase, params) /\ (phase' = 0 => result' = "ok")
  BY DEF Advance
<1>4. /\ phase' \in 0 .. 8
      /\ phase' # 0 => phase' > phase
      /\ \A m \in phase + 1 .. 8 : Phases[m] \in params.kinds => phase' # 0 /\ phase' <= m
  BY <1>1, <1>3, FollowingIsNext
<1>5. Passed(k) <=> n < phase
  BY <1>1, <1>2, PhaseOfKind DEF Passed
<1>6. Phases[phase] = k <=> n = phase
  BY <1>1, <1>2, PhaseOfKind
<1>7. CASE phase' = 0
  <2>1. n <= phase
    BY <1>1, <1>2, <1>4, <1>7
  <2>2. Passed(k)'
    BY <1>3, <1>7 DEF Passed, Running
  <2> QED BY <1>1, <1>5, <1>6, <2>1, <2>2
<1>8. CASE phase' # 0
  <2>1. Passed(k)' <=> n < phase'
    <3>1. Passed(k)' <=> \E m \in 1 .. phase' - 1 : Phases[m] = k
      BY <1>8 DEF Passed, Running
    <3>2. \A m \in 1 .. 8 : Phases[m] = k => m = n
      BY <1>2, PhaseOfKind
    <3>3. phase' \in 1 .. 8
      BY <1>4, <1>8
    <3>4. \A q \in 1 .. 8 : (\E m \in 1 .. q - 1 : Phases[m] = k) <=> n < q
      BY <1>2, <3>2
    <3> QED BY <3>1, <3>3, <3>4
  <2>2. n > phase => phase' <= n
    BY <1>1, <1>2, <1>4
  <2> QED BY <1>1, <1>4, <1>5, <1>6, <1>8, <2>1, <2>2
<1> QED BY <1>7, <1>8

\* A skill that has been passed is not half written.
LEMMA PassedIsWhole ==
    ASSUME TypeInv, Running, NEW i \in half
    PROVE  ~Passed(KindOf[i]) /\ KindOf[i] = Phases[phase]
<1>1. KindOf[i] = Phases[phase] /\ phase \in 1 .. 8
  BY PhaseOfKind DEF TypeInv, TypeOK, Stages, Running
<1> QED BY <1>1, PhaseOfKind DEF Passed

\* The end of a phase: every item of its kind is done, and what it did to the
\* files is of no harm to what was copied.
LEMMA AdvanceKeeps ==
    ASSUME CopyInv, Running, Advance, TypeInv',
           \A i \in Written : KindOf[i] = Phases[phase] => Handled(i) /\ i \notin half,
           \A i \in Written : Arrived(i) => Arrived(i)' \/ Pruned(i),
           \A i \in Written :
                disk'[PathOf(target, i)].side = disk[PathOf(target, i)].side \/ Pruned(i),
           \A i \in Items :
                (Shares(KindOf[i]) /\ i \in Wanted(KindOf[i]) /\ ~Protected(KindOf[i])
                   /\ (KindOf[i] = Phases[phase]
                        \/ shared[i] = Render[target][KindOf[i]][source[i].main]))
                => shared'[i] = Render[target][KindOf[i]][source[i].main],
           disk' = disk \/ phase' = 0
    PROVE  CopyInv'
<1>1. /\ UNCHANGED <<target, source, rich, params, touched, current>>
      /\ stage' = "read" /\ batch' = {} /\ half' = {}
  BY DEF Advance, sides, history
<1>2. TypeInv
  BY DEF CopyInv
<1>3. phase \in 1 .. 8
  BY <1>2, PhaseOfKind DEF TypeInv, TypeOK, Running
<1>4. \A i \in Written : (Handled(i)' => Handled(i) /\ i \notin half) /\ (Handled(i) => Handled(i)')
  <2> SUFFICES ASSUME NEW i \in Written
               PROVE  (Handled(i)' => Handled(i) /\ i \notin half) /\ (Handled(i) => Handled(i)')
    OBVIOUS
  <2>1. KindOf[i] \in Kinds /\ KindOf[i] \in params.kinds
    BY <1>2, WrittenIsWanted
  <2>2. Passed(KindOf[i])' <=> (Passed(KindOf[i]) \/ Phases[phase] = KindOf[i])
    BY <1>2, <2>1, PassedOn
  <2>3. Handled(i)' <=> Passed(KindOf[i])'
    BY <1>1 DEF Handled
  <2>4. Handled(i) => Passed(KindOf[i]) \/ Phases[phase] = KindOf[i]
    BY DEF Handled
  <2>5. Passed(KindOf[i]) => Handled(i) /\ i \notin half
    BY <1>2, PassedIsWhole DEF Handled
  <2> QED BY <2>2, <2>3, <2>4, <2>5
<1>5. Faithful'
  BY <1>1 DEF Faithful
<1>6. /\ Written' = Written
      /\ \A i : (Contested(i)' <=> Contested(i)) /\ (Pruned(i)' <=> Pruned(i))
  BY <1>1, SameSelection
<1>7. FilesCopied'
  BY <1>1, <1>4, <1>6 DEF FilesCopied, CopyInv
<1>8. DocumentsCopied'
  <2> SUFFICES ASSUME ~touched', NEW i \in Items,
                      Shares(KindOf[i])', i \in Wanted(KindOf[i])',
                      ~Protected(KindOf[i])', Passed(KindOf[i])'
               PROVE  shared'[i] = Render[target][KindOf[i]][source[i].main]
    BY <1>1 DEF DocumentsCopied
  <2>1. Shares(KindOf[i]) /\ i \in Wanted(KindOf[i]) /\ ~Protected(KindOf[i])
    BY <1>1, SameSelection
  <2>2. KindOf[i] \in params.kinds /\ KindOf[i] \in Kinds
    BY <2>1, AttributesAssumption DEF Wanted
  <2>3. Passed(KindOf[i]) \/ Phases[phase] = KindOf[i]
    BY <1>2, <2>2, PassedOn
  <2>4. Passed(KindOf[i]) => shared[i] = Render[target][KindOf[i]][source[i].main]
    BY <1>1, <2>1 DEF CopyInv, DocumentsCopied
  <2> QED BY <2>1, <2>3, <2>4
<1>9. CurrentFromStart'
  <2>1. CASE phase' = 0
    BY <2>1 DEF CurrentFromStart, Running
  <2>2. CASE disk' = disk
    BY <1>1, <1>4, <1>6, <2>2 DEF CurrentFromStart, CopyInv, PathOf, InPlugin, AsSkill, Same
  <2> QED BY <2>1, <2>2
<1>10. CompanionsCopied'
  <2> SUFFICES ASSUME ~touched', NEW i \in Written, KindOf[i] = "skill", Handled(i)',
                      source[i].side # Absent
               PROVE  \/ Contested(i) \/ Pruned(i)
                      \/ disk'[PathOf(target, i)].side = source[i].side
                      \/ target # "cursor" /\ i \in current
    BY <1>1, <1>6 DEF CompanionsCopied, PathOf, InPlugin, AsSkill
  <2>1. Handled(i) /\ i \notin half /\ ~touched
    BY <1>1, <1>4
  <2>2. \/ Contested(i) \/ Pruned(i)
        \/ disk[PathOf(target, i)].side = source[i].side
        \/ target # "cursor" /\ i \in current
    BY <2>1 DEF CopyInv, CompanionsCopied
  <2> QED BY <2>2
<1> QED BY <1>5, <1>7, <1>8, <1>9, <1>10 DEF CopyInv

\* An edit by someone else, and the end of the sync by an error, leave
\* nothing to be shown.
LEMMA NothingToShow ==
    ASSUME CopyInv, TypeInv', touched' \/ Abort
    PROVE  CopyInv'
<1>1. CASE touched'
  BY <1>1 DEF CopyInv, Faithful, FilesCopied, DocumentsCopied, CurrentFromStart, CompanionsCopied
<1>2. CASE Abort
  <2>1. phase' = 0 /\ stage' = "read" /\ result' = "failed"
    BY <1>2 DEF Abort
  <2>2. \A k : ~Passed(k)'
    BY <2>1 DEF Passed, Running
  <2>3. \A i : ~Handled(i)'
    BY <2>1, <2>2 DEF Handled
  <2> QED BY <2>1, <2>2, <2>3
          DEF CopyInv, Faithful, FilesCopied, DocumentsCopied, CurrentFromStart, CompanionsCopied,
              Running
<1> QED BY <1>1, <1>2

\* A sync that starts has passed no phase it is to go through.
LEMMA StartAnew ==
    ASSUME TypeInv, NEW prm \in ParamSets, Start(prm)
    PROVE  /\ stage' = "read" /\ params' = prm /\ batch' = {} /\ half' = {} /\ half = {}
           /\ ~Running /\ touched' = FALSE
           /\ UNCHANGED <<target, source, rich, disk, shared, damaged, flag, manifest>>
           /\ \A k \in Kinds : k \in prm.kinds => ~Passed(k)'
           /\ phase' = 0 => "asset" \notin prm.kinds
<1>1. /\ stage' = "read" /\ params' = prm /\ batch' = {} /\ half' = {} /\ half = {}
      /\ ~Running /\ touched' = FALSE
      /\ UNCHANGED <<target, source, rich, disk, shared, damaged, flag, manifest>>
  BY DEF Start, TypeInv, TypeOK, Stages, Running, sides, files
<1>2. /\ phase' = Following(0, prm) /\ phase' \in 0 .. 8
      /\ \A m \in 1 .. 8 : Phases[m] \in prm.kinds => phase' # 0 /\ phase' <= m
  BY FollowingIsNext DEF Start
<1>3. ASSUME NEW k \in Kinds, k \in prm.kinds PROVE ~Passed(k)'
  <2>1. PICK n \in 1 .. 8 : Phases[n] = k
    BY PhaseOfKind
  <2>2. phase' # 0 /\ phase' <= n
    BY <1>2, <1>3, <2>1
  <2>3. \A q \in 1 .. 8 : q <= n => \A m \in 1 .. q - 1 : Phases[m] # k
    BY <2>1, PhaseOfKind
  <2>4. phase' \in 1 .. 8
    BY <1>2, <2>2
  <2> QED BY <2>2, <2>3, <2>4 DEF Passed, Running
<1>4. phase' = 0 => "asset" \notin prm.kinds
  <2>1. Phases[8] = "asset"
    BY PhaseOfKind
  <2> QED BY <1>2, <2>1
<1> QED BY <1>1, <1>3, <1>4

\* Start: no phase has been passed, and what is current is noted.
LEMMA StartCopies == ASSUME CopyInv, NEW prm \in ParamSets, Start(prm), TypeInv' PROVE CopyInv'
<1>1. /\ stage' = "read" /\ params' = prm
      /\ UNCHANGED <<target, source, rich, disk>>
  BY StartAnew DEF CopyInv
<1>2. \A i \in Items : (KindOf[i] \in prm.kinds) => ~Passed(KindOf[i])'
  BY StartAnew, AttributesAssumption DEF CopyInv
<1>3. \A i \in Written' : i \in Items /\ KindOf[i] \in prm.kinds
  BY <1>1 DEF Written, Wanted
<1>4. \A i \in Written' : ~Handled(i)'
  BY <1>1, <1>2, <1>3 DEF Handled
<1>5. Faithful'
  BY <1>1 DEF Faithful
<1>6. FilesCopied' /\ CompanionsCopied'
  BY <1>4 DEF FilesCopied, CompanionsCopied
<1>7. DocumentsCopied'
  BY <1>1, <1>2 DEF DocumentsCopied, Wanted
<1>8. CurrentFromStart'
  <2>1. current' = {i \in Listed("skill") : Same(target, disk[PathOf(target, i)], i, source[i])}
    BY DEF Start
  <2>2. \A i \in Written' : KindOf[i] = "skill" => i \in Listed("skill")
    <3> SUFFICES ASSUME NEW i \in Written', KindOf[i] = "skill" PROVE i \in Listed("skill")
      OBVIOUS
    <3>1. i \in Selected("skill")'
      BY DEF Written, Wanted
    <3> QED BY <1>1, <3>1 DEF Selected, FirstOfEachName, Listed
  <2> QED BY <1>1, <2>1, <2>2 DEF CurrentFromStart, Same, PathOf, InPlugin, AsSkill
<1> QED BY <1>5, <1>6, <1>7, <1>8 DEF CopyInv

\* ReadPhase: an item that is not to be written is there already.
LEMMA ReadPhaseCopies ==
    ASSUME CopyInv, NEW k \in Kinds, ReadPhase(k), ~touched, TypeInv'
    PROVE  CopyInv'
<1>1. At(k) /\ stage = "read" /\ half = {} /\ Running /\ Phases[phase] = k /\ k \in params.kinds
  BY DEF ReadPhase, At, CopyInv, TypeInv, Stages
<1>2. CASE ~(Writes(k) \/ Shares(k))
  <2>1. Advance /\ disk' = disk /\ shared' = shared /\ target' = target
    BY <1>2 DEF ReadPhase, files, Advance
  <2>2. \A i \in Written : KindOf[i] # k
    BY <1>2, WrittenIsWanted DEF CopyInv
  <2>3. \A i : Arrived(i) => Arrived(i)'
    BY <2>1 DEF Arrived, Advance, Protected, Existing, NamesRead, PathOf, InPlugin, AsSkill, sides
  <2> QED BY <1>1, <1>2, <2>1, <2>2, <2>3, AdvanceKeeps
<1>3. CASE Writes(k) \/ Shares(k)
  <2>1. /\ stage' = "write" /\ batch' = ToWrite(k) /\ half' = {}
        /\ read' = [i \in Items |-> IF i \in batch' THEN source[i] ELSE Nothing]
        /\ UNCHANGED <<target, source, rich, disk, shared, params, phase, result, touched, current>>
    BY <1>1, <1>3 DEF ReadPhase, sides, files, history
  <2>2. batch' \subseteq Selected(k) /\ batch' \subseteq Items
    BY <2>1, SelectedIsListed DEF CopyInv, TypeInv
  <2>3. /\ \A q : Passed(q)' <=> Passed(q)
        /\ \A i \in Items : Handled(i)' <=> (Passed(KindOf[i]) \/ (KindOf[i] = k /\ i \notin batch'))
        /\ \A i \in Items : Handled(i) <=> Passed(KindOf[i])
    BY <1>1, <2>1 DEF Handled, Passed, Running
  <2>4. /\ Written' = Written
        /\ \A q : /\ Selected(q)' = Selected(q) /\ Wanted(q)' = Wanted(q)
                 /\ (Protected(q)' <=> Protected(q)) /\ (Writes(q)' <=> Writes(q))
                 /\ (Shares(q)' <=> Shares(q))
        /\ \A i : (Contested(i)' <=> Contested(i)) /\ (Pruned(i)' <=> Pruned(i))
    BY <2>1, SameSelection
  <2>5. Faithful'
    <3>1. \A i \in batch' : read'[i] = source[i]
      BY <2>1, <2>2
    <3>2. ~Protected(k) => Selected(k) \subseteq batch'
      BY <2>1 DEF ToWrite
    <3> QED BY <1>1, <2>1, <2>2, <2>4, <3>1, <3>2 DEF Faithful
  <2>6. \A i \in Written : (KindOf[i] = k /\ i \notin batch') => Arrived(i) /\ k # "skill"
    <3> SUFFICES ASSUME NEW i \in Written, KindOf[i] = k, i \notin batch'
                 PROVE  Arrived(i) /\ k # "skill"
      OBVIOUS
    <3>1. i \in Selected(k)
      BY WrittenIsWanted DEF CopyInv
    <3>2. Protected(k) /\ NameOf[i] \in Existing(k)
      BY <2>1, <3>1 DEF ToWrite
    <3>3. k \in {"command", "instruction"}
      BY <3>2 DEF Protected, CopyInv, TypeInv, TypeOK, SyncParams
    <3> QED BY <3>2, <3>3 DEF Arrived
  <2>7. \A i : Arrived(i)' <=> Arrived(i)
    BY <2>1, <2>4 DEF Arrived, Existing, NamesRead, PathOf, InPlugin, AsSkill
  <2>8. \A i \in Written : i \in Items
    BY DEF Written
  <2>9. FilesCopied'
    BY <2>1, <2>3, <2>4, <2>6, <2>7, <2>8 DEF FilesCopied, CopyInv
  <2>10. DocumentsCopied'
    BY <2>1, <2>3, <2>4 DEF DocumentsCopied, CopyInv
  <2>11. CurrentFromStart'
    BY <1>1, <2>1, <2>3, <2>4, <2>8
       DEF CurrentFromStart, CopyInv, Running, Same, PathOf, InPlugin, AsSkill
  <2>12. CompanionsCopied'
    <3> SUFFICES ASSUME NEW i \in Written, KindOf[i] = "skill", Handled(i)', source[i].side # Absent
                 PROVE  \/ Contested(i) \/ Pruned(i)
                        \/ disk[PathOf(target, i)].side = source[i].side
                        \/ target # "cursor" /\ i \in current
      BY <2>1, <2>4 DEF CompanionsCopied, PathOf, InPlugin, AsSkill
    <3>1. Handled(i) /\ i \notin half
      BY <1>1, <2>3, <2>6, <2>8
    <3> QED BY <3>1 DEF CompanionsCopied, CopyInv
  <2> QED BY <2>5, <2>9, <2>10, <2>11, <2>12 DEF CopyInv
<1> QED BY <1>2, <1>3

\* Writing does not take a name away from the target.
LEMMA ArrivedStays ==
    ASSUME TypeInv, NEW i \in Items, Writes(KindOf[i]), UNCHANGED <<target, source, params>>,
           \A q \in Paths : disk[q].main # Absent => disk'[q].main # Absent,
           disk'[PathOf(target, i)].main = disk[PathOf(target, i)].main,
           Arrived(i)
    PROVE  Arrived(i)'
<1>1. ~(KindOf[i] = "instruction" /\ target = "claude")
  BY DEF Writes, AdapterOf, ClaudeAdapter
<1>2. NamesRead(disk, KindOf[i]) \subseteq NamesRead(disk', KindOf[i])
  BY DEF NamesRead
<1>3. /\ Existing(KindOf[i]) = NamesRead(disk, KindOf[i])
      /\ Existing(KindOf[i])' = NamesRead(disk', KindOf[i])
  BY <1>1 DEF Existing
<1>4. PathOf(target, i)' = PathOf(target, i)
  BY DEF PathOf, InPlugin, AsSkill
<1> QED BY <1>2, <1>3, <1>4 DEF Arrived, Protected

\* WriteItem.
LEMMA WriteItemCopies ==
    ASSUME CopyInv, NEW k \in Kinds, NEW i \in Items, WriteItem(k, i), ~touched, TypeInv'
    PROVE  CopyInv'
<1> DEFINE p == PathOf(target, i)
<1> USE DEF CopyInv
<1>1. /\ UNCHANGED <<target, source, rich, shared, params, phase, stage, read, result, touched, current>>
      /\ Running /\ Phases[phase] = k /\ k \in params.kinds /\ Writes(k)
      /\ stage = "write" /\ half = {} /\ i \in batch /\ batch' = batch \ {i}
      /\ half' = IF WritesSide(target, disk[p], i, read[i]) THEN {i} ELSE {}
      /\ disk' = [disk EXCEPT ![p].main = Render[target][k][read[i].main]]
  BY DEF WriteItem, At, sides, history, TypeInv, Stages
<1>2. /\ read[i] = source[i] /\ i \in Selected(k) /\ KindOf[i] = k
      /\ read[i].main \in Texts /\ i \in Written
  BY <1>1, SelectedIsWritten DEF Faithful, TypeInv, Stages
<1>3. target \in Targets /\ disk \in [Paths -> File] /\ p \in Paths
      /\ \A j \in Items : PathOf(target, j) \in Paths
  BY PathIsPath DEF TypeInv, TypeOK
<1>4. Render[target][k][read[i].main] \in Texts
  BY <1>2, <1>3, RenderIsText
<1>5. /\ \A q \in Paths : disk'[q].main = IF q = p THEN Render[target][k][read[i].main] ELSE disk[q].main
      /\ \A q \in Paths : disk'[q].side = disk[q].side
  <2> HIDE DEF p
  <2> DEFINE x == Render[target][k][read[i].main]
  <2>2. x \in Texts \cup {Absent, Torn}
    BY <1>4
  <2> HIDE DEF x
  <2>3. \A q \in Paths : /\ [disk EXCEPT ![p].main = x][q].main = IF q = p THEN x ELSE disk[q].main
                         /\ [disk EXCEPT ![p].main = x][q].side = disk[q].side
    BY <1>3, <2>2, FileUpdate
  <2> USE DEF x
  <2> QED BY <1>1, <2>3
<1>6. \A j \in Written : (PathOf(target, j) = p /\ j # i) => Contested(j)
  BY <1>2 DEF Contested
<1>7. /\ \A q : Passed(q)' <=> Passed(q)
      /\ \A j \in Items : Handled(j)' <=> (Handled(j) \/ j = i)
      /\ ~Handled(i)
  <2>1. \A q : Passed(q)' <=> Passed(q)
    BY <1>1 DEF Passed, Running
  <2>2. phase \in 1 .. 8
    BY <1>1, PhaseOfKind DEF TypeInv, TypeOK, Running
  <2>3. ~Passed(k)
    BY <1>1, <2>2, PhaseOfKind DEF Passed
  <2> QED BY <1>1, <1>2, <2>1, <2>3 DEF Handled
<1>8. /\ Written' = Written
      /\ \A q : /\ Selected(q)' = Selected(q) /\ Wanted(q)' = Wanted(q)
               /\ (Protected(q)' <=> Protected(q)) /\ (Writes(q)' <=> Writes(q))
               /\ (Shares(q)' <=> Shares(q))
      /\ \A j : (Contested(j)' <=> Contested(j)) /\ (Pruned(j)' <=> Pruned(j))
  BY <1>1, SameSelection
<1>9. \A j \in Written : j \in Items /\ Writes(KindOf[j])
  BY WrittenIsWanted
<1>10. \A j : PathOf(target, j)' = PathOf(target, j)
  BY <1>1 DEF PathOf, InPlugin, AsSkill
<1>11. Faithful'
  <2>1. ~Shares(k)
    BY <1>1, <1>3, FilesAreNotDocuments
  <2>2. \A j \in half' : j = i
    BY <1>1
  <2> QED BY <1>1, <1>2, <1>8, <2>1, <2>2 DEF Faithful
<1>12. FilesCopied'
  <2> SUFFICES ASSUME NEW j \in Written, Handled(j)', ~Contested(j), ~Pruned(j)
               PROVE  Arrived(j)'
    BY <1>8 DEF FilesCopied
  <2>1. CASE j = i
    BY <1>1, <1>2, <1>3, <1>5, <1>10, <2>1 DEF Arrived
  <2>2. CASE j # i
    <3>1. PathOf(target, j) # p /\ Handled(j) /\ j \in Items
      BY <1>6, <1>7, <1>9, <2>2
    <3>2. Arrived(j)
      BY <3>1 DEF FilesCopied
    <3>3. disk'[PathOf(target, j)].main = disk[PathOf(target, j)].main
      BY <1>3, <1>5, <3>1
    <3>4. \A q \in Paths : disk[q].main # Absent => disk'[q].main # Absent
      BY <1>4, <1>5, MarkersAssumption
    <3> QED BY <1>1, <1>9, <3>1, <3>2, <3>3, <3>4, ArrivedStays
  <2> QED BY <2>1, <2>2
<1>13. DocumentsCopied'
  BY <1>1, <1>7, <1>8 DEF DocumentsCopied
<1>14. CurrentFromStart'
  <2> SUFFICES ASSUME NEW j \in Written, KindOf[j] = "skill", ~Handled(j)',
                      Same(target, disk'[PathOf(target, j)], j, source[j])
               PROVE  Contested(j) \/ j \in current
    BY <1>1, <1>8, <1>10 DEF CurrentFromStart, Same
  <2>1. j # i /\ ~Handled(j)
    BY <1>7, <1>9
  <2>2. CASE PathOf(target, j) = p
    BY <1>6, <2>1, <2>2
  <2>3. CASE PathOf(target, j) # p
    <3>1. disk'[PathOf(target, j)].main = disk[PathOf(target, j)].main
      BY <1>3, <1>5, <1>9, <2>3
    <3>2. Same(target, disk[PathOf(target, j)], j, source[j])
      BY <3>1 DEF Same
    <3> QED BY <1>1, <2>1, <3>2 DEF CurrentFromStart
  <2> QED BY <2>2, <2>3
<1>15. CompanionsCopied'
  <2> SUFFICES ASSUME NEW j \in Written, KindOf[j] = "skill", Handled(j)', j \notin half',
                      source[j].side # Absent
               PROVE  \/ Contested(j) \/ Pruned(j)
                      \/ disk'[PathOf(target, j)].side = source[j].side
                      \/ target # "cursor" /\ j \in current
    BY <1>1, <1>8, <1>10 DEF CompanionsCopied
  <2>1. CASE j = i
    <3>1. target # "cursor" /\ Same(target, disk[p], i, source[i])
      BY <1>1, <1>2, <2>1 DEF WritesSide
    <3>2. Contested(i) \/ i \in current
      BY <1>1, <1>2, <1>7, <2>1, <3>1 DEF CurrentFromStart
    <3> QED BY <2>1, <3>1, <3>2
  <2>2. CASE j # i
    <3>1. Handled(j) /\ j \notin half
      BY <1>1, <1>7, <1>9, <2>2
    <3> QED BY <1>3, <1>5, <1>9, <3>1 DEF CompanionsCopied
  <2> QED BY <2>1, <2>2
<1> QED BY <1>11, <1>12, <1>13, <1>14, <1>15

\* WriteSide.
LEMMA WriteSideCopies ==
    ASSUME CopyInv, NEW i \in Items, WriteSide(i), ~touched, TypeInv'
    PROVE  CopyInv'
<1> DEFINE p == PathOf(target, i)
<1> USE DEF CopyInv
<1>1. /\ UNCHANGED <<target, source, rich, shared, params, phase, stage, batch, read, result, touched, current>>
      /\ i \in half /\ half' = {} /\ disk' = [disk EXCEPT ![p].side = read[i].side]
  BY DEF WriteSide, sides, history
<1>2. stage = "write" /\ Running
  BY <1>1 DEF TypeInv, TypeOK, Stages
<1>3. read[i] = source[i] /\ i \in Written /\ \A j \in half : j = i
  BY <1>1, <1>2 DEF Faithful
<1>4. disk \in [Paths -> File] /\ p \in Paths /\ \A j \in Items : PathOf(target, j) \in Paths
  BY PathIsPath DEF TypeInv, TypeOK
<1>5. \A q \in Paths : /\ disk'[q].main = disk[q].main
                       /\ disk'[q].side = IF q = p THEN source[i].side ELSE disk[q].side
  <2> DEFINE x == source[i].side
  <2>1. x \in Texts \cup {Absent, Torn} /\ disk' = [disk EXCEPT ![p].side = x]
    BY <1>1, <1>3 DEF TypeInv, TypeOK, Entry
  <2> HIDE DEF p, x
  <2>2. \A q \in Paths : /\ [disk EXCEPT ![p].side = x][q].side = IF q = p THEN x ELSE disk[q].side
                         /\ [disk EXCEPT ![p].side = x][q].main = disk[q].main
    BY <1>4, <2>1, FileUpdate
  <2>3. \A q \in Paths : disk'[q].main = disk[q].main /\ disk'[q].side = IF q = p THEN x ELSE disk[q].side
    BY <2>1, <2>2
  <2> USE DEF x
  <2> QED BY <2>3
<1>6. /\ \A q : Passed(q)' <=> Passed(q)
      /\ \A j : Handled(j)' <=> Handled(j)
  BY <1>1 DEF Passed, Running, Handled
<1>7. /\ Written' = Written
      /\ \A q : /\ Selected(q)' = Selected(q) /\ Wanted(q)' = Wanted(q)
               /\ (Protected(q)' <=> Protected(q)) /\ (Writes(q)' <=> Writes(q))
               /\ (Shares(q)' <=> Shares(q))
      /\ \A j : (Contested(j)' <=> Contested(j)) /\ (Pruned(j)' <=> Pruned(j))
  BY <1>1, SameSelection
<1>8. \A j \in Written : j \in Items /\ Writes(KindOf[j])
  BY WrittenIsWanted
<1>9. \A j : PathOf(target, j)' = PathOf(target, j)
  BY <1>1 DEF PathOf, InPlugin, AsSkill
<1>10. Faithful'
  BY <1>1, <1>7 DEF Faithful
<1>11. FilesCopied'
  <2> SUFFICES ASSUME NEW j \in Written, Arrived(j) PROVE Arrived(j)'
    BY <1>1, <1>6, <1>7 DEF FilesCopied
  <2> QED BY <1>1, <1>4, <1>5, <1>8, ArrivedStays
<1>12. DocumentsCopied'
  BY <1>1, <1>6, <1>7 DEF DocumentsCopied
<1>13. CurrentFromStart'
  BY <1>1, <1>2, <1>4, <1>5, <1>6, <1>7, <1>8, <1>9 DEF CurrentFromStart, Same
<1>14. CompanionsCopied'
  <2> SUFFICES ASSUME NEW j \in Written, KindOf[j] = "skill", Handled(j), source[j].side # Absent
               PROVE  \/ Contested(j) \/ Pruned(j)
                      \/ disk'[PathOf(target, j)].side = source[j].side
                      \/ target # "cursor" /\ j \in current
    BY <1>1, <1>6, <1>7, <1>9 DEF CompanionsCopied
  <2>1. CASE j = i
    BY <1>4, <1>5, <2>1
  <2>2. CASE j # i /\ PathOf(target, j) = p
    BY <1>3, <2>2 DEF Contested
  <2>3. CASE j # i /\ PathOf(target, j) # p
    <3>1. j \notin half
      BY <1>3, <2>3
    <3>2. disk'[PathOf(target, j)].side = disk[PathOf(target, j)].side
      BY <1>4, <1>5, <1>8, <2>3
    <3> QED BY <3>1, <3>2 DEF CompanionsCopied
  <2> QED BY <2>1, <2>2, <2>3
<1> QED BY <1>10, <1>11, <1>12, <1>13, <1>14

\* EndFiles.
LEMMA EndFilesCopies == ASSUME CopyInv, NEW k \in Kinds, EndFiles(k), ~touched, TypeInv' PROVE CopyInv'
<1>1. /\ Running /\ Phases[phase] = k /\ stage = "write" /\ Writes(k) /\ batch = {} /\ half = {}
      /\ Advance /\ disk' = disk /\ shared' = shared /\ UNCHANGED <<target, source, params>>
  BY DEF EndFiles, At, Advance, sides
<1>2. \A i : KindOf[i] = Phases[phase] => Handled(i) /\ i \notin half
  BY <1>1 DEF Handled
<1>3. ~Shares(k)
  BY <1>1, FilesAreNotDocuments DEF CopyInv, TypeInv, TypeOK
<1>4. \A i : Arrived(i) => Arrived(i)'
  BY <1>1 DEF Arrived, Protected, Existing, NamesRead, PathOf, InPlugin, AsSkill
<1> QED BY <1>1, <1>2, <1>3, <1>4, AdvanceKeeps

\* WriteDocument.
LEMMA WriteDocumentCopies ==
    ASSUME CopyInv, NEW k \in Kinds, WriteDocument(k), ~touched, TypeInv'
    PROVE  CopyInv'
<1>1. /\ Running /\ Phases[phase] = k /\ stage = "write" /\ Shares(k)
      /\ Advance /\ disk' = disk
      /\ shared' = Documented(target, k, k \in damaged, shared, batch, read)
      /\ UNCHANGED <<target, source, params>>
  BY DEF WriteDocument, At, Advance, sides
<1>2. ~Writes(k)
  BY <1>1, FilesAreNotDocuments DEF CopyInv, TypeInv, TypeOK
<1>3. \A i \in Written : KindOf[i] # Phases[phase]
  BY <1>1, <1>2, WrittenIsWanted DEF CopyInv
<1>4. \A i \in Written : Arrived(i) => Arrived(i)'
  <2> SUFFICES ASSUME NEW i \in Written, Arrived(i) PROVE Arrived(i)'
    OBVIOUS
  <2> QED BY <1>1, WrittenIsWanted, ArrivedStays DEF CopyInv
<1>5. \A i \in Items :
        (Shares(KindOf[i]) /\ i \in Wanted(KindOf[i]) /\ ~Protected(KindOf[i])
            /\ (KindOf[i] = k \/ shared[i] = Render[target][KindOf[i]][source[i].main]))
        => shared'[i] = Render[target][KindOf[i]][source[i].main]
  <2> SUFFICES ASSUME NEW i \in Items, i \in Wanted(KindOf[i]), ~Protected(KindOf[i]),
                      KindOf[i] = k \/ shared[i] = Render[target][KindOf[i]][source[i].main]
               PROVE  shared'[i] = Render[target][KindOf[i]][source[i].main]
    OBVIOUS
  <2>1. \A j \in batch : KindOf[j] = k /\ read[j] = source[j]
    BY <1>1 DEF CopyInv, TypeInv, Stages, Faithful
  <2>2. CASE KindOf[i] = k
    <3>1. i \in Selected(k)
      BY <2>2 DEF Wanted
    <3>2. i \in batch
      BY <1>1, <2>2, <3>1 DEF CopyInv, Faithful
    <3>3. ~KeepsAll(target, k, batch)
      BY <3>2 DEF KeepsAll
    <3>4. shared'[i] = Render[target][k][read[i].main]
      BY <1>1, <3>2, <3>3 DEF Documented
    <3> QED BY <2>1, <2>2, <3>2, <3>4
  <2>3. CASE KindOf[i] # k
    <3>1. i \notin batch
      BY <2>1, <2>3
    <3>2. shared'[i] = shared[i]
      BY <1>1, <2>3, <3>1 DEF Documented
    <3> QED BY <2>3, <3>2
  <2> QED BY <2>2, <2>3
<1> QED BY <1>1, <1>3, <1>4, <1>5, AdvanceKeeps

\* WriteAssets, wholly or partly: only what is Pruned goes.
LEMMA AssetsCopies ==
    ASSUME CopyInv, WriteAssets \/ (AssetsPartly /\ Advance), ~touched, TypeInv'
    PROVE  CopyInv'
<1>1. /\ Running /\ Phases[phase] = "asset" /\ Advance /\ shared' = shared
      /\ UNCHANGED <<target, source, rich, params>>
  BY DEF WriteAssets, AssetsPartly, At, Advance, sides
<1>2. \/ disk' = disk
      \/ /\ target = "cursor" /\ Assets # {}
         /\ \E gone \in SUBSET (Plugins \ Registered) : disk' = Without(gone)
  BY DEF WriteAssets, AssetsPartly
<1>3. "asset" \in params.kinds /\ phase = 8 /\ phase' = 0
  <2>1. phase \in 1 .. 8
    BY <1>1, PhaseOfKind DEF CopyInv, TypeInv, TypeOK, Running
  <2>2. phase = 8
    BY <1>1, <2>1, PhaseOfKind
  <2>3. phase' = Following(8, params)
    BY <1>1, <2>2 DEF Advance
  <2>4. Following(8, params) \in 0 .. 8 /\ (Following(8, params) # 0 => Following(8, params) > 8)
    BY FollowingIsNext
  <2>5. "asset" \in params.kinds
    BY <1>1 DEF CopyInv, TypeInv, Stages
  <2> QED BY <2>2, <2>3, <2>4, <2>5
<1>4. \A i \in Items : KindOf[i] # Phases[phase]
  BY <1>1, AttributesAssumption DEF Kinds
<1>5. \A i \in Written : i \in Items /\ Writes(KindOf[i])
  BY WrittenIsWanted DEF CopyInv
<1>6. \A i \in Items : disk'[PathOf(target, i)] = disk[PathOf(target, i)] \/ Pruned(i)
  <2> SUFFICES ASSUME NEW i \in Items, ~Pruned(i), disk' # disk
               PROVE  disk'[PathOf(target, i)] = disk[PathOf(target, i)]
    OBVIOUS
  <2>1. PICK gone \in SUBSET (Plugins \ Registered) : disk' = Without(gone)
    BY <1>2
  <2>2. /\ PathOf(target, i) \in Paths
        /\ PathOf(target, i)[1] \in Plugins => InPlugin(target, i) /\ PathOf(target, i)[1] = PluginOf[i]
    BY PathIsPath DEF CopyInv, TypeInv, TypeOK
  <2>3. PathOf(target, i)[1] \notin gone
    BY <1>2, <1>3, <2>1, <2>2 DEF Pruned, Swept
  <2> QED BY <2>1, <2>2, <2>3 DEF Without
<1>7. \A i \in Written : Arrived(i) => Arrived(i)' \/ Pruned(i)
  <2> SUFFICES ASSUME NEW i \in Written, Arrived(i), ~Pruned(i) PROVE Arrived(i)'
    OBVIOUS
  <2>1. i \in Items /\ Writes(KindOf[i]) /\ KindOf[i] \in Kinds
    BY WrittenIsWanted DEF CopyInv
  <2>2. disk'[PathOf(target, i)] = disk[PathOf(target, i)]
    BY <1>6, <2>1
  <2>3. \A q \in Paths : q[1] = KindOf[i] => disk'[q] = disk[q]
    <3>1. KindOf[i] \notin Plugins
      BY <2>1, MarkersAssumption
    <3> QED BY <1>2, <3>1 DEF Without
  <2>4. NamesRead(disk', KindOf[i]) = NamesRead(disk, KindOf[i])
    BY <2>3 DEF NamesRead
  <2>5. ~(KindOf[i] = "instruction" /\ target = "claude")
    BY <2>1 DEF Writes, AdapterOf, ClaudeAdapter
  <2>6. /\ Existing(KindOf[i]) = NamesRead(disk, KindOf[i])
        /\ Existing(KindOf[i])' = NamesRead(disk', KindOf[i])
    BY <1>1, <2>5 DEF Existing
  <2>7. PathOf(target, i)' = PathOf(target, i)
    BY <1>1 DEF PathOf, InPlugin, AsSkill
  <2> QED BY <1>1, <2>2, <2>4, <2>6, <2>7 DEF Arrived, Protected
<1> QED BY <1>1, <1>3, <1>4, <1>5, <1>6, <1>7, AdvanceKeeps

\* Initially no sync has succeeded.
LEMMA CopyInit == Init => CopyInv
<1> SUFFICES ASSUME Init PROVE CopyInv
  OBVIOUS
<1>1. stage = "read" /\ ~Running /\ result # "ok"
  BY DEF Init, Running
<1>2. \A i : ~Handled(i) /\ ~Passed(KindOf[i])
  BY <1>1 DEF Handled, Passed
<1> QED BY <1>1, <1>2, TypeInit
        DEF CopyInv, Faithful, FilesCopied, DocumentsCopied, CurrentFromStart, CompanionsCopied

\* Every step keeps what was copied.
LEMMA CopyStep == CopyInv /\ [Next]_vars => CopyInv'
<1> SUFFICES ASSUME CopyInv, [Next]_vars PROVE CopyInv'
  OBVIOUS
<1>1. TypeInv'
  BY TypeStep DEF CopyInv
<1>2. CASE touched'
  BY <1>1, <1>2, NothingToShow
<1>3. CASE \E p \in ParamSets : Start(p)
  BY <1>1, <1>3, StartCopies
<1>4. CASE Environment
  BY <1>1, <1>4, EnvironmentType, NothingToShow DEF CopyInv
<1>5. CASE SyncStep /\ ~touched'
  <2>1. ASSUME NEW k \in Kinds, ReadPhase(k) PROVE CopyInv'
    <3>1. ~touched
      BY <1>5, <2>1 DEF ReadPhase, Advance, history
    <3> QED BY <1>1, <2>1, <3>1, ReadPhaseCopies
  <2>2. ASSUME NEW k \in Kinds, NEW i \in Items, WriteItem(k, i) PROVE CopyInv'
    <3>1. ~touched
      BY <1>5, <2>2 DEF WriteItem, history
    <3> QED BY <1>1, <2>2, <3>1, WriteItemCopies
  <2>3. ASSUME NEW k \in Kinds, EndFiles(k) PROVE CopyInv'
    <3>1. ~touched
      BY <1>5, <2>3 DEF EndFiles, Advance, history
    <3> QED BY <1>1, <2>3, <3>1, EndFilesCopies
  <2>4. ASSUME NEW k \in Kinds, WriteDocument(k) PROVE CopyInv'
    <3>1. ~touched
      BY <1>5, <2>4 DEF WriteDocument, Advance, history
    <3> QED BY <1>1, <2>4, <3>1, WriteDocumentCopies
  <2>5. ASSUME NEW k \in Kinds, ParseError(k) PROVE CopyInv'
    BY <1>1, <2>5, NothingToShow DEF ParseError
  <2>6. ASSUME NEW i \in Items, WriteSide(i) PROVE CopyInv'
    <3>1. ~touched
      BY <1>5, <2>6 DEF WriteSide, history
    <3> QED BY <1>1, <2>6, <3>1, WriteSideCopies
  <2>7. ASSUME WriteAssets PROVE CopyInv'
    <3>1. ~touched
      BY <1>5, <2>7 DEF WriteAssets, Advance, history
    <3> QED BY <1>1, <2>7, <3>1, AssetsCopies
  <2> QED BY <1>5, <2>1, <2>2, <2>3, <2>4, <2>5, <2>6, <2>7 DEF SyncStep
<1>6. CASE Error /\ ~touched'
  <2>1. CASE Abort
    BY <1>1, <2>1, NothingToShow
  <2>2. CASE AssetsPartly /\ Advance
    <3>1. ~touched
      BY <1>6, <2>2 DEF Advance, history
    <3> QED BY <1>1, <2>2, <3>1, AssetsCopies
  <2>3. Abort \/ (AssetsPartly /\ Advance)
    BY <1>6 DEF Error, Fail, TearItem, TearDocument, AssetsPartly
  <2> QED BY <2>1, <2>2, <2>3
<1>7. CASE UNCHANGED vars
  <2>1. UNCHANGED <<target, source, rich, disk, shared, params, phase, stage, batch, read, half,
                    result, touched, current>>
    BY <1>7 DEF vars, sides, files, run, history
  <2>2. /\ \A q : Passed(q)' <=> Passed(q)
        /\ \A j : (Handled(j)' <=> Handled(j)) /\ (Arrived(j)' <=> Arrived(j))
                  /\ PathOf(target, j)' = PathOf(target, j)
    BY <2>1 DEF Passed, Running, Handled, Arrived, Protected, Existing, NamesRead, PathOf, InPlugin, AsSkill
  <2>3. Faithful' /\ FilesCopied' /\ DocumentsCopied'
    BY <2>1, <2>2, SameSelection DEF CopyInv, Faithful, FilesCopied, DocumentsCopied
  <2>4. CurrentFromStart' /\ CompanionsCopied'
    BY <2>1, <2>2, SameSelection DEF CopyInv, CurrentFromStart, CompanionsCopied, Running, Same
  <2> QED BY <1>1, <2>3, <2>4 DEF CopyInv
<1> QED BY <1>2, <1>3, <1>4, <1>5, <1>6, <1>7 DEF Next

\* A sync that reports success has brought every item to the target, whatever
\* failed, was torn or was cut short before it.
THEOREM CompletedSyncsCopy == Spec => []CompletedSyncCopies
<1>1. CopyInv => CompletedSyncCopies
  <2> SUFFICES ASSUME CopyInv, Undisturbed PROVE CompletedSyncCopies
    BY DEF CompletedSyncCopies
  <2>1. \A k : Passed(k)
    BY DEF Undisturbed, Passed, Running
  <2>2. \A i : Handled(i)
    BY <2>1 DEF Handled
  <2> QED BY <2>1, <2>2 DEF CompletedSyncCopies, Undisturbed, CopyInv, FilesCopied, DocumentsCopied
<1> QED BY <1>1, CopyInit, CopyStep, PTL DEF Spec

\* And the files next to SKILL.md: always on Cursor, elsewhere where SKILL.md
\* was not current when the sync began.
THEOREM CompanionsAlwaysFollow == Spec => []CompanionsFollowTheirSkill
<1>1. CopyInv => CompanionsFollowTheirSkill
  <2> SUFFICES ASSUME CopyInv, Undisturbed PROVE CompanionsFollowTheirSkill
    BY DEF CompanionsFollowTheirSkill
  <2>1. \A i : Handled(i)
    BY DEF Undisturbed, Handled, Passed, Running
  <2>2. half = {}
    BY DEF Undisturbed, CopyInv, TypeInv, TypeOK, Stages, Running
  <2> QED BY <2>1, <2>2 DEF CompanionsFollowTheirSkill, Undisturbed, CopyInv, CompanionsCopied
<1> QED BY <1>1, CopyInit, CopyStep, PTL DEF Spec

-----------------------------------------------------------------------------
(* Repeating a sync *)

\* Only skills have files next to them.
Companions == \A i \in Items : source[i].side # Absent => KindOf[i] = "skill"

\* Kinds that switch the skills feature of Codex on.
Enables(k) == target = "codex" /\ (k = "skill" \/ (k = "agent" /\ Selected(k) # {}))

\* Writing the kind to its document once more changes nothing.
DocumentSettled(k) ==
    /\ Documented(target, k, k \in damaged, shared, Selected(k), source) = shared
    /\ KeepsAll(target, k, Selected(k)) \/ DocumentOf(target, k) \notin damaged

KindSettled(k) == (Enables(k) => flag) /\ (Shares(k) => DocumentSettled(k))

\* The directory of a skill has its manifest, or goes.
Manifested(i) ==
    InPlugin(target, i) =>
        SafePlugin[PluginOf[i]] \in manifest \/ Swept(SafePlugin[PluginOf[i]])

RegistrySettled ==
    (target = "cursor" /\ "asset" \in params.kinds /\ Assets # {}) => Manifests \subseteq manifest

FileSettled(i) ==
    /\ Arrived(i)
    /\ (target = "cursor" /\ source[i].side # Absent) =>
         disk[PathOf(target, i)].side = source[i].side

\* This sync repeats an undisturbed successful one.
Repeating == again /\ Running

\* What the batch holds, of documents and wherever nothing is skipped.
Exact ==
    (~touched /\ stage = "write") =>
        LET k == Phases[phase]
        IN  /\ Shares(k) => batch = Selected(k)
            /\ Shares(k) \/ ~Protected(k) =>
                 read = [i \in Items |-> IF i \in Selected(k) THEN source[i] ELSE Nothing]

KindsDone ==
    ~touched => \A k \in Kinds : (k \in params.kinds /\ (Passed(k) \/ Repeating)) => KindSettled(k)

ManifestsDone ==
    ~touched => \A i \in Written : (Handled(i) \/ Repeating) => Manifested(i)

RegistryDone == (Undisturbed \/ (Repeating /\ ~touched)) => RegistrySettled

\* What is still to be written is there already.
FilesDone ==
    (Repeating /\ ~touched) =>
        /\ \A i \in Written : Contested(i) \/ Pruned(i) \/ FileSettled(i)
        /\ \A i \in batch : Writes(KindOf[i]) =>
             \/ Contested(i) \/ Pruned(i)
             \/ disk[PathOf(target, i)].main = Render[target][KindOf[i]][source[i].main]
        /\ \A i \in half :
             source[i].side # Absent /\ (Contested(i) \/ Pruned(i) \/ target = "cursor")

RepeatInv ==
    /\ CopyInv
    /\ Companions
    /\ Exact
    /\ KindsDone
    /\ ManifestsDone
    /\ RegistryDone
    /\ FilesDone

\* Everything that decides what a sync is about depends on the source and the
\* call only.
LEMMA SameSubject ==
    ASSUME UNCHANGED <<target, source, rich, params>>
    PROVE  /\ Registered' = Registered /\ Manifests' = Manifests /\ Assets' = Assets
           /\ \A q : Swept(q)' <=> Swept(q)
           /\ \A k : Enables(k)' <=> Enables(k)
           /\ \A i : PathOf(target, i)' = PathOf(target, i)
           /\ \A i : InPlugin(target, i)' <=> InPlugin(target, i)
<1>1. Registered' = Registered /\ Manifests' = Manifests /\ Assets' = Assets
  BY DEF Registered, Manifests, Assets, Installed
<1>2. \A q : Swept(q)' <=> Swept(q)
  BY <1>1 DEF Swept
<1>3. \A k : Enables(k)' <=> Enables(k)
  BY SameSelection DEF Enables
<1> QED BY <1>1, <1>2, <1>3 DEF PathOf, InPlugin, AsSkill

\* A pruned item lies in a swept directory; kinds are never swept.
LEMMA PrunedIsSwept ==
    ASSUME TypeInv, NEW i \in Items
    PROVE  /\ Pruned(i) => Swept(PathOf(target, i)[1])
           /\ Swept(PathOf(target, i)[1]) => Pruned(i)
<1>1. target \in Targets
  BY DEF TypeInv, TypeOK
<1>2. PathOf(target, i)[1] \in Plugins => InPlugin(target, i) /\ PathOf(target, i)[1] = PluginOf[i]
  BY <1>1, PathIsPath
<1>3. InPlugin(target, i) => PathOf(target, i)[1] = PluginOf[i]
  BY <1>1, PathIsPath
<1> QED BY <1>2, <1>3 DEF Pruned, Swept

\* No instruction bears the name under which CLAUDE.md is read back.
NoClaudeItem == \A i \in Items : KindOf[i] = "instruction" => NameOf[i] # ClaudeDoc

\* Then a document is written with all that is selected.
LEMMA DocumentsAreWhole ==
    ASSUME TypeInv, NoClaudeItem, NEW k, Shares(k)
    PROVE  ToWrite(k) = Selected(k)
<1>1. CASE ~Protected(k)
  BY <1>1 DEF ToWrite
<1>2. CASE Protected(k)
  <2>1. k \in {"command", "instruction"}
    BY <1>2 DEF Protected, TypeInv, TypeOK, SyncParams
  <2>2. k = "instruction" /\ target = "claude"
    BY <2>1 DEF TypeInv, TypeOK, Targets, Shares, AdapterOf, ClaudeAdapter, CodexAdapter,
                CopilotAdapter, CursorAdapter
  <2>3. Existing(k) \subseteq {ClaudeDoc}
    BY <2>2 DEF Existing
  <2>4. \A i \in Selected(k) : i \in Items /\ KindOf[i] = "instruction"
    BY <2>2, SelectedIsListed DEF TypeInv
  <2>5. \A i \in Selected(k) : NameOf[i] \notin Existing(k)
    BY <2>3, <2>4 DEF NoClaudeItem
  <2> QED BY <1>2, <2>5 DEF ToWrite
<1> QED BY <1>1, <1>2

\* A document that was written is as it would be written again.
LEMMA DocumentOnceMore ==
    ASSUME NEW t, NEW k, NEW torn, NEW torn2, NEW old \in [Items -> Texts \cup {Absent}], NEW S, NEW texts,
           torn2 => torn, NEW new, new = Documented(t, k, torn, old, S, texts)
    PROVE  Documented(t, k, torn2, new, S, texts) = new
<1>1. CASE KeepsAll(t, k, S)
  BY <1>1 DEF Documented
<1>2. CASE ~KeepsAll(t, k, S)
  <2>1. new = [i \in Items |->
                 IF i \in S THEN Render[t][k][texts[i].main]
                 ELSE IF KindOf[i] # k \/ Merges(k, torn) THEN old[i] ELSE Absent]
    BY <1>2 DEF Documented
  <2>2. Documented(t, k, torn2, new, S, texts) =
           [i \in Items |->
                 IF i \in S THEN Render[t][k][texts[i].main]
                 ELSE IF KindOf[i] # k \/ Merges(k, torn2) THEN new[i] ELSE Absent]
    BY <1>2 DEF Documented
  <2>3. Merges(k, torn) => Merges(k, torn2)
    BY DEF Merges
  <2>4. \A i \in Items :
          (IF i \in S THEN Render[t][k][texts[i].main]
           ELSE IF KindOf[i] # k \/ Merges(k, torn2) THEN new[i] ELSE Absent) = new[i]
    BY <2>1, <2>3
  <2>5. new = [i \in Items |-> new[i]]
    BY <2>1
  <2> QED BY <2>2, <2>4, <2>5
<1> QED BY <1>1, <1>2

\* What another kind writes to its document is of no matter to this one.
LEMMA OtherDocument ==
    ASSUME NEW t, NEW k, NEW torn, NEW torn2, torn2 => torn, NEW S, NEW texts,
           NEW old \in [Items -> Texts \cup {Absent}], NEW new \in [Items -> Texts \cup {Absent}],
           \A i \in Items : KindOf[i] = k \/ i \in S => new[i] = old[i],
           Documented(t, k, torn, old, S, texts) = old
    PROVE  Documented(t, k, torn2, new, S, texts) = new
<1>1. CASE KeepsAll(t, k, S)
  BY <1>1 DEF Documented
<1>2. CASE ~KeepsAll(t, k, S)
  <2>1. \A i \in Items : old[i] =
                 IF i \in S THEN Render[t][k][texts[i].main]
                 ELSE IF KindOf[i] # k \/ Merges(k, torn) THEN old[i] ELSE Absent
    BY <1>2 DEF Documented
  <2>2. Documented(t, k, torn2, new, S, texts) =
           [i \in Items |->
                 IF i \in S THEN Render[t][k][texts[i].main]
                 ELSE IF KindOf[i] # k \/ Merges(k, torn2) THEN new[i] ELSE Absent]
    BY <1>2 DEF Documented
  <2>3. Merges(k, torn) => Merges(k, torn2)
    BY DEF Merges
  <2>4. \A i \in Items :
          (IF i \in S THEN Render[t][k][texts[i].main]
           ELSE IF KindOf[i] # k \/ Merges(k, torn2) THEN new[i] ELSE Absent) = new[i]
    BY <2>1, <2>3
  <2> QED BY <2>2, <2>4
<1> QED BY <1>1, <1>2

\* A document depends on the texts of what is written to it only.
LEMMA SameDocument ==
    ASSUME NEW t, NEW k, NEW torn, NEW old, NEW S, NEW texts, NEW texts2,
           \A i \in S : texts[i] = texts2[i]
    PROVE  Documented(t, k, torn, old, S, texts) = Documented(t, k, torn, old, S, texts2)
BY DEF Documented

\* The phases that enable the skills feature, or bring a plugin's manifest,
\* write files, and skip nothing.
LEMMA SkillsAreNeverSkipped ==
    ASSUME TypeInv
    PROVE  /\ \A k : Enables(k) => Writes(k) /\ ~Protected(k)
           /\ \A i : InPlugin(target, i) => KindOf[i] = "skill" /\ ~Protected(KindOf[i])
BY DEF Enables, Writes, AdapterOf, CodexAdapter, Protected, InPlugin, TypeInv, TypeOK, SyncParams

\* What the kind left in the target stays settled: documents change in what
\* is of other kinds, and what is torn is only mended.
LEMMA SettledStays ==
    ASSUME TypeInv, TypeInv', UNCHANGED <<target, source, rich, params>>, NEW k,
           flag => flag',
           damaged' \subseteq damaged,
           \A i \in Items : KindOf[i] = k => shared'[i] = shared[i],
           KindSettled(k)
    PROVE  KindSettled(k)'
<1>1. Enables(k)' => flag'
  BY SameSubject DEF KindSettled
<1>2. ASSUME Shares(k)' PROVE DocumentSettled(k)'
  <2>1. Shares(k) /\ Selected(k)' = Selected(k)
    BY <1>2, SameSelection
  <2>2. /\ Documented(target, k, k \in damaged, shared, Selected(k), source) = shared
        /\ KeepsAll(target, k, Selected(k)) \/ DocumentOf(target, k) \notin damaged
    BY <2>1 DEF KindSettled, DocumentSettled
  <2>3. \A i \in Items : KindOf[i] = k \/ i \in Selected(k) => shared'[i] = shared[i]
    BY SelectedIsListed DEF TypeInv
  <2>4. /\ shared \in [Items -> Texts \cup {Absent}] /\ shared' \in [Items -> Texts \cup {Absent}]
        /\ k \in damaged' => k \in damaged
    BY DEF TypeInv, TypeOK
  <2>5. Documented(target, k, k \in damaged', shared', Selected(k), source) = shared'
    <3> DEFINE S == Selected(k)
               torn == k \in damaged
               torn2 == k \in damaged'
    <3>1. /\ torn2 => torn
          /\ \A i \in Items : KindOf[i] = k \/ i \in S => shared'[i] = shared[i]
          /\ Documented(target, k, torn, shared, S, source) = shared
      BY <2>2, <2>3, <2>4
    <3> HIDE DEF S, torn, torn2
    <3>2. Documented(target, k, torn2, shared', S, source) = shared'
      BY <2>4, <3>1, OtherDocument
    <3> QED BY <3>2 DEF S, torn2
  <2> QED BY <2>1, <2>2, <2>5 DEF DocumentSettled
<1> QED BY <1>1, <1>2 DEF KindSettled

\* A manifest, once there, is only removed by the sweep.
LEMMA ManifestedStays ==
    ASSUME UNCHANGED <<target, source, rich, params>>, NEW i \in Items,
           \A q \in Plugins : q \in manifest => q \in manifest' \/ Swept(q),
           target \in Targets, Manifested(i)
    PROVE  Manifested(i)'
<1>1. InPlugin(target, i) => SafePlugin[PluginOf[i]] \in Plugins
  BY PathIsPath, RenderingAssumption
<1> QED BY <1>1, SameSubject DEF Manifested

\* Within a phase only what is handled may change.
LEMMA PhaseKeepsSettled ==
    ASSUME RepeatInv, ~touched, TypeInv',
           UNCHANGED <<target, source, rich, params, phase, result, touched, again>>,
           Running, flag' = flag, shared' = shared, damaged' = damaged, manifest \subseteq manifest',
           \A i \in Written : Handled(i)' => Handled(i) \/ Manifested(i)'
    PROVE  KindsDone' /\ ManifestsDone' /\ RegistryDone' /\ Companions'
<1>1. TypeInv /\ target \in Targets
  BY DEF RepeatInv, CopyInv, TypeInv, TypeOK
<1>2. /\ \A k : Passed(k)' <=> Passed(k)
      /\ Repeating' <=> Repeating
      /\ Running'
  BY DEF Passed, Running, Repeating
<1>3. KindsDone'
  <2> SUFFICES ASSUME NEW k \in Kinds, k \in params.kinds, Passed(k) \/ Repeating
               PROVE  KindSettled(k)'
    BY <1>2 DEF KindsDone
  <2>1. KindSettled(k)
    BY DEF RepeatInv, KindsDone
  <2> QED BY <1>1, <2>1, SettledStays
<1>4. ManifestsDone'
  <2> SUFFICES ASSUME NEW i \in Written, Handled(i)' \/ Repeating, i \in Items
               PROVE  Manifested(i)'
    BY <1>2, SameSelection DEF ManifestsDone, Written
  <2>1. CASE Handled(i) \/ Repeating
    <3>1. Manifested(i)
      BY <2>1 DEF RepeatInv, ManifestsDone
    <3> QED BY <1>1, <3>1, ManifestedStays
  <2> QED BY <2>1
<1>5. RegistryDone'
  <2>1. RegistrySettled => RegistrySettled'
    BY SameSubject DEF RegistrySettled
  <2> QED BY <1>2, <2>1 DEF RegistryDone, Undisturbed, RepeatInv, Running
<1>6. Companions'
  BY DEF Companions, RepeatInv
<1> QED BY <1>3, <1>4, <1>5, <1>6

\* The same files, and less to write: nothing to do for the files either.
LEMMA SameFilesDone ==
    ASSUME FilesDone, UNCHANGED <<target, source, rich, params, disk, touched, again, phase>>,
           batch' \subseteq batch, half' \subseteq half, TypeInv
    PROVE  FilesDone'
<1>1. \A i \in Written : FileSettled(i) => FileSettled(i)'
  <2> SUFFICES ASSUME NEW i \in Written, FileSettled(i) PROVE FileSettled(i)'
    OBVIOUS
  <2>1. i \in Items /\ Writes(KindOf[i])
    BY WrittenIsWanted
  <2>2. Arrived(i)'
    BY <2>1, ArrivedStays DEF FileSettled
  <2> QED BY <2>2, SameSubject DEF FileSettled
<1> QED BY <1>1, SameSelection, SameSubject DEF FilesDone, Repeating, Running

\* What repeating a sync may do to the files.
Quiet ==
    /\ \A p \in Paths : disk'[p] # disk[p] =>
         Swept(p[1]) \/ \E i \in Written : PathOf(target, i) = p /\ Contested(i)
    /\ \A q \in Plugins : (q \in manifest' <=> q \in manifest) \/ Swept(q)
    /\ UNCHANGED <<shared, damaged, flag>>

\* ReadPhase, of a kind the adapter has a place for: what it finds missing in
\* a repeated sync is contested or pruned.
LEMMA ReadPhaseRepeats ==
    ASSUME RepeatInv, NoClaudeItem, NEW k \in Kinds, ReadPhase(k), Writes(k) \/ Shares(k), ~touched,
           TypeInv'
    PROVE  Companions' /\ Exact' /\ KindsDone' /\ ManifestsDone' /\ RegistryDone' /\ FilesDone'
<1>1. /\ stage' = "write" /\ batch' = ToWrite(k) /\ half' = half /\ half = {}
      /\ read' = [i \in Items |-> IF i \in batch' THEN source[i] ELSE Nothing]
      /\ stage = "read" /\ Running /\ Phases[phase] = k /\ k \in params.kinds
      /\ UNCHANGED <<target, source, rich, disk, shared, damaged, flag, manifest, params, phase,
                     result, touched, again>>
  BY DEF ReadPhase, At, RepeatInv, CopyInv, TypeInv, Stages, sides, files, history
<1>2. TypeInv
  BY DEF RepeatInv, CopyInv
<1>3. /\ \A q : Selected(q)' = Selected(q) /\ (Protected(q)' <=> Protected(q))
                /\ (Writes(q)' <=> Writes(q)) /\ (Shares(q)' <=> Shares(q))
      /\ \A i : (Contested(i)' <=> Contested(i)) /\ (Pruned(i)' <=> Pruned(i))
      /\ Written' = Written
  BY <1>1, SameSelection
<1>4. /\ Shares(k) \/ ~Protected(k) => ToWrite(k) = Selected(k)
      /\ ToWrite(k) \subseteq Selected(k)
      /\ \A i \in Selected(k) : i \in Items /\ KindOf[i] = k
  BY <1>2, DocumentsAreWhole, SelectedIsListed DEF ToWrite, TypeInv
<1>5. Exact'
  BY <1>1, <1>3, <1>4 DEF Exact
<1>6. \A i \in Written : Handled(i)' => Handled(i) \/ Manifested(i)'
  <2> SUFFICES ASSUME NEW i \in Written, Handled(i)', ~Handled(i), InPlugin(target, i)' PROVE FALSE
    BY DEF Manifested
  <2>1. ~Passed(KindOf[i])' /\ KindOf[i] = k /\ i \notin ToWrite(k)
    BY <1>1 DEF Handled, Passed, Running
  <2>2. ~Protected(k)
    BY <1>1, <1>2, <2>1, SkillsAreNeverSkipped DEF InPlugin
  <2>3. i \in Selected(k)
    BY <1>2, <2>1, WrittenIsWanted
  <2> QED BY <1>4, <2>1, <2>2, <2>3
<1>7. FilesDone'
  <2> SUFFICES ASSUME Repeating, NEW i \in ToWrite(k), Writes(k), FilesDone
               PROVE  \/ Contested(i) \/ Pruned(i)
                      \/ disk[PathOf(target, i)].main = Render[target][k][source[i].main]
    <3>1. Repeating' <=> Repeating
      BY <1>1 DEF Repeating, Running
    <3>2. FilesDone
      BY DEF RepeatInv
    <3>3. \A i \in ToWrite(k) : KindOf[i] = k
      BY <1>4
    <3>4. ASSUME NEW i \in Written, FileSettled(i) PROVE FileSettled(i)'
      <4>1. i \in Items /\ Writes(KindOf[i])
        BY <1>2, WrittenIsWanted
      <4>2. Arrived(i)'
        BY <1>1, <1>2, <3>4, <4>1, ArrivedStays DEF FileSettled
      <4> QED BY <1>1, <3>4, <4>2, SameSubject DEF FileSettled
    <3> QED BY <1>1, <1>3, <3>1, <3>2, <3>3, <3>4, SameSubject DEF FilesDone
  <2>1. i \in Selected(k) /\ KindOf[i] = k
    BY <1>4
  <2>2. i \in Written
    BY <1>1, <1>2, <2>1, SelectedIsWritten
  <2>3. Contested(i) \/ Pruned(i) \/ Arrived(i)
    BY <2>2, <1>1 DEF FilesDone, FileSettled
  <2>4. ~(Protected(k) /\ NameOf[i] \in Existing(k))
    BY DEF ToWrite
  <2> QED BY <2>1, <2>3, <2>4 DEF Arrived
<1> QED BY <1>1, <1>5, <1>6, <1>7, PhaseKeepsSettled

\* WriteItem: what is written is there already, or contested, or pruned.
LEMMA WriteItemRepeats ==
    ASSUME RepeatInv, NEW k \in Kinds, NEW i \in Items, WriteItem(k, i), ~touched, TypeInv'
    PROVE  /\ Companions' /\ Exact' /\ KindsDone' /\ ManifestsDone' /\ RegistryDone' /\ FilesDone'
           /\ Repeating => Quiet
<1> DEFINE p == PathOf(target, i)
<1>1. /\ UNCHANGED <<target, source, rich, shared, damaged, flag, params, phase, stage, read,
                     result, touched, again>>
      /\ Running /\ Phases[phase] = k /\ k \in params.kinds /\ Writes(k)
      /\ stage = "write" /\ half = {} /\ i \in batch /\ batch' = batch \ {i}
      /\ half' = IF WritesSide(target, disk[p], i, read[i]) THEN {i} ELSE {}
      /\ disk' = [disk EXCEPT ![p].main = Render[target][k][read[i].main]]
      /\ manifest' = IF InPlugin(target, i)
                     THEN manifest \cup {SafePlugin[PluginOf[i]]} ELSE manifest
  BY DEF WriteItem, At, sides, history, RepeatInv, CopyInv, TypeInv, Stages
<1>2. TypeInv /\ target \in Targets
  BY DEF RepeatInv, CopyInv, TypeInv, TypeOK
<1>3. /\ read[i] = source[i] /\ KindOf[i] = k /\ read[i].main \in Texts /\ i \in Written
  BY <1>1, <1>2, SelectedIsWritten DEF RepeatInv, CopyInv, Faithful, TypeInv, Stages
<1>4. /\ disk \in [Paths -> File] /\ p \in Paths
      /\ \A j \in Items : PathOf(target, j) \in Paths
  BY <1>2, PathIsPath DEF TypeInv, TypeOK
<1>5. /\ \A q \in Paths : disk'[q].main = IF q = p THEN Render[target][k][source[i].main] ELSE disk[q].main
      /\ \A q \in Paths : disk'[q].side = disk[q].side
      /\ \A q \in Paths : q # p => disk'[q] = disk[q]
      /\ disk[p].main = Render[target][k][source[i].main] => disk' = disk
  <2> HIDE DEF p
  <2> DEFINE x == Render[target][k][read[i].main]
  <2>1. x \in Texts \cup {Absent, Torn}
    BY <1>2, <1>3, RenderIsText
  <2>2. disk' = [disk EXCEPT ![p].main = x] /\ x = Render[target][k][source[i].main]
    BY <1>1, <1>3
  <2> HIDE DEF x
  <2>3. \A q \in Paths : /\ [disk EXCEPT ![p].main = x][q].main = IF q = p THEN x ELSE disk[q].main
                         /\ [disk EXCEPT ![p].main = x][q].side = disk[q].side
    BY <1>4, <2>1, FileUpdate
  <2>4. disk[p].main = x => [disk EXCEPT ![p].main = x] = disk
    <3>1. disk[p] \in File
      BY <1>4
    <3>2. disk[p].main = x => [disk[p] EXCEPT !.main = x] = disk[p]
      BY <3>1 DEF File
    <3> QED BY <1>4, <3>2
  <2> QED BY <1>4, <2>2, <2>3, <2>4
<1>6. /\ \A q : Selected(q)' = Selected(q) /\ (Protected(q)' <=> Protected(q))
                /\ (Writes(q)' <=> Writes(q)) /\ (Shares(q)' <=> Shares(q))
      /\ \A j : (Contested(j)' <=> Contested(j)) /\ (Pruned(j)' <=> Pruned(j))
      /\ Written' = Written
  BY <1>1, SameSelection
<1>7. Exact'
  BY <1>1, <1>2, <1>6, FilesAreNotDocuments DEF Exact, RepeatInv
<1>8. InPlugin(target, i) => SafePlugin[PluginOf[i]] \in manifest'
  BY <1>1
<1>9. \A j \in Written : Handled(j)' => Handled(j) \/ Manifested(j)'
  <2> SUFFICES ASSUME NEW j \in Written, Handled(j)', ~Handled(j) PROVE Manifested(j)'
    OBVIOUS
  <2>1. j = i
    BY <1>1 DEF Handled, Passed, Running
  <2> QED BY <1>1, <1>8, <2>1, SameSubject DEF Manifested
<1>10. manifest \subseteq manifest'
  BY <1>1
<1>11. \A j \in Written : j \in Items /\ Writes(KindOf[j])
  BY <1>2, WrittenIsWanted
<1>12. \A j \in Written : (PathOf(target, j) = p /\ j # i) => Contested(j) /\ Contested(i)
  BY <1>3 DEF Contested
<1>13. \/ ~Repeating
       \/ Contested(i) \/ Pruned(i)
       \/ disk[p].main = Render[target][k][source[i].main]
  BY <1>1, <1>3 DEF RepeatInv, FilesDone
<1>14. FilesDone'
  <2> SUFFICES ASSUME Repeating PROVE FilesDone'
    BY <1>1 DEF FilesDone, Repeating, Running
  <2>1. FilesDone
    BY DEF RepeatInv
  <2>2. \A j \in Written : Contested(j) \/ Pruned(j) \/ disk'[PathOf(target, j)] = disk[PathOf(target, j)]
    BY <1>4, <1>5, <1>11, <1>12, <1>13
  <2>3. ASSUME NEW j \in Written, FileSettled(j), ~Contested(j), ~Pruned(j) PROVE FileSettled(j)'
    <3>1. disk'[PathOf(target, j)] = disk[PathOf(target, j)]
      BY <2>2, <2>3
    <3>2. \A q \in Paths : disk[q].main # Absent => disk'[q].main # Absent
      <4>1. Render[target][k][source[i].main] \in Texts
        BY <1>2, <1>3, RenderIsText
      <4> QED BY <1>5, <4>1, MarkersAssumption
    <3>3. Arrived(j)'
      BY <1>1, <1>2, <1>11, <2>3, <3>1, <3>2, ArrivedStays DEF FileSettled
    <3> QED BY <1>1, <2>3, <3>1, <3>3, SameSubject DEF FileSettled
  <2>4. ASSUME NEW j \in batch', Writes(KindOf[j])
        PROVE  \/ Contested(j) \/ Pruned(j)
               \/ disk'[PathOf(target, j)].main = Render[target][KindOf[j]][source[j].main]
    <3>1. /\ j \in batch /\ j # i /\ j \in Items
          /\ \/ Contested(j) \/ Pruned(j)
             \/ disk[PathOf(target, j)].main = Render[target][KindOf[j]][source[j].main]
      BY <1>1, <1>2, <2>1, <2>4 DEF FilesDone, TypeInv, TypeOK
    <3>2. j \in Written
      BY <1>1, <1>2, <3>1, SelectedIsWritten DEF RepeatInv, CopyInv, Faithful
    <3> QED BY <2>2, <3>1, <3>2
  <2>5. \A j \in half' :
          source[j].side # Absent /\ (Contested(j) \/ Pruned(j) \/ target = "cursor")
    BY <1>1, <1>3, <1>13 DEF WritesSide, Same
  <2> QED BY <1>1, <1>6, <2>1, <2>3, <2>4, <2>5, SameSubject DEF FilesDone
<1>15. ASSUME Repeating PROVE Quiet
  <2>1. ASSUME NEW q \in Paths, disk'[q] # disk[q]
        PROVE  Swept(q[1]) \/ \E j \in Written : PathOf(target, j) = q /\ Contested(j)
    <3>1. q = p /\ (Contested(i) \/ Pruned(i))
      BY <1>5, <1>13, <1>15, <2>1
    <3> QED BY <1>2, <1>3, <3>1, PrunedIsSwept
  <2>2. ASSUME NEW q \in Plugins PROVE (q \in manifest' <=> q \in manifest) \/ Swept(q)
    <3>1. Manifested(i)
      BY <1>3, <1>15 DEF RepeatInv, ManifestsDone
    <3> QED BY <1>1, <3>1 DEF Manifested
  <2> QED BY <1>1, <2>1, <2>2 DEF Quiet
<1> QED BY <1>1, <1>7, <1>9, <1>10, <1>14, <1>15, PhaseKeepsSettled

\* WriteSide.
LEMMA WriteSideRepeats ==
    ASSUME RepeatInv, NEW i \in Items, WriteSide(i), ~touched, TypeInv'
    PROVE  /\ Companions' /\ Exact' /\ KindsDone' /\ ManifestsDone' /\ RegistryDone' /\ FilesDone'
           /\ Repeating => Quiet
<1> DEFINE p == PathOf(target, i)
<1>1. /\ UNCHANGED <<target, source, rich, shared, damaged, flag, manifest, params, phase, stage,
                     batch, read, result, touched, again>>
      /\ i \in half /\ half' = {} /\ disk' = [disk EXCEPT ![p].side = read[i].side]
  BY DEF WriteSide, sides, history
<1>2. TypeInv /\ target \in Targets
  BY DEF RepeatInv, CopyInv, TypeInv, TypeOK
<1>3. stage = "write" /\ Running
  BY <1>1, <1>2 DEF TypeInv, TypeOK, Stages
<1>4. read[i] = source[i] /\ i \in Written
  BY <1>1, <1>3 DEF RepeatInv, CopyInv, Faithful
<1>5. /\ disk \in [Paths -> File] /\ p \in Paths
      /\ \A j \in Items : PathOf(target, j) \in Paths
  BY <1>2, PathIsPath DEF TypeInv, TypeOK
<1>6. /\ \A q \in Paths : disk'[q].main = disk[q].main
      /\ \A q \in Paths : q # p => disk'[q] = disk[q]
      /\ disk[p].side = source[i].side => disk' = disk
      /\ disk'[p].side = source[i].side
  <2> HIDE DEF p
  <2>1. disk' = [disk EXCEPT ![p].side = source[i].side]
    BY <1>1, <1>4
  <2>2. disk[p] \in File
    BY <1>5
  <2>3. disk[p].side = source[i].side => [disk[p] EXCEPT !.side = source[i].side] = disk[p]
    BY <2>2 DEF File
  <2> QED BY <1>5, <2>1, <2>2, <2>3 DEF File
<1>7. Exact'
  BY <1>1, SameSelection DEF Exact, RepeatInv
<1>8. \A j \in Written : j \in Items /\ Writes(KindOf[j])
  BY <1>2, WrittenIsWanted
<1>9. \A j \in Written : (PathOf(target, j) = p /\ j # i) => Contested(j) /\ Contested(i)
  BY <1>4 DEF Contested
<1>10. \A j : Handled(j)' <=> Handled(j)
  BY <1>1 DEF Handled, Passed, Running
<1>11. FilesDone'
  <2> SUFFICES ASSUME Repeating PROVE FilesDone'
    BY <1>1 DEF FilesDone, Repeating, Running
  <2>1. FilesDone
    BY DEF RepeatInv
  <2>2. ASSUME NEW j \in Written, FileSettled(j), ~Contested(j) PROVE FileSettled(j)'
    <3>1. disk'[PathOf(target, j)].main = disk[PathOf(target, j)].main
      BY <1>5, <1>6, <1>8
    <3>2. Arrived(j)'
      BY <1>1, <1>2, <1>6, <1>8, <2>2, <3>1, ArrivedStays DEF FileSettled
    <3>3. disk'[PathOf(target, j)].side = disk[PathOf(target, j)].side \/ j = i
      BY <1>5, <1>6, <1>8, <1>9, <2>2
    <3> QED BY <1>1, <1>6, <2>2, <3>2, <3>3, SameSubject DEF FileSettled
  <2>3. ASSUME NEW j \in batch
        PROVE  disk'[PathOf(target, j)].main = disk[PathOf(target, j)].main
    BY <1>2, <1>5, <1>6 DEF TypeInv, TypeOK
  <2> QED BY <1>1, <2>1, <2>2, <2>3, SameSelection, SameSubject DEF FilesDone
<1>12. ASSUME Repeating PROVE Quiet
  <2>1. ASSUME NEW q \in Paths, disk'[q] # disk[q]
        PROVE  Swept(q[1]) \/ \E j \in Written : PathOf(target, j) = q /\ Contested(j)
    <3>1. q = p
      BY <1>5, <1>6, <2>1
    <3>2. Contested(i) \/ Pruned(i) \/ (target = "cursor" /\ FileSettled(i))
      BY <1>1, <1>4, <1>12 DEF RepeatInv, FilesDone
    <3>3. CASE target = "cursor" /\ FileSettled(i)
      <4>1. disk' # disk
        BY <2>1
      <4>2. source[i].side = Absent
        BY <1>6, <3>3, <4>1 DEF FileSettled
      <4>3. source[i].side # Absent
        BY <1>1, <1>12 DEF RepeatInv, FilesDone
      <4> QED BY <4>2, <4>3
    <3> QED BY <1>2, <1>4, <3>1, <3>2, <3>3, PrunedIsSwept
  <2> QED BY <1>1, <2>1 DEF Quiet
<1> QED BY <1>1, <1>3, <1>7, <1>10, <1>11, <1>12, PhaseKeepsSettled DEF RepeatInv

\* A phase ends, and its kind is settled; only the last one touches the
\* manifests, and files only when no phase follows.
LEMMA AdvanceRepeats ==
    ASSUME RepeatInv, Running, Advance, ~touched, TypeInv', NEW now, now = Phases[phase],
           flag => flag', damaged' \subseteq damaged,
           \A i \in Items : KindOf[i] # now => shared'[i] = shared[i],
           now \in Kinds => KindSettled(now)',
           \A q \in Plugins : q \in manifest => q \in manifest' \/ Swept(q),
           \A i \in Written : (KindOf[i] = now /\ InPlugin(target, i)) => Handled(i),
           now = "asset" => phase' = 0 /\ RegistrySettled',
           now # "asset" => disk' = disk /\ manifest' = manifest
    PROVE  Companions' /\ Exact' /\ KindsDone' /\ ManifestsDone' /\ RegistryDone' /\ FilesDone'
<1>1. /\ UNCHANGED <<target, source, rich, params, touched, again>>
      /\ stage' = "read" /\ batch' = {} /\ half' = {}
      /\ phase' = Following(phase, params)
      /\ result' = IF phase' = 0 THEN "ok" ELSE "running"
  BY DEF Advance, sides, history
<1>2. TypeInv /\ target \in Targets /\ phase \in 1 .. 8
  BY PhaseOfKind DEF RepeatInv, CopyInv, TypeInv, TypeOK, Running
<1>3. Companions' /\ Exact'
  BY <1>1 DEF RepeatInv, Companions, Exact
<1>4. Repeating' => Repeating
  BY <1>1 DEF Repeating
<1>5. KindsDone'
  <2> SUFFICES ASSUME NEW k \in Kinds, k \in params.kinds, Passed(k)' \/ Repeating
               PROVE  KindSettled(k)'
    BY <1>1, <1>4 DEF KindsDone
  <2>1. CASE k = now
    BY <2>1
  <2>2. CASE k # now
    <3>1. Passed(k) \/ Repeating
      BY <1>2, <2>2, PassedOn
    <3>2. KindSettled(k)
      BY <3>1 DEF RepeatInv, KindsDone
    <3>3. \A i \in Items : KindOf[i] = k => shared'[i] = shared[i]
      BY <2>2
    <3> QED BY <1>1, <1>2, <3>2, <3>3, SettledStays
  <2> QED BY <2>1, <2>2
<1>6. ManifestsDone'
  <2> SUFFICES ASSUME NEW i \in Written, Handled(i)' \/ Repeating PROVE Manifested(i)'
    BY <1>1, <1>4, SameSelection DEF ManifestsDone
  <2>1. i \in Items /\ KindOf[i] \in Kinds /\ KindOf[i] \in params.kinds
    BY <1>2, WrittenIsWanted
  <2>2. CASE ~InPlugin(target, i)
    BY <1>1, <2>2, SameSubject DEF Manifested
  <2>3. CASE InPlugin(target, i)
    <3>1. Handled(i)' => Passed(KindOf[i])'
      BY <1>1 DEF Handled
    <3>2. Passed(KindOf[i])' => Passed(KindOf[i]) \/ KindOf[i] = Phases[phase]
      BY <1>2, <2>1, PassedOn
    <3>3. Handled(i) \/ Repeating
      BY <2>3, <3>1, <3>2 DEF Handled
    <3>4. Manifested(i)
      BY <3>3 DEF RepeatInv, ManifestsDone
    <3> QED BY <1>1, <1>2, <2>1, <3>4, ManifestedStays
  <2> QED BY <2>2, <2>3
<1>7. RegistryDone'
  <2>1. CASE now = "asset"
    BY <2>1 DEF RegistryDone
  <2>2. CASE now # "asset"
    <3>1. RegistrySettled => RegistrySettled'
      BY <1>1, <2>2, SameSubject DEF RegistrySettled
    <3>2. phase' = 0 => "asset" \notin params.kinds
      <4>1. phase # 8 /\ Phases[8] = "asset"
        BY <1>2, <2>2, PhaseOfKind
      <4>2. 8 \in phase + 1 .. 8 /\ phase \in 0 .. 8
        BY <1>2, <4>1
      <4>3. Phases[8] \in params.kinds => Following(phase, params) # 0
        BY <4>2, FollowingIsNext
      <4> QED BY <1>1, <4>1, <4>3
    <3>3. phase' = 0 => RegistrySettled'
      BY <1>1, <3>2 DEF RegistrySettled
    <3> QED BY <1>1, <1>4, <3>1, <3>3 DEF RegistryDone, Undisturbed, RepeatInv
  <2> QED BY <2>1, <2>2
<1>8. FilesDone'
  <2>1. CASE phase' = 0
    BY <2>1 DEF FilesDone, Repeating, Running
  <2>2. CASE phase' # 0
    <3>1. disk' = disk
      BY <2>2
    <3>2. ASSUME NEW i \in Written, FileSettled(i) PROVE FileSettled(i)'
      <4>1. i \in Items /\ Writes(KindOf[i])
        BY <1>2, WrittenIsWanted
      <4>2. Arrived(i)'
        BY <1>1, <1>2, <3>1, <3>2, <4>1, ArrivedStays DEF FileSettled
      <4> QED BY <1>1, <3>1, <3>2, <4>2, SameSubject DEF FileSettled
    <3> QED BY <1>1, <1>4, <3>2, SameSelection, SameSubject DEF FilesDone, RepeatInv
  <2> QED BY <2>1, <2>2
<1> QED BY <1>3, <1>5, <1>6, <1>7, <1>8

\* ReadPhase, of a kind the adapter has no place for.
LEMMA DroppedPhaseRepeats ==
    ASSUME RepeatInv, NEW k \in Kinds, ReadPhase(k), ~(Writes(k) \/ Shares(k)), ~touched, TypeInv'
    PROVE  Companions' /\ Exact' /\ KindsDone' /\ ManifestsDone' /\ RegistryDone' /\ FilesDone'
<1>1. /\ Running /\ Phases[phase] = k /\ Advance
      /\ UNCHANGED <<disk, shared, damaged, flag, manifest, target, source, rich, params>>
  BY DEF ReadPhase, At, files, Advance, sides
<1>2. TypeInv
  BY DEF RepeatInv, CopyInv
<1>3. KindSettled(k)'
  BY <1>1, <1>2, SkillsAreNeverSkipped, SameSelection, SameSubject DEF KindSettled
<1>4. \A i \in Written : KindOf[i] # k
  BY <1>2, WrittenIsWanted
<1>5. k # "asset"
  BY DEF Kinds
<1> QED BY <1>1, <1>3, <1>4, <1>5, AdvanceRepeats

\* EndFiles: the feature flag is on already in a repeated sync.
LEMMA EndFilesRepeats ==
    ASSUME RepeatInv, NEW k \in Kinds, EndFiles(k), ~touched, TypeInv'
    PROVE  /\ Companions' /\ Exact' /\ KindsDone' /\ ManifestsDone' /\ RegistryDone' /\ FilesDone'
           /\ Repeating => Quiet
<1>1. /\ Running /\ Phases[phase] = k /\ k \in params.kinds /\ stage = "write" /\ Writes(k)
      /\ batch = {} /\ Advance
      /\ flag' = (flag \/ (target = "codex" /\ (k = "skill" \/ (k = "agent" /\ read # NoEntries))))
      /\ UNCHANGED <<disk, shared, damaged, manifest, target, source, rich, params>>
  BY DEF EndFiles, At, Advance, sides, RepeatInv, CopyInv, TypeInv, Stages
<1>2. TypeInv
  BY DEF RepeatInv, CopyInv
<1>3. (target = "codex" /\ (k = "skill" \/ (k = "agent" /\ read # NoEntries))) <=> Enables(k)
  <2>1. ASSUME target = "codex", k = "agent" PROVE read # NoEntries <=> Selected(k) # {}
    <3>1. ~Protected(k)
      BY <1>2, <2>1 DEF Protected, TypeInv, TypeOK, SyncParams
    <3>2. read = [i \in Items |-> IF i \in Selected(k) THEN source[i] ELSE Nothing]
      BY <1>1, <3>1 DEF RepeatInv, Exact
    <3>3. \A i \in Selected(k) : i \in Items /\ source[i] # Nothing
      BY <1>2, SelectedIsListed, MarkersAssumption DEF TypeInv, Nothing
    <3> QED BY <3>2, <3>3 DEF NoEntries
  <2> QED BY <2>1 DEF Enables
<1>4. ~Shares(k)
  BY <1>1, <1>2, FilesAreNotDocuments DEF TypeInv, TypeOK
<1>5. KindSettled(k)'
  BY <1>1, <1>3, <1>4, SameSelection, SameSubject DEF KindSettled
<1>6. \A i \in Written : KindOf[i] = k => Handled(i)
  BY <1>1 DEF Handled
<1>7. k # "asset"
  BY DEF Kinds
<1>8. ASSUME Repeating PROVE Quiet
  <2>1. Enables(k) => flag
    BY <1>1, <1>8 DEF RepeatInv, KindsDone, KindSettled
  <2>2. flag' = flag
    BY <1>1, <1>2, <1>3, <2>1 DEF TypeInv, TypeOK
  <2> QED BY <1>1, <2>2 DEF Quiet
<1> QED BY <1>1, <1>5, <1>6, <1>7, <1>8, AdvanceRepeats

\* WriteDocument: once written, the document is as it would be written again.
LEMMA WriteDocumentRepeats ==
    ASSUME RepeatInv, NEW k \in Kinds, WriteDocument(k), ~touched, TypeInv'
    PROVE  /\ Companions' /\ Exact' /\ KindsDone' /\ ManifestsDone' /\ RegistryDone' /\ FilesDone'
           /\ Repeating => Quiet
<1>1. /\ Running /\ Phases[phase] = k /\ k \in params.kinds /\ stage = "write" /\ Shares(k) /\ Advance
      /\ shared' = Documented(target, k, k \in damaged, shared, batch, read)
      /\ damaged' = IF KeepsAll(target, k, batch) THEN damaged
                    ELSE damaged \ {DocumentOf(target, k)}
      /\ UNCHANGED <<disk, flag, manifest, target, source, rich, params>>
  BY DEF WriteDocument, At, Advance, sides, RepeatInv, CopyInv, TypeInv, Stages
<1>2. TypeInv /\ target \in Targets
  BY DEF RepeatInv, CopyInv, TypeInv, TypeOK
<1>3. /\ shared \in [Items -> Texts \cup {Absent}]
      /\ damaged' \subseteq damaged
  BY <1>1, <1>2 DEF TypeInv, TypeOK
<1>4. /\ batch = Selected(k)
      /\ \A i \in batch : KindOf[i] = k /\ i \in Items /\ read[i] = source[i]
  BY <1>1, <1>2, SelectedIsListed DEF RepeatInv, Exact, TypeInv
<1>5. shared' = Documented(target, k, k \in damaged, shared, Selected(k), source)
  BY <1>1, <1>4, SameDocument
<1>6. \A i \in Items : KindOf[i] # k => shared'[i] = shared[i]
  BY <1>3, <1>4, <1>5 DEF Documented
<1>7. DocumentSettled(k)'
  <2> DEFINE S == Selected(k)
             torn == k \in damaged
             torn2 == k \in damaged'
  <2>1. torn2 => torn
    BY <1>3
  <2>2. shared' = Documented(target, k, torn, shared, S, source)
    BY <1>5
  <2>3. Documented(target, k, torn2, shared', S, source) = shared'
    <3> HIDE DEF S, torn, torn2
    <3> QED BY <1>3, <2>1, <2>2, DocumentOnceMore
  <2>4. KeepsAll(target, k, S) \/ DocumentOf(target, k) \notin damaged'
    BY <1>1, <1>4
  <2> QED BY <1>1, <2>3, <2>4, SameSelection DEF DocumentSettled
<1>8. KindSettled(k)'
  <2>1. ~Enables(k)
    BY <1>1, <1>2, SkillsAreNeverSkipped, FilesAreNotDocuments
  <2> QED BY <1>1, <1>7, <2>1, SameSubject DEF KindSettled
<1>9. \A i \in Written : KindOf[i] # k
  BY <1>1, <1>2, WrittenIsWanted, FilesAreNotDocuments
<1>10. k # "asset"
  BY DEF Kinds
<1>11. ASSUME Repeating PROVE Quiet
  <2>1. DocumentSettled(k)
    BY <1>1, <1>11 DEF RepeatInv, KindsDone, KindSettled
  <2>2. shared' = shared /\ damaged' = damaged
    BY <1>1, <1>4, <1>5, <2>1 DEF DocumentSettled
  <2> QED BY <1>1, <2>2 DEF Quiet
<1> QED BY <1>1, <1>3, <1>6, <1>8, <1>9, <1>10, <1>11, AdvanceRepeats

\* WriteAssets, wholly, or with a prune that failed: only what is swept goes,
\* and what is registered gets its manifest.
LEMMA AssetsRepeat ==
    ASSUME RepeatInv, WriteAssets \/ (AssetsPartly /\ Advance), ~touched, TypeInv'
    PROVE  /\ Companions' /\ Exact' /\ KindsDone' /\ ManifestsDone' /\ RegistryDone' /\ FilesDone'
           /\ (WriteAssets /\ Repeating) => Quiet
<1>1. /\ Running /\ Phases[phase] = "asset" /\ Advance
      /\ UNCHANGED <<shared, damaged, flag, target, source, rich, params>>
  BY DEF WriteAssets, AssetsPartly, At, Advance, sides
<1>2. TypeInv /\ target \in Targets /\ phase \in 1 .. 8 /\ phase \in 0 .. 8
  BY <1>1, PhaseOfKind DEF RepeatInv, CopyInv, TypeInv, TypeOK, Running
<1>3. phase = 8 /\ "asset" \in params.kinds
  BY <1>1, <1>2, PhaseOfKind DEF TypeInv, Stages
<1>4. phase' = 0
  <2>1. phase' = Following(8, params)
    BY <1>1, <1>3 DEF Advance
  <2>2. Following(8, params) \in 0 .. 8 /\ (Following(8, params) # 0 => Following(8, params) > 8)
    BY FollowingIsNext
  <2> QED BY <2>1, <2>2
<1>5. \/ UNCHANGED <<disk, manifest>> /\ ~(target = "cursor" /\ Assets # {})
      \/ /\ target = "cursor" /\ Assets # {}
         /\ \E gone \in SUBSET (Plugins \ Registered) :
              /\ disk' = Without(gone)
              /\ manifest' = (manifest \cup Manifests) \ gone
  <2>1. CASE WriteAssets
    <3>1. CASE target = "cursor" /\ Assets # {}
      <4>1. manifest \subseteq Plugins /\ Manifests \subseteq Plugins
        <5>1. Assets \subseteq Plugins
          BY <1>2 DEF Assets, Installed, TypeInv, TypeOK
        <5> QED BY <1>2, <5>1, RenderingAssumption DEF TypeInv, TypeOK, Manifests, Registered
      <4>2. (manifest \cup Manifests) \cap Registered = (manifest \cup Manifests) \ (Plugins \ Registered)
        BY <4>1
      <4> QED BY <2>1, <3>1, <4>2 DEF WriteAssets
    <3>2. CASE ~(target = "cursor" /\ Assets # {})
      BY <2>1, <3>2 DEF WriteAssets
    <3> QED BY <3>1, <3>2
  <2>2. CASE AssetsPartly /\ Advance
    <3>1. ~Abort
      <4>1. result' = "ok"
        BY <1>1, <1>4 DEF Advance
      <4> QED BY <4>1 DEF Abort
    <3> QED BY <2>2, <3>1 DEF AssetsPartly
  <2> QED BY <2>1, <2>2
<1>6. \A q \in Plugins \ Registered : (target = "cursor" /\ Assets # {}) => Swept(q)
  BY <1>3 DEF Swept
<1>7. Manifests \subseteq Registered
  BY DEF Manifests
<1>8. \A q \in Plugins : q \in manifest => q \in manifest' \/ Swept(q)
  BY <1>5, <1>6
<1>9. RegistrySettled'
  <2>1. (target = "cursor" /\ Assets # {}) => Manifests \subseteq manifest'
    BY <1>5, <1>7
  <2> QED BY <1>1, <2>1, SameSubject DEF RegistrySettled
<1>10. "asset" \notin Kinds
  BY DEF Kinds
<1>11. \A i \in Written : KindOf[i] # "asset"
  BY <1>2, <1>10, WrittenIsWanted
<1>12. ASSUME Repeating PROVE Quiet
  <2>1. (target = "cursor" /\ Assets # {}) => Manifests \subseteq manifest
    BY <1>3, <1>12 DEF RepeatInv, RegistryDone, RegistrySettled
  <2>2. \A q \in Plugins : (q \in manifest' <=> q \in manifest) \/ Swept(q)
    BY <1>5, <1>6, <2>1
  <2>3. \A p \in Paths : disk'[p] # disk[p] => Swept(p[1])
    BY <1>5, <1>6 DEF Without
  <2> QED BY <1>1, <2>2, <2>3 DEF Quiet
<1>13. \A i \in Items : KindOf[i] # "asset" => shared'[i] = shared[i]
  BY <1>1
<1>14. damaged' \subseteq damaged
  BY <1>1
<1> QED BY <1>1, <1>4, <1>8, <1>9, <1>10, <1>11, <1>12, <1>13, <1>14, AdvanceRepeats

\* Start: what the sync before it, the same, has brought is there.
LEMMA StartRepeats ==
    ASSUME RepeatInv, NEW prm \in ParamSets, Start(prm), TypeInv'
    PROVE  Companions' /\ Exact' /\ KindsDone' /\ ManifestsDone' /\ RegistryDone' /\ FilesDone'
<1>1. TypeInv /\ target \in Targets
  BY DEF RepeatInv, CopyInv, TypeInv, TypeOK
<1>2. /\ stage' = "read" /\ params' = prm /\ batch' = {} /\ half' = {} /\ half = {}
      /\ ~Running
      /\ UNCHANGED <<target, source, rich, disk, shared, damaged, flag, manifest>>
      /\ \A k \in Kinds : k \in prm.kinds => ~Passed(k)'
      /\ phase' = 0 => "asset" \notin prm.kinds
  BY <1>1, StartAnew
<1>3. Companions' /\ Exact'
  BY <1>2 DEF RepeatInv, Companions, Exact
<1>4. RegistryDone' \/ Repeating'
  BY <1>2 DEF RegistryDone, Undisturbed, RegistrySettled
<1>5. \A i \in Written' : KindOf[i] \in Kinds /\ KindOf[i] \in prm.kinds /\ ~Handled(i)'
  <2> SUFFICES ASSUME NEW i \in Written'
               PROVE  KindOf[i] \in Kinds /\ KindOf[i] \in prm.kinds /\ ~Handled(i)'
    OBVIOUS
  <2>1. KindOf[i] \in Kinds /\ KindOf[i] \in prm.kinds
    BY <1>2, AttributesAssumption DEF Written, Wanted
  <2> QED BY <1>2, <2>1 DEF Handled
<1>6. CASE ~Repeating'
  <2>1. KindsDone' /\ ManifestsDone'
    BY <1>2, <1>5, <1>6 DEF KindsDone, ManifestsDone
  <2>2. FilesDone'
    BY <1>6 DEF FilesDone
  <2> QED BY <1>3, <1>4, <1>6, <2>1, <2>2
<1>7. CASE Repeating'
  <2>1. result = "ok" /\ ~touched /\ params' = params /\ Undisturbed
    BY <1>2, <1>7 DEF Start, Repeating, Undisturbed, Running
  <2>2. /\ \A k : Passed(k)
        /\ \A i : Handled(i)
    BY <1>2, <2>1 DEF Passed, Handled
  <2>3. KindsDone'
    <3> SUFFICES ASSUME NEW k \in Kinds, k \in params.kinds PROVE KindSettled(k)'
      BY <2>1 DEF KindsDone
    <3>1. KindSettled(k)
      BY <2>1, <2>2 DEF RepeatInv, KindsDone
    <3> QED BY <1>1, <1>2, <2>1, <3>1, SettledStays
  <2>4. ManifestsDone'
    <3> SUFFICES ASSUME NEW i \in Written PROVE Manifested(i)'
      BY <1>2, <2>1, SameSelection DEF ManifestsDone
    <3>1. Manifested(i) /\ i \in Items
      BY <1>1, <2>1, <2>2, WrittenIsWanted DEF RepeatInv, ManifestsDone
    <3> QED BY <1>1, <1>2, <2>1, <3>1, ManifestedStays
  <2>5. RegistryDone'
    <3>1. RegistrySettled
      BY <2>1 DEF RepeatInv, RegistryDone
    <3>2. RegistrySettled'
      BY <1>2, <2>1, <3>1, SameSubject DEF RegistrySettled
    <3> QED BY <3>2 DEF RegistryDone
  <2>6. FilesDone'
    <3>1. ASSUME NEW i \in Written, ~Contested(i), ~Pruned(i) PROVE FileSettled(i)'
      <4>1. i \in Items /\ Writes(KindOf[i])
        BY <1>1, WrittenIsWanted
      <4>2. Arrived(i)
        BY <2>1, <2>2, <3>1 DEF RepeatInv, CopyInv, FilesCopied
      <4>3. Arrived(i)'
        BY <1>1, <1>2, <2>1, <4>1, <4>2, ArrivedStays
      <4>4. source[i].side # Absent => KindOf[i] = "skill"
        BY <4>1 DEF RepeatInv, Companions
      <4>5. (target = "cursor" /\ source[i].side # Absent) =>
              disk[PathOf(target, i)].side = source[i].side
        BY <1>2, <2>1, <2>2, <3>1, <4>4 DEF RepeatInv, CopyInv, CompanionsCopied
      <4> QED BY <1>2, <2>1, <4>3, <4>5, SameSubject DEF FileSettled
    <3> QED BY <1>2, <2>1, <3>1, SameSelection DEF FilesDone
  <2> QED BY <1>3, <2>3, <2>4, <2>5, <2>6
<1> QED BY <1>6, <1>7

\* Once someone else has written, or the sync has failed, nothing is repeated.
LEMMA NothingToRepeat ==
    ASSUME touched' \/ Abort
    PROVE  Exact' /\ KindsDone' /\ ManifestsDone' /\ RegistryDone' /\ FilesDone'
<1>1. CASE touched'
  BY <1>1 DEF Exact, KindsDone, ManifestsDone, RegistryDone, Undisturbed, FilesDone
<1>2. CASE Abort
  <2>1. phase' = 0 /\ stage' = "read" /\ result' = "failed"
    BY <1>2 DEF Abort
  <2>2. ~Repeating' /\ ~Undisturbed' /\ \A k : ~Passed(k)'
    BY <2>1 DEF Repeating, Running, Undisturbed, Passed
  <2>3. \A i : ~Handled(i)'
    BY <2>1, <2>2 DEF Handled
  <2> QED BY <2>1, <2>2, <2>3 DEF Exact, KindsDone, ManifestsDone, RegistryDone, FilesDone
<1> QED BY <1>1, <1>2

\* Only skills ever get files next to them.
LEMMA CompanionsStep == Companions /\ TypeInv /\ [Next]_vars => Companions'
<1> SUFFICES ASSUME Companions, TypeInv, [Next]_vars PROVE Companions'
  OBVIOUS
<1>1. CASE source' = source
  BY <1>1 DEF Companions
<1>2. ASSUME NEW i \in Items, NEW entry \in Entry, EditSource(i, entry) PROVE Companions'
  BY <1>2 DEF EditSource, Companions, TypeInv, TypeOK
<1>3. source' = source \/ \E i \in Items, entry \in Entry : EditSource(i, entry)
  <2>1. CASE \E p \in ParamSets : Start(p)
    BY <2>1 DEF Start, sides
  <2>2. CASE SyncStep
    BY <2>2 DEF SyncStep, ReadPhase, WriteItem, WriteSide, EndFiles, WriteDocument, ParseError,
                WriteAssets, Advance, Abort, sides
  <2>3. CASE Error
    BY <2>3 DEF Error, Fail, AssetsPartly, TearDocument, TearItem, Advance, Abort, sides
  <2>4. CASE Environment
    BY <2>4 DEF Environment, EditAssets, EditFile, EditDocument, sides
  <2> QED BY <2>1, <2>2, <2>3, <2>4 DEF Next, vars, sides
<1> QED BY <1>1, <1>2, <1>3

\* Initially nothing has been synced.
LEMMA RepeatInit == Init => RepeatInv
<1> SUFFICES ASSUME Init PROVE RepeatInv
  OBVIOUS
<1>1. stage = "read" /\ ~Running /\ result # "ok"
  BY DEF Init, Running
<1>2. ~Repeating /\ ~Undisturbed /\ \A i : ~Handled(i) /\ ~Passed(KindOf[i])
  BY <1>1 DEF Repeating, Undisturbed, Handled, Passed
<1>3. \A k : ~Passed(k)
  BY <1>1 DEF Passed
<1>4. Companions
  BY ParamsAssumption DEF Init, Companions
<1> QED BY <1>1, <1>2, <1>3, <1>4, CopyInit
        DEF RepeatInv, Exact, KindsDone, ManifestsDone, RegistryDone, FilesDone

\* Every step keeps what was settled.
LEMMA RepeatStep == ASSUME NoClaudeItem PROVE RepeatInv /\ [Next]_vars => RepeatInv'
<1> DEFINE Kept == Exact' /\ KindsDone' /\ ManifestsDone' /\ RegistryDone' /\ FilesDone'
<1> SUFFICES ASSUME RepeatInv, [Next]_vars PROVE RepeatInv'
  OBVIOUS
<1>1. CopyInv' /\ TypeInv' /\ Companions'
  BY CopyStep, CompanionsStep DEF RepeatInv, CopyInv
<1> SUFFICES Kept
  BY <1>1 DEF RepeatInv
<1>2. touched' \/ Abort => Kept
  BY NothingToRepeat
<1>3. CASE \E p \in ParamSets : Start(p)
  BY <1>1, <1>3, StartRepeats
<1>4. CASE Environment
  BY <1>2, <1>4, EnvironmentType DEF RepeatInv, CopyInv
<1>5. CASE SyncStep /\ ~touched'
  <2>1. ASSUME NEW k \in Kinds, ReadPhase(k) PROVE Kept
    <3>1. ~touched
      BY <1>5, <2>1 DEF ReadPhase, Advance, history
    <3> QED BY <1>1, <2>1, <3>1, ReadPhaseRepeats, DroppedPhaseRepeats
  <2>2. ASSUME NEW k \in Kinds, NEW i \in Items, WriteItem(k, i) PROVE Kept
    <3>1. ~touched
      BY <1>5, <2>2 DEF WriteItem, history
    <3> QED BY <1>1, <2>2, <3>1, WriteItemRepeats
  <2>3. ASSUME NEW k \in Kinds, EndFiles(k) PROVE Kept
    <3>1. ~touched
      BY <1>5, <2>3 DEF EndFiles, Advance, history
    <3> QED BY <1>1, <2>3, <3>1, EndFilesRepeats
  <2>4. ASSUME NEW k \in Kinds, WriteDocument(k) PROVE Kept
    <3>1. ~touched
      BY <1>5, <2>4 DEF WriteDocument, Advance, history
    <3> QED BY <1>1, <2>4, <3>1, WriteDocumentRepeats
  <2>5. ASSUME NEW k \in Kinds, ParseError(k) PROVE Kept
    BY <1>2, <2>5 DEF ParseError
  <2>6. ASSUME NEW i \in Items, WriteSide(i) PROVE Kept
    <3>1. ~touched
      BY <1>5, <2>6 DEF WriteSide, history
    <3> QED BY <1>1, <2>6, <3>1, WriteSideRepeats
  <2>7. ASSUME WriteAssets PROVE Kept
    <3>1. ~touched
      BY <1>5, <2>7 DEF WriteAssets, Advance, history
    <3> QED BY <1>1, <2>7, <3>1, AssetsRepeat
  <2> QED BY <1>5, <2>1, <2>2, <2>3, <2>4, <2>5, <2>6, <2>7 DEF SyncStep
<1>6. CASE Error /\ ~touched'
  <2>1. Abort \/ (AssetsPartly /\ Advance)
    BY <1>6 DEF Error, Fail, TearItem, TearDocument, AssetsPartly
  <2>2. ASSUME AssetsPartly, Advance PROVE Kept
    <3>1. ~touched
      BY <1>6, <2>2 DEF Advance, history
    <3> QED BY <1>1, <2>2, <3>1, AssetsRepeat
  <2> QED BY <1>2, <2>1, <2>2
<1>7. CASE UNCHANGED vars
  <2>1. UNCHANGED <<target, source, rich, disk, shared, damaged, flag, manifest, params, phase,
                    stage, batch, read, half, result, touched, again>>
    BY <1>7 DEF vars, sides, files, run, history
  <2>2. /\ \A k : (Passed(k)' <=> Passed(k)) /\ (KindSettled(k)' <=> KindSettled(k))
        /\ \A i : (Handled(i)' <=> Handled(i)) /\ (Manifested(i)' <=> Manifested(i))
        /\ Repeating' <=> Repeating
        /\ Undisturbed' <=> Undisturbed
        /\ RegistrySettled' <=> RegistrySettled
    BY <2>1, SameSelection, SameSubject
       DEF Passed, Running, Handled, Manifested, Repeating, Undisturbed, RegistrySettled,
           KindSettled, DocumentSettled
  <2>3. Exact' /\ KindsDone' /\ ManifestsDone' /\ RegistryDone'
    BY <2>1, <2>2, SameSelection DEF RepeatInv, Exact, KindsDone, ManifestsDone, RegistryDone
  <2>4. FilesDone'
    BY <2>1, SameFilesDone DEF RepeatInv, CopyInv
  <2> QED BY <2>3, <2>4
<1> QED BY <1>2, <1>3, <1>4, <1>5, <1>6, <1>7 DEF Next

\* A step of a repeated sync without a new fault is quiet.
LEMMA RepeatedStepIsQuiet ==
    ASSUME RepeatInv, [Next]_vars, again, ~touched', used'.faults = used.faults
    PROVE  Quiet
<1>1. TypeInv' /\ used.faults \in Nat
  BY TypeStep, BoundsAssumption DEF RepeatInv, CopyInv, TypeInv, TypeOK
<1>2. ASSUME UNCHANGED files PROVE Quiet
  BY <1>2 DEF Quiet, files
<1>3. ASSUME NEW p \in ParamSets, Start(p) PROVE Quiet
  BY <1>2, <1>3 DEF Start
<1>4. ~Environment
  BY DEF Environment, EditSource, EditAssets, EditFile, EditDocument, Edit
<1>5. ~Error
  <2>1. used \in [syncs : 0 .. MaxSyncs, edits : 0 .. MaxEdits, faults : 0 .. MaxFaults]
    BY DEF RepeatInv, CopyInv, TypeInv, TypeOK
  <2>2. ~Faulty
    BY <1>1, <2>1 DEF Faulty
  <2> QED BY <2>2 DEF Error, Fail, AssetsPartly, TearDocument, TearItem
<1>6. CASE SyncStep
  <2>1. ~touched /\ Repeating
    BY <1>6 DEF SyncStep, ReadPhase, WriteItem, WriteSide, EndFiles, WriteDocument, ParseError,
                WriteAssets, Advance, Abort, history, At, Repeating, RepeatInv, CopyInv, TypeInv,
                TypeOK, Stages
  <2>2. ASSUME NEW k \in Kinds, ReadPhase(k) \/ ParseError(k) PROVE Quiet
    BY <1>2, <2>2 DEF ReadPhase, ParseError
  <2>3. ASSUME NEW k \in Kinds, NEW i \in Items, WriteItem(k, i) PROVE Quiet
    BY <1>1, <2>1, <2>3, WriteItemRepeats
  <2>4. ASSUME NEW k \in Kinds, EndFiles(k) PROVE Quiet
    BY <1>1, <2>1, <2>4, EndFilesRepeats
  <2>5. ASSUME NEW k \in Kinds, WriteDocument(k) PROVE Quiet
    BY <1>1, <2>1, <2>5, WriteDocumentRepeats
  <2>6. ASSUME NEW i \in Items, WriteSide(i) PROVE Quiet
    BY <1>1, <2>1, <2>6, WriteSideRepeats
  <2>7. ASSUME WriteAssets PROVE Quiet
    BY <1>1, <2>1, <2>7, AssetsRepeat
  <2> QED BY <1>6, <2>2, <2>3, <2>4, <2>5, <2>6, <2>7 DEF SyncStep
<1>7. CASE UNCHANGED vars
  BY <1>2, <1>7 DEF vars
<1> QED BY <1>3, <1>4, <1>5, <1>6, <1>7 DEF Next

\* Repeating a sync that succeeded, with nothing changed in between, writes
\* nothing new but what is contested or swept, for any source, target, call
\* and history of failed syncs before it.
THEOREM ResyncsChangeNothing == ASSUME NoClaudeItem PROVE Spec => ResyncChangesNothing
<1>1. RepeatInv /\ [Next]_vars => RepeatInv'
  BY RepeatStep
<1>2. RepeatInv /\ [Next]_vars =>
        [(again /\ ~touched' /\ used'.faults = used.faults) =>
           /\ \A p \in Paths : disk'[p] # disk[p] =>
                Swept(p[1]) \/ \E i \in Written : PathOf(target, i) = p /\ Contested(i)
           /\ \A q \in Plugins : (q \in manifest' <=> q \in manifest) \/ Swept(q)
           /\ UNCHANGED <<shared, damaged, flag>>]_vars
  BY RepeatedStepIsQuiet DEF Quiet
<1> QED BY <1>1, <1>2, RepeatInit, PTL DEF Spec, ResyncChangesNothing

-----------------------------------------------------------------------------
(* skip_existing *)

KeepInv == TypeInv /\ NewOnly

\* Only the kinds that skip_existing is for are protected, and their files
\* bear the kind and the sanitised name.
LEMMA ProtectedPath ==
    ASSUME TypeInv, NEW i \in Items, Protected(KindOf[i]), NEW j \in Items,
           PathOf(target, j)[1] = KindOf[i]
    PROVE  KindOf[j] = KindOf[i] /\ PathOf(target, j) = <<KindOf[i], Stem[target][NameOf[j]]>>
<1>1. KindOf[i] \in {"command", "instruction"}
  BY DEF Protected, TypeInv, TypeOK, SyncParams
<1>2. KindOf[i] \notin Plugins
  BY AttributesAssumption, MarkersAssumption
<1>3. InPlugin(target, j) => PathOf(target, j)[1] \in Plugins
  BY PathIsPath DEF TypeInv, TypeOK
<1>4. ~InPlugin(target, j)
  BY <1>2, <1>3
<1>5. ~AsSkill(target, j)
  BY <1>1, <1>4 DEF PathOf
<1>6. PathOf(target, j) = <<KindOf[j], Stem[target][NameOf[j]]>>
  BY <1>4, <1>5 DEF PathOf
<1> QED BY <1>6

\* An item of a protected kind has such a path.
LEMMA ProtectedItem ==
    ASSUME TypeInv, NEW i \in Items, Protected(KindOf[i])
    PROVE  PathOf(target, i)[1] = KindOf[i]
BY DEF Protected, TypeInv, TypeOK, SyncParams, PathOf, InPlugin, AsSkill

\* Paths depend on the target only.
LEMMA SamePaths ==
    ASSUME UNCHANGED <<target, params>>
    PROVE  /\ \A k : (Writes(k)' <=> Writes(k)) /\ (Protected(k)' <=> Protected(k))
           /\ \A q : OwnName(q)' <=> OwnName(q)
           /\ \A i : PathOf(target, i)' = PathOf(target, i)
BY DEF Writes, Protected, OwnName, PathOf, InPlugin, AsSkill

\* With the same files, the same is to be shown.
LEMMA SameNewOnly ==
    ASSUME NewOnly, UNCHANGED <<target, params, phase, stage, batch, read, touched>>,
           batch \subseteq Items,
           \A i \in Items : disk'[PathOf(target, i)].main = disk[PathOf(target, i)].main
    PROVE  NewOnly'
<1>1. \A q : JustWritten(q)' <=> JustWritten(q)
  BY SamePaths DEF JustWritten
<1> QED BY <1>1, SamePaths DEF NewOnly

\* ReadPhase chooses only what has no file.
LEMMA ReadPhaseKeeps ==
    ASSUME KeepInv, NEW k \in Kinds, ReadPhase(k), ~Advance
    PROVE  NewOnly'
<1>1. /\ stage' = "write" /\ batch' = ToWrite(k) /\ At(k)
      /\ UNCHANGED <<target, source, rich, disk, shared, params, phase, touched>>
  BY DEF ReadPhase, sides, files, history
<1> SUFFICES ASSUME Writes(k), Protected(k), NEW i \in batch', OwnName(PathOf(target, i)),
                    disk[PathOf(target, i)].main # Absent
             PROVE  FALSE
  <2>1. /\ Writes(k)' <=> Writes(k)
        /\ Protected(k)' <=> Protected(k)
        /\ \A q : OwnName(q)' <=> OwnName(q)
        /\ \A j : PathOf(target, j)' = PathOf(target, j)
    BY <1>1 DEF Writes, Protected, OwnName, PathOf, InPlugin, AsSkill
  <2>2. Phases[phase'] = k
    BY <1>1 DEF At
  <2> QED BY <1>1, <2>1, <2>2 DEF NewOnly
<1>2. i \in Selected(k) /\ i \in Items /\ KindOf[i] = k
  BY <1>1, SelectedIsListed DEF KeepInv, TypeInv
<1>3. NameOf[i] \notin Existing(k)
  BY <1>1, <1>2 DEF ToWrite
<1>4. Existing(k) = NamesRead(disk, k)
  BY DEF Existing, Writes, AdapterOf, ClaudeAdapter
<1>5. PathOf(target, i) = <<k, Stem[target][NameOf[i]]>> /\ PathOf(target, i) \in Paths
  BY <1>2, ProtectedItem, ProtectedPath, PathIsPath DEF KeepInv, TypeInv, TypeOK
<1>6. Stem[target][NameOf[i]] = NameOf[i]
  BY <1>2 DEF OwnName
<1>7. NameOf[i] \in NamesRead(disk, k)
  BY <1>5, <1>6 DEF NamesRead
<1> QED BY <1>3, <1>4, <1>7

\* Writing an item: the file is one the phase has written.
LEMMA WriteItemKeeps ==
    ASSUME KeepInv, NEW k \in Kinds, NEW i \in Items, WriteItem(k, i)
    PROVE  NewOnly'
<1> DEFINE p == PathOf(target, i)
<1>1. /\ UNCHANGED <<target, params, phase, stage, read, touched>>
      /\ stage = "write" /\ i \in batch /\ batch' = batch \ {i}
      /\ disk' = [disk EXCEPT ![p].main = Render[target][k][read[i].main]]
  BY DEF WriteItem, sides, history
<1>2. /\ target \in Targets /\ disk \in [Paths -> File] /\ batch \subseteq Items
      /\ \A j \in Items : PathOf(target, j) \in Paths
  BY PathIsPath DEF KeepInv, TypeInv, TypeOK
<1>3. read[i] # Nothing
  BY <1>1, MarkersAssumption DEF KeepInv, TypeInv, Stages, Nothing
<1> SUFFICES ASSUME ~touched, Writes(Phases[phase]), Protected(Phases[phase]), NEW j \in batch',
                    OwnName(PathOf(target, j)), disk'[PathOf(target, j)].main # Absent
             PROVE  \E l \in Items \ batch' : PathOf(target, l) = PathOf(target, j) /\ read[l] # Nothing
  <2>1. \A q : JustWritten(q)' <=> \E l \in Items \ batch' : PathOf(target, l) = q /\ read[l] # Nothing
    BY <1>1, SamePaths DEF JustWritten
  <2> QED BY <1>1, <2>1, SamePaths DEF NewOnly
<1>4. CASE PathOf(target, j) = p
  BY <1>1, <1>3, <1>4
<1>5. CASE PathOf(target, j) # p
  <2>1. disk'[PathOf(target, j)] = disk[PathOf(target, j)]
    BY <1>1, <1>2, <1>5
  <2>2. JustWritten(PathOf(target, j))
    BY <1>1, <2>1 DEF KeepInv, NewOnly
  <2> QED BY <1>1, <2>2 DEF JustWritten
<1> QED BY <1>4, <1>5

\* The files next to SKILL.md are others.
LEMMA WriteSideKeeps == ASSUME KeepInv, NEW i \in Items, WriteSide(i) PROVE NewOnly'
<1> DEFINE p == PathOf(target, i)
<1>1. /\ UNCHANGED <<target, params, phase, stage, batch, read, touched>>
      /\ disk' = [disk EXCEPT ![p].side = read[i].side]
  BY DEF WriteSide, sides, history
<1>2. /\ disk \in [Paths -> File] /\ batch \subseteq Items
      /\ \A j \in Items : PathOf(target, j) \in Paths
  BY PathIsPath DEF KeepInv, TypeInv, TypeOK
<1>3. \A j \in Items : disk'[PathOf(target, j)].main = disk[PathOf(target, j)].main
  BY <1>1, <1>2 DEF File
<1> QED BY <1>1, <1>2, <1>3, SameNewOnly DEF KeepInv

\* Every step keeps what is to be written apart from what was there.
LEMMA KeepStep == KeepInv /\ [Next]_vars => KeepInv'
<1> SUFFICES ASSUME KeepInv, [Next]_vars PROVE KeepInv'
  OBVIOUS
<1>1. TypeInv'
  BY TypeStep DEF KeepInv
<1>2. CASE touched' \/ stage' = "read"
  BY <1>1, <1>2 DEF KeepInv, NewOnly
<1>3. CASE ~touched' /\ stage' # "read"
  <2> SUFFICES NewOnly'
    BY <1>1 DEF KeepInv
  <2>1. ~Advance /\ ~Abort
    BY <1>3 DEF Advance, Abort
  <2>2. ASSUME NEW prm \in ParamSets, Start(prm) PROVE FALSE
    BY <1>3, <2>2 DEF Start, KeepInv, TypeInv, TypeOK, Stages, Running
  <2>3. ASSUME NEW k \in Kinds, ReadPhase(k) PROVE NewOnly'
    BY <2>1, <2>3, ReadPhaseKeeps
  <2>4. ASSUME NEW k \in Kinds, NEW i \in Items, WriteItem(k, i) PROVE NewOnly'
    BY <2>4, WriteItemKeeps
  <2>5. ASSUME NEW i \in Items, WriteSide(i) PROVE NewOnly'
    BY <2>5, WriteSideKeeps
  <2>6. CASE SyncStep
    <3>1. ~WriteAssets /\ \A k \in Kinds : ~EndFiles(k) /\ ~WriteDocument(k) /\ ~ParseError(k)
      BY <2>1 DEF EndFiles, WriteDocument, ParseError, WriteAssets
    <3>2. \/ \E k \in Kinds : ReadPhase(k)
          \/ \E k \in Kinds, i \in Items : WriteItem(k, i)
          \/ \E i \in Items : WriteSide(i)
      BY <2>6, <3>1 DEF SyncStep
    <3> QED BY <2>3, <2>4, <2>5, <3>2
  <2>7. ~Error
    BY <2>1 DEF Error, Fail, TearItem, TearDocument, AssetsPartly
  <2>8. ~Environment
    BY <1>3, EnvironmentType DEF KeepInv
  <2>9. CASE UNCHANGED vars
    <3>1. UNCHANGED <<target, disk, params, phase, stage, batch, read, touched>>
      BY <2>9 DEF vars, sides, files, run, history
    <3> QED BY <3>1, SameNewOnly DEF KeepInv, TypeInv, TypeOK
  <2>10. ~\E prm \in ParamSets : Start(prm)
    BY <2>2
  <2> QED BY <2>6, <2>7, <2>8, <2>9, <2>10 DEF Next
<1> QED BY <1>2, <1>3 DEF TypeInv, TypeOK

\* A file that was on the target when its phase began is never written by a
\* sync with skip_existing.
THEOREM SkipExistingAlwaysKeeps == Spec => SkipExistingKeepsTarget
<1> DEFINE Keeps(i) ==
        LET p == PathOf(target, i)
        IN  /\ Protected(KindOf[i]) /\ Writes(KindOf[i])
            /\ Running /\ ~touched'
            /\ disk[p].main # Absent /\ OwnName(p) /\ ~JustWritten(p)
            => disk'[p].main = disk[p].main
<1>1. ASSUME KeepInv, [Next]_vars, NEW i \in Items PROVE Keeps(i)
  <2> DEFINE p == PathOf(target, i)
  <2> SUFFICES ASSUME Protected(KindOf[i]), Writes(KindOf[i]), Running, ~touched',
                      disk[p].main # Absent, OwnName(p), ~JustWritten(p)
               PROVE  disk'[p].main = disk[p].main
    OBVIOUS
  <2>1. /\ target \in Targets /\ disk \in [Paths -> File] /\ p \in Paths
        /\ \A j \in Items : PathOf(target, j) \in Paths
    BY <1>1, PathIsPath DEF KeepInv, TypeInv, TypeOK
  <2>2. p[1] = KindOf[i] /\ p[1] \notin Plugins
    BY <1>1, ProtectedItem, AttributesAssumption, MarkersAssumption DEF KeepInv
  <2>3. ASSUME NEW j \in batch, ~touched, stage = "write" PROVE PathOf(target, j) # p
    <3> SUFFICES ASSUME PathOf(target, j) = p PROVE FALSE
      OBVIOUS
    <3>1. j \in Items /\ KindOf[j] = Phases[phase]
      BY <1>1, <2>3 DEF KeepInv, TypeInv, TypeOK, Stages
    <3>2. KindOf[j] = KindOf[i]
      BY <1>1, <2>2, <3>1, ProtectedPath DEF KeepInv
    <3>3. JustWritten(PathOf(target, j))
      BY <1>1, <2>3, <3>1, <3>2 DEF KeepInv, NewOnly
    <3> QED BY <3>3
  <2>4. ASSUME NEW k \in Kinds, NEW j \in Items, WriteItem(k, j) PROVE disk'[p].main = disk[p].main
    <3>1. j \in batch /\ ~touched /\ stage = "write"
          /\ disk' = [disk EXCEPT ![PathOf(target, j)].main = Render[target][k][read[j].main]]
      BY <2>4 DEF WriteItem, history
    <3>2. PathOf(target, j) # p
      BY <2>3, <3>1
    <3> HIDE DEF p
    <3> QED BY <2>1, <3>1, <3>2
  <2>5. ASSUME NEW j \in Items, WriteSide(j) PROVE disk'[p].main = disk[p].main
    <3>1. disk' = [disk EXCEPT ![PathOf(target, j)].side = read[j].side]
      BY <2>5 DEF WriteSide
    <3> HIDE DEF p
    <3> QED BY <2>1, <3>1 DEF File
  <2>6. ASSUME NEW gone \in SUBSET (Plugins \ Registered), disk' = Without(gone)
        PROVE  disk'[p].main = disk[p].main
    BY <2>1, <2>2, <2>6 DEF Without
  <2>7. ASSUME NEW k \in Kinds, NEW j \in Items, TearItem(k, j) PROVE disk'[p].main = disk[p].main
    <3>1. CASE disk' = [disk EXCEPT ![PathOf(target, j)].side = Torn]
      <4> HIDE DEF p
      <4> QED BY <2>1, <3>1 DEF File
    <3>2. CASE disk' # [disk EXCEPT ![PathOf(target, j)].side = Torn]
      <4>1. j \in batch /\ ~touched /\ stage = "write"
            /\ disk' = [disk EXCEPT ![PathOf(target, j)].main = Torn]
        BY <2>7, <3>2 DEF TearItem, Abort, history
      <4>2. PathOf(target, j) # p
        BY <2>3, <4>1
      <4> HIDE DEF p
      <4> QED BY <2>1, <4>1, <4>2
    <3> QED BY <3>1, <3>2
  <2>8. CASE SyncStep
    <3>1. CASE UNCHANGED disk
      BY <3>1
    <3>2. CASE WriteAssets
      BY <2>6, <3>2 DEF WriteAssets
    <3> QED BY <2>4, <2>5, <2>8, <3>1, <3>2
            DEF SyncStep, ReadPhase, EndFiles, WriteDocument, ParseError, files
  <2>9. CASE Error
    BY <2>6, <2>7, <2>9 DEF Error, Fail, AssetsPartly, TearDocument, files
  <2>10. CASE \E prm \in ParamSets : Start(prm)
    BY <2>10 DEF Start, files
  <2>11. ~Environment
    BY <1>1, EnvironmentType DEF KeepInv
  <2>12. CASE UNCHANGED vars
    BY <2>12 DEF vars, files
  <2> QED BY <1>1, <2>8, <2>9, <2>10, <2>11, <2>12 DEF Next
<1>2. KeepInv /\ [Next]_vars => [\A i \in Items : Keeps(i)]_vars
  <2> HIDE DEF Keeps
  <2> QED BY <1>1
<1>3. Init => KeepInv
  BY TypeInit DEF Init, KeepInv, NewOnly
<1> QED BY <1>2, <1>3, KeepStep, PTL DEF Spec, SkipExistingKeepsTarget

-----------------------------------------------------------------------------
(* Staying within the call *)

Within ==
    /\ \A p \in Paths : disk'[p] # disk[p] =>
         Swept(p[1]) \/ \E i \in Written : PathOf(target, i) = p
    /\ \A i \in Items : shared'[i] # shared[i] =>
         \E k \in params.kinds :
            /\ Shares(k)
            /\ \/ k = KindOf[i]
               \/ /\ DocumentOf(target, k) = DocumentOf(target, KindOf[i])
                  /\ DocumentOf(target, k) \in damaged'
    /\ \A q \in manifest' \ manifest :
         \/ \E i \in Written : InPlugin(target, i) /\ q = SafePlugin[PluginOf[i]]
         \/ target = "cursor" /\ "asset" \in params.kinds /\ q \in Manifests
    /\ \A q \in manifest \ manifest' : Swept(q)
    /\ flag' # flag => target = "codex" /\ params.kinds \cap {"skill", "agent"} # {}

\* What is still to be written, or half written, is what the call selects.
LEMMA ToComeIsWritten ==
    ASSUME CopyInv, ~touched, NEW k, At(k), stage = "write", Writes(k)
    PROVE  batch \subseteq Written /\ half \subseteq Written /\ k \in params.kinds
<1>1. Phases[phase] = k /\ k \in params.kinds
  BY DEF At, CopyInv, TypeInv, Stages
<1>2. batch \subseteq Selected(k) /\ half \subseteq Written
  BY <1>1 DEF CopyInv, Faithful
<1>3. batch \subseteq Written
  BY <1>1, <1>2, SelectedIsWritten DEF CopyInv
<1> QED BY <1>1, <1>2, <1>3

\* A whole or a torn item.
LEMMA ItemWithin ==
    ASSUME CopyInv, ~touched, NEW k \in Kinds, NEW i \in Items,
           WriteItem(k, i) \/ TearItem(k, i)
    PROVE  Within
<1> DEFINE p == PathOf(target, i)
<1>1. At(k) /\ stage = "write" /\ Writes(k) /\ i \in batch \cup half
  BY DEF WriteItem, TearItem
<1>2. i \in Written
  BY <1>1, ToComeIsWritten
<1>3. disk \in [Paths -> File] /\ manifest \in SUBSET Plugins
  BY DEF CopyInv, TypeInv, TypeOK
<1>4. \E f : disk' = [disk EXCEPT ![p] = f]
  BY DEF WriteItem, TearItem
<1>5. \A q \in Paths : disk'[q] # disk[q] => q = p
  BY <1>3, <1>4
<1>6. /\ \/ manifest' = manifest
         \/ InPlugin(target, i) /\ manifest' = manifest \cup {SafePlugin[PluginOf[i]]}
      /\ UNCHANGED <<shared, flag>>
  BY DEF WriteItem, TearItem
<1> QED BY <1>2, <1>5, <1>6 DEF Within

\* The files next to a SKILL.md.
LEMMA SideWithin ==
    ASSUME CopyInv, ~touched, NEW i \in Items, WriteSide(i)
    PROVE  Within
<1>1. i \in half /\ UNCHANGED <<shared, manifest, flag>>
  BY DEF WriteSide
<1>2. stage = "write"
  BY <1>1 DEF CopyInv, TypeInv, TypeOK, Stages
<1>3. i \in Written
  BY <1>1, <1>2 DEF CopyInv, Faithful
<1>4. disk \in [Paths -> File]
  BY DEF CopyInv, TypeInv, TypeOK
<1>5. \E f : disk' = [disk EXCEPT ![PathOf(target, i)] = f]
  BY DEF WriteSide
<1>6. \A q \in Paths : disk'[q] # disk[q] => q = PathOf(target, i)
  BY <1>4, <1>5
<1> QED BY <1>1, <1>3, <1>6 DEF Within

\* A document, whole or torn.
LEMMA DocumentWithin ==
    ASSUME CopyInv, ~touched, NEW k \in Kinds, WriteDocument(k) \/ TearDocument(k)
    PROVE  Within
<1>1. /\ At(k) /\ stage = "write" /\ Shares(k)
      /\ UNCHANGED <<disk, manifest, flag>>
  BY DEF WriteDocument, TearDocument
<1>2. k \in params.kinds /\ \A i \in batch : KindOf[i] = k
  BY <1>1 DEF At, CopyInv, TypeInv, Stages
<1>3. ASSUME NEW i \in Items, shared'[i] # shared[i], WriteDocument(k)
      PROVE  KindOf[i] = k
  <2>1. shared' = Documented(target, k, k \in damaged, shared, batch, read)
    BY <1>3 DEF WriteDocument
  <2> QED BY <1>2, <1>3, <2>1 DEF Documented
<1>4. ASSUME NEW i \in Items, shared'[i] # shared[i], TearDocument(k)
      PROVE  /\ DocumentOf(target, k) = DocumentOf(target, KindOf[i])
             /\ DocumentOf(target, k) \in damaged'
  BY <1>4 DEF TearDocument
<1>5. \A i \in Items : shared'[i] # shared[i] =>
        \E l \in params.kinds :
           /\ Shares(l)
           /\ \/ l = KindOf[i]
              \/ /\ DocumentOf(target, l) = DocumentOf(target, KindOf[i])
                 /\ DocumentOf(target, l) \in damaged'
  BY <1>1, <1>2, <1>3, <1>4
<1> QED BY <1>1, <1>5 DEF Within

\* The manifests and the sweep, whole or in part.
LEMMA AssetsWithin ==
    ASSUME CopyInv, WriteAssets \/ AssetsPartly
    PROVE  Within
<1>1. At("asset") /\ UNCHANGED <<shared, flag>>
  BY DEF WriteAssets, AssetsPartly
<1>2. "asset" \in params.kinds
  BY <1>1 DEF At, CopyInv, TypeInv, Stages
<1>3. manifest \in SUBSET Plugins
  BY DEF CopyInv, TypeInv, TypeOK
<1>4. \A gone : \A p \in Paths : Without(gone)[p] # disk[p] => p[1] \in gone
  BY DEF Without
<1>5. CASE WriteAssets
  <2>1. CASE target = "cursor" /\ Assets # {}
    <3>1. /\ manifest' = (manifest \cup Manifests) \cap Registered
          /\ disk' = Without(Plugins \ Registered)
      BY <1>5, <2>1 DEF WriteAssets
    <3> QED BY <1>1, <1>2, <1>3, <1>4, <2>1, <3>1 DEF Within, Swept
  <2>2. CASE ~(target = "cursor" /\ Assets # {})
    BY <1>1, <1>5, <2>2 DEF WriteAssets, Within
  <2> QED BY <2>1, <2>2
<1>6. CASE AssetsPartly
  <2>1. PICK some \in SUBSET Manifests, gone \in SUBSET (Plugins \ Registered) :
          /\ manifest' = (manifest \cup some) \ gone
          /\ disk' = Without(gone)
    BY <1>6 DEF AssetsPartly
  <2>2. target = "cursor" /\ Assets # {}
    BY <1>6 DEF AssetsPartly
  <2> QED BY <1>1, <1>2, <1>3, <1>4, <2>1, <2>2 DEF Within, Swept
<1> QED BY <1>5, <1>6

\* A sync touches only what its call is about: nothing of an excluded plugin,
\* of a kind whose flag is not set, or of a neighbour in a shared document,
\* also when it fails halfway.  (A document that is torn is lost as a whole.)
THEOREM SyncsStayWithinTheirCall == Spec => StaysWithinTheCall
<1>1. ASSUME CopyInv, [Next]_vars, ~touched' PROVE Within
  <2>1. ASSUME UNCHANGED <<disk, shared, manifest, flag>> PROVE Within
    BY <2>1 DEF Within
  <2>2. ~Environment
    BY <1>1 DEF Environment, EditSource, EditAssets, EditFile, EditDocument, Edit
  <2>3. ASSUME SyncStep \/ Error PROVE ~touched
    BY <1>1, <2>3 DEF SyncStep, Error, ReadPhase, WriteItem, WriteSide, EndFiles, WriteDocument,
          ParseError, WriteAssets, Fail, TearItem, TearDocument, AssetsPartly, Advance, Abort,
          history
  <2>4. CASE SyncStep
    <3>1. ASSUME NEW k \in Kinds, ReadPhase(k) \/ ParseError(k) PROVE Within
      BY <2>1, <3>1 DEF ReadPhase, ParseError, files
    <3>2. ASSUME NEW k \in Kinds, EndFiles(k) PROVE Within
      <4>1. /\ UNCHANGED <<disk, shared, manifest>>
            /\ flag' = (flag \/ (target = "codex" /\ (k = "skill" \/ (k = "agent" /\ read # NoEntries))))
            /\ k \in params.kinds
        BY <1>1, <3>2 DEF EndFiles, At, CopyInv, TypeInv, Stages
      <4>2. flag' # flag => target = "codex" /\ k \in {"skill", "agent"}
        BY <4>1, <1>1 DEF CopyInv, TypeInv, TypeOK
      <4> QED BY <4>1, <4>2 DEF Within
    <3> QED BY <1>1, <2>3, <2>4, <3>1, <3>2, ItemWithin, SideWithin, DocumentWithin, AssetsWithin
            DEF SyncStep
  <2>5. CASE Error
    <3>1. Fail => Within
      BY <2>1 DEF Fail, files
    <3> QED BY <1>1, <2>3, <2>5, <3>1, ItemWithin, DocumentWithin, AssetsWithin DEF Error
  <2>6. CASE (\E p \in ParamSets : Start(p)) \/ UNCHANGED vars
    BY <2>1, <2>6 DEF Start, vars, files
  <2> QED BY <1>1, <2>2, <2>4, <2>5, <2>6 DEF Next
<1>2. CopyInv /\ [Next]_vars => [~touched' => Within]_vars
  BY <1>1
<1>3. CopyInv /\ [Next]_vars =>
        [~touched' =>
           /\ \A p \in Paths : disk'[p] # disk[p] =>
                Swept(p[1]) \/ \E i \in Written : PathOf(target, i) = p
           /\ \A i \in Items : shared'[i] # shared[i] =>
                \E k \in params.kinds :
                   /\ Shares(k)
                   /\ \/ k = KindOf[i]
                      \/ /\ DocumentOf(target, k) = DocumentOf(target, KindOf[i])
                         /\ DocumentOf(target, k) \in damaged'
           /\ \A q \in manifest' \ manifest :
                \/ \E i \in Written : InPlugin(target, i) /\ q = SafePlugin[PluginOf[i]]
                \/ target = "cursor" /\ "asset" \in params.kinds /\ q \in Manifests
           /\ \A q \in manifest \ manifest' : Swept(q)
           /\ flag' # flag => target = "codex" /\ params.kinds \cap {"skill", "agent"} # {}]_vars
  BY <1>2 DEF Within
<1> QED BY <1>3, CopyInit, CopyStep, PTL DEF Spec, StaysWithinTheCall

-----------------------------------------------------------------------------
(* The end of a sync, but for the scheduling that drives it *)

\* In every state of a running sync the guard of some SyncStep holds: a phase
\* of files has an item, side files or its end, one of documents writes or
\* refuses, whatever failed before and whoever edits meanwhile.
THEOREM SyncsNeverStuck == Spec => []SyncsAreNeverStuck
<1>1. TypeInv => SyncsAreNeverStuck
  <2> SUFFICES ASSUME TypeInv, Running PROVE CanStep
    BY DEF SyncsAreNeverStuck
  <2>1. phase \in 1 .. 8 /\ Phases[phase] \in Kinds \cup {"asset"}
    BY PhaseOfKind DEF TypeInv, TypeOK, Running
  <2>2. stage = "write" => Phases[phase] \in Kinds
                             /\ (Writes(Phases[phase]) \/ Shares(Phases[phase]))
    BY DEF TypeInv, Stages
  <2>3. stage \in {"read", "write"}
    BY DEF TypeInv, TypeOK
  <2> QED BY <2>1, <2>2, <2>3 DEF CanStep, At
<1> QED BY <1>1, TypeInit, TypeStep, PTL DEF Spec

\* Every step of a sync brings it closer to its end, and neither an error nor
\* an edit takes it back: with SyncsNeverStuck, and as there are eight phases
\* and finitely many items, a sync whose process runs returns.
THEOREM SyncsAlwaysMoveOn == Spec => SyncsMoveOn
<1> DEFINE Onward ==
             \/ phase' = 0
             \/ phase' > phase
             \/ /\ phase' = phase
                /\ \/ stage = "read" /\ stage' = "write"
                   \/ /\ stage' = "write" /\ stage = "write"
                      /\ \/ batch' \subseteq batch /\ batch' # batch
                         \/ batch' = batch /\ half # {} /\ half' = {}
<1>1. ASSUME TypeInv, SyncStep \/ Error PROVE Onward
  <2>1. phase \in 0 .. 8
    BY <1>1, PhaseOfKind DEF TypeInv, TypeOK
  <2>2. ASSUME Advance PROVE Onward
    <3>1. phase' = Following(phase, params)
      BY <2>2 DEF Advance
    <3> QED BY <2>1, <3>1, FollowingIsNext
  <2>3. ASSUME Abort PROVE Onward
    BY <2>3 DEF Abort
  <2>4. ASSUME NEW k \in Kinds, ReadPhase(k) PROVE Onward
    <3>1. Advance \/ (stage = "read" /\ stage' = "write" /\ phase' = phase)
      BY <2>4 DEF ReadPhase
    <3> QED BY <2>2, <3>1
  <2>5. ASSUME NEW k \in Kinds, NEW i \in Items, WriteItem(k, i) PROVE Onward
    BY <2>5 DEF WriteItem
  <2>6. ASSUME NEW i \in Items, WriteSide(i) PROVE Onward
    <3>1. stage = "write"
      BY <1>1, <2>6 DEF WriteSide, TypeInv, TypeOK, Stages
    <3> QED BY <2>6, <3>1 DEF WriteSide
  <2>7. \/ Advance \/ Abort
        \/ \E k \in Kinds : ReadPhase(k) \/ \E i \in Items : WriteItem(k, i)
        \/ \E i \in Items : WriteSide(i)
    BY <1>1 DEF SyncStep, Error, EndFiles, WriteDocument, ParseError, WriteAssets, Fail, TearItem,
                TearDocument, AssetsPartly
  <2> QED BY <2>2, <2>3, <2>4, <2>5, <2>6, <2>7
<1>2. Environment => UNCHANGED <<phase, stage, batch, half>>
  BY DEF Environment, EditSource, EditAssets, EditFile, EditDocument, Edit, run
<1>3. TypeInv /\ [Next]_vars =>
        [/\ SyncStep \/ Error => Onward
         /\ Environment => UNCHANGED <<phase, stage, batch, half>>]_vars
  BY <1>1, <1>2
<1> QED BY <1>3, TypeInit, TypeStep, PTL DEF Spec, SyncsMoveOn
=============================================================================
