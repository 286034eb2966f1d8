----------------------------- MODULE SkillCache -----------------------------
(***************************************************************************)
(* The skill cache.  Every server process keeps the list of skills of its  *)
(* latest scan of the skill directories and answers from it for one TTL;   *)
(* the list is also persisted to a file that the processes share, from     *)
(* which a process starts, and to which it returns after the watcher has   *)
(* invalidated its list.                                                   *)
(*                                                                         *)
(* A scan, and the write that follows it, hold the cache's mutex, so that  *)
(* the other calls of the process and its watcher wait; the directories,   *)
(* the file and the other processes do not.                                *)
(*                                                                         *)
(* The content of the directories is its version.  Time is in ticks, and   *)
(* is kept as ages, each capped where no answer depends on it any more, so *)
(* that time itself is unbounded.                                          *)
(***************************************************************************)
EXTENDS Integers

CONSTANTS
    Servers,     \* processes that share the snapshot file
    Roots,       \* sets of skill directories
    RootsOf,     \* per process, those it can be given: skill_roots
    NoList,      \* the list of a cleared cache
    Never,       \* last_scan = None
    TTL,         \* ttl
    Backdates,   \* an Instant can be set back by a TTL: checked_sub succeeds
    ScanTime,    \* bound: ticks a scan, or the write of the file, can take
    EmptyAt,     \* versions at which no skill is found
    MaxVersion   \* bound: changes of the directories

ASSUME SkillCacheAssumption ==
    /\ RootsOf \in [Servers -> (SUBSET Roots) \ {{}}]
    /\ TTL \in Nat \ {0}
    /\ Backdates \in BOOLEAN
    /\ ScanTime \in Nat \ {0}
    /\ ScanTime <= TTL
    /\ MaxVersion \in Nat
    /\ EmptyAt \subseteq 0 .. MaxVersion
    /\ NoList \notin [roots : Roots, version : 0 .. MaxVersion]
    /\ Never \notin Nat

VARIABLES
    world,      \* version of the skill directories
    gone,       \* per version, ticks since it stopped being the world
    file,       \* the snapshot file
    pc,         \* where each process is
    roots,      \* SkillCache::roots
    list,       \* SkillCache::skills, with its duplicates, index and graph
    scanned,    \* age of last_scan
    got,        \* list the running scan has found
    busy,       \* ticks since the scan started or the file was stamped
    due,        \* history: version when the list was last invalidated
    answered    \* history: a call was answered since

memory == <<roots, list, scanned>>
history == <<due, answered>>
vars == <<world, gone, file, pc, roots, list, scanned, got, busy, due,
          answered>>

Versions == 0 .. MaxVersion
Lists == [roots : Roots, version : Versions]

\* The cache's mutex is held.
Working == {"scan", "found", "write"}

\* How long after the directories have changed their former list can still
\* be an answer: found by a scan that began before, read from the file at the
\* end of its TTL and then taken to be fresh for another.
Bound == ScanTime + 2 * TTL - 1

\* An age one tick later.
OlderUncapped(age, cap) == age + 1
Older(age, cap) == IF age < cap THEN age + 1 ELSE cap

TornFile == [state |-> "torn", list |-> NoList, age |-> 0]

-----------------------------------------------------------------------------
\* The list is fresh while its scan is less than a TTL ago.
FreshForever(p) == scanned[p] # Never
Fresh(p) == scanned[p] # Never /\ scanned[p] < TTL

Cleared(p) == scanned[p] = Never /\ list[p] = NoList

\* The file parses, is of these roots, and is at most a TTL old.
LoadableAnyAge(r) == file.state = "whole" /\ file.list.roots = r
Loadable(r) ==
    /\ file.state = "whole"
    /\ file.list.roots = r
    /\ file.age <= TTL

\* A cleared cache first turns to the file.
Reloads(p) == Cleared(p) /\ Loadable(roots[p])

HasSkills(l) == l.version \notin EmptyAt

\* Lists with which a call to p can be answered in the current state.
Answers(p) ==
    {l \in Lists :
        \/ pc[p] = "idle" /\ Fresh(p) /\ list[p] = l
        \/ pc[p] = "idle" /\ Reloads(p) /\ file.list = l /\ HasSkills(l)
        \/ pc[p] = "write" /\ list[p] = l}

-----------------------------------------------------------------------------
Init ==
    /\ world = 0
    /\ gone = [v \in Versions |-> 0]
    /\ file = [state |-> "none", list |-> NoList, age |-> 0]
    /\ pc = [p \in Servers |-> "down"]
    /\ roots = [p \in Servers |-> CHOOSE r \in RootsOf[p] : TRUE]
    /\ list = [p \in Servers |-> NoList]
    /\ scanned = [p \in Servers |-> Never]
    /\ got = [p \in Servers |-> NoList]
    /\ busy = [p \in Servers |-> 0]
    /\ due = [p \in Servers |-> 0]
    /\ answered = [p \in Servers |-> FALSE]

\* The process starts with the list of the file, as if it had just scanned.
Boot(p) ==
    /\ pc[p] = "down"
    /\ pc' = [pc EXCEPT ![p] = "idle"]
    /\ \E r \in RootsOf[p] :
        /\ roots' = [roots EXCEPT ![p] = r]
        /\ IF Loadable(r)
             THEN /\ list' = [list EXCEPT ![p] = file.list]
                  /\ scanned' = [scanned EXCEPT ![p] = 0]
             ELSE UNCHANGED <<list, scanned>>
    /\ UNCHANGED <<world, gone, file, got, busy, history>>

\* The process ends, perhaps in the middle of writing the file.
Stop(p) ==
    /\ pc[p] # "down"
    /\ pc' = [pc EXCEPT ![p] = "down"]
    /\ list' = [list EXCEPT ![p] = NoList]
    /\ scanned' = [scanned EXCEPT ![p] = Never]
    /\ got' = [got EXCEPT ![p] = NoList]
    /\ busy' = [busy EXCEPT ![p] = 0]
    /\ \/ UNCHANGED file
       \/ pc[p] = "write" /\ file' = TornFile
    /\ due' = [due EXCEPT ![p] = 0]
    /\ answered' = [answered EXCEPT ![p] = FALSE]
    /\ UNCHANGED <<world, gone, roots>>

-----------------------------------------------------------------------------
(***************************************************************************)
(* A call: refresh_if_stale, then an answer from the list.                 *)
(***************************************************************************)

ReadFresh(p) ==
    /\ pc[p] = "idle"
    /\ Fresh(p)
    /\ answered' = [answered EXCEPT ![p] = TRUE]
    /\ UNCHANGED <<world, gone, file, pc, memory, got, busy, due>>

\* Age given to a list that was reloaded after an invalidation: just past a
\* TTL, for the next call to scan, where the clock allows it.
ReloadedAsFresh == 0
ReloadedAge == IF Backdates THEN TTL + 1 ELSE 0

ReadReloaded(p) ==
    /\ pc[p] = "idle"
    /\ Reloads(p)
    /\ HasSkills(file.list)
    /\ list' = [list EXCEPT ![p] = file.list]
    /\ scanned' = [scanned EXCEPT ![p] = ReloadedAge]
    /\ answered' = [answered EXCEPT ![p] = TRUE]
    /\ UNCHANGED <<world, gone, file, pc, roots, got, busy, due>>

\* The call scans.  A file that was found to hold no skill stays loaded.
BeginScan(p) ==
    /\ pc[p] = "idle"
    /\ ~Fresh(p)
    /\ Reloads(p) => ~HasSkills(file.list)
    /\ IF Reloads(p)
         THEN /\ list' = [list EXCEPT ![p] = file.list]
              /\ scanned' = [scanned EXCEPT ![p] = 0]
         ELSE UNCHANGED <<list, scanned>>
    /\ pc' = [pc EXCEPT ![p] = "scan"]
    /\ busy' = [busy EXCEPT ![p] = 0]
    /\ UNCHANGED <<world, gone, file, roots, got, history>>

\* discover_skills walks the roots: what it finds is taken to be what they
\* hold at one moment of the walk.
Discover(p) ==
    /\ pc[p] = "scan"
    /\ pc' = [pc EXCEPT ![p] = "found"]
    /\ got' = [got EXCEPT ![p] = [roots |-> roots[p], version |-> world]]
    /\ UNCHANGED <<world, gone, file, memory, busy, history>>

\* The scan fails: so does the call, and the cache stays as it is.
ScanFails(p) ==
    /\ pc[p] = "scan"
    /\ pc' = [pc EXCEPT ![p] = "idle"]
    /\ busy' = [busy EXCEPT ![p] = 0]
    /\ UNCHANGED <<world, gone, file, memory, got, history>>

\* The list is installed, as old as the start of its scan.  The file is then
\* stamped and truncated.
Install(p) ==
    /\ pc[p] = "found"
    /\ list' = [list EXCEPT ![p] = got[p]]
    /\ scanned' = [scanned EXCEPT ![p] = busy[p]]
    /\ got' = [got EXCEPT ![p] = NoList]
    /\ busy' = [busy EXCEPT ![p] = 0]
    /\ pc' = [pc EXCEPT ![p] = "write"]
    /\ file' = TornFile
    /\ UNCHANGED <<world, gone, roots, history>>

\* The list is installed, but the file cannot be opened, which is logged.
InstallUnwritten(p) ==
    /\ pc[p] = "found"
    /\ list' = [list EXCEPT ![p] = got[p]]
    /\ scanned' = [scanned EXCEPT ![p] = busy[p]]
    /\ got' = [got EXCEPT ![p] = NoList]
    /\ busy' = [busy EXCEPT ![p] = 0]
    /\ pc' = [pc EXCEPT ![p] = "idle"]
    /\ answered' = [answered EXCEPT ![p] = TRUE]
    /\ UNCHANGED <<world, gone, file, roots, due>>

\* The file is written, and the call answered.
Persist(p) ==
    /\ pc[p] = "write"
    /\ file' = [state |-> "whole", list |-> list[p], age |-> busy[p]]
    /\ pc' = [pc EXCEPT ![p] = "idle"]
    /\ busy' = [busy EXCEPT ![p] = 0]
    /\ answered' = [answered EXCEPT ![p] = TRUE]
    /\ UNCHANGED <<world, gone, memory, got, due>>

\* The write fails, or another process has written its file since this one
\* truncated it, and the tail of a longer text remains.  Either is only met
\* by the next reader of the file.
PersistTorn(p) ==
    /\ pc[p] = "write"
    /\ file' = TornFile
    /\ pc' = [pc EXCEPT ![p] = "idle"]
    /\ busy' = [busy EXCEPT ![p] = 0]
    /\ answered' = [answered EXCEPT ![p] = TRUE]
    /\ UNCHANGED <<world, gone, memory, got, due>>

-----------------------------------------------------------------------------
\* The watcher reports an event below the roots, which need not be a change
\* of their skills.
Invalidate(p) ==
    /\ pc[p] = "idle"
    /\ list' = [list EXCEPT ![p] = NoList]
    /\ scanned' = [scanned EXCEPT ![p] = Never]
    /\ due' = [due EXCEPT ![p] = world]
    /\ answered' = [answered EXCEPT ![p] = FALSE]
    /\ UNCHANGED <<world, gone, file, pc, roots, got, busy>>

\* The skill directories change.
Change ==
    /\ world < MaxVersion
    /\ world' = world + 1
    /\ UNCHANGED <<gone, file, pc, memory, got, busy, history>>

\* Time passes.
Tick ==
    /\ \A p \in Servers :
        pc[p] \in Working => busy[p] < ScanTime
    /\ gone' = [v \in Versions |->
                  IF v < world THEN Older(gone[v], Bound + 1) ELSE gone[v]]
    /\ file' = IF file.state = "whole"
                 THEN [file EXCEPT !.age = Older(file.age, TTL + 1)]
                 ELSE file
    /\ scanned' = [p \in Servers |->
                     IF scanned[p] = Never THEN Never
                                           ELSE Older(scanned[p], TTL + 1)]
    /\ busy' = [p \in Servers |->
                  IF pc[p] \in Working
                    THEN busy[p] + 1 ELSE busy[p]]
    /\ UNCHANGED <<world, pc, roots, list, got, history>>

Next ==
    \/ \E p \in Servers :
        \/ Boot(p) \/ Stop(p)
        \/ ReadFresh(p) \/ ReadReloaded(p) \/ BeginScan(p)
        \/ Discover(p) \/ ScanFails(p)
        \/ Install(p) \/ InstallUnwritten(p)
        \/ Persist(p) \/ PersistTorn(p)
        \/ Invalidate(p)
    \/ Change
    \/ Tick

Spec == Init /\ [][Next]_vars

\* Time passes, and a refresh that has begun comes to its end: it runs on the
\* caller's thread and waits for nothing but the file system.  No client need
\* ever call, and no watcher report anything.
FairSpec ==
    /\ Spec
    /\ WF_vars(Tick)
    /\ \A p \in Servers :
        WF_vars(Discover(p) \/ Install(p) \/ Persist(p))

-----------------------------------------------------------------------------
TypeOK ==
    /\ world \in Versions
    /\ gone \in [Versions -> 0 .. Bound + 1]
    /\ file \in [state : {"none", "torn", "whole"},
                 list : Lists \cup {NoList}, age : 0 .. TTL + 1]
    /\ pc \in [Servers -> {"down", "idle"} \cup Working]
    /\ roots \in [Servers -> Roots]
    /\ list \in [Servers -> Lists \cup {NoList}]
    /\ scanned \in [Servers -> 0 .. TTL + 1 \cup {Never}]
    /\ got \in [Servers -> Lists \cup {NoList}]
    /\ busy \in [Servers -> 0 .. ScanTime]
    /\ due \in [Servers -> Versions]
    /\ answered \in [Servers -> BOOLEAN]

\* A list is served only for the roots it was scanned from, and only within
\* Bound of the change that made it wrong, however the processes start, stop
\* and write over each other's file, and however often a list returns from
\* the file: neither loading nor writing makes a list younger twice.
ServedListsAreRecent ==
    \A p \in Servers : \A l \in Answers(p) :
        l.roots = roots[p] /\ gone[l.version] <= Bound

\* After the watcher has invalidated a list, at most one call is answered
\* with an older one, namely from the file, unless the older one has no
\* skills: the test at cache.rs:540 calls twice and expects the removal at
\* the second call only.
SecondAnswerIsCurrent ==
    \A p \in Servers : \A l \in Answers(p) :
        Backdates /\ answered[p] /\ HasSkills(l) => l.version >= due[p]

\* Once the directories no longer change, every answer comes to be what they
\* hold, also when no watcher runs and no event is reported.
AnswersConverge ==
    <>[](\A p \in Servers : \A l \in Answers(p) : l.version = world)

\* And in bounded time: once Bound ticks have passed since the last change, no
\* call, of any process, is answered with anything but what the directories
\* hold, however the processes start, stop, fail to scan or to write.
StillAnswersAreCurrent ==
    (\A v \in Versions : v < world => gone[v] > Bound) =>
        \A p \in Servers : \A l \in Answers(p) : l.version = world

\* Every tick brings a former version closer to that, and nothing else moves
\* its age.
TimeRunsOut ==
    [][\A v \in Versions : v < world =>
         IF Tick /\ gone[v] <= Bound THEN gone'[v] = gone[v] + 1
                                     ELSE gone'[v] = gone[v]]_vars

=============================================================================
