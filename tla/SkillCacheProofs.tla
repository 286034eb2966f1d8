-------------------------- MODULE SkillCacheProofs --------------------------
(***************************************************************************)
(* Theorems about SkillCache, for every number of processes, TTL, length   *)
(* of a scan and number of changes.                                        *)
(***************************************************************************)
EXTENDS SkillCache, TLAPS

\* Where every list is known to be one, and belongs to the roots of its
\* process.
Placed ==
    /\ file.state = "whole" => file.list \in Lists
    /\ \A p \in Servers :
        /\ pc[p] = "down" => scanned[p] = Never
        /\ scanned[p] # Never => list[p] \in Lists /\ list[p].roots = roots[p]
        /\ pc[p] = "found" => got[p] \in Lists /\ got[p].roots = roots[p]
        /\ pc[p] = "write" => scanned[p] # Never

TypeInv == TypeOK /\ Placed

\* An age of one more tick, or the cap.
LEMMA OlderType ==
    ASSUME NEW cap \in Nat, NEW age \in 0 .. cap
    PROVE  /\ Older(age, cap) \in 0 .. cap
           /\ Older(age, cap) <= age + 1
           /\ age < cap => Older(age, cap) = age + 1
BY DEF Older

\* The bound is a number, and no smaller than what each source of an answer
\* needs.
LEMMA BoundIsNat ==
    /\ Bound \in Nat
    /\ ScanTime + TTL <= Bound
    /\ 2 * ScanTime <= Bound
    /\ ScanTime + TTL + TTL - 1 = Bound
BY SkillCacheAssumption DEF Bound

\* Every process starts down, without a list.
LEMMA TypeInit == Init => TypeInv
<1> SUFFICES ASSUME Init PROVE TypeInv
  OBVIOUS
<1> USE DEF Init
<1>1. roots \in [Servers -> Roots]
  <2>1. ASSUME NEW p \in Servers
        PROVE  (CHOOSE r \in RootsOf[p] : TRUE) \in Roots
    <3>1. RootsOf[p] \in (SUBSET Roots) \ {{}}
      BY SkillCacheAssumption
    <3>2. PICK r \in RootsOf[p] : TRUE
      BY <3>1
    <3> QED
      BY <3>1, <3>2
  <2> QED
    BY <2>1
<1>2. 0 \in Versions /\ 0 \in 0 .. Bound + 1 /\ 0 \in 0 .. TTL + 1 /\ 0 \in 0 .. ScanTime
  BY SkillCacheAssumption, BoundIsNat DEF Versions
<1>3. TypeOK
  BY <1>1, <1>2 DEF TypeOK, Working
<1>4. Placed
  BY DEF Placed
<1> QED
  BY <1>3, <1>4 DEF TypeInv

\* Time keeps every age within its cap.
LEMMA TypeTick ==
    ASSUME TypeInv, Tick
    PROVE  TypeInv'
<1> USE DEF TypeInv, TypeOK, Tick
<1>1. TTL + 1 \in Nat /\ Bound + 1 \in Nat /\ ScanTime \in Nat
  BY SkillCacheAssumption, BoundIsNat
<1>2. gone' \in [Versions -> 0 .. Bound + 1]
  BY <1>1, OlderType
<1>3. file' \in [state : {"none", "torn", "whole"},
                 list : Lists \cup {NoList}, age : 0 .. TTL + 1]
  BY <1>1, OlderType
<1>4. scanned' \in [Servers -> 0 .. TTL + 1 \cup {Never}]
  BY <1>1, OlderType
<1>5. busy' \in [Servers -> 0 .. ScanTime]
  BY <1>1
<1>6. TypeOK'
  BY <1>2, <1>3, <1>4, <1>5 DEF history
<1>7. Placed'
  <2>1. \A p \in Servers : scanned'[p] = Never <=> scanned[p] = Never
    BY <1>1, OlderType, SkillCacheAssumption
  <2> QED
    BY <2>1 DEF Placed
<1> QED
  BY <1>6, <1>7

\* The steps of one process keep the types and the places.
LEMMA TypeStep ==
    ASSUME TypeInv, NEW p \in Servers,
           \/ Boot(p) \/ Stop(p)
           \/ ReadFresh(p) \/ ReadReloaded(p) \/ BeginScan(p)
           \/ Discover(p) \/ ScanFails(p)
           \/ Install(p) \/ InstallUnwritten(p)
           \/ Persist(p) \/ PersistTorn(p)
           \/ Invalidate(p)
    PROVE  TypeInv'
<1> USE DEF TypeInv, TypeOK, Placed, memory, history
<1>0. /\ TTL \in Nat /\ ScanTime \in Nat /\ ScanTime <= TTL
      /\ Never \notin Nat
      /\ \A r \in RootsOf[p] : r \in Roots
      /\ 0 \in Versions
      /\ TornFile \in [state : {"none", "torn", "whole"},
                       list : Lists \cup {NoList}, age : 0 .. TTL + 1]
      /\ TornFile.state = "torn"
  BY SkillCacheAssumption DEF TornFile, Versions
<1>1. CASE Boot(p)
  BY <1>0, <1>1 DEF Boot, Loadable
<1>2. CASE Stop(p)
  BY <1>0, <1>2 DEF Stop
<1>3. CASE ReadFresh(p)
  BY <1>3 DEF ReadFresh
<1>4. CASE ReadReloaded(p)
  BY <1>0, <1>4 DEF ReadReloaded, Reloads, Loadable, ReloadedAge
<1>5. CASE BeginScan(p)
  BY <1>0, <1>5 DEF BeginScan, Reloads, Loadable, Working
<1>6. CASE Discover(p)
  BY <1>0, <1>6 DEF Discover, Lists, Working
<1>7. CASE ScanFails(p)
  BY <1>0, <1>7 DEF ScanFails
<1>8. CASE Install(p)
  BY <1>0, <1>8 DEF Install, Working
<1>9. CASE InstallUnwritten(p)
  BY <1>0, <1>9 DEF InstallUnwritten
<1>10. CASE Persist(p)
  BY <1>0, <1>10 DEF Persist
<1>11. CASE PersistTorn(p)
  BY <1>0, <1>11 DEF PersistTorn
<1>12. CASE Invalidate(p)
  BY <1>0, <1>12 DEF Invalidate
<1> QED
  BY <1>1, <1>2, <1>3, <1>4, <1>5, <1>6, <1>7, <1>8, <1>9, <1>10, <1>11, <1>12

\* Every step keeps them.
LEMMA TypeNext == TypeInv /\ [Next]_vars => TypeInv'
<1> SUFFICES ASSUME TypeInv, [Next]_vars PROVE TypeInv'
  OBVIOUS
<1>1. CASE Change
  BY <1>1, SkillCacheAssumption
  DEF Change, TypeInv, TypeOK, Placed, memory, history, Versions
<1>2. CASE UNCHANGED vars
  BY <1>2 DEF vars, TypeInv, TypeOK, Placed
<1> QED
  BY <1>1, <1>2, TypeStep, TypeTick DEF Next

\* Whatever the processes do, the ages stay within their caps and the state
\* is the one the actions are written for.
THEOREM TypeCorrect == Spec => []TypeOK
<1>1. TypeInv => TypeOK
  BY DEF TypeInv
<1> QED
  BY <1>1, TypeInit, TypeNext, PTL DEF Spec

-----------------------------------------------------------------------------
(***************************************************************************)
(* Every list is served only for so long.  The argument follows a list on  *)
(* its way: found, it is as old as the scan at most; written, it is at     *)
(* most a scan older than the stamp; loaded, at most a TTL older again.    *)
(***************************************************************************)

AgeInv ==
    /\ \A v \in Versions : v >= world => gone[v] = 0
    /\ file.state = "whole" /\ file.age <= TTL =>
         gone[file.list.version] <= ScanTime + file.age
    /\ \A p \in Servers :
        /\ pc[p] = "found" => gone[got[p].version] <= busy[p]
        /\ pc[p] = "write" => gone[list[p].version] <= ScanTime + busy[p]
        /\ scanned[p] # Never /\ scanned[p] < TTL =>
             gone[list[p].version] <= ScanTime + TTL + scanned[p]

\* At first there is no list.
LEMMA AgeInit == Init => AgeInv
BY DEF Init, AgeInv

\* Time makes a list no older than it makes its scan, its stamp and its file.
LEMMA AgeTick ==
    ASSUME TypeInv, AgeInv, Tick
    PROVE  AgeInv'
<1> USE DEF TypeInv, TypeOK, Placed, history
<1>0. /\ TTL + 1 \in Nat /\ Bound + 1 \in Nat /\ ScanTime \in Nat /\ TTL \in Nat
      /\ MaxVersion \in Nat /\ Never \notin Nat
  BY SkillCacheAssumption, BoundIsNat
<1>1. \A v \in Versions : gone[v] \in Nat /\ gone'[v] \in Nat /\ gone'[v] <= gone[v] + 1
  BY <1>0, OlderType DEF Tick
<1>2. \A v \in Versions : v >= world' => gone'[v] = 0
  BY <1>0 DEF Tick, AgeInv, Versions
<1>3. ASSUME file'.state = "whole", file'.age <= TTL
      PROVE  gone'[file'.list.version] <= ScanTime + file'.age
  <2>1. file.state = "whole" /\ file' = [file EXCEPT !.age = Older(file.age, TTL + 1)]
    BY <1>3 DEF Tick
  <2>2. file'.age = Older(file.age, TTL + 1) /\ file'.list = file.list
    BY <2>1
  <2>3. file.age \in Nat /\ file.age <= TTL /\ file'.age = file.age + 1
    BY <1>0, <1>3, <2>1, <2>2 DEF Older
  <2>4. file.list.version \in Versions
    BY <2>1 DEF Lists
  <2> QED
    BY <1>0, <1>1, <2>1, <2>2, <2>3, <2>4 DEF AgeInv
<1>4. ASSUME NEW p \in Servers, pc'[p] = "found"
      PROVE  gone'[got'[p].version] <= busy'[p]
  BY <1>0, <1>1, <1>4 DEF Tick, AgeInv, Lists, Working
<1>5. ASSUME NEW p \in Servers, pc'[p] = "write"
      PROVE  gone'[list'[p].version] <= ScanTime + busy'[p]
  BY <1>0, <1>1, <1>5 DEF Tick, AgeInv, Lists, Working
<1>6. ASSUME NEW p \in Servers, scanned'[p] # Never, scanned'[p] < TTL
      PROVE  gone'[list'[p].version] <= ScanTime + TTL + scanned'[p]
  <2>1. scanned[p] # Never /\ scanned'[p] = Older(scanned[p], TTL + 1)
    BY <1>6 DEF Tick
  <2>2. scanned[p] \in 0 .. TTL + 1
    BY <2>1
  <2>3. scanned[p] < TTL /\ scanned'[p] = scanned[p] + 1
    BY <1>0, <1>6, <2>1, <2>2 DEF Older
  <2>4. list'[p] = list[p] /\ list[p].version \in Versions
    BY <2>1 DEF Tick, Lists
  <2> QED
    BY <1>0, <1>1, <2>1, <2>2, <2>3, <2>4 DEF AgeInv
<1> QED
  BY <1>2, <1>3, <1>4, <1>5, <1>6 DEF AgeInv

\* No step of a process makes a list younger than it is, but for the file,
\* which is taken to be fresh once, when it is loaded.
LEMMA AgeStep ==
    ASSUME TypeInv, AgeInv, NEW p \in Servers,
           \/ Boot(p) \/ Stop(p)
           \/ ReadFresh(p) \/ ReadReloaded(p) \/ BeginScan(p)
           \/ Discover(p) \/ ScanFails(p)
           \/ Install(p) \/ InstallUnwritten(p)
           \/ Persist(p) \/ PersistTorn(p)
           \/ Invalidate(p)
    PROVE  AgeInv'
<1> USE DEF TypeInv, TypeOK, Placed, memory, history
<1>0. /\ TTL \in Nat /\ ScanTime \in Nat /\ ScanTime <= TTL
      /\ Never \notin Nat
      /\ TornFile.state = "torn"
      /\ \A v \in Versions : gone[v] \in Nat
  BY SkillCacheAssumption, BoundIsNat DEF TornFile
<1>1. CASE Boot(p)
  BY <1>0, <1>1 DEF Boot, Loadable, AgeInv, Lists
<1>2. CASE Stop(p)
  BY <1>0, <1>2 DEF Stop, AgeInv
<1>3. CASE ReadFresh(p)
  BY <1>3 DEF ReadFresh, AgeInv
<1>4. CASE ReadReloaded(p)
  BY <1>0, <1>4 DEF ReadReloaded, Reloads, Loadable, ReloadedAge, AgeInv, Lists
<1>5. CASE BeginScan(p)
  BY <1>0, <1>5 DEF BeginScan, Reloads, Loadable, AgeInv, Lists
<1>6. CASE Discover(p)
  BY <1>0, <1>6 DEF Discover, AgeInv, Versions
<1>7. CASE ScanFails(p)
  BY <1>0, <1>7 DEF ScanFails, AgeInv
<1>8. CASE Install(p)
  BY <1>0, <1>8 DEF Install, AgeInv, Lists
<1>9. CASE InstallUnwritten(p)
  BY <1>0, <1>9 DEF InstallUnwritten, AgeInv, Lists
<1>10. CASE Persist(p)
  BY <1>0, <1>10 DEF Persist, AgeInv
<1>11. CASE PersistTorn(p)
  BY <1>0, <1>11 DEF PersistTorn, AgeInv
<1>12. CASE Invalidate(p)
  BY <1>0, <1>12 DEF Invalidate, AgeInv
<1> QED
  BY <1>1, <1>2, <1>3, <1>4, <1>5, <1>6, <1>7, <1>8, <1>9, <1>10, <1>11, <1>12

\* Every step keeps the ages of the lists.
LEMMA AgeNext == TypeInv /\ AgeInv /\ [Next]_vars => AgeInv'
<1> SUFFICES ASSUME TypeInv, AgeInv, [Next]_vars PROVE AgeInv'
  OBVIOUS
<1>1. CASE Change
  BY <1>1, SkillCacheAssumption
  DEF Change, TypeInv, TypeOK, AgeInv, memory, Versions
<1>2. CASE UNCHANGED vars
  BY <1>2 DEF vars, AgeInv
<1> QED
  BY <1>1, <1>2, AgeStep, AgeTick DEF Next

\* The invariants bound the age of every answer.
LEMMA AnswersAreRecent == TypeInv /\ AgeInv => ServedListsAreRecent
<1> SUFFICES ASSUME TypeInv, AgeInv, NEW p \in Servers, NEW l \in Answers(p)
             PROVE  l.roots = roots[p] /\ gone[l.version] <= Bound
  BY DEF ServedListsAreRecent
<1> USE DEF TypeInv, TypeOK, Placed
<1>0. /\ TTL \in Nat \ {0} /\ ScanTime \in Nat
      /\ Never \notin Nat
      /\ l \in Lists /\ l.version \in Versions /\ gone[l.version] \in Nat
  BY SkillCacheAssumption, BoundIsNat DEF Answers, Lists
<1>1. CASE pc[p] = "idle" /\ Fresh(p) /\ list[p] = l
  BY <1>0, <1>1, BoundIsNat DEF Fresh, AgeInv
<1>2. CASE pc[p] = "idle" /\ Reloads(p) /\ file.list = l /\ HasSkills(l)
  BY <1>0, <1>2, BoundIsNat DEF Reloads, Loadable, AgeInv
<1>3. CASE pc[p] = "write" /\ list[p] = l
  BY <1>0, <1>3, BoundIsNat DEF AgeInv
<1> QED
  BY <1>1, <1>2, <1>3 DEF Answers

\* A list is served only for the roots it was scanned from, and for no
\* longer than a scan and two TTLs after the directories have changed,
\* whatever the other processes do to the file.
THEOREM ServedListsAreAlwaysRecent == Spec => []ServedListsAreRecent
<1> QED
  BY TypeInit, TypeNext, AgeInit, AgeNext, AnswersAreRecent, PTL DEF Spec

-----------------------------------------------------------------------------
(***************************************************************************)
(* Where the clock can be set back, a list from before the invalidation is *)
(* answered once at most.  A list is never both older than that and fresh. *)
(***************************************************************************)

DueInv ==
    \A p \in Servers :
        /\ due[p] <= world
        /\ pc[p] = "down" => due[p] = 0 /\ ~answered[p]
        /\ answered[p] => scanned[p] # Never
        /\ pc[p] = "found" => got[p].version >= due[p]
        /\ pc[p] = "write" => list[p].version >= due[p]
        /\ Backdates /\ Fresh(p) /\ HasSkills(list[p]) =>
             list[p].version >= due[p]

\* At first nothing was invalidated.
LEMMA DueInit == Init => DueInv
<1> SUFFICES ASSUME Init, NEW p \in Servers
             PROVE  /\ due[p] <= world /\ due[p] = 0 /\ ~answered[p]
                    /\ pc[p] # "found" /\ pc[p] # "write" /\ ~Fresh(p)
  BY Zenon DEF DueInv
<1> QED
  BY DEF Init, Fresh

\* The steps of a process: what it scans is not older than what was
\* invalidated, and what it reloads is not fresh.
LEMMA DueStep ==
    ASSUME TypeInv, DueInv, NEW p \in Servers,
           \/ Boot(p) \/ Stop(p)
           \/ ReadFresh(p) \/ ReadReloaded(p) \/ BeginScan(p)
           \/ Discover(p) \/ ScanFails(p)
           \/ Install(p) \/ InstallUnwritten(p)
           \/ Persist(p) \/ PersistTorn(p)
           \/ Invalidate(p)
    PROVE  DueInv'
<1> USE DEF TypeInv, TypeOK, Placed, memory, history, Fresh, HasSkills, DueInv
<1>0. /\ TTL \in Nat /\ ScanTime \in Nat
      /\ Never \notin Nat
      /\ world \in Nat
      /\ \A v \in Versions : v \in Nat
  BY SkillCacheAssumption DEF Versions
<1>1. CASE Boot(p)
  <2>1. due[p] = 0 /\ scanned[p] = Never
    BY <1>1 DEF Boot
  <2>2. CASE scanned'[p] = Never
    BY <1>0, <1>1, <2>1, <2>2 DEF Boot
  <2>3. CASE scanned'[p] # Never
    <3>1. list'[p] \in Lists /\ list'[p].version \in Nat
      BY <1>0, <1>1, <2>1, <2>3 DEF Boot, Loadable, Lists
    <3> QED
      BY <1>0, <1>1, <2>1, <3>1 DEF Boot
  <2> QED
    BY <2>2, <2>3
<1>2. CASE Stop(p)
  BY <1>0, <1>2 DEF Stop
<1>3. CASE ReadFresh(p)
  BY <1>3 DEF ReadFresh
<1>4. CASE ReadReloaded(p)
  BY <1>0, <1>4 DEF ReadReloaded, Reloads, Loadable, ReloadedAge
<1>5. CASE BeginScan(p)
  BY <1>0, <1>5 DEF BeginScan, Reloads, Loadable
<1>6. CASE Discover(p)
  BY <1>0, <1>6 DEF Discover
<1>7. CASE ScanFails(p)
  BY <1>0, <1>7 DEF ScanFails
<1>8. CASE Install(p)
  BY <1>0, <1>8 DEF Install
<1>9. CASE InstallUnwritten(p)
  BY <1>0, <1>9 DEF InstallUnwritten
<1>10. CASE Persist(p)
  BY <1>0, <1>10 DEF Persist
<1>11. CASE PersistTorn(p)
  BY <1>0, <1>11 DEF PersistTorn
<1>12. CASE Invalidate(p)
  BY <1>0, <1>12 DEF Invalidate
<1> QED
  BY <1>1, <1>2, <1>3, <1>4, <1>5, <1>6, <1>7, <1>8, <1>9, <1>10, <1>11, <1>12

\* Every step keeps it: the directories only gain versions, and time makes no
\* list fresh again.
LEMMA DueNext == TypeInv /\ DueInv /\ [Next]_vars => DueInv'
<1> SUFFICES ASSUME TypeInv, DueInv, [Next]_vars PROVE DueInv'
  OBVIOUS
<1>0. TTL \in Nat /\ Never \notin Nat /\ world \in Nat /\ (\A v \in Versions : v \in Nat)
  BY SkillCacheAssumption DEF Versions, TypeInv, TypeOK
<1>1. CASE Change
  <2>1. world' = world + 1 /\ UNCHANGED <<due, answered, pc, scanned, got, list>>
    BY <1>1 DEF Change, memory, history
  <2>2. ASSUME NEW p \in Servers
        PROVE  due'[p] <= world'
    <3>1. due[p] \in Nat /\ due[p] <= world
      BY <1>0 DEF TypeInv, TypeOK, DueInv
    <3> QED
      BY <1>0, <2>1, <3>1
  <2> QED
    BY <2>1, <2>2 DEF DueInv, Fresh
<1>2. CASE UNCHANGED vars
  BY <1>2 DEF vars, DueInv, Fresh
<1>3. CASE Tick
  <2>1. ASSUME NEW p \in Servers
        PROVE  /\ scanned'[p] = Never <=> scanned[p] = Never
               /\ Fresh(p)' => Fresh(p)
    <3>1. CASE scanned[p] = Never
      BY <1>3, <3>1 DEF Tick, Fresh
    <3>2. CASE scanned[p] # Never
      <4>1. scanned[p] \in 0 .. TTL + 1
            /\ scanned'[p] = Older(scanned[p], TTL + 1)
        BY <1>3, <3>2 DEF Tick, TypeInv, TypeOK
      <4> QED
        BY <1>0, <3>2, <4>1, OlderType DEF Older, Fresh
    <3> QED
      BY <3>1, <3>2
  <2> QED
    BY <1>3, <2>1 DEF Tick, DueInv, history
<1> QED
  BY <1>1, <1>2, <1>3, DueStep DEF Next

\* The invariants forbid a second older answer.
LEMMA NoSecondOlderAnswer == TypeInv /\ DueInv => SecondAnswerIsCurrent
BY DEF TypeInv, Placed, DueInv, SecondAnswerIsCurrent, Answers, Reloads, Cleared

\* After an invalidation only the first answer can be older than it, unless
\* the older list is empty.
THEOREM SecondAnswerIsAlwaysCurrent == Spec => []SecondAnswerIsCurrent
<1> QED
  BY TypeInit, TypeNext, DueInit, DueNext, NoSecondOlderAnswer, PTL DEF Spec

-----------------------------------------------------------------------------
(***************************************************************************)
(* Answers become current in bounded time: no list is from the future, and *)
(* none that is too old is served.                                         *)
(***************************************************************************)

PresentInv ==
    /\ file.state = "whole" => file.list.version <= world
    /\ \A p \in Servers :
        /\ scanned[p] # Never => list[p].version <= world
        /\ pc[p] = "found" => got[p].version <= world

\* At first there is no list.
LEMMA PresentInit == Init => PresentInv
BY DEF Init, PresentInv

\* A process finds the version of now; the others are older.
LEMMA PresentStep ==
    ASSUME TypeInv, PresentInv, NEW p \in Servers,
           \/ Boot(p) \/ Stop(p)
           \/ ReadFresh(p) \/ ReadReloaded(p) \/ BeginScan(p)
           \/ Discover(p) \/ ScanFails(p)
           \/ Install(p) \/ InstallUnwritten(p)
           \/ Persist(p) \/ PersistTorn(p)
           \/ Invalidate(p)
    PROVE  PresentInv'
<1> USE DEF TypeInv, TypeOK, Placed, memory, history, PresentInv
<1>0. /\ TornFile.state = "torn"
      /\ Never \notin Nat /\ world \in Nat
  BY SkillCacheAssumption DEF TornFile, Versions
<1>1. CASE Boot(p)
  BY <1>0, <1>1 DEF Boot, Loadable
<1>2. CASE Stop(p)
  BY <1>0, <1>2 DEF Stop
<1>3. CASE ReadFresh(p)
  BY <1>3 DEF ReadFresh
<1>4. CASE ReadReloaded(p)
  BY <1>0, <1>4 DEF ReadReloaded, Reloads, Loadable
<1>5. CASE BeginScan(p)
  BY <1>0, <1>5 DEF BeginScan, Reloads, Loadable
<1>6. CASE Discover(p)
  BY <1>0, <1>6 DEF Discover
<1>7. CASE ScanFails(p)
  BY <1>0, <1>7 DEF ScanFails
<1>8. CASE Install(p)
  BY <1>0, <1>8 DEF Install
<1>9. CASE InstallUnwritten(p)
  BY <1>0, <1>9 DEF InstallUnwritten
<1>10. CASE Persist(p)
  BY <1>0, <1>10 DEF Persist
<1>11. CASE PersistTorn(p)
  BY <1>0, <1>11 DEF PersistTorn
<1>12. CASE Invalidate(p)
  BY <1>0, <1>12 DEF Invalidate
<1> QED
  BY <1>1, <1>2, <1>3, <1>4, <1>5, <1>6, <1>7, <1>8, <1>9, <1>10, <1>11, <1>12

\* The directories only gain versions.
LEMMA PresentNext == TypeInv /\ PresentInv /\ [Next]_vars => PresentInv'
<1> SUFFICES ASSUME TypeInv, PresentInv, [Next]_vars PROVE PresentInv'
  OBVIOUS
<1>1. CASE Change
  <2>1. /\ world' = world + 1 /\ world \in Nat
        /\ UNCHANGED <<file, list, scanned, pc, got>>
        /\ \A v \in Versions : v \in Nat
    BY <1>1, SkillCacheAssumption DEF Change, memory, TypeInv, TypeOK, Versions
  <2>2. \A v \in Versions : v <= world => v <= world'
    BY <2>1
  <2>3. /\ file.state = "whole" => file.list.version \in Versions
        /\ \A p \in Servers :
            /\ scanned[p] # Never => list[p].version \in Versions
            /\ pc[p] = "found" => got[p].version \in Versions
    BY DEF TypeInv, Placed, Lists
  <2> QED
    BY <2>1, <2>2, <2>3 DEF PresentInv
<1>2. CASE UNCHANGED vars
  BY <1>2 DEF vars, PresentInv
<1>3. CASE Tick
  BY <1>3 DEF Tick, PresentInv, TypeInv, TypeOK
<1> QED
  BY <1>1, <1>2, <1>3, PresentStep DEF Next

\* Bound ticks after the last change every answer is current, whatever the
\* processes did and do: AnswersConverge with its time, but for the fairness
\* that makes time pass.
THEOREM StillAnswersAreAlwaysCurrent == Spec => []StillAnswersAreCurrent
<1>1. TypeInv /\ AgeInv /\ PresentInv => StillAnswersAreCurrent
  <2> SUFFICES ASSUME TypeInv, AgeInv, PresentInv,
                      \A v \in Versions : v < world => gone[v] > Bound,
                      NEW p \in Servers, NEW l \in Answers(p)
               PROVE  l.version = world
    BY DEF StillAnswersAreCurrent
  <2>1. gone[l.version] <= Bound
    BY AnswersAreRecent DEF ServedListsAreRecent
  <2>2. l.version \in Versions
    BY DEF Answers, Lists
  <2>3. l.version <= world
    BY SkillCacheAssumption
    DEF Answers, Fresh, Reloads, Loadable, PresentInv, TypeInv, Placed
  <2>4. /\ world \in Nat /\ l.version \in Nat
        /\ gone[l.version] \in Nat /\ Bound \in Nat
    BY <2>2, SkillCacheAssumption, BoundIsNat DEF TypeInv, TypeOK, Versions
  <2> QED
    BY <2>1, <2>2, <2>3, <2>4
<1> QED
  BY <1>1, TypeInit, TypeNext, AgeInit, AgeNext, PresentInit, PresentNext, PTL DEF Spec

\* The clock of that bound: a tick ages every former version, up to the bound,
\* and no step of a process, of the watcher or of the directories does.
THEOREM TimeAlwaysRunsOut == Spec => TimeRunsOut
<1>1. ASSUME TypeInv, [Next]_vars, NEW v \in Versions, v < world
      PROVE  IF Tick /\ gone[v] <= Bound THEN gone'[v] = gone[v] + 1
                                         ELSE gone'[v] = gone[v]
  <2>1. gone \in [Versions -> 0 .. Bound + 1] /\ Bound \in Nat
    BY <1>1, BoundIsNat DEF TypeInv, TypeOK
  <2>2. CASE Tick
    BY <1>1, <2>1, <2>2 DEF Tick, Older
  <2>3. CASE ~Tick
    <3>1. gone' = gone
      BY <1>1, <2>3 DEF Next, Boot, Stop, ReadFresh, ReadReloaded, BeginScan, Discover,
                        ScanFails, Install, InstallUnwritten, Persist, PersistTorn,
                        Invalidate, Change, vars
    <3> QED
      BY <2>3, <3>1
  <2> QED
    BY <2>2, <2>3
<1>2. TypeInv /\ [Next]_vars =>
        [\A v \in Versions : v < world =>
           IF Tick /\ gone[v] <= Bound THEN gone'[v] = gone[v] + 1
                                       ELSE gone'[v] = gone[v]]_vars
  BY <1>1
<1> QED
  BY <1>2, TypeInit, TypeNext, PTL DEF Spec, TimeRunsOut

=============================================================================
