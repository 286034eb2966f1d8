------------------------ MODULE StateRunStoreProofs -------------------------
(***************************************************************************)
(* Proofs about StateRunStore, for every set of runs, tasks and event      *)
(* kinds and every value of the bounds.  The invariant LoneInv describes   *)
(* the store as long as no two persists were in flight at once; the        *)
(* theorems at the end are its consequences.                               *)
(***************************************************************************)
EXTENDS StateRunStore, RunRecordsProofs, TLAPS

\* No task sits between its mutation and its clone of the table.
NonePending == \A t \in Tasks : io[t].step # "mutated"

\* The temp file is the one the only busy task is writing.
LoneTemp ==
    \A t \in Tasks :
        /\ io[t].step = "write"  => io[t].fd = "tmp" /\ tmp = Emptied
        /\ io[t].step = "rename" => tmp = Whole(io[t].clone)

\* The clone in flight is the table, unless a mutation came after it; the
\* clone of a reload is what the file holds.
LoneClone ==
    \A t \in Tasks :
        /\ (io[t].step \in {"open", "write", "rename"} /\ NonePending)
              => io[t].clone = mem
        /\ io[t].step = "reload" => io[t].clone = disk.table

LoneDisk ==
    (up /\ NonePending /\ last = "ok" /\ \A t \in Tasks : ~Busy(t))
        => disk.table = mem

LoneInv ==
    /\ \A t, u \in Tasks : Busy(t) /\ Busy(u) => t = u
    /\ Readable(disk)
    /\ LoneTemp
    /\ LoneClone
    /\ LoneDisk

IInv ==
    /\ TypeOK
    /\ ~up => Quiet
    /\ ErrNeedsCause
    /\ ~overlap => LoneInv

-----------------------------------------------------------------------------
(* Calls of the store *)

\* Every call of the store is a mutation to some table.
LEMMA CallMutates ==
    ASSUME TypeOK, NEW t \in Tasks, Call(t)
    PROVE  \E new \in Table : Mutate(t, new)
  <1>1. PICK r \in Runs :
            \/ CreateRun(t, r)
            \/ \E s \in RunState : UpdateStatus(t, r, s)
            \/ \E k \in Kinds : AppendEvent(t, r, k)
            \/ Stop(t, r)
    BY DEF Call
  <1>2. mem \in Table
    BY DEF TypeOK
  <1>3. CASE CreateRun(t, r)
    BY <1>2, <1>3, WithRunType DEF CreateRun
  <1>4. CASE \E s \in RunState : UpdateStatus(t, r, s)
    BY <1>2, <1>4, WithStatusType DEF UpdateStatus
  <1>5. CASE \E k \in Kinds : AppendEvent(t, r, k)
    BY <1>2, <1>5, WithEventType DEF AppendEvent
  <1>6. CASE Stop(t, r)
    <2>1. "Canceled" \in RunState
      BY DEF RunState, Finished
    <2>2. QED
      BY <1>2, <1>6, <2>1, StoppableExists, WithStatusType DEF Stop
  <1>7. QED
    BY <1>1, <1>3, <1>4, <1>5, <1>6

-----------------------------------------------------------------------------
(* Type correctness: one lemma per action that needs more than its guard.  *)

\* The state of a task that runs no operation is one.
LEMMA IdleType == Idle \in Operation
  BY EmptyTableType DEF Idle, Operation

\* The contents the temp file and runs.json can have.
LEMMA FileTypes ==
    /\ NoFile \in File
    /\ Emptied \in File
    /\ Garbled \in File
    /\ \A tab \in Table : Whole(tab) \in File
    /\ \A f \in File : f.table \in Table
  BY EmptyTableType DEF File, NoFile, Emptied, Garbled, Whole

\* A write_all leaves a file, garbled or not.
LEMMA WrittenType ==
    ASSUME NEW f \in File, NEW t \in Tasks, io[t] \in Operation
    PROVE  Written(f, t) \subseteq File
  BY FileTypes DEF Written, Operation

\* The new store is well typed.
LEMMA TypeInit == Init => TypeOK
  <1> SUFFICES ASSUME Init
               PROVE  TypeOK
    OBVIOUS
  <1>1. mem \in Table /\ tmp \in File /\ disk \in File
    BY EmptyTableType, FileTypes DEF Init
  <1>2. io \in [Tasks -> Operation]
    BY IdleType DEF Init
  <1>3. used \in Used
    BY BoundsAssumption DEF Init, Used
  <1>4. QED
    BY <1>1, <1>2, <1>3 DEF Init, TypeOK

\* Every step keeps the types.
LEMMA TypeStep == TypeOK /\ [Next]_vars => TypeOK'
  <1> SUFFICES ASSUME TypeOK, [Next]_vars
               PROVE  TypeOK'
    OBVIOUS
  <1> USE IdleType, FileTypes, EmptyTableType, BoundsAssumption
  <1>1. ASSUME NEW t \in Tasks, Call(t)
        PROVE  TypeOK'
    <2>1. PICK new \in Table : Mutate(t, new)
      BY <1>1, CallMutates
    <2>2. QED
      BY <2>1 DEF Mutate, TypeOK, Operation, Used
  <1>2. ASSUME NEW t \in Tasks, CloneTable(t)
        PROVE  TypeOK'
    BY <1>2 DEF CloneTable, TypeOK, Operation, BusySteps, OverlapWith, Busy
  <1>3. ASSUME NEW t \in Tasks, OpenTemp(t)
        PROVE  TypeOK'
    BY <1>3 DEF OpenTemp, TypeOK, Operation, BusySteps
  <1>4. ASSUME NEW t \in Tasks, WriteTemp(t)
        PROVE  TypeOK'
    <2>1. tmp' \in File /\ disk' \in File
      BY <1>4, WrittenType DEF WriteTemp, TypeOK
    <2>2. QED
      BY <1>4, <2>1 DEF WriteTemp, TypeOK, Operation, BusySteps
  <1>5. ASSUME NEW t \in Tasks, FailTemp(t)
        PROVE  TypeOK'
    BY <1>5 DEF FailTemp, TypeOK, Used
  <1>6. ASSUME NEW t \in Tasks, RenameTemp(t)
        PROVE  TypeOK'
    <2>1. \A u \in Tasks : [io[u] EXCEPT !.fd = Moved(io[u].fd)] \in Operation
      BY DEF TypeOK, Operation, Moved
    <2>2. io' \in [Tasks -> Operation]
      <3>1. \A u \in Tasks :
               (IF u = t THEN Idle ELSE [io[u] EXCEPT !.fd = Moved(io[u].fd)])
                  \in Operation
        BY <2>1
      <3>2. QED
        BY <1>6, <3>1, Zenon DEF RenameTemp
    <2>3. QED
      BY <1>6, <2>2 DEF RenameTemp, TypeOK
  <1>7. ASSUME NEW t \in Tasks, RenameMissing(t)
        PROVE  TypeOK'
    BY <1>7 DEF RenameMissing, TypeOK
  <1>8. ASSUME NEW t \in Tasks, ReadForReload(t)
        PROVE  TypeOK'
    <2>1. io' \in [Tasks -> Operation]
      BY <1>8 DEF ReadForReload, TypeOK, Operation, BusySteps
    <2>2. overlap' \in BOOLEAN
      BY <1>8, Zenon DEF ReadForReload, TypeOK, OverlapWith
    <2>3. used' \in Used
      BY <1>8 DEF ReadForReload, TypeOK, Used
    <2>4. QED
      BY <1>8, <2>1, <2>2, <2>3 DEF ReadForReload, TypeOK
  <1>9. ASSUME NEW t \in Tasks, InstallReload(t)
        PROVE  TypeOK'
    BY <1>9 DEF InstallReload, TypeOK, Operation
  <1>10. CASE Crash
    <2>1. io' \in [Tasks -> Operation]
      BY <1>10, Zenon DEF Crash
    <2>2. used' \in Used
      BY <1>10 DEF Crash, TypeOK, Used
    <2>3. QED
      BY <1>10, <2>1, <2>2 DEF Crash, TypeOK
  <1>11. CASE Restart
    BY <1>11 DEF Restart, TypeOK
  <1>12. CASE UNCHANGED vars
    BY <1>12 DEF vars, TypeOK
  <1>13. QED
    BY <1>1, <1>2, <1>3, <1>4, <1>5, <1>6, <1>7, <1>8, <1>9, <1>10, <1>11, <1>12
       DEF Next, Work, Persist, Reload

\* The store's variables keep their types: tables stay tables through every
\* mutation, clone, write, reload and restart.
THEOREM TypeCorrect == Spec => []TypeOK
  BY TypeInit, TypeStep, PTL DEF Spec

-----------------------------------------------------------------------------
(* The store without overlaps, action by action.                           *)

\* A change in memory leaves it ahead of an intact runs.json.
LEMMA LoneMutate ==
    ASSUME TypeOK, LoneInv, NEW t \in Tasks, NEW new \in Table, Mutate(t, new)
    PROVE  LoneInv'
  <1>1. /\ io'[t].step = "mutated"
        /\ \A u \in Tasks : u # t => io'[u] = io[u]
        /\ UNCHANGED <<tmp, disk, up, last>>
    BY DEF Mutate, TypeOK, Operation
  <1>2. ~NonePending'
    BY <1>1 DEF NonePending
  <1>3. \A u \in Tasks : Busy(u)' => Busy(u) /\ io'[u] = io[u]
    BY <1>1 DEF Busy, BusySteps
  <1>4. QED
    BY <1>1, <1>2, <1>3 DEF LoneInv, LoneTemp, LoneClone, LoneDisk, Busy,
       BusySteps, Readable

\* The only persist in flight clones the table in memory.
LEMMA LoneCloneTable ==
    ASSUME TypeOK, LoneInv, NEW t \in Tasks, CloneTable(t), ~overlap'
    PROVE  LoneInv'
  <1>1. /\ io'[t].step = "open" /\ io'[t].clone = mem
        /\ \A u \in Tasks : u # t => io'[u] = io[u]
        /\ UNCHANGED <<mem, tmp, disk, up, last>>
    BY DEF CloneTable, TypeOK, Operation
  <1>2. \A u \in Tasks : u # t => ~Busy(u) /\ ~Busy(u)'
    BY <1>1 DEF CloneTable, OverlapWith, Busy
  <1>3. Busy(t)'
    BY <1>1 DEF Busy, BusySteps
  <1>4. QED
    BY <1>1, <1>2, <1>3 DEF LoneInv, LoneTemp, LoneClone, LoneDisk, Busy,
       BusySteps, Readable

\* It truncates a temp file nobody else has open.
LEMMA LoneOpenTemp ==
    ASSUME TypeOK, LoneInv, NEW t \in Tasks, OpenTemp(t)
    PROVE  LoneInv'
  <1>1. /\ io[t].step = "open"
        /\ io'[t].step = "write" /\ io'[t].fd = "tmp"
        /\ io'[t].clone = io[t].clone
        /\ \A u \in Tasks : u # t => io'[u] = io[u]
        /\ tmp' = Emptied
        /\ UNCHANGED <<mem, disk, up, last>>
    BY DEF OpenTemp, TypeOK, Operation
  <1>2. Busy(t) /\ Busy(t)'
    BY <1>1 DEF Busy, BusySteps
  <1>3. \A u \in Tasks : u # t => ~Busy(u) /\ ~Busy(u)'
    BY <1>1, <1>2 DEF LoneInv, Busy
  <1>4. NonePending' <=> NonePending
    BY <1>1 DEF NonePending
  <1>5. QED
    BY <1>1, <1>2, <1>3, <1>4 DEF LoneInv, LoneTemp, LoneClone, LoneDisk,
       Busy, BusySteps, Readable

\* It writes its clone to that file.
LEMMA LoneWriteTemp ==
    ASSUME TypeOK, LoneInv, NEW t \in Tasks, WriteTemp(t)
    PROVE  LoneInv'
  <1>1. io[t].fd = "tmp" /\ tmp = Emptied /\ io[t].step = "write"
    BY DEF WriteTemp, LoneInv, LoneTemp
  <1>2. /\ io'[t].step = "rename" /\ io'[t].clone = io[t].clone
        /\ \A u \in Tasks : u # t => io'[u] = io[u]
        /\ UNCHANGED <<mem, disk, up, last>>
    BY <1>1 DEF WriteTemp, TypeOK, Operation
  <1>3. tmp' = Whole(io[t].clone)
    BY <1>1 DEF WriteTemp, Written, Emptied
  <1>4. Busy(t) /\ Busy(t)'
    BY <1>1, <1>2 DEF Busy, BusySteps
  <1>5. \A u \in Tasks : u # t => ~Busy(u) /\ ~Busy(u)'
    BY <1>2, <1>4 DEF LoneInv, Busy
  <1>6. NonePending' <=> NonePending
    BY <1>1, <1>2 DEF NonePending
  <1>7. QED
    BY <1>1, <1>2, <1>3, <1>4, <1>5, <1>6 DEF LoneInv, LoneTemp, LoneClone,
       LoneDisk, Busy, BusySteps, Readable

\* The three ways out of a busy step that leave the task idle and touch
\* neither the temp file nor runs.json: a failed write, a rename without a
\* temp file, an installed reload.
LEMMA LoneFail ==
    ASSUME TypeOK, LoneInv, NEW t \in Tasks, FailTemp(t) \/ RenameMissing(t)
    PROVE  LoneInv'
  <1>1. /\ io[t].step \in BusySteps
        /\ io'[t].step = "idle"
        /\ \A u \in Tasks : u # t => io'[u] = io[u]
        /\ last' = "err"
        /\ UNCHANGED <<mem, tmp, disk, up>>
    BY DEF FailTemp, RenameMissing, TypeOK, BusySteps, Idle
  <1>2. \A u \in Tasks : ~Busy(u)'
    BY <1>1 DEF LoneInv, Busy, BusySteps
  <1>3. QED
    BY <1>1, <1>2 DEF LoneInv, LoneTemp, LoneClone, LoneDisk, Busy,
       BusySteps, Readable

\* It renames the file it wrote.
LEMMA LoneRename ==
    ASSUME TypeOK, LoneInv, NEW t \in Tasks, RenameTemp(t)
    PROVE  LoneInv'
  <1>1. /\ io[t].step = "rename"
        /\ io'[t].step = "idle"
        /\ disk' = Whole(io[t].clone)
        /\ UNCHANGED <<mem, up>>
    BY DEF RenameTemp, LoneInv, LoneTemp, Idle
  <1>2. \A u \in Tasks : u # t => io'[u].step = io[u].step
    BY DEF RenameTemp, TypeOK, Operation
  <1>3. \A u \in Tasks : ~Busy(u)'
    BY <1>1, <1>2 DEF LoneInv, Busy, BusySteps
  <1>4. NonePending' => disk'.table = mem'
    <2>1. NonePending' => NonePending
      BY <1>1, <1>2 DEF NonePending
    <2>2. QED
      BY <1>1, <2>1 DEF LoneInv, LoneClone, Whole
  <1>5. QED
    BY <1>1, <1>3, <1>4 DEF LoneInv, LoneTemp, LoneClone, LoneDisk, Busy,
       BusySteps, Readable, Whole

\* A reload that no persist meets reads what is in memory.
LEMMA LoneReadForReload ==
    ASSUME TypeOK, LoneInv, NEW t \in Tasks, ReadForReload(t), ~overlap'
    PROVE  LoneInv'
  <1>1. /\ io'[t].step = "reload" /\ io'[t].clone = disk.table
        /\ \A u \in Tasks : u # t => io'[u] = io[u]
        /\ UNCHANGED <<mem, tmp, disk, up, last>>
    BY DEF ReadForReload, TypeOK, Operation
  <1>2. \A u \in Tasks : u # t => ~Busy(u) /\ ~Busy(u)'
    BY <1>1 DEF ReadForReload, OverlapWith, Busy
  <1>3. Busy(t)'
    BY <1>1 DEF Busy, BusySteps
  <1>4. QED
    BY <1>1, <1>2, <1>3 DEF LoneInv, LoneTemp, LoneClone, LoneDisk, Busy,
       BusySteps, Readable

\* It installs what it read.
LEMMA LoneInstall ==
    ASSUME TypeOK, LoneInv, NEW t \in Tasks, InstallReload(t)
    PROVE  LoneInv'
  <1>1. /\ io[t].step = "reload"
        /\ io'[t].step = "idle"
        /\ \A u \in Tasks : u # t => io'[u] = io[u]
        /\ mem' = io[t].clone
        /\ UNCHANGED <<tmp, disk, up>>
    BY DEF InstallReload, TypeOK, Idle
  <1>2. mem' = disk'.table
    BY <1>1 DEF LoneInv, LoneClone
  <1>3. \A u \in Tasks : ~Busy(u)'
    BY <1>1 DEF LoneInv, Busy, BusySteps
  <1>4. QED
    BY <1>1, <1>2, <1>3 DEF LoneInv, LoneTemp, LoneClone, LoneDisk, Busy,
       BusySteps, Readable

-----------------------------------------------------------------------------
(* The inductive invariant                                                 *)

\* The invariant holds of a new store.
LEMMA IInvInit == Init => IInv
  <1> SUFFICES ASSUME Init
               PROVE  IInv
    OBVIOUS
  <1>1. \A t \in Tasks : io[t].step = "idle" /\ ~Busy(t)
    BY DEF Init, Idle, Busy, BusySteps
  <1>2. LoneInv
    BY <1>1 DEF Init, LoneInv, LoneTemp, LoneClone, LoneDisk, Busy, Readable,
       NoFile
  <1>3. QED
    BY <1>1, <1>2, TypeInit DEF IInv, Quiet, ErrNeedsCause, Init

\* A step that overlaps nothing keeps the part about lone writers.
LEMMA LoneStep ==
    ASSUME IInv, [Next]_vars, ~overlap'
    PROVE  LoneInv'
  <1>1. ~overlap
    BY DEF Next, Work, Call, CreateRun, UpdateStatus, AppendEvent, Stop,
       Mutate, Persist, CloneTable, OpenTemp, WriteTemp, FailTemp, RenameTemp,
       RenameMissing, Reload, ReadForReload, InstallReload, Crash, Restart,
       OverlapWith, vars
  <1>2. TypeOK /\ LoneInv
    BY <1>1 DEF IInv
  <1>3. ASSUME NEW t \in Tasks, Call(t)
        PROVE  LoneInv'
    BY <1>2, <1>3, CallMutates, LoneMutate
  <1>4. ASSUME NEW t \in Tasks, Persist(t)
        PROVE  LoneInv'
    BY <1>2, <1>4, LoneCloneTable, LoneOpenTemp, LoneWriteTemp, LoneFail,
       LoneRename DEF Persist
  <1>5. ASSUME NEW t \in Tasks, Reload(t)
        PROVE  LoneInv'
    BY <1>2, <1>5, LoneReadForReload, LoneInstall DEF Reload
  <1>6. CASE Crash
    <2>1. \A t \in Tasks : io'[t].step = "idle" /\ ~Busy(t)'
      BY <1>6 DEF Crash, Idle, Busy, BusySteps
    <2>2. QED
      BY <1>2, <1>6, <2>1 DEF Crash, LoneInv, LoneTemp, LoneClone, LoneDisk,
         Busy, Readable
  <1>7. CASE Restart
    <2>1. \A t \in Tasks : io'[t] = io[t] /\ io[t].step = "idle" /\ ~Busy(t)'
      BY <1>7 DEF Restart, IInv, Quiet, Busy, BusySteps
    <2>2. QED
      BY <1>2, <1>7, <2>1 DEF Restart, LoneInv, LoneTemp, LoneClone, LoneDisk,
         Busy, BusySteps, Readable
  <1>8. CASE UNCHANGED vars
    BY <1>2, <1>8 DEF vars, LoneInv, LoneTemp, LoneClone, LoneDisk, NonePending,
       Busy, Readable
  <1>9. QED
    BY <1>3, <1>4, <1>5, <1>6, <1>7, <1>8 DEF Next, Work

\* A process that is down has no task.
LEMMA QuietStep ==
    ASSUME TypeOK, ~up => Quiet, [Next]_vars
    PROVE  ~up' => Quiet'
  <1>1. CASE Crash
    BY <1>1 DEF Crash, Quiet, Idle
  <1>2. CASE Restart
    BY <1>2 DEF Restart
  <1>3. CASE Work \/ \E t \in Tasks : Reload(t)
    <2>1. up' = up
      BY <1>3 DEF Work, Call, CreateRun, UpdateStatus, AppendEvent, Stop,
         Mutate, Persist, CloneTable, OpenTemp, WriteTemp, FailTemp,
         RenameTemp, RenameMissing, Reload, ReadForReload, InstallReload
    <2>2. Quiet => up
      BY <1>3 DEF Quiet, Work, Call, CreateRun, UpdateStatus, AppendEvent,
         Stop, Mutate, Persist, CloneTable, OpenTemp, WriteTemp, FailTemp,
         RenameTemp, RenameMissing, Reload, ReadForReload, InstallReload
    <2>3. QED
      BY <2>1, <2>2
  <1>4. CASE UNCHANGED vars
    BY <1>4 DEF vars, Quiet
  <1>5. QED
    BY <1>1, <1>2, <1>3, <1>4 DEF Next

\* A step that returns an error has met a fault or another persist.
LEMMA ErrStep ==
    ASSUME IInv, [Next]_vars
    PROVE  ErrNeedsCause'
  <1> USE DEF ErrNeedsCause
  <1>1. TypeOK /\ ErrNeedsCause /\ used.faults \in Nat
    BY DEF IInv, TypeOK, Used
  <1>2. ASSUME NEW t \in Tasks, Call(t)
        PROVE  ErrNeedsCause'
    BY <1>1, <1>2 DEF Call, CreateRun, UpdateStatus, AppendEvent, Stop, Mutate,
       TypeOK, Used
  <1>3. ASSUME NEW t \in Tasks, FailTemp(t)
        PROVE  ErrNeedsCause'
    <2>1. used'.faults = used.faults + 1
      BY <1>3 DEF FailTemp, TypeOK, Used
    <2>2. QED
      BY <1>1, <2>1
  <1>4. ASSUME NEW t \in Tasks, RenameMissing(t)
        PROVE  ErrNeedsCause'
    <2>1. overlap
      BY <1>4 DEF RenameMissing, IInv, LoneInv, LoneTemp, Whole
    <2>2. QED
      BY <1>4, <2>1 DEF RenameMissing
  <1>5. ASSUME NEW t \in Tasks, CloneTable(t) \/ OpenTemp(t) \/ WriteTemp(t)
        PROVE  ErrNeedsCause'
    BY <1>1, <1>5 DEF CloneTable, OpenTemp, WriteTemp, OverlapWith
  <1>6. ASSUME NEW t \in Tasks, RenameTemp(t) \/ InstallReload(t)
        PROVE  ErrNeedsCause'
    BY <1>6 DEF RenameTemp, InstallReload
  <1>7. ASSUME NEW t \in Tasks, ReadForReload(t)
        PROVE  ErrNeedsCause'
    BY <1>1, <1>7 DEF ReadForReload, OverlapWith, TypeOK, Used
  <1>8. CASE Crash
    BY <1>1, <1>8 DEF Crash, TypeOK, Used
  <1>9. CASE Restart
    BY <1>9 DEF Restart
  <1>10. CASE UNCHANGED vars
    BY <1>1, <1>10 DEF vars
  <1>11. QED
    BY <1>2, <1>3, <1>4, <1>5, <1>6, <1>7, <1>8, <1>9, <1>10
       DEF Next, Work, Persist, Reload

\* The invariant is inductive.
LEMMA IInvStep == IInv /\ [Next]_vars => IInv'
  <1> SUFFICES ASSUME IInv, [Next]_vars
               PROVE  IInv'
    OBVIOUS
  <1>1. TypeOK'
    BY TypeStep DEF IInv
  <1>2. ~up' => Quiet'
    BY QuietStep DEF IInv
  <1>3. ErrNeedsCause'
    BY ErrStep
  <1>4. ~overlap' => LoneInv'
    BY LoneStep
  <1>5. QED
    BY <1>1, <1>2, <1>3, <1>4 DEF IInv

\* Every reachable state satisfies the inductive invariant: types, the store
\* without overlaps, no task in a process that is down, and errors explained.
THEOREM InvariantHolds == Spec => []IInv
  BY IInvInit, IInvStep, PTL DEF Spec

-----------------------------------------------------------------------------
(* Consequences                                                            *)

\* A lone writer's temp file and rename are an atomic update: as long as no
\* two persists overlapped, runs.json is missing or parses after any number
\* of crashes, failed writes, restarts and reloads.
THEOREM WholeFileWithoutOverlap == Spec => []LoneWritersLeaveWholeFile
  <1>1. IInv => LoneWritersLeaveWholeFile
    BY DEF IInv, LoneInv, LoneWritersLeaveWholeFile
  <1>2. QED
    BY <1>1, InvariantHolds, PTL

\* Without overlaps, a quiet store whose last persist succeeded has exactly
\* its table on disk, so a crash then loses nothing.
THEOREM NothingLostWithoutOverlap == Spec => []QuietDiskIsMemory
  <1>1. IInv => QuietDiskIsMemory
    BY DEF IInv, LoneInv, LoneDisk, QuietDiskIsMemory, Quiet, NonePending,
       Busy, BusySteps
  <1>2. QED
    BY <1>1, InvariantHolds, PTL

\* persist returns Err only after a failed write or an overlap: a rename that
\* finds no temp file proves that another task took it.
THEOREM ErrorsHaveCause == Spec => []ErrNeedsCause
  <1>1. IInv => ErrNeedsCause
    BY DEF IInv
  <1>2. QED
    BY <1>1, InvariantHolds, PTL

\* Within one process lifetime the table in memory is a MemRunStore, however
\* the persists of its tasks interleave or fail.
THEOREM StateRunStoreImplementsRunTable == LifetimeSpec => ImplementsRunTable
  <1> USE DEF EmptyTable, RunTableSpec!EmptyTable, Absent, RunTableSpec!Absent,
              Exists, RunTableSpec!Exists, Stoppable, RunTableSpec!Stoppable,
              WithRun, RunTableSpec!WithRun, NewRecord, RunTableSpec!NewRecord,
              WithStatus, RunTableSpec!WithStatus,
              WithEvent, RunTableSpec!WithEvent, Newest, RunTableSpec!Newest,
              RunState, RunTableSpec!RunState, Finished, RunTableSpec!Finished
  <1>1. Init => RunTableSpec!Init
    BY DEF Init, RunTableSpec!Init
  <1>2. ASSUME NEW t \in Tasks, Call(t)
        PROVE  RunTableSpec!Next
    BY <1>2 DEF Call, CreateRun, UpdateStatus, AppendEvent, Stop, Mutate,
       RunTableSpec!Next, RunTableSpec!CreateRun, RunTableSpec!UpdateStatus,
       RunTableSpec!AppendEvent, RunTableSpec!Stop
  <1>3. ASSUME NEW t \in Tasks, Persist(t)
        PROVE  UNCHANGED mem
    BY <1>3 DEF Persist, CloneTable, OpenTemp, WriteTemp, FailTemp, RenameTemp,
       RenameMissing
  <1>4. [Work]_vars => [RunTableSpec!Next]_mem
    BY <1>2, <1>3 DEF Work, vars
  <1>5. QED
    BY <1>1, <1>4, PTL DEF LifetimeSpec, ImplementsRunTable, RunTableSpec!Spec

-----------------------------------------------------------------------------
(* The file never runs ahead of memory                                     *)

\* Every run of one table is in the other, with at least as many events.
Within(old, new) ==
    \A r \in Runs : Exists(old, r) =>
        Exists(new, r) /\ Len(old[r].events) <= Len(new[r].events)

\* What is on its way to runs.json is within memory: the clones, and the temp
\* file from when a task has opened it.
AheadInv ==
    /\ \A t \in Tasks :
        /\ io[t].step \in {"open", "write", "rename"} => Within(io[t].clone, mem)
        /\ io[t].step \in {"write", "rename"} /\ tmp.kind = "whole" =>
             Within(tmp.table, mem)
    /\ up /\ disk.kind = "whole" => Within(disk.table, mem)

\* Tables grow transitively, and a table is within itself.
LEMMA WithinOrder ==
    ASSUME NEW a \in Table, NEW b \in Table, NEW c \in Table
    PROVE  /\ Within(a, a)
           /\ Within(a, b) /\ Within(b, c) => Within(a, c)
  <1>1. \A tab \in Table, r \in Runs :
            Exists(tab, r) => Len(tab[r].events) \in Nat
    BY ExistingIsRecord DEF RunRecord, EventLog
  <1>2. QED
    BY <1>1 DEF Within

\* An operation forgets no run, and no event but to make room for a newer one.
LEMMA CallGrows ==
    ASSUME TypeOK, NEW t \in Tasks, Call(t)
    PROVE  Within(mem, mem')
  <1>1. PICK r \in Runs :
            \/ CreateRun(t, r)
            \/ \E s \in RunState : UpdateStatus(t, r, s)
            \/ \E k \in Kinds : AppendEvent(t, r, k)
            \/ Stop(t, r)
    BY DEF Call
  <1>2. /\ mem \in Table
        /\ \A s \in Runs : Exists(mem, s) =>
             mem[s].events \in Seq(Kinds) /\ Len(mem[s].events) <= MaxEvents
    BY ExistingIsRecord DEF TypeOK, RunRecord, EventLog
  <1>3. CASE CreateRun(t, r)
    BY <1>2, <1>3 DEF CreateRun, Mutate, WithRun, Within, Exists, Table
  <1>4. ASSUME NEW s \in RunState, Exists(mem, r), mem' = WithStatus(mem, r, s)
        PROVE  Within(mem, mem')
    BY <1>2, <1>4, StatusSet DEF Within, Exists, RunState, Finished
  <1>5. CASE \E s \in RunState : UpdateStatus(t, r, s)
    BY <1>4, <1>5 DEF UpdateStatus, Mutate
  <1>6. CASE Stop(t, r)
    BY <1>2, <1>4, <1>6, StoppableExists DEF Stop, Mutate, RunState, Finished
  <1>7. CASE \E k \in Kinds : AppendEvent(t, r, k)
    <2>1. PICK k \in Kinds : Exists(mem, r) /\ mem' = WithEvent(mem, r, k)
      BY <1>7 DEF AppendEvent, Mutate
    <2> DEFINE old  == mem[r].events
               long == Append(old, k)
    <2>2. /\ old \in Seq(Kinds) /\ Len(old) <= MaxEvents
          /\ long \in Seq(Kinds) /\ Len(long) = Len(old) + 1
      BY <1>2, <2>1
    <2>3. Len(Newest(long)) >= Len(old)
      BY <2>2, MaxEventsAssumption DEF Newest
    <2>4. /\ mem'[r].events = Newest(long) /\ mem'[r].state = mem[r].state
          /\ \A s \in Runs \ {r} : mem'[s] = mem[s]
      <3>1. mem[r] \in RunRecord
        BY <1>2, <2>1, ExistingIsRecord
      <3> QED
        BY <1>2, <2>1, <3>1 DEF WithEvent, Table, RunRecord
    <2> HIDE DEF old, long
    <2>5. Len(mem[r].events) <= Len(mem'[r].events)
      BY <2>2, <2>3, <2>4 DEF old
    <2> QED
      BY <1>2, <2>4, <2>5 DEF Within, Exists
  <1> QED
    BY <1>1, <1>3, <1>5, <1>6, <1>7

\* No task reloads, and none ever will.
NoReload == MaxReloads = 0 /\ \A t \in Tasks : io[t].step # "reload"

\* A store that nobody reloads stays one.
LEMMA NoReloadStays ==
    ASSUME IInv, NoReload, [Next]_vars
    PROVE  NoReload'
  <1>1. /\ \A t \in Tasks : io[t] \in Operation
        /\ io \in [Tasks -> Operation] /\ used.reloads \in 0..MaxReloads
    BY DEF IInv, TypeOK, Used
  <1>2. ASSUME NEW t \in Tasks, Call(t) \/ Persist(t)
        PROVE  \A u \in Tasks : io'[u].step # "reload"
    BY <1>1, <1>2 DEF NoReload, Call, CreateRun, UpdateStatus, AppendEvent, Stop,
       Mutate, Persist, CloneTable, OpenTemp, WriteTemp, FailTemp, RenameTemp,
       RenameMissing, Idle, Operation
  <1>3. ASSUME NEW t \in Tasks, Reload(t)
        PROVE  FALSE
    BY <1>1, <1>3 DEF Reload, ReadForReload, InstallReload, NoReload
  <1>4. CASE Crash \/ Restart \/ UNCHANGED vars
    BY <1>4 DEF Crash, Restart, vars, NoReload, Idle
  <1> QED
    BY <1>2, <1>3, <1>4 DEF Next, Work, NoReload

\* Overlaps are not forgotten.
LEMMA OverlapStays ==
    ASSUME [Next]_vars, ~overlap'
    PROVE  ~overlap
BY DEF Next, Work, Call, CreateRun, UpdateStatus, AppendEvent, Stop,
       Mutate, Persist, CloneTable, OpenTemp, WriteTemp, FailTemp, RenameTemp,
       RenameMissing, Reload, ReadForReload, InstallReload, Crash, Restart,
       OverlapWith, vars

\* Without reloads, or without overlaps, every step keeps it.
LEMMA AheadStep ==
    ASSUME NoReload \/ ~overlap', IInv, AheadInv, [Next]_vars, TypeOK'
    PROVE  AheadInv'
  <1>1. TypeOK /\ mem \in Table /\ mem' \in Table /\ tmp \in File /\ disk \in File
        /\ tmp.table \in Table /\ disk.table \in Table
        /\ \A t \in Tasks : io[t] \in Operation /\ io[t].clone \in Table
    BY FileTypes DEF IInv, TypeOK, Operation
  <1>2. ASSUME NEW t \in Tasks, Call(t)
        PROVE  AheadInv'
    <2>1. /\ Within(mem, mem')
          /\ io' = [io EXCEPT ![t].step = "mutated"]
          /\ UNCHANGED <<tmp, disk, up>>
      BY <1>1, <1>2, CallGrows DEF Call, CreateRun, UpdateStatus, AppendEvent, Stop,
                                   Mutate
    <2>2. /\ io'[t].step = "mutated"
          /\ \A u \in Tasks \ {t} : io'[u] = io[u]
      BY <1>1, <2>1 DEF TypeOK, Operation
    <2> QED
      BY <1>1, <2>1, <2>2, WithinOrder DEF AheadInv
  <1>3. ASSUME NEW t \in Tasks, CloneTable(t)
        PROVE  AheadInv'
    <2>1. /\ io'[t].step = "open" /\ io'[t].clone = mem
          /\ \A u \in Tasks \ {t} : io'[u] = io[u]
          /\ UNCHANGED <<mem, tmp, disk, up>>
      BY <1>1, <1>3 DEF CloneTable, TypeOK, Operation
    <2> QED
      BY <1>1, <2>1, WithinOrder DEF AheadInv
  <1>4. ASSUME NEW t \in Tasks, OpenTemp(t)
        PROVE  AheadInv'
    <2>1. /\ io[t].step = "open"
          /\ io'[t].step = "write" /\ io'[t].clone = io[t].clone
          /\ \A u \in Tasks \ {t} : io'[u] = io[u]
          /\ tmp'.kind = "empty"
          /\ UNCHANGED <<mem, disk, up>>
      BY <1>1, <1>4 DEF OpenTemp, TypeOK, Operation, Emptied
    <2> QED
      BY <2>1 DEF AheadInv
  <1>5. ASSUME NEW t \in Tasks, WriteTemp(t)
        PROVE  AheadInv'
    <2>1. /\ io[t].step = "write"
          /\ io'[t].step = "rename" /\ io'[t].clone = io[t].clone
          /\ \A u \in Tasks \ {t} : io'[u] = io[u]
          /\ UNCHANGED <<mem, up>>
      BY <1>1, <1>5 DEF WriteTemp, TypeOK, Operation
    <2>2. /\ tmp' = tmp \/ tmp' = Whole(io[t].clone) \/ tmp' = Garbled
          /\ disk' = disk \/ disk' = Whole(io[t].clone) \/ disk' = Garbled
      BY <1>5 DEF WriteTemp, Written
    <2>3. Within(io[t].clone, mem)
      BY <2>1 DEF AheadInv
    <2>4. \A u \in Tasks : io'[u].step \in {"write", "rename"} /\ tmp'.kind = "whole"
             => Within(tmp'.table, mem)
      BY <2>1, <2>2, <2>3 DEF AheadInv, Whole, Garbled
    <2>5. up /\ disk'.kind = "whole" => Within(disk'.table, mem)
      BY <2>2, <2>3 DEF AheadInv, Whole, Garbled
    <2> QED
      BY <2>1, <2>4, <2>5 DEF AheadInv
  <1>6. ASSUME NEW t \in Tasks, FailTemp(t) \/ RenameMissing(t)
        PROVE  AheadInv'
    <2>1. /\ io'[t].step = "idle"
          /\ \A u \in Tasks \ {t} : io'[u] = io[u]
          /\ UNCHANGED <<mem, tmp, disk, up>>
      BY <1>1, <1>6 DEF FailTemp, RenameMissing, TypeOK, Idle
    <2> QED
      BY <2>1 DEF AheadInv
  <1>7. ASSUME NEW t \in Tasks, RenameTemp(t)
        PROVE  AheadInv'
    <2>1. /\ io[t].step = "rename" /\ io'[t].step = "idle"
          /\ \A u \in Tasks \ {t} :
               io'[u].step = io[u].step /\ io'[u].clone = io[u].clone
          /\ disk' = tmp /\ tmp'.kind = "none"
          /\ UNCHANGED <<mem, up>>
      BY <1>1, <1>7 DEF RenameTemp, TypeOK, Idle, NoFile, Operation
    <2> QED
      BY <2>1 DEF AheadInv
  <1>8. ASSUME NEW t \in Tasks, Reload(t)
        PROVE  AheadInv'
    <2>1. ~overlap /\ LoneInv
      <3>1. CASE NoReload
        BY <1>1, <1>8, <3>1 DEF Reload, ReadForReload, InstallReload, NoReload,
           TypeOK, Used
      <3>2. CASE ~overlap'
        BY <3>2, OverlapStays DEF IInv
      <3> QED
        BY <3>1, <3>2
    <2>2. CASE ReadForReload(t)
      <3>1. /\ io'[t].step = "reload"
            /\ \A u \in Tasks \ {t} : io'[u] = io[u]
            /\ UNCHANGED <<mem, tmp, disk, up>>
        BY <1>1, <2>2 DEF ReadForReload, TypeOK, Operation
      <3> QED
        BY <3>1 DEF AheadInv
    <2>3. CASE InstallReload(t)
      <3>1. /\ io[t].step = "reload" /\ io'[t].step = "idle"
            /\ \A u \in Tasks \ {t} : io'[u] = io[u]
            /\ mem' = io[t].clone
            /\ UNCHANGED <<tmp, disk, up>>
        BY <1>1, <2>3 DEF InstallReload, TypeOK, Idle
      <3>2. \A u \in Tasks \ {t} : io[u].step \notin {"open", "write", "rename"}
        BY <2>1, <3>1 DEF LoneInv, Busy, BusySteps
      <3>3. mem' = disk.table
        BY <2>1, <3>1 DEF LoneInv, LoneClone
      <3>4. Within(disk.table, disk.table)
        BY <1>1, WithinOrder
      <3> QED
        BY <3>1, <3>2, <3>3, <3>4 DEF AheadInv
    <2> QED
      BY <1>8, <2>2, <2>3 DEF Reload
  <1>9. CASE Crash
    BY <1>9 DEF Crash, AheadInv, Idle
  <1>10. CASE Restart
    BY <1>1, <1>10, WithinOrder DEF Restart, IInv, Quiet, AheadInv
  <1>11. CASE UNCHANGED vars
    BY <1>11 DEF vars, AheadInv
  <1> QED
    BY <1>2, <1>3, <1>4, <1>5, <1>6, <1>7, <1>8, <1>9, <1>10, <1>11
    DEF Next, Work, Persist

\* In a store nobody reloads, the file never lists a run memory lacks, nor more
\* of its events, however persists overlap, fail or are cut off by a crash.
\* (The service never calls load_from_disk after new; a reload that overlaps a
\* persist would put an older table back.)
THEOREM DiskStaysWithinMemory ==
    ASSUME MaxReloads = 0
    PROVE  Spec => []DiskNeverAhead
  <1>1. Init => AheadInv /\ NoReload
    BY DEF Init, AheadInv, NoReload, Idle, NoFile
  <1>2. IInv /\ IInv' /\ AheadInv /\ NoReload /\ [Next]_vars => AheadInv' /\ NoReload'
    BY AheadStep, NoReloadStays DEF IInv
  <1>3. AheadInv => DiskNeverAhead
    BY DEF AheadInv, DiskNeverAhead, Within
  <1>4. QED
    BY <1>1, <1>2, <1>3, InvariantHolds, PTL DEF Spec

\* Reloads do no harm either, as long as nothing overlaps: neither a persist
\* nor a reload then brings the file ahead of memory, crashes and failed writes
\* included.
THEOREM LoneReloadsKeepDiskBehind == Spec => [](~overlap => DiskNeverAhead)
  <1>1. Init => AheadInv
    BY DEF Init, AheadInv, Idle, NoFile
  <1>2. IInv /\ IInv' /\ (~overlap => AheadInv) /\ [Next]_vars =>
            (~overlap' => AheadInv')
    BY AheadStep, OverlapStays DEF IInv
  <1>3. AheadInv => DiskNeverAhead
    BY DEF AheadInv, DiskNeverAhead, Within
  <1>4. QED
    BY <1>1, <1>2, <1>3, InvariantHolds, PTL DEF Spec

-----------------------------------------------------------------------------
(* What OperationsReturn rests on.  That every operation returns is checked *)
(* by TLC; that it is never without a step, and never goes back, holds for  *)
(* any number of tasks.                                                     *)

\* How many steps an operation has yet to take at most.
Left(t) ==
    CASE io[t].step = "mutated" -> 4
      [] io[t].step = "open"    -> 3
      [] io[t].step = "write"   -> 2
      [] io[t].step \in {"rename", "reload"} -> 1
      [] OTHER -> 0

\* A step of a task's own operation is one step less to take, and no step of
\* another task, no crash and no restart sends the operation back.
THEOREM OperationsOnlyAdvance ==
    Spec => [][\A t \in Tasks :
                 /\ Persist(t) \/ InstallReload(t) => Left(t)' < Left(t)
                 /\ ~Call(t) /\ ~ReadForReload(t) => Left(t)' <= Left(t)]_vars
  <1> DEFINE Advance(t) ==
               /\ Persist(t) \/ InstallReload(t) => Left(t)' < Left(t)
               /\ ~Call(t) /\ ~ReadForReload(t) => Left(t)' <= Left(t)
  <1>1. ASSUME TypeOK, NEW t \in Tasks, Persist(t) \/ InstallReload(t)
        PROVE  Left(t)' < Left(t)
    <2>1. io[t] \in Operation /\ io \in [Tasks -> Operation]
      BY <1>1 DEF TypeOK
    <2>2. \/ io[t].step = "mutated" /\ io'[t].step = "open"
          \/ io[t].step = "open" /\ io'[t].step = "write"
          \/ io[t].step = "write" /\ io'[t].step \in {"rename", "idle"}
          \/ io[t].step \in {"rename", "reload"} /\ io'[t].step = "idle"
      BY <1>1, <2>1 DEF Persist, InstallReload, CloneTable, OpenTemp, WriteTemp,
         FailTemp, RenameTemp, RenameMissing, Idle, Operation
    <2> QED
      BY <2>2 DEF Left
  <1>2. ASSUME TypeOK, [Next]_vars, NEW t \in Tasks, ~Call(t), ~ReadForReload(t)
        PROVE  Left(t)' <= Left(t)
    <2>1. /\ \A u \in Tasks : io[u] \in Operation
          /\ io \in [Tasks -> Operation] /\ Left(t) \in 0..4
      BY <1>2 DEF TypeOK, Left
    <2>2. CASE io'[t].step = io[t].step
      BY <2>1, <2>2 DEF Left
    <2>3. CASE io'[t].step = "idle"
      BY <2>1, <2>3 DEF Left
    <2>4. ASSUME NEW u \in Tasks \ {t}, Call(u) \/ Persist(u) \/ Reload(u)
          PROVE  io'[t].step = io[t].step
      BY <2>1, <2>4 DEF Call, CreateRun, UpdateStatus, AppendEvent, Stop, Mutate,
         Persist, CloneTable, OpenTemp, WriteTemp, FailTemp, RenameTemp,
         RenameMissing, Reload, ReadForReload, InstallReload, Operation
    <2>5. CASE Crash \/ Restart \/ UNCHANGED vars
      BY <2>2, <2>3, <2>5 DEF Crash, Restart, vars, Idle
    <2>6. CASE Persist(t) \/ InstallReload(t)
      <3>1. io'[t] \in Operation
        BY <1>2, TypeStep DEF TypeOK
      <3>2. Left(t)' < Left(t) /\ Left(t)' \in 0..4
        BY <1>1, <1>2, <2>6, <3>1 DEF Left
      <3> QED
        BY <2>1, <3>2
    <2> QED
      BY <1>2, <2>2, <2>4, <2>5, <2>6 DEF Next, Work, Reload
  <1>3. TypeOK /\ [Next]_vars => [\A t \in Tasks : Advance(t)]_vars
    BY <1>1, <1>2
  <1>4. QED
    BY <1>3, TypeCorrect, PTL DEF Spec

\* A task that is writing has an open file to write to: the temp file, or what
\* another task's rename has made of it.
Writable == \A t \in Tasks : io[t].step = "write" => io[t].fd # "closed"

\* So no operation is ever without its next step.
THEOREM OperationsAreNeverStuck ==
    Spec => [](\A t \in Tasks : io[t].step # "idle" =>
                 \/ io[t].step \in {"mutated", "open", "rename", "reload"}
                 \/ io[t].step = "write" /\ io[t].fd \in {"tmp", "disk", "lost"})
  <1>1. Init => Writable
    BY DEF Init, Writable, Idle
  <1>2. TypeOK /\ Writable /\ [Next]_vars => Writable'
    <2> SUFFICES ASSUME TypeOK, Writable, [Next]_vars PROVE Writable'
      OBVIOUS
    <2>1. /\ \A u \in Tasks : io[u] \in Operation
          /\ io \in [Tasks -> Operation]
      BY DEF TypeOK
    <2>2. ASSUME NEW t \in Tasks, Call(t) \/ Reload(t)
          PROVE  Writable'
      BY <2>1, <2>2 DEF Writable, Call, CreateRun, UpdateStatus, AppendEvent, Stop,
         Mutate, Reload, ReadForReload, InstallReload, Operation, Idle
    <2>3. ASSUME NEW t \in Tasks, CloneTable(t) \/ OpenTemp(t) \/ WriteTemp(t)
          PROVE  Writable'
      BY <2>1, <2>3 DEF Writable, CloneTable, OpenTemp, WriteTemp, Operation
    <2>4. ASSUME NEW t \in Tasks, FailTemp(t) \/ RenameMissing(t)
          PROVE  Writable'
      BY <2>1, <2>4 DEF Writable, FailTemp, RenameMissing, Idle
    <2>5. ASSUME NEW t \in Tasks, RenameTemp(t)
          PROVE  Writable'
      <3>1. \A fd : fd # "closed" => Moved(fd) # "closed"
        BY DEF Moved
      <3>2. io'[t].step = "idle"
        BY <2>1, <2>5 DEF RenameTemp, Idle
      <3>3. \A u \in Tasks \ {t} :
               io'[u].step = io[u].step /\ io'[u].fd = Moved(io[u].fd)
        BY <2>1, <2>5 DEF RenameTemp, Operation
      <3> QED
        BY <3>1, <3>2, <3>3 DEF Writable
    <2>6. CASE Crash \/ Restart \/ UNCHANGED vars
      BY <2>6 DEF Crash, Restart, vars, Writable, Idle
    <2> QED
      BY <2>2, <2>3, <2>4, <2>5, <2>6 DEF Next, Work, Persist
  <1>3. TypeOK /\ Writable =>
          \A t \in Tasks : io[t].step # "idle" =>
             \/ io[t].step \in {"mutated", "open", "rename", "reload"}
             \/ io[t].step = "write" /\ io[t].fd \in {"tmp", "disk", "lost"}
    BY DEF TypeOK, Operation, BusySteps, Writable
  <1>4. QED
    BY <1>1, <1>2, <1>3, TypeCorrect, PTL DEF Spec

-----------------------------------------------------------------------------
(* Records *)

\* Persisting never touches the records, and an operation of any task, failed
\* or not, forgets no run and changes, reorders or drops no event but the
\* oldest of a full log: only a reload, a crash and a restart replace the table.
THEOREM MemoryKeepsRecords ==
    Spec => [][\/ Carries(mem, mem')
               \/ \E t \in Tasks : InstallReload(t)
               \/ Crash
               \/ Restart]_vars
  <1>1. ASSUME TypeOK, NEW t \in Tasks, Call(t)
        PROVE  Carries(mem, mem')
    <2>1. mem \in Table /\ "Canceled" \in RunState
      BY <1>1 DEF TypeOK, RunState, Finished
    <2>2. PICK r \in Runs :
              \/ CreateRun(t, r)
              \/ \E s \in RunState : UpdateStatus(t, r, s)
              \/ \E k \in Kinds : AppendEvent(t, r, k)
              \/ Stop(t, r)
      BY <1>1 DEF Call
    <2>3. \/ ~Exists(mem, r) /\ mem' = WithRun(mem, r)
          \/ Exists(mem, r) /\ \E s \in RunState : mem' = WithStatus(mem, r, s)
          \/ Exists(mem, r) /\ \E k \in Kinds : mem' = WithEvent(mem, r, k)
      BY <2>1, <2>2, StoppableExists DEF CreateRun, UpdateStatus, AppendEvent, Stop,
                                         Mutate
    <2> QED
      BY <2>1, <2>3, UpdatesCarry
  <1>2. ASSUME TypeOK, mem' = mem
        PROVE  Carries(mem, mem')
    <2>1. ASSUME NEW r \in Runs PROVE Carries(mem, mem)
      BY <1>2, <2>1, UpdatesCarry DEF TypeOK
    <2> QED
      BY <1>2, <2>1 DEF Carries
  <1>3. ASSUME NEW t \in Tasks, Persist(t) \/ ReadForReload(t)
        PROVE  mem' = mem
    BY <1>3 DEF Persist, CloneTable, OpenTemp, WriteTemp, FailTemp, RenameTemp,
       RenameMissing, ReadForReload
  <1> DEFINE Kept == \/ Carries(mem, mem')
                     \/ \E t \in Tasks : InstallReload(t)
                     \/ Crash
                     \/ Restart
  <1>4. TypeOK /\ [Next]_vars => [Kept]_vars
    <2> SUFFICES ASSUME TypeOK, Next PROVE Kept
      OBVIOUS
    <2>1. CASE \E t \in Tasks : Call(t) \/ Persist(t) \/ ReadForReload(t)
      BY <1>1, <1>2, <1>3, <2>1
    <2>2. CASE (\E t \in Tasks : InstallReload(t)) \/ Crash \/ Restart
      BY <2>2
    <2> QED
      BY <2>1, <2>2 DEF Next, Work, Reload
  <1>5. QED
    BY <1>4, TypeCorrect, PTL DEF Spec
=============================================================================
