--------------------------- MODULE StateRunStore ----------------------------
(***************************************************************************)
(* StateRunStore, the disk-backed RunStore the subagent service uses.      *)
(*                                                                         *)
(* A mutating operation changes the table under the mutex, releases it,    *)
(* and then persists: it locks again to clone the table, and on a blocking *)
(* thread truncates the one shared temp file, writes the clone and renames *)
(* the temp file over runs.json.  Nothing orders the persists of two       *)
(* tasks, so they may overlap on the same temp file.                       *)
(*                                                                         *)
(* An open file descriptor follows the file it was opened on: when another *)
(* task renames the temp file, a descriptor open on it now points at       *)
(* runs.json, and one that pointed at the old runs.json points at nothing. *)
(***************************************************************************)
EXTENDS RunRecords

CONSTANTS
    Tasks,       \* tokio tasks that call the store
    MaxOps,      \* bound: mutating operations
    MaxFaults,   \* bound: failing writes of the temp file
    MaxCrashes,  \* bound: process deaths
    MaxReloads   \* bound: load_from_disk calls

ASSUME BoundsAssumption ==
    /\ MaxOps \in Nat
    /\ MaxFaults \in Nat
    /\ MaxCrashes \in Nat
    /\ MaxReloads \in Nat

VARIABLES
    mem,      \* inner: the table behind the mutex
    io,       \* per task: where its operation is, its clone, its descriptor
    tmp,      \* runs.tmp
    disk,     \* runs.json
    up,       \* whether the process runs
    last,     \* whether the last persist that ended returned Ok
    overlap,  \* history: two persists (or a reload) were once in flight at once
    used      \* history: the bounded events so far

vars == <<mem, io, tmp, disk, up, last, overlap, used>>

-----------------------------------------------------------------------------
(* Files and operations in flight *)

NoFile   == [kind |-> "none",  table |-> EmptyTable]
Emptied  == [kind |-> "empty", table |-> EmptyTable]
Garbled  == [kind |-> "torn",  table |-> EmptyTable]
Whole(t) == [kind |-> "whole", table |-> t]

File == {NoFile, Emptied, Garbled} \cup [kind : {"whole"}, table : Table]

\* read_records succeeds: the file is missing or parses.
Readable(f) == f.kind \in {"none", "whole"}

Idle == [step |-> "idle", clone |-> EmptyTable, fd |-> "closed"]

\* Between its first read of shared state outside a mutation and its last
\* write: two operations here at once overlap.
BusySteps == {"open", "write", "rename", "reload"}
Busy(t)   == io[t].step \in BusySteps

Operation == [step : {"idle", "mutated"} \cup BusySteps,
              clone : Table,
              fd : {"closed", "tmp", "disk", "lost"}]

OverlapWith(t) == overlap \/ \E u \in Tasks \ {t} : Busy(u)

Used == [ops : 0..MaxOps, faults : 0..MaxFaults,
         crashes : 0..MaxCrashes, reloads : 0..MaxReloads]

TypeOK ==
    /\ mem \in Table
    /\ io \in [Tasks -> Operation]
    /\ tmp \in File
    /\ disk \in File
    /\ up \in BOOLEAN
    /\ last \in {"ok", "err"}
    /\ overlap \in BOOLEAN
    /\ used \in Used

Init ==
    /\ mem = EmptyTable
    /\ io = [t \in Tasks |-> Idle]
    /\ tmp = NoFile
    /\ disk = NoFile
    /\ up = TRUE
    /\ last = "ok"
    /\ overlap = FALSE
    /\ used = [ops |-> 0, faults |-> 0, crashes |-> 0, reloads |-> 0]

-----------------------------------------------------------------------------
(* The mutation under the mutex.  A NotFound error or a stop of a finished *)
(* run returns before it changes or persists anything.                     *)

Mutate(t, new) ==
    /\ up
    /\ io[t].step = "idle"
    /\ used.ops < MaxOps
    /\ mem' = new
    /\ io' = [io EXCEPT ![t].step = "mutated"]
    /\ used' = [used EXCEPT !.ops = used.ops + 1]
    /\ UNCHANGED <<tmp, disk, up, last, overlap>>

CreateRun(t, r) ==
    /\ ~Exists(mem, r)
    /\ Mutate(t, WithRun(mem, r))

UpdateStatus(t, r, s) ==
    /\ Exists(mem, r)
    /\ Mutate(t, WithStatus(mem, r, s))

AppendEvent(t, r, k) ==
    /\ Exists(mem, r)
    /\ Mutate(t, WithEvent(mem, r, k))

\* Mutant of Stop: forget the run instead of marking it.
StopForgets(t, r) ==
    /\ Stoppable(mem, r)
    /\ Mutate(t, [mem EXCEPT ![r] = Absent])

Stop(t, r) ==
    /\ Stoppable(mem, r)
    /\ Mutate(t, WithStatus(mem, r, "Canceled"))

-----------------------------------------------------------------------------
(* persist *)

\* Lock again and clone the table as it is now.
CloneTable(t) ==
    /\ io[t].step = "mutated"
    /\ io' = [io EXCEPT ![t].step = "open", ![t].clone = mem]
    /\ overlap' = OverlapWith(t)
    /\ UNCHANGED <<mem, tmp, disk, up, last, used>>

\* Mutant of OpenTemp: write runs.json itself.
OpenInPlace(t) ==
    /\ io[t].step = "open"
    /\ disk' = Emptied
    /\ io' = [io EXCEPT ![t].step = "write", ![t].fd = "disk"]
    /\ UNCHANGED <<mem, tmp, up, last, overlap, used>>

\* Mutant of OpenTemp: an anonymous temp file, which has no name to rename.
OpenAnonymous(t) ==
    /\ io[t].step = "open"
    /\ tmp' = NoFile
    /\ io' = [io EXCEPT ![t].step = "write", ![t].fd = "lost"]
    /\ UNCHANGED <<mem, disk, up, last, overlap, used>>

\* fs::write opens runs.tmp, creating or truncating it ...
OpenTemp(t) ==
    /\ io[t].step = "open"
    /\ tmp' = Emptied
    /\ io' = [io EXCEPT ![t].step = "write", ![t].fd = "tmp"]
    /\ UNCHANGED <<mem, disk, up, last, overlap, used>>

\* ... and writes at offset 0: over a longer text that another task wrote
\* through its own descriptor, the tail of that text stays.
Written(f, t) ==
    IF f.kind = "empty" \/ f = Whole(io[t].clone)
      THEN {Whole(io[t].clone)}
      ELSE {Whole(io[t].clone), Garbled}

WriteTemp(t) ==
    /\ io[t].step = "write"
    /\ io' = [io EXCEPT ![t].step = "rename", ![t].fd = "closed"]
    /\ \/ /\ io[t].fd = "tmp"
          /\ tmp' \in Written(tmp, t)
          /\ UNCHANGED disk
       \/ /\ io[t].fd = "disk"
          /\ disk' \in Written(disk, t)
          /\ UNCHANGED tmp
       \/ /\ io[t].fd = "lost"
          /\ UNCHANGED <<tmp, disk>>
    /\ UNCHANGED <<mem, up, last, overlap, used>>

\* Mutant of FailTemp: the error is dropped.
FailSilently(t) ==
    /\ io[t].step = "write"
    /\ used.faults < MaxFaults
    /\ io' = [io EXCEPT ![t] = Idle]
    /\ last' = "ok"
    /\ used' = [used EXCEPT !.faults = used.faults + 1]
    /\ UNCHANGED <<mem, tmp, disk, up, overlap>>

\* The write fails: persist returns Err, the mutation stays.
FailTemp(t) ==
    /\ io[t].step = "write"
    /\ used.faults < MaxFaults
    /\ io' = [io EXCEPT ![t] = Idle]
    /\ last' = "err"
    /\ used' = [used EXCEPT !.faults = used.faults + 1]
    /\ UNCHANGED <<mem, tmp, disk, up, overlap>>

\* Where a descriptor points once runs.tmp has become runs.json.
Moved(fd) ==
    CASE fd = "tmp"  -> "disk"
      [] fd = "disk" -> "lost"
      [] OTHER       -> fd

RenameTemp(t) ==
    /\ io[t].step = "rename"
    /\ tmp.kind # "none"
    /\ disk' = tmp
    /\ tmp' = NoFile
    /\ io' = [u \in Tasks |-> IF u = t THEN Idle
                              ELSE [io[u] EXCEPT !.fd = Moved(io[u].fd)]]
    /\ last' = "ok"
    /\ UNCHANGED <<mem, up, overlap, used>>

\* Mutant of RenameMissing: roll memory back to the file.
RenameRollsBack(t) ==
    /\ io[t].step = "rename"
    /\ tmp.kind = "none"
    /\ mem' = disk.table
    /\ io' = [io EXCEPT ![t] = Idle]
    /\ last' = "err"
    /\ UNCHANGED <<tmp, disk, up, overlap, used>>

\* Mutant of RenameMissing: wait for the temp file to come back.
RenameWaits(t) ==
    /\ io[t].step = "rename"
    /\ tmp.kind = "none"
    /\ UNCHANGED vars

\* Another task renamed the temp file away: ENOENT, persist returns Err.
RenameMissing(t) ==
    /\ io[t].step = "rename"
    /\ tmp.kind = "none"
    /\ io' = [io EXCEPT ![t] = Idle]
    /\ last' = "err"
    /\ UNCHANGED <<mem, tmp, disk, up, overlap, used>>

-----------------------------------------------------------------------------
(* load_from_disk reads the file before it takes the mutex. *)

ReadForReload(t) ==
    /\ up
    /\ io[t].step = "idle"
    /\ used.reloads < MaxReloads
    /\ Readable(disk)
    /\ io' = [io EXCEPT ![t].step = "reload", ![t].clone = disk.table]
    /\ overlap' = OverlapWith(t)
    /\ used' = [used EXCEPT !.reloads = used.reloads + 1]
    /\ UNCHANGED <<mem, tmp, disk, up, last>>

InstallReload(t) ==
    /\ io[t].step = "reload"
    /\ mem' = io[t].clone
    /\ io' = [io EXCEPT ![t] = Idle]
    /\ last' = "ok"
    /\ UNCHANGED <<tmp, disk, up, overlap, used>>

-----------------------------------------------------------------------------
(* Process death and StateRunStore::new.  A file that does not parse makes *)
(* new fail, and the service does not come up.                             *)

Crash ==
    /\ up
    /\ used.crashes < MaxCrashes
    /\ up' = FALSE
    /\ mem' = EmptyTable
    /\ io' = [t \in Tasks |-> Idle]
    /\ used' = [used EXCEPT !.crashes = used.crashes + 1]
    /\ UNCHANGED <<tmp, disk, last, overlap>>

Restart ==
    /\ ~up
    /\ Readable(disk)
    /\ up' = TRUE
    /\ mem' = disk.table
    /\ last' = "ok"
    /\ UNCHANGED <<io, tmp, disk, overlap, used>>

-----------------------------------------------------------------------------
Call(t) ==
    \E r \in Runs :
        \/ CreateRun(t, r)
        \/ \E s \in RunState : UpdateStatus(t, r, s)
        \/ \E k \in Kinds : AppendEvent(t, r, k)
        \/ Stop(t, r)

Persist(t) ==
    \/ CloneTable(t)
    \/ OpenTemp(t)
    \/ WriteTemp(t)
    \/ FailTemp(t)
    \/ RenameTemp(t)
    \/ RenameMissing(t)

Reload(t) == ReadForReload(t) \/ InstallReload(t)

Work == \E t \in Tasks : Call(t) \/ Persist(t)

Next ==
    \/ Work
    \/ \E t \in Tasks : Reload(t)
    \/ Crash
    \/ Restart

Spec == Init /\ [][Next]_vars

\* The tokio runtime and its blocking pool run every task they were given.
FairSpec == Spec /\ \A t \in Tasks : WF_vars(Persist(t) \/ InstallReload(t))

\* One process lifetime: no crash, no reload.
LifetimeSpec == Init /\ [][Work]_vars

-----------------------------------------------------------------------------
(* Properties *)

\* As long as no two persists were ever in flight at once, runs.json is
\* missing or parses, whatever crashed or failed in between: the write to a
\* temp file and the rename give a lone writer an atomic update.
LoneWritersLeaveWholeFile == ~overlap => Readable(disk)

Quiet == \A t \in Tasks : io[t].step = "idle"

\* Without overlaps, once every operation has returned and the last persist
\* returned Ok, runs.json holds exactly the table in memory: also the
\* changes of an earlier operation whose own persist failed.
QuietDiskIsMemory ==
    (~overlap /\ up /\ Quiet /\ last = "ok") => disk.table = mem

\* A persist fails only for a reason: a failed write, or another task that
\* renamed the shared temp file first.
ErrNeedsCause == last = "err" => overlap \/ used.faults > 0

\* Whatever overlaps, the file never runs ahead of memory: a run it lists is
\* in memory, with at least as many events.
DiskNeverAhead ==
    (up /\ disk.kind = "whole") =>
        \A r \in Runs : Exists(disk.table, r) =>
            /\ Exists(mem, r)
            /\ Len(disk.table[r].events) <= Len(mem[r].events)

\* Every operation returns.
OperationsReturn ==
    \A t \in Tasks : (io[t].step # "idle") ~> (io[t].step = "idle")

\* The table in memory behaves as MemRunStore: persisting never changes it.
RunTableSpec == INSTANCE RunTable WITH table <- mem
ImplementsRunTable == RunTableSpec!Spec

(* Claims of the source that the code does not keep *)

\* store.rs: "Atomic write: write to temp file then rename to avoid partial
\* writes on crash": a reader after a crash finds a file that parses.
CrashLeavesReadableFile == ~up => Readable(disk)
=============================================================================
