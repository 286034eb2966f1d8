------------------------------ MODULE RunTable ------------------------------
(***************************************************************************)
(* What the RunStore trait promises, as the in-memory MemRunStore does it: *)
(* a table behind one mutex, every operation one atomic step.  Operations  *)
(* on a run that does not exist return NotFound and change nothing, so     *)
(* they are stuttering steps here.                                         *)
(***************************************************************************)
EXTENDS RunRecords

VARIABLE table

Init == table = EmptyTable

CreateRun(r) ==
    /\ ~Exists(table, r)
    /\ table' = WithRun(table, r)

UpdateStatus(r, s) ==
    /\ Exists(table, r)
    /\ table' = WithStatus(table, r, s)

AppendEvent(r, k) ==
    /\ Exists(table, r)
    /\ table' = WithEvent(table, r, k)

Stop(r) ==
    /\ Stoppable(table, r)
    /\ table' = WithStatus(table, r, "Canceled")

Next ==
    \E r \in Runs :
        \/ CreateRun(r)
        \/ \E s \in RunState : UpdateStatus(r, s)
        \/ \E k \in Kinds : AppendEvent(r, k)
        \/ Stop(r)

Spec == Init /\ [][Next]_table
=============================================================================
