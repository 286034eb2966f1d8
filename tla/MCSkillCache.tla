---------------------------- MODULE MCSkillCache ----------------------------
(***************************************************************************)
(* SkillCache with two processes and two sets of directories.  One process *)
(* can be started with either set, the other with the first only: what     *)
(* matters is whether the two agree.                                       *)
(***************************************************************************)
EXTENDS SkillCache

CONSTANTS p1, p2, r1, r2

MCServers == {p1, p2}
MCRoots == {r1, r2}
MCRootsOf == [p \in MCServers |-> IF p = p1 THEN {r1} ELSE {r1, r2}]
=============================================================================
