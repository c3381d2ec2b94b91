---------------------------- MODULE MCTaskSched ----------------------------
(***************************************************************************)
(* Two CPUs, their idle tasks, the shell and two programs.                 *)
(***************************************************************************)
EXTENDS TaskSched, TLC

CONSTANTS idle0, idle1, shell, u1, u2

MCCPU == {0, 1}
MCTask == {idle0, idle1, shell, u1, u2}
MCUsers == {u1, u2}
MCIdle == (0 :> idle0) @@ (1 :> idle1)

\* The AP's idle task is created first, each later task behind ready_head.
MCBootRing == <<idle1, shell, idle0>>

Symmetry == Permutations(MCUsers)
=============================================================================
