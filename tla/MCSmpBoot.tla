------------------------------ MODULE MCSmpBoot ------------------------------
(***************************************************************************)
(* Two CPUs come up: the AP schedules while the BSP still boots.           *)
(***************************************************************************)
EXTENDS SmpBoot, TLC

CONSTANTS idle0, idle1, shell

MCCPU == {0, 1}
MCTask == {idle0, idle1, shell}
MCIdle == (0 :> idle0) @@ (1 :> idle1)
MCBootRing == <<idle1, shell, idle0>>
=============================================================================
