------------------------------ MODULE MCLoader ------------------------------
(***************************************************************************)
(* Five programs in a memory of three or four regions.                     *)
(***************************************************************************)
EXTENDS Loader, TLC

CONSTANTS p1, p2, p3, p4, p5

Programs == {p1, p2, p3, p4, p5}

ProgramSymmetry == Permutations(Programs)
=============================================================================
