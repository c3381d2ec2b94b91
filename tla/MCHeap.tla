------------------------------- MODULE MCHeap -------------------------------
(***************************************************************************)
(* Heap for TLC: a heap of a few words and three callers.                  *)
(***************************************************************************)
EXTENDS Heap, TLC

CONSTANTS k1, k2, k3

MCShapes == {<<2, 4>>, <<8, 9>>}

MCTag == (k1 :> -1) @@ (k2 :> -2) @@ (k3 :> -1)
=============================================================================
