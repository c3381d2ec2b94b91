----------------------------- MODULE HeapStore -----------------------------
(***************************************************************************)
(* What an allocator promises, without any bookkeeping: every client holds *)
(* at most one region of the arena, regions do not overlap, and the data   *)
(* that a client has in its region stays until the client itself frees it  *)
(* or resizes it, which keeps a prefix.                                    *)
(***************************************************************************)
EXTENDS Sequences

CONSTANTS Client,   \* who calls the allocator
          Arena     \* the addresses it may hand out

VARIABLES region,   \* the addresses a client holds, {} for none
          data      \* the words that a client relies on in its region

storeVars == <<region, data>>

Init == /\ region = [c \in Client |-> {}]
        /\ data = [c \in Client |-> <<>>]

OthersKeep(c) ==
  \A d \in Client \ {c} : region'[d] = region[d] /\ data'[d] = data[d]

(* The new region of c is part of the arena that no other client holds.    *)
Given(c) ==
  /\ region'[c] # {}
  /\ region'[c] \subseteq Arena
  /\ \A d \in Client \ {c} : region'[c] \cap region[d] = {}

Alloc(c) == region[c] = {} /\ Given(c) /\ OthersKeep(c)

(* In place or by moving; the data kept are a prefix.                      *)
Resize(c) ==
  /\ region[c] # {}
  /\ Given(c)
  /\ DOMAIN data'[c] \subseteq DOMAIN data[c]
  /\ \A i \in DOMAIN data'[c] : data'[c][i] = data[c][i]
  /\ OthersKeep(c)

Release(c) == region[c] # {} /\ region'[c] = {} /\ OthersKeep(c)

Next == \E c \in Client : Alloc(c) \/ Resize(c) \/ Release(c)

Spec == Init /\ [][Next]_storeVars
=============================================================================
