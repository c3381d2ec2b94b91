------------------------------- MODULE MCNic -------------------------------
(***************************************************************************)
(* A ring of 16 words, three descriptors and frames of one to three words.  *)
(***************************************************************************)
EXTENDS Rtl8139
=============================================================================
