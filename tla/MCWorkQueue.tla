---------------------------- MODULE MCWorkQueue ----------------------------
(***************************************************************************)
(* Three CPUs and four jobs: the jobs outnumber the CPUs, so one CPU gets  *)
(* two of them and slots are used again while the command still submits.   *)
(***************************************************************************)
EXTENDS WorkQueue
=============================================================================
