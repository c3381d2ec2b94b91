------------------------------- MODULE MCNvfs -------------------------------
(***************************************************************************)
(* Small disks and the calls tried on them.                                *)
(***************************************************************************)
EXTENDS Nvfs

CONSTANTS na, nb, d1, d2

Request(o, p, d) == [op |-> o, path |-> p, data |-> d]

\* A file written, extended and deleted beside a directory with one entry.
FileRequests ==
  {Request("write", <<na>>, <<d1>>), Request("append", <<na>>, <<d2>>),
   Request("delete", <<na>>, <<>>),
   Request("mkdir", <<nb>>, <<>>), Request("rmdir", <<nb>>, <<>>),
   Request("write", <<nb, na>>, <<>>), Request("delete", <<nb, na>>, <<>>)}

\* Two files, one of them deleted.
DeleteRequests ==
  {Request("write", <<na>>, <<d1>>), Request("delete", <<na>>, <<>>),
   Request("write", <<nb>>, <<d2>>)}

\* Failed writes after which the disk is still sound.
SafeFailures ==
  {<<"append", "data">>, <<"append", "inode">>, <<"delete", "bitmap">>}
=============================================================================
