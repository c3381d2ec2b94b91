------------------------------ MODULE FileStore ------------------------------
(***************************************************************************)
(* What the file system promises: a tree of files and directories on which *)
(* each call takes effect at one moment or not at all, whatever happens to *)
(* the machine in between, and reports which of the two it was.            *)
(*                                                                         *)
(* fs maps the path of every file to its contents, a sequence, and the     *)
(* path of every directory to Dir.                                         *)
(***************************************************************************)
EXTENDS Sequences, Functions

CONSTANTS Dir, NoCall

VARIABLES
  fs,      \* the tree
  req,     \* the call in progress, or NoCall
  base,    \* the tree when it was called
  result   \* how the last call ended: "ok" (done), "fail" (not done), "error"
           \* (the disk failed) or "lost" (power failed), in which cases the
           \* caller cannot know which

vars == <<fs, req, base, result>>

Files(f) == {p \in DOMAIN f : f[p] # Dir}

Children(f, p) == {q \in DOMAIN f : Len(q) > Len(p) /\ SubSeq(q, 1, Len(p)) = p}

Put(f, p, x) == [q \in DOMAIN f \cup {p} |-> IF q = p THEN x ELSE f[q]]

Remove(f, p) == Restrict(f, DOMAIN f \ {p})

\* When a call may succeed.
Allowed(f, r) ==
  CASE r.op = "write"  -> r.path \notin DOMAIN f \/ r.path \in Files(f)
    [] r.op = "append" -> r.path \in Files(f)
    [] r.op = "delete" -> r.path \in Files(f)
    [] r.op = "mkdir"  -> r.path \notin DOMAIN f
    [] r.op = "rmdir"  -> r.path \in DOMAIN f \ Files(f) /\ Children(f, r.path) = {}

Effect(f, r) ==
  CASE r.op = "write"  -> Put(f, r.path, r.data)
    [] r.op = "append" -> Put(f, r.path, f[r.path] \o r.data)
    [] r.op = "mkdir"  -> Put(f, r.path, Dir)
    [] r.op \in {"delete", "rmdir"} -> Remove(f, r.path)

Call(r) ==
  /\ req = NoCall
  /\ req' = r
  /\ base' = fs
  /\ UNCHANGED <<fs, result>>

Commit ==
  /\ req # NoCall
  /\ fs = base
  /\ Allowed(base, req)
  /\ fs' = Effect(base, req)
  /\ UNCHANGED <<req, base, result>>

Idle == req' = NoCall /\ base' = <<>>

ReturnOk ==
  /\ req # NoCall
  /\ Allowed(base, req)
  /\ fs = Effect(base, req)
  /\ Idle
  /\ result' = "ok"
  /\ UNCHANGED fs

ReturnFail ==
  /\ req # NoCall
  /\ fs = base
  /\ Idle
  /\ result' = "fail"
  /\ UNCHANGED fs

Interrupted ==
  /\ req # NoCall
  /\ Idle
  /\ result' \in {"error", "lost"}
  /\ UNCHANGED fs

Init == fs = <<>> /\ req = NoCall /\ base = <<>> /\ result = "ok"

Next(Requests) ==
  \/ \E r \in Requests : Call(r)
  \/ Commit
  \/ ReturnOk
  \/ ReturnFail
  \/ Interrupted
=============================================================================
