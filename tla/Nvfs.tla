-------------------------------- MODULE Nvfs --------------------------------
(***************************************************************************)
(* The file system driver, kernel/drivers/nvfs.c, as the sequence of       *)
(* sector writes each call makes. A call holds nvfs_lock throughout, so    *)
(* what it will write is settled when it starts; power may fail between    *)
(* any two writes, and a write may fail after the retries of ata_pio.      *)
(*                                                                         *)
(* The disk is the block bitmap, the inode table and the data blocks.      *)
(* Sizes are in blocks and a block of a file holds one value. Names are    *)
(* already in upper case. Times are left out. Paths are absolute.          *)
(***************************************************************************)
EXTENDS Integers, Sequences, FiniteSets, FiniteSetsExt, SequencesExt

CONSTANTS
  NBlocks,        \* data blocks on the disk
  NBits,          \* bits in the bitmap: more than there are blocks
  NInodes,        \* sb_inode_count; the table does not grow (BOUND)
  DirectExtents,  \* NVFS_DIRECT_EXTENTS
  IndirectEnts,   \* NVFS_INDIRECT_ENTS
  DirSlots,       \* entries in a directory block, 16 in the code
  AppendMax,      \* blocks in the buffer of nvfs_append, 8 in the code
  Name,
  Requests,       \* the calls: [op, path, data]
  CrashIn,        \* the calls during which power may fail
  FailIn,         \* <<call, kind of sector>>: the sector writes that may fail
  MaxFaults,      \* BOUND: crashes and failed writes together
  Dir, NoCall, NoBlock

Block == 0..NBlocks - 1

Bit == 0..NBits - 1

Inum == 0..NInodes - 1

Root == 0

ASSUME NvfsAssumption ==
  /\ {NBlocks, NBits, NInodes, DirectExtents, IndirectEnts, DirSlots, AppendMax} \subseteq Nat \ {0}
  /\ NBits >= NBlocks
  /\ NoBlock \notin Bit
  /\ MaxFaults \in Nat
  /\ \A r \in Requests : r.path \in Seq(Name) /\ Len(r.path) \in {1, 2}

VARIABLES
  disk,     \* bitmap: the blocks marked used; inode: the table; data: the blocks
  op,       \* the call in progress, or NoCall
  todo,     \* the sector writes it has still to make
  res,      \* what it will return
  tree,     \* the tree a mount would find: always equal to Tree(disk)
  before,   \* the tree when the call began
  last,     \* what the last call returned
  faults    \* crashes and failed writes so far

vars == <<disk, op, todo, res, tree, before, last, faults>>

-----------------------------------------------------------------------------
(* The contents of the disk *)

\* count: extent_count; blocks: the blocks of the direct extents (a file has
\* one extent, an extent of a directory has one block); ind: the block of
\* extents[NVFS_DIRECT_EXTENTS].
FreeInode == [type |-> "free", size |-> 0, count |-> 0, blocks |-> <<>>, ind |-> NoBlock]

NewInode(type) == [FreeInode EXCEPT !.type = type]

Zero == [kind |-> "zero"]

FileBlock(v) == [kind |-> "file", val |-> v]

NoEntry == [name |-> "", inum |-> 0]

DirBlock(slots) == [kind |-> "dir", slots |-> slots]

IndBlock(blocks) == [kind |-> "ind", blocks |-> blocks]

\* The sixteen entries of a block. Bytes that were not written as entries
\* read as empty ones: inode 0.
Slots(D, b) ==
  IF D.data[b].kind = "dir" THEN D.data[b].slots ELSE [s \in 1..DirSlots |-> NoEntry]

\* inode_read clamps extent_count to NVFS_MAX_EXTENTS.
ClampedCount(n) == IF n > DirectExtents + 1 THEN DirectExtents + 1 ELSE n

InodeRead(D, i) == [D.inode[i] EXCEPT !.count = ClampedCount(@)]

\* The one-block extents in an indirect block. Other bytes count as zeros:
\* extents without blocks.
IndBlocks(D, b) == IF D.data[b].kind = "ind" THEN D.data[b].blocks ELSE <<>>

\* extent_load_all: the blocks of an inode in order.
Blocks(D, r) ==
  IF r.count <= DirectExtents THEN r.blocks
  ELSE LET ind == IndBlocks(D, r.ind)
       IN  r.blocks \o SubSeq(ind, 1, Min({Len(ind), r.count - DirectExtents}))

\* The entries of a directory with their places, in the order of a scan.
Scan(D, d) ==
  LET bs == Blocks(D, InodeRead(D, d))
  IN  [k \in 1..Len(bs) * DirSlots |->
        LET b == bs[(k - 1) \div DirSlots + 1]
            s == ((k - 1) % DirSlots) + 1
        IN  [block |-> b, slot |-> s, entry |-> Slots(D, b)[s]]]

\* The first entry that leads to inode 0 (free) or that has the name n.
FirstFree(scan) == SelectInSeq(scan, LAMBDA e : e.entry.inum = 0)

FirstNamed(scan, n) ==
  SelectInSeq(scan, LAMBDA e : e.entry.inum # 0 /\ e.entry.name = n)

\* dir_find; 0 when there is no such entry.
DirFind(D, d, n) ==
  LET scan == Scan(D, d)
      k    == FirstNamed(scan, n)
  IN  IF D.inode[d].type # "dir" \/ k = 0 THEN 0 ELSE scan[k].entry.inum

DirEmpty(D, d) == \A e \in Range(Scan(D, d)) : e.entry.inum = 0

\* extent_read, block by block.
Contents(D, r) ==
  LET bs == Blocks(D, r)
  IN  [k \in 1..r.size |->
        IF D.data[bs[k]].kind = "file" THEN D.data[bs[k]].val ELSE D.data[bs[k]].kind]

\* resolve_path: the directory the last name of a path is looked up in.
Parent(D, path) == IF Len(path) = 1 THEN Root ELSE DirFind(D, Root, path[1])

Runs_Beyond(used, n) == {b \in 0..NBits : \A j \in 0..n - 1 : b + j \notin used}

\* bitmap_find: the runs of n clear bits. mknvfs.py leaves the bits after the
\* last block clear. Only the first bit of a run is tested against the size of
\* the bitmap; bitmap_test reads the others from the sector behind it, the
\* start of the inode table. There it finds the low bits of the root
\* directory's size, clear because the size is a multiple of 512 (BOUND: a run
\* passes the end by at most nine bits, nvfs_append needs eight blocks).
Runs(used, n) == {b \in Bit : \A j \in 0..n - 1 : b + j \notin used}

FirstRun(used, n) == Min(Runs(used, n))

-----------------------------------------------------------------------------
(* Lists of sector writes *)

\* Each write comes with what the code does if it fails: nothing (the result
\* of bitmap_set is never looked at), or a clean-up that replaces the rest of
\* the call.
SetBit(b, used) == [to |-> "bitmap", at |-> b, val |-> used, seen |-> FALSE, fail |-> <<>>]

WriteBlock(b, c, fail) == [to |-> "data", at |-> b, val |-> c, seen |-> TRUE, fail |-> fail]

InodeWrite(i, r, fail) == [to |-> "inode", at |-> i, val |-> r, seen |-> TRUE, fail |-> fail]

FreeBlocks(r) ==
  LET bs == Blocks(disk, r)
  IN  [k \in DOMAIN bs |-> SetBit(bs[k], FALSE)]
        \o IF r.count > DirectExtents THEN <<SetBit(r.ind, FALSE)>> ELSE <<>>

\* inode_free of an inode whose sector holds r.
InodeFree(i, r) == FreeBlocks(r) \o <<InodeWrite(i, FreeInode, <<>>)>>

Plan(writes, result) == [writes |-> writes, result |-> result]

Fails == Plan(<<>>, "fail")

\* extent_write: the blocks first, each marked as soon as it is written.
ExtentWrites(start, vals, cleanup) ==
  [w \in 1..2 * Len(vals) |->
    LET k == (w + 1) \div 2
        b == start + k - 1
    IN  IF w % 2 = 0 THEN SetBit(b, TRUE)
        ELSE WriteBlock(b, FileBlock(vals[k]),
                        [j \in 1..k - 1 |-> SetBit(start + j - 1, FALSE)] \o cleanup)]

NoRun(used, vals) == vals # <<>> /\ Runs(used, Len(vals)) = {}

Start(used, vals) == IF vals = <<>> THEN 0 ELSE FirstRun(used, Len(vals))

\* The inode as extent_write leaves it in memory.
Extended(r, start, vals) ==
  [r EXCEPT !.size = Len(vals),
            !.count = IF vals = <<>> THEN 0 ELSE 1,
            !.blocks = [k \in DOMAIN vals |-> start + k - 1],
            !.ind = NoBlock]

Used(used, start, vals) == used \cup {start + k - 1 : k \in DOMAIN vals}

-----------------------------------------------------------------------------
(* Directories *)

\* dir_add when the directory has a free entry. The inode is written back as
\* inode_read returned it.
AddInPlace(d, e, n, i, cleanup) ==
  Plan(<<WriteBlock(e.block,
           DirBlock([Slots(disk, e.block) EXCEPT ![e.slot] = [name |-> n, inum |-> i]]), cleanup),
         InodeWrite(d, InodeRead(disk, d), cleanup)>>, "ok")

FirstSlot(n, i) == DirBlock([s \in 1..DirSlots |-> IF s = 1 THEN [name |-> n, inum |-> i] ELSE NoEntry])

NewIndirect_NotMarked(ind, b, undo) ==
  <<WriteBlock(ind, Zero, undo), WriteBlock(ind, IndBlock(<<b>>), undo)>>

\* indirect_alloc and the first indirect_write_extents.
NewIndirect(ind, b, undo) ==
  <<WriteBlock(ind, Zero, undo), SetBit(ind, TRUE),
    WriteBlock(ind, IndBlock(<<b>>), <<SetBit(ind, FALSE)>> \o undo)>>

\* dir_add with a new block, and dir_add_extent.
AddBlock(used, d, n, i, cleanup) ==
  LET r    == InodeRead(disk, d)
      b    == FirstRun(used, 1)
      new  == <<SetBit(b, TRUE), WriteBlock(b, FirstSlot(n, i), cleanup)>>
      undo == <<SetBit(b, FALSE)>> \o cleanup
      grow == [r EXCEPT !.size = @ + 1, !.count = @ + 1]
  IN  IF Runs(used, 1) = {} THEN Plan(cleanup, "fail")
      ELSE IF r.count < DirectExtents
      THEN Plan(new \o <<InodeWrite(d, [grow EXCEPT !.blocks = Append(@, b)], cleanup)>>, "ok")
      ELSE IF r.count = DirectExtents
      THEN LET ind == FirstRun(used \cup {b}, 1)
           IN  IF Runs(used \cup {b}, 1) = {} THEN Plan(new \o undo, "fail")
               ELSE Plan(new \o NewIndirect(ind, b, undo)
                             \o <<InodeWrite(d, [grow EXCEPT !.ind = ind], cleanup)>>, "ok")
      ELSE LET k    == r.count - DirectExtents
               old  == SubSeq(IndBlocks(disk, r.ind), 1, k)
           IN  IF k >= IndirectEnts THEN Plan(new \o undo, "fail")
               ELSE Plan(new \o <<WriteBlock(r.ind, IndBlock(Append(old, b)), undo),
                                  InodeWrite(d, grow, cleanup)>>, "ok")

DirAdd_NoDuplicateCheck(used, d, n, i, cleanup) ==
  LET scan == Scan(disk, d)
      k    == FirstFree(scan)
  IN  IF disk.inode[d].type # "dir" THEN Plan(cleanup, "fail")
      ELSE IF k # 0 THEN AddInPlace(d, scan[k], n, i, cleanup)
      ELSE AddBlock(used, d, n, i, cleanup)

DirAdd(used, d, n, i, cleanup) ==
  LET scan == Scan(disk, d)
      k    == FirstFree(scan)
  IN  IF disk.inode[d].type # "dir" \/ DirFind(disk, d, n) # 0 THEN Plan(cleanup, "fail")
      ELSE IF k # 0 THEN AddInPlace(d, scan[k], n, i, cleanup)
      ELSE AddBlock(used, d, n, i, cleanup)

DirRemove(d, n) ==
  LET scan == Scan(disk, d)
      e    == scan[FirstNamed(scan, n)]
  IN  <<WriteBlock(e.block, DirBlock([Slots(disk, e.block) EXCEPT ![e.slot] = NoEntry]), <<>>),
        InodeWrite(d, InodeRead(disk, d), <<>>)>>

-----------------------------------------------------------------------------
(* The calls. d is the directory, n the last name of the path. *)

Rewrite_FreesFirst(i, vals) ==
  LET r     == InodeRead(disk, i)
      start == Start(disk.bitmap, vals)
  IN  IF NoRun(disk.bitmap, vals) THEN Fails
      ELSE Plan(ExtentWrites(start, vals, <<>>) \o FreeBlocks(r)
                  \o <<InodeWrite(i, Extended(r, start, vals), <<>>)>>, "ok")

\* Shadow paging, shared by nvfs_write and nvfs_append: new blocks, then the
\* inode, then the old blocks are freed.
Rewrite(i, vals) ==
  LET r     == InodeRead(disk, i)
      start == Start(disk.bitmap, vals)
  IN  IF NoRun(disk.bitmap, vals) THEN Fails
      ELSE Plan(ExtentWrites(start, vals, <<>>)
                  \o <<InodeWrite(i, Extended(r, start, vals), <<>>)>>
                  \o FreeBlocks(r), "ok")

\* inode_alloc: the first free inode after the root's.
FreeInums == {i \in Inum \ {Root} : disk.inode[i].type = "free"}

Create(d, n, vals) ==
  LET i     == Min(FreeInums)
      start == Start(disk.bitmap, vals)
      full  == Extended(NewInode("file"), start, vals)
      undo  == <<InodeWrite(i, FreeInode, <<>>)>>
      frees == [k \in DOMAIN vals |-> SetBit(start + k - 1, FALSE)]
      add   == DirAdd(Used(disk.bitmap, start, vals), d, n, i, frees \o undo)
      alloc == <<InodeWrite(i, NewInode("file"), <<>>)>>
  IN  IF NoRun(disk.bitmap, vals) THEN Plan(alloc \o undo, "fail")
      ELSE Plan(alloc \o ExtentWrites(start, vals, undo)
                  \o <<InodeWrite(i, full, frees \o undo)>> \o add.writes, add.result)

NvfsWrite(d, n, vals) ==
  LET i == DirFind(disk, d, n)
  IN  IF i # 0 THEN Rewrite(i, vals) ELSE Create(d, n, vals)

NvfsAppend(d, n, vals) ==
  LET i   == DirFind(disk, d, n)
      r   == InodeRead(disk, i)
      old == IF r.size > AppendMax THEN AppendMax ELSE r.size
      add == IF Len(vals) > AppendMax - old THEN AppendMax - old ELSE Len(vals)
  IN  IF i = 0 \/ r.type # "file" THEN Fails
      ELSE Rewrite(i, SubSeq(Contents(disk, r), 1, old) \o SubSeq(vals, 1, add))

\* nvfs_delete and nvfs_rmdir: the inode goes before the entry.
Unlink(d, n, i) == Plan(InodeFree(i, InodeRead(disk, i)) \o DirRemove(d, n), "ok")

NvfsDelete(d, n) ==
  LET i == DirFind(disk, d, n)
  IN  IF i = 0 \/ disk.inode[i].type # "file" THEN Fails ELSE Unlink(d, n, i)

NvfsRmdir(d, n) ==
  LET i == DirFind(disk, d, n)
  IN  IF i = 0 \/ disk.inode[i].type # "dir" \/ ~DirEmpty(disk, i) THEN Fails ELSE Unlink(d, n, i)

\* The inode is written twice: by inode_alloc and by nvfs_mkdir.
NvfsMkdir(d, n) ==
  LET i    == Min(FreeInums)
      undo == <<InodeWrite(i, FreeInode, <<>>)>>
      add  == DirAdd(disk.bitmap, d, n, i, undo)
  IN  Plan(<<InodeWrite(i, NewInode("dir"), <<>>), InodeWrite(i, NewInode("dir"), undo)>>
             \o add.writes, add.result)

\* A block that is not on the disk cannot be written.
OnDisk(plan) ==
  LET k == SelectInSeq(plan.writes, LAMBDA w : w.to = "data" /\ w.at \notin Block)
  IN  IF k = 0 THEN plan
      ELSE Plan(SubSeq(plan.writes, 1, k - 1) \o plan.writes[k].fail, "fail")

\* resolve_path fails unless the parent is a directory.
PlanOf(r) ==
  LET d == Parent(disk, r.path)
      n == r.path[Len(r.path)]
  IN  IF (Len(r.path) = 2 /\ d = 0) \/ disk.inode[d].type # "dir" THEN Fails
      ELSE OnDisk(CASE r.op = "write"  -> NvfsWrite(d, n, r.data)
                    [] r.op = "append" -> NvfsAppend(d, n, r.data)
                    [] r.op = "delete" -> NvfsDelete(d, n)
                    [] r.op = "mkdir"  -> NvfsMkdir(d, n)
                    [] r.op = "rmdir"  -> NvfsRmdir(d, n))

-----------------------------------------------------------------------------
(* The tree a mount would find *)

\* An entry whose inode is free leads nowhere: every call rejects it.
Shown(D, d) ==
  {n \in Name : LET i == DirFind(D, d, n) IN i # 0 /\ D.inode[i].type # "free"}

NodeOf(D, i) == IF D.inode[i].type = "dir" THEN Dir ELSE Contents(D, InodeRead(D, i))

Paths(D) ==
  LET top  == Shown(D, Root)
      dirs == {m \in top : D.inode[DirFind(D, Root, m)].type = "dir"}
  IN  {<<n>> : n \in top} \cup UNION {{<<m, n>> : n \in Shown(D, DirFind(D, Root, m))} : m \in dirs}

InodeOf(D, p) == DirFind(D, Parent(D, p), p[Len(p)])

Tree(D) == [p \in Paths(D) |-> NodeOf(D, InodeOf(D, p))]

-----------------------------------------------------------------------------
(* Steps *)

\* A call takes nvfs_lock and reads what it needs. BOUND: no call finds the
\* inode table full.
Call(r) ==
  /\ op = NoCall
  /\ r.op \in {"write", "mkdir"} => FreeInums # {}
  /\ op' = r
  /\ before' = tree
  /\ todo' = PlanOf(r).writes
  /\ res' = PlanOf(r).result
  /\ UNCHANGED <<disk, tree, last, faults>>

Written(D, w) ==
  IF w.to # "bitmap" THEN [D EXCEPT ![w.to][w.at] = w.val]
  ELSE [D EXCEPT !.bitmap = IF w.val THEN @ \cup {w.at} ELSE @ \ {w.at}]

Apply(w) ==
  LET new == Written(disk, w)
  IN  /\ disk' = new
      /\ tree' = IF w.to = "bitmap" THEN tree ELSE Tree(new)

WriteSector ==
  /\ todo # <<>>
  /\ Apply(Head(todo))
  /\ todo' = Tail(todo)
  /\ UNCHANGED <<op, res, before, last, faults>>

\* write_sector returns -1. The sector may have been written all the same:
\* ata_pio also gives up when the drive does not report in time.
WriteFails ==
  /\ todo # <<>>
  /\ <<op.op, Head(todo).to>> \in FailIn
  /\ faults < MaxFaults
  /\ faults' = faults + 1
  /\ Apply(Head(todo)) \/ UNCHANGED <<disk, tree>>
  /\ IF Head(todo).seen
     THEN todo' = Head(todo).fail /\ res' = "error"
     ELSE todo' = Tail(todo) /\ UNCHANGED res
  /\ UNCHANGED <<op, before, last>>

Done(result) ==
  /\ op' = NoCall
  /\ todo' = <<>>
  /\ res' = "ok"
  /\ before' = <<>>
  /\ last' = result
  /\ UNCHANGED <<disk, tree>>

Return == op # NoCall /\ todo = <<>> /\ Done(res) /\ UNCHANGED faults

\* Power fails; the next boot mounts the disk as it is.
Crash ==
  /\ op # NoCall
  /\ op.op \in CrashIn
  /\ faults < MaxFaults
  /\ faults' = faults + 1
  /\ Done("lost")

\* An empty disk as mknvfs.py makes it.
Init ==
  /\ disk = [bitmap |-> {},
             inode |-> [i \in Inum |-> IF i = Root THEN NewInode("dir") ELSE FreeInode],
             data |-> [b \in Block |-> Zero]]
  /\ op = NoCall
  /\ todo = <<>>
  /\ res = "ok"
  /\ tree = <<>>
  /\ before = <<>>
  /\ last = "ok"
  /\ faults = 0

Next ==
  \/ \E r \in Requests : Call(r)
  \/ WriteSector
  \/ WriteFails
  \/ Return
  \/ Crash

Spec == Init /\ [][Next]_vars

-----------------------------------------------------------------------------
(* Properties *)

\* Inodes, blocks and the bitmap keep their shape through every write list. No
\* call marks a bit past the bitmap, which would change the inode table behind
\* it, although bitmap_find returns runs that end there (nvfs.c:68-91): the
\* blocks of such a run are off the disk, and the first of them that cannot be
\* written ends the call before its bit is set.
TypeOK ==
  /\ disk.bitmap \subseteq Bit
  /\ \A i \in Inum :
       /\ disk.inode[i].type \in {"free", "file", "dir"}
       /\ disk.inode[i].type # "file" =>
            Len(disk.inode[i].blocks) = Min({disk.inode[i].count, DirectExtents})
       /\ disk.inode[i].ind \in Bit \cup {NoBlock}
       /\ disk.inode[i].count > DirectExtents => disk.inode[i].ind # NoBlock
  /\ \A b \in Block : disk.data[b].kind \in {"zero", "file", "dir", "ind"}
  /\ last \in {"ok", "fail", "error", "lost"}

\* The blocks an inode in use holds, its indirect block included.
Holds(i) ==
  LET r == InodeRead(disk, i)
  IN  Range(Blocks(disk, r)) \cup IF r.count > DirectExtents THEN {r.ind} ELSE {}

\* The inodes a path leads to. A crash can leave others in use, which no
\* call reaches any more.
Reached == {Root} \cup {InodeOf(disk, p) : p \in Paths(disk)}

\* Between calls, and between any two writes of a call that power may
\* interrupt, the blocks of the files and directories in the tree are marked
\* in the bitmap and belong to one of them each (nvfs.c:876-909, 349-385,
\* 300-322).
NoBlockShared ==
  (IF op = NoCall THEN TRUE ELSE op.op \in CrashIn) =>
    LET reached == Reached
    IN  \A i \in reached :
          /\ Holds(i) \subseteq disk.bitmap
          /\ \A j \in reached \ {i} : Holds(i) \cap Holds(j) = {}

\* Between calls every entry of a directory in the tree leads to an inode in
\* use, no two entries to the same one, and no two entries of a directory
\* have the same name (nvfs.c:482-583).
EntriesSound ==
  op = NoCall =>
    LET dirs == {i \in Reached : disk.inode[i].type = "dir"}
        used == UNION {{[dir |-> d, at |-> e] : e \in {e \in Range(Scan(disk, d)) : e.entry.inum # 0}}
                         : d \in dirs}
    IN  \A p \in used :
          /\ disk.inode[p.at.entry.inum].type # "free"
          /\ \A q \in used \ {p} :
               /\ p.at.entry.inum # q.at.entry.inum
               /\ p.dir = q.dir => p.at.entry.name # q.at.entry.name

FS == INSTANCE FileStore WITH fs <- tree, req <- op, base <- before, result <- last

\* Each call takes effect on the tree in one sector write, which is its whole
\* effect, and returns success exactly when it did; a crash leaves the tree
\* as it was before or after: "Power loss at any point leaves old data
\* intact" (CODEBASE_INDEX.md:540).
AtomicCalls == FS!Init /\ [][FS!Next(Requests)]_(FS!vars)
=============================================================================
