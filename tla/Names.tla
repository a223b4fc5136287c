------------------------------- MODULE Names --------------------------------
(***************************************************************************)
(* Directories and path names: fs/namei.c, with the system calls that open,*)
(* write and close a file.  Several tasks are in these calls at once, each *)
(* leaving the processor where it may sleep; Inodes has the procedures     *)
(* they use for the inode table and the bitmaps.                           *)
(*                                                                         *)
(* The tasks are the super-user's, whom permission() only keeps out of     *)
(* deleted files, and stand in the root directory.  A directory's data are *)
(* entries; of a file's only the blocks are kept.                          *)
(***************************************************************************)
EXTENDS Inodes, FiniteSetsExt, Functions

CONSTANTS
  Paths,      \* what the tasks name, non-empty sequences of names
  PerBlock,   \* DIR_ENTRIES_PER_BLOCK
  Disks,      \* initial contents: directories, links and files
  MaxCalls    \* bound on system calls

ASSUME PathsAssumption ==
  /\ PerBlock \in Nat /\ PerBlock >= 2 /\ MaxCalls \in Nat
  /\ \A p \in Paths : Len(p) > 0

(* A disk has its root, and what is open on it is another inode in use.    *)
ASSUME DisksAssumption ==
  \A d \in Disks :
    /\ d.inodes[Root].nlinks > 0
    /\ d.open # None =>
         /\ d.open \in Ino \ {Root}
         /\ d.inodes[d.open].nlinks > 0

VARIABLES
  blocks,    \* the entries in each block
  file,      \* the inode of the file each task has open, or None
  calls      \* bound

(* What none of the calls changes but through Inodes. *)
device == <<disk, leaked, syncing, panic>>

vars == <<device, table, imap, zmap, at, raced, blocks, file, calls>>

(* A free entry keeps its name, which nobody looks at. *)
Free == [name |-> "", nr |-> 0]
Entry(name, nr) == [name |-> name, nr |-> nr]
NoEntries == [j \in 1..PerBlock |-> Free]

(* The entries a directory has in its k-th block, n being its size.        *)
Positions(k, n) == {j \in 1..PerBlock : (k - 1) * PerBlock + j <= n}

EntriesOf(i) ==
  {<<b, j>> : b \in {i.zones[k] : k \in DOMAIN i.zones}, j \in 1..PerBlock}

Used(i) == {e \in EntriesOf(i) : blocks[e[1]][e[2]].nr # 0}

(* permission() *)
Permitted(i) == i.nlinks > 0

RootSlot == CHOOSE s \in Slot : table[s].nr = Root

(* Another user.  Mutant: who finds the inode in use does not count.       *)
CountedOnce(tbl, s, d) == [tbl EXCEPT ![s].count = IF @ = 0 THEN d ELSE @]

WithCount(tbl, s, d) == [tbl EXCEPT ![s].count = @ + d]

-----------------------------------------------------------------------------
(* Looking up.  get_dir() has reached the directory s: it is entered, and  *)
(* its first block is read, with the size it has before that.              *)

DirBlock(i, k) == IF k <= Len(i.zones) THEN i.zones[k] ELSE None

Enter(r, s, i) ==
  IF i.kind = "dir" /\ Permitted(i)
  THEN [r EXCEPT !.pc = "find", !.dir = s, !.ino = None, !.k = 1,
                 !.b = DirBlock(i, 1), !.n = i.size]
  ELSE Release(r, IF r.op = "link_to" THEN <<s, r.old>> ELSE <<s>>, "user")

Start(t, op, path, to) ==
  /\ at[t].pc = "user" /\ calls < MaxCalls
  /\ calls' = calls + 1
  /\ table' = WithCount(table, RootSlot, 1)
  /\ Go(t, Enter([Idle EXCEPT !.op = op, !.path = path, !.to = to],
                 RootSlot, table[RootSlot]))
  /\ UNCHANGED <<device, imap, zmap, raced, blocks, file>>

Final(r) == Len(r.path) = 1

Hits(r) ==
  IF r.b = None THEN {}
  ELSE {j \in Positions(r.k, r.n) : /\ blocks[r.b][j].name = Head(r.path)
                                    /\ blocks[r.b][j].nr # 0}

(* The calls that need the name to be there, and that need it not to be.   *)
Naming == {"stat", "open", "trunc", "creat", "link"}
Removing == {"unlink", "rmdir"}
Making == {"excl", "mknod", "mkdir", "link_to"}

(* find_entry() has found it. *)
FindHit(t) ==
  LET r == at[t]
      j == Lowest(Hits(r))
      nr == blocks[r.b][j].nr
  IN /\ r.pc = "find" /\ Hits(r) # {}
     /\ Go(t, IF Final(r) /\ r.op \in Making
              THEN Release(r, IF r.op = "link_to" THEN <<r.dir, r.old>>
                                                  ELSE <<r.dir>>, "user")
              ELSE IF Final(r) /\ r.op \in Removing
              THEN [r EXCEPT !.pc = "iget", !.nr = nr, !.e = <<r.b, j>>]
              ELSE [Release(r, <<r.dir>>, "iget") EXCEPT !.nr = nr])
     /\ UNCHANGED <<device, table, imap, zmap, raced, blocks, file, calls>>

More(r, i) == r.k * PerBlock < r.n /\ r.k < Len(i.zones)

FindNext(t) ==
  LET r == at[t]
  IN /\ r.pc = "find" /\ Hits(r) = {} /\ More(r, table[r.dir])
     /\ Go(t, [r EXCEPT !.k = @ + 1, !.b = table[r.dir].zones[r.k + 1]])
     /\ UNCHANGED <<device, table, imap, zmap, raced, blocks, file, calls>>

Missing(r) ==
  r.pc = "find" /\ Hits(r) = {} /\ ~More(r, table[r.dir])

FindMiss(t) ==
  LET r == at[t]
  IN /\ Missing(r)
     /\ \/ ~Final(r) \/ r.op \notin Making \cup {"creat"}
        \/ r.op \in {"creat", "excl"} /\ ~Permitted(table[r.dir])
     /\ Go(t, Release(r, IF r.op = "link_to" THEN <<r.dir, r.old>>
                                             ELSE <<r.dir>>, "user"))
     /\ UNCHANGED <<device, table, imap, zmap, raced, blocks, file, calls>>

-----------------------------------------------------------------------------
(* Making an entry *)

(* add_entry() reads the first block of the directory. *)
Adding(r, i) == [r EXCEPT !.pc = "add", !.k = 1, !.b = DirBlock(i, 1)]

KindMade(op) ==
  CASE op = "mknod" -> "dev"
    [] op = "mkdir" -> "none"
    [] OTHER -> "reg"

(* new_inode() *)
Made(op, nr) ==
  [Empty EXCEPT !.nr = nr, !.count = 1, !.nlinks = 1, !.dirt = TRUE,
                !.kind = KindMade(op), !.size = IF op = "mkdir" THEN 2 ELSE 0]

(* The directory is let go of, and then the inode in s given up: see Undo. *)
Undoing(r, s) == [Release(r, <<r.dir>>, "undo") EXCEPT !.ino = s]

(* open_namei(), sys_mknod() and sys_mkdir() with a name that is not there.*)
(* A directory gets a block at once.                                       *)
MakeInode(t) ==
  LET r == at[t]
      nr == Lowest(FreeBits(NrInodes, imap))
  IN /\ Missing(r) /\ Final(r)
     /\ r.op \in (Making \cup {"creat"}) \ {"link_to"}
     /\ r.op \in {"creat", "excl"} => Permitted(table[r.dir])
     /\ \/ /\ FreeBits(NrInodes, imap) = {}
           /\ Go(t, Release(r, <<r.dir>>, "user"))
           /\ UNCHANGED <<table, imap, zmap>>
        \/ /\ FreeBits(NrInodes, imap) # {}
           /\ imap' = imap \cup {nr}
           /\ \E s \in IdleSlots :
                LET new == [r EXCEPT !.ino = s]
                IN \/ /\ r.op # "mkdir"
                      /\ Change(s, Made(r.op, nr))
                      /\ Go(t, Adding(new, table[r.dir]))
                      /\ UNCHANGED zmap
                   \/ /\ r.op = "mkdir" /\ FreeBits(NrBlocks, zmap) = {}
                      /\ Change(s, Made(r.op, nr))
                      /\ Go(t, Undoing(r, s))
                      /\ UNCHANGED zmap
                   \/ /\ r.op = "mkdir" /\ FreeBits(NrBlocks, zmap) # {}
                      /\ Change(s, Made(r.op, nr))
                      /\ zmap' = zmap \cup {Lowest(FreeBits(NrBlocks, zmap))}
                      /\ Go(t, [new EXCEPT !.pc = "dots",
                                  !.b = Lowest(FreeBits(NrBlocks, zmap))])
     /\ UNCHANGED <<device, raced, blocks, file, calls>>

(* sys_mkdir() has its block and writes "." and ".." into it. *)
Dots(t) ==
  LET r == at[t]
  IN /\ r.pc = "dots" /\ NewBlock(t)
     /\ blocks' = [blocks EXCEPT ![r.b] =
                     [NoEntries EXCEPT ![1] = Entry(".", table[r.ino].nr),
                                       ![2] = Entry("..", table[r.dir].nr)]]
     /\ Change(r.ino, [table[r.ino] EXCEPT !.zones = <<r.b>>, !.kind = "dir",
                                           !.nlinks = 2, !.dirt = TRUE])
     /\ Go(t, Adding(r, table[r.dir]))
     /\ UNCHANGED <<device, imap, zmap, raced, file, calls>>

(* sys_link() with a name that is not there. *)
LinkMiss(t) ==
  LET r == at[t]
  IN /\ Missing(r) /\ Final(r) /\ r.op = "link_to"
     /\ Go(t, Adding(r, table[r.dir]))
     /\ UNCHANGED <<device, table, imap, zmap, raced, blocks, file, calls>>

(* The entry add_entry() takes: the first that is free or past the end.    *)
Spots(r) ==
  {j \in 1..PerBlock : \/ j \notin Positions(r.k, table[r.dir].size)
                       \/ blocks[r.b][j].nr = 0}

(* History: the name has been added since find_entry() did not find it. *)
Twice(r) ==
  \E e \in Used(table[r.dir]) : blocks[e[1]][e[2]].name = Head(r.path)

AddEntry(t) ==
  LET r == at[t]
      j == Lowest(Spots(r))
      which == IF r.op = "link_to" THEN r.old ELSE r.ino
      size == (r.k - 1) * PerBlock + j
      d == table[r.dir]
  IN /\ r.pc = "add" /\ Spots(r) # {}
     /\ blocks' = [blocks EXCEPT ![r.b][j] =
                     Entry(Head(r.path), table[which].nr)]
     /\ raced' = raced \cup (IF Twice(r) THEN {"name"} ELSE {})
     /\ Change(r.dir,
               [d EXCEPT !.size = IF size > @ THEN size ELSE @,
                         !.dirt = @ \/ size > d.size \/ r.op = "mkdir",
                         !.nlinks = IF r.op = "mkdir" THEN @ + 1 ELSE @])
     /\ \/ /\ r.op \in {"creat", "excl"}
           /\ file' = [file EXCEPT ![t] = r.ino]
           /\ Go(t, Release(r, <<r.dir>>, "user"))
        \/ /\ r.op \in {"mknod", "mkdir"}
           /\ Go(t, ReleaseHolding(r, <<r.dir, r.ino>>, r.b))
           /\ UNCHANGED file
        \/ /\ r.op = "link_to"
           /\ Go(t, Release(r, <<r.dir>>, "linked"))
           /\ UNCHANGED file
     /\ UNCHANGED <<device, imap, zmap, calls>>

(* The block is full: create_block() finds the next,                       *)
AddNext(t) ==
  LET r == at[t]
  IN /\ r.pc = "add" /\ Spots(r) = {} /\ r.k < Len(table[r.dir].zones)
     /\ Go(t, [r EXCEPT !.k = @ + 1, !.b = table[r.dir].zones[r.k + 1]])
     /\ UNCHANGED <<device, table, imap, zmap, raced, blocks, file, calls>>

NoNext(r) == r.pc = "add" /\ Spots(r) = {} /\ r.k >= Len(table[r.dir].zones)

(* or has new_block() set a bit, which then sleeps for a buffer,           *)
AddGrows(t) ==
  LET r == at[t]
      b == Lowest(FreeBits(NrBlocks, zmap))
  IN /\ NoNext(r) /\ FreeBits(NrBlocks, zmap) # {}
     /\ zmap' = zmap \cup {b}
     /\ Go(t, [r EXCEPT !.pc = "grow", !.b = b])
     /\ UNCHANGED <<device, table, imap, raced, blocks, file, calls>>

(* and clears the block and makes it the next of the directory, whether or *)
(* not another has become that;                                            *)
NextZone(zones, k, b) ==
  IF k < Len(zones) THEN [zones EXCEPT ![k + 1] = b] ELSE Append(zones, b)

Grow(t) ==
  LET r == at[t]
      d == table[r.dir]
  IN /\ r.pc = "grow" /\ NewBlock(t)
     /\ blocks' = [blocks EXCEPT ![r.b] = NoEntries]
     /\ Change(r.dir, [d EXCEPT !.zones = NextZone(@, r.k, r.b), !.dirt = TRUE])
     /\ raced' = raced \cup (IF r.k < Len(d.zones) THEN {"zone"} ELSE {})
     /\ Go(t, [r EXCEPT !.pc = "add", !.k = @ + 1])
     /\ UNCHANGED <<device, imap, zmap, file, calls>>

(* or the device is full: what was made is undone.  sys_mkdir() frees the  *)
(* block of the directory and leaves it in i_zone[0].                      *)
AddFails(t) ==
  LET r == at[t]
  IN /\ NoNext(r) /\ FreeBits(NrBlocks, zmap) = {}
     /\ \/ /\ r.op = "link_to"
           /\ Go(t, Release(r, <<r.dir, r.old>>, "user"))
           /\ UNCHANGED table
        \/ /\ r.op \in {"creat", "excl"}
           /\ Change(r.ino, [table[r.ino] EXCEPT !.nlinks = 0])
           /\ Go(t, Release(r, <<r.ino, r.dir>>, "user"))
        \/ /\ r.op \in {"mknod", "mkdir"}
           /\ Go(t, Undoing(r, r.ino))
           /\ UNCHANGED table
     /\ UNCHANGED <<device, imap, zmap, raced, blocks, file, calls>>

Undo(t) ==
  LET r == at[t]
      i == table[r.ino]
  IN /\ r.pc = "undo"
     /\ IF i.zones = <<>> THEN UNCHANGED <<zmap, leaked, raced>>
        ELSE /\ zmap' = Freed(t, i.zones[1])
             /\ Leaks(t, i.zones[1])
             /\ raced' = raced \cup {"undone"}
     /\ Change(r.ino, [i EXCEPT !.nlinks = 0])
     /\ Go(t, Release(r, <<r.ino>>, "user"))
     /\ UNCHANGED <<disk, imap, syncing, panic, blocks, file, calls>>

(* sys_link() counts the new name when it has let go of the directory. *)
Linked(t) ==
  LET r == at[t]
      i == table[r.old]
  IN /\ r.pc = "linked"
     /\ Change(r.old, [i EXCEPT !.nlinks = @ + 1, !.dirt = TRUE])
     /\ Go(t, [Release(r, <<r.old>>, "user") EXCEPT !.old = None])
     /\ UNCHANGED <<device, imap, zmap, raced, blocks, file, calls>>

-----------------------------------------------------------------------------
(* iget(), and what each call does when it has the inode.  Arrived(t, s,   *)
(* tbl) is a step that ends with the inode in the slot s of tbl.           *)

(* History: the inode may have been freed since its number was read, or be *)
(* being freed.                                                            *)
Freeing(nr) ==
  \E t \in Task : at[t].pc = "trunc" /\ table[Head(at[t].puts)].nr = nr

Gone(t) ==
  IF at[t].nr \in imap /\ ~Freeing(at[t].nr) THEN {} ELSE {"number"}

(* get_dir(): one name further. *)
WalkOn(t, s, tbl) ==
  /\ ~Final(at[t])
  /\ table' = tbl
  /\ Go(t, Enter([at[t] EXCEPT !.path = Tail(@)], s, tbl[s]))
  /\ raced' = raced \cup Gone(t)
  /\ UNCHANGED <<blocks, file>>

(* namei() changes the access time. *)
GotName(t, s, tbl) ==
  /\ at[t].op = "stat" \/ (at[t].op = "link" /\ tbl[s].kind = "dir")
  /\ table' = [tbl EXCEPT ![s].dirt = TRUE]
  /\ Go(t, Release(at[t], <<s>>, "user"))
  /\ raced' = raced \cup Gone(t)
  /\ UNCHANGED <<blocks, file>>

(* sys_link() goes on with the second path. *)
GotOld(t, s, tbl) ==
  LET started == [at[t] EXCEPT !.op = "link_to", !.path = at[t].to, !.old = s]
      changed == WithCount([tbl EXCEPT ![s].dirt = TRUE], RootSlot, 1)
  IN /\ at[t].op = "link" /\ tbl[s].kind # "dir"
     /\ table' = changed
     /\ Go(t, Enter(started, RootSlot, changed[RootSlot]))
     /\ raced' = raced \cup Gone(t)
     /\ UNCHANGED <<blocks, file>>

(* open_namei() with a name that is there. *)
GotFile(t, s, tbl) ==
  LET i == tbl[s]
      allowed == Permitted(i) /\ (i.kind = "dir" => at[t].op = "open")
  IN /\ at[t].op \in {"open", "trunc", "creat"}
     /\ table' = tbl
     /\ \/ ~allowed /\ Go(t, Release(at[t], <<s>>, "user")) /\ UNCHANGED file
        \/ /\ allowed /\ at[t].op = "trunc"
           /\ Go(t, [at[t] EXCEPT !.pc = "otrunc", !.ino = s])
           /\ UNCHANGED file
        \/ /\ allowed /\ at[t].op # "trunc"
           /\ file' = [file EXCEPT ![t] = s]
           /\ Go(t, Idle)
     /\ raced' = raced \cup Gone(t)
     /\ UNCHANGED blocks

(* sys_unlink(): the entry is cleared and the inode has one link less,     *)
(* though either may have become something else while iget() slept.        *)
Cleared(e) == [blocks EXCEPT ![e[1]][e[2]] = Free]

Stale(e, i) == blocks[e[1]][e[2]].nr # i.nr

GotUnlinked(t, s, tbl) ==
  LET r == at[t]
      i == tbl[s]
  IN /\ r.op = "unlink"
     /\ \/ /\ i.kind = "dir"
           /\ table' = tbl
           /\ Go(t, ReleaseHolding(r, <<s, r.dir>>, r.e[1]))
           /\ raced' = raced \cup Gone(t)
           /\ UNCHANGED blocks
        \/ /\ i.kind # "dir"
           /\ blocks' = Cleared(r.e)
           /\ Go(t, Release(r, <<s, r.dir>>, "user"))
           /\ table' = [tbl EXCEPT ![s].nlinks = IF @ = 0 THEN 0 ELSE @ - 1,
                                   ![s].dirt = TRUE]
           /\ raced' = raced \cup Gone(t)
                             \cup (IF Stale(r.e, i) THEN {"entry"} ELSE {})
                             \cup (IF i.nlinks = 0 THEN {"links"} ELSE {})
     /\ UNCHANGED file

(* sys_rmdir() goes on with empty_dir(). *)
GotDir(t, s, tbl) ==
  LET r == at[t]
      i == tbl[s]
  IN /\ r.op = "rmdir"
     /\ table' = tbl
     /\ Go(t, IF i.count > 1 THEN ReleaseHolding(r, <<r.dir, s>>, r.e[1])
              ELSE IF i.kind # "dir" \/ i.zones = <<>>
              THEN ReleaseHolding(r, <<s, r.dir>>, r.e[1])
              ELSE [r EXCEPT !.pc = "empty", !.ino = s, !.k = 1,
                             !.b = i.zones[1], !.n = i.size])
     /\ raced' = raced \cup Gone(t)
     /\ UNCHANGED <<blocks, file>>

Arrived(t, s, tbl) ==
  \/ WalkOn(t, s, tbl)
  \/ /\ Final(at[t])
     /\ \/ GotName(t, s, tbl)
        \/ GotOld(t, s, tbl)
        \/ GotFile(t, s, tbl)
        \/ GotUnlinked(t, s, tbl)
        \/ GotDir(t, s, tbl)

(* An empty slot is taken first, and given back if the inode is there.  An *)
(* inode that is locked is waited for.                                     *)
Iget(t) ==
  /\ at[t].pc = "iget"
  /\ \E spare \in IdleSlots :
       LET tbl == [table EXCEPT ![spare] = Empty]
           there == There(tbl, at[t].nr)
       IN \/ /\ \E s \in there : ~tbl[s].lock
                               /\ Arrived(t, s, WithCount(tbl, s, 1))
          \/ /\ there = {}
             /\ table' = [tbl EXCEPT ![spare] =
                            [Empty EXCEPT !.nr = at[t].nr, !.count = 1,
                                          !.lock = TRUE]]
             /\ Go(t, [at[t] EXCEPT !.pc = "read", !.ino = spare])
             /\ raced' = raced \cup Gone(t)
             /\ UNCHANGED <<blocks, file>>
  /\ UNCHANGED <<device, imap, zmap, calls>>

(* read_inode() *)
ReadInode(t) ==
  LET s == at[t].ino
      i == [FromDisk(table[s], disk[table[s].nr]) EXCEPT !.lock = FALSE]
  IN /\ at[t].pc = "read"
     /\ Arrived(t, s, [table EXCEPT ![s] = i])
     /\ UNCHANGED <<device, imap, zmap, calls>>

-----------------------------------------------------------------------------
(* The rest of the calls *)

(* empty_dir() looks at the next block: at everything but "." and "..".    *)
Occupied(r) ==
  \E j \in Positions(r.k, r.n) :
    blocks[r.b][j].nr # 0 /\ (r.k > 1 \/ j > 2)

EmptyDir(t) ==
  LET r == at[t]
      i == table[r.ino]
      further == ~Occupied(r) /\ More(r, i)
  IN /\ r.pc = "empty" /\ (Occupied(r) \/ further)
     /\ Go(t, IF further THEN [r EXCEPT !.k = @ + 1, !.b = i.zones[r.k + 1]]
                         ELSE ReleaseHolding(r, <<r.ino, r.dir>>, r.e[1]))
     /\ UNCHANGED <<device, table, imap, zmap, raced, blocks, file, calls>>

(* Then sys_rmdir() removes it.  History: it has been entered meanwhile, or*)
(* is no longer empty.                                                     *)
Entered(i) ==
  i.count > 1 \/ \E e \in Used(i) : blocks[e[1]][e[2]].name \notin {".", ".."}

Rmdir(t) ==
  LET r == at[t]
      i == table[r.ino]
  IN /\ r.pc = "empty" /\ ~Occupied(r) /\ ~More(r, i)
     /\ blocks' = Cleared(r.e)
     /\ table' = [table EXCEPT ![r.ino].nlinks = 0, ![r.ino].dirt = TRUE,
                               ![r.dir].nlinks = @ - 1, ![r.dir].dirt = TRUE]
     /\ raced' = raced \cup (IF Stale(r.e, i) THEN {"entry"} ELSE {})
                       \cup (IF Entered(i) THEN {"entered"} ELSE {})
     /\ Go(t, Release(r, <<r.dir, r.ino>>, "user"))
     /\ UNCHANGED <<device, imap, zmap, file, calls>>

(* O_TRUNC: the file is truncated and opened. *)
OpenTruncated(t) ==
  LET s == at[t].ino
  IN /\ at[t].pc = "otrunc" /\ at[t].b = None /\ ~HasZones(table[s])
     /\ Change(s, IF HasData(table[s])
                  THEN [table[s] EXCEPT !.size = 0, !.dirt = TRUE] ELSE table[s])
     /\ file' = [file EXCEPT ![t] = s]
     /\ Go(t, Idle)
     /\ UNCHANGED <<device, imap, zmap, raced, blocks, calls>>

(* file_write() where the file has a block, *)
Call(t) ==
  /\ at[t].pc = "user" /\ file[t] # None
  /\ calls < MaxCalls /\ calls' = calls + 1

Write(t) ==
  /\ Call(t) /\ table[file[t]].kind = "reg" /\ table[file[t]].zones # <<>>
  /\ \E longer \in BOOLEAN :
       Change(file[t], [table[file[t]] EXCEPT !.dirt = @ \/ longer])
  /\ UNCHANGED <<device, imap, zmap, at, raced, blocks, file>>

(* and where create_block() first has new_block() set a bit and sleep: two *)
(* tasks may both find that there is no block.                             *)
Extend(t) ==
  LET b == Lowest(FreeBits(NrBlocks, zmap))
  IN /\ Call(t) /\ table[file[t]].kind = "reg" /\ table[file[t]].zones = <<>>
     /\ FreeBits(NrBlocks, zmap) # {}
     /\ zmap' = zmap \cup {b}
     /\ Go(t, [Idle EXCEPT !.pc = "extend", !.b = b])
     /\ UNCHANGED <<device, table, imap, raced, blocks, file>>

Extended(t) ==
  LET i == table[file[t]]
  IN /\ at[t].pc = "extend" /\ NewBlock(t)
     /\ Change(file[t], [i EXCEPT !.zones = NextZone(@, 0, at[t].b), !.size = 1,
                                  !.dirt = TRUE])
     /\ raced' = raced \cup (IF i.zones # <<>> THEN {"zone"} ELSE {})
     /\ blocks' = [blocks EXCEPT ![at[t].b] = NoEntries]
     /\ Go(t, Idle)
     /\ UNCHANGED <<device, imap, zmap, file, calls>>

Close(t) ==
  /\ Call(t)
  /\ file' = [file EXCEPT ![t] = None]
  /\ Go(t, Release(Idle, <<file[t]>>, "user"))
  /\ UNCHANGED <<device, table, imap, zmap, raced, blocks>>

Opening == {"open", "trunc", "creat", "excl"}

NamesCall(t) ==
  \/ \E op \in Opening, path \in Paths :
       file[t] = None /\ Start(t, op, path, <<>>)
  \/ \E op \in {"stat", "mknod", "mkdir", "unlink", "rmdir"}, path \in Paths :
       Start(t, op, path, <<>>)
  \/ \E path, to \in Paths : Start(t, "link", path, to)

NamesStep(t) ==
  \/ FindHit(t) \/ FindNext(t) \/ FindMiss(t) \/ MakeInode(t) \/ Dots(t)
  \/ LinkMiss(t) \/ AddEntry(t) \/ AddNext(t) \/ AddGrows(t) \/ Grow(t)
  \/ AddFails(t) \/ Undo(t) \/ Linked(t) \/ Iget(t) \/ ReadInode(t)
  \/ EmptyDir(t) \/ Rmdir(t) \/ OpenTruncated(t) \/ Extended(t)

(* A disk, and the file on it that every task has open, if any.            *)
Init ==
  \E d \in Disks, r, s \in Slot :
    LET opened == d.open # None
        count == [x \in Slot |-> IF x = r THEN 1 ELSE Cardinality(Task)]
        nr == [x \in Slot |-> IF x = r THEN Root ELSE d.open]
        used == IF opened THEN {r, s} ELSE {r}
    IN /\ opened <=> r # s
       /\ disk = d.inodes /\ blocks = d.blocks
       /\ imap = {n \in Ino : d.inodes[n].nlinks > 0}
       /\ zmap = UNION {Range(d.inodes[n].zones) : n \in imap}
       /\ table = [x \in Slot |->
                    IF x \in used
                    THEN FromDisk(
                           [Empty EXCEPT !.nr = nr[x], !.count = count[x]],
                           d.inodes[nr[x]])
                    ELSE Empty]
       /\ at = [t \in Task |-> Idle]
       /\ file = [t \in Task |-> IF opened THEN s ELSE None]
       /\ leaked = {} /\ syncing = None /\ raced = {} /\ panic = "" /\ calls = 0

Next ==
  \/ \E t \in Task :
       \/ NamesCall(t) \/ NamesStep(t)
       \/ Write(t) \/ Extend(t) \/ Close(t)
       \/ PutStep(t) /\ UNCHANGED <<blocks, file, calls>>
  \/ /\ SyncDone \/ \E s \in Slot : SyncInode(s)
     /\ UNCHANGED <<blocks, file, calls>>

Spec == Init /\ [][Next]_vars

-----------------------------------------------------------------------------
(* Where a task keeps the inodes it holds: in the call it is in, among the *)
(* inodes it is about to put, two at most, and its open file.              *)
KeptBy(r, f) ==
  [dir |-> r.dir, ino |-> r.ino, old |-> r.old, file |-> f,
   put |-> IF Len(r.puts) > 0 THEN r.puts[1] ELSE None,
   last |-> IF Len(r.puts) > 1 THEN r.puts[2] ELSE None]

Keeping == {"dir", "ino", "old", "file", "put", "last"}

Kept == [t \in Task |-> KeptBy(at[t], file[t])]

(* i_count is the number of those who hold the inode, and for the root one *)
(* more, who mounted it.                                                   *)
CountsExact ==
  panic = "" =>
    /\ \A t \in Task : Len(at[t].puts) <= 2
    /\ \A s \in Slot :
         table[s].count =
           Cardinality({x \in Task \X Keeping : Kept[x[1]][x[2]] = s})
           + (IF table[s].nr = Root THEN 1 ELSE 0)

(* A slot nobody counts on has been written and is not being written: so   *)
(* get_empty_inode() need not sleep, nothing is lost when it clears the    *)
(* slot, and a device without users has no inodes left to write.           *)
IdleIsClean ==
  \A s \in IdleSlots : ~table[s].dirt /\ ~table[s].lock

(* No inode is in two slots, whatever sleeps in iget() meanwhile, unless   *)
(* iget() is asked for a number that has been freed.                       *)
Unless(races, P) == raced \cap races = {} => P

OneSlotPerInode ==
  Unless({"number"},
    \A s, x \in Slot : table[s].nr = table[x].nr /\ s # x => table[s].nr = 0)

(* When all calls have ended, fsck finds nothing: link counts are the      *)
(* numbers of entries, entries lead to inodes, every inode in use is linked*)
(* or open, every block in use is in one file, and names are unique; and   *)
(* no call ends in a panic.  This is so whatever calls overlap and whatever*)
(* runs out, unless a call has relied on something it saw before it slept  *)
(* and that was no longer so; what each of these races may damage, and     *)
(* what it leaves alone, is said here.                                     *)
Quiet == syncing = None /\ \A t \in Task : at[t].pc = "user"

Current(n) ==
  IF \E s \in Slot : table[s].nr = n
  THEN OnDisk(table[CHOOSE s \in Slot : table[s].nr = n])
  ELSE disk[n]

Directories == {n \in imap : Current(n).kind = "dir"}

Names(n) ==
  {x \in Directories \X (Block \X (1..PerBlock)) :
     /\ x[2] \in Used(Current(x[1]))
     /\ blocks[x[2][1]][x[2][2]].nr = n}

LinksCounted == \A n \in imap : Current(n).nlinks = Cardinality(Names(n))

NamesLead == \A n \in Ino : Names(n) # {} => n \in imap

InUse ==
  \A n \in imap :
    \/ Current(n).nlinks > 0
    \/ \E t \in Task : file[t] # None /\ table[file[t]].nr = n

BlocksSafe ==
  /\ UNION {Range(Current(n).zones) : n \in imap} \subseteq zmap
  /\ \A n, m \in imap :
       n # m => Range(Current(n).zones) \cap Range(Current(m).zones) = {}

BlocksKept == zmap \subseteq UNION {Range(Current(n).zones) : n \in imap}

NamesUnique ==
  \A d \in Directories : \A e, f \in Used(Current(d)) :
    blocks[e[1]][e[2]].name = blocks[f[1]][f[2]].name => e = f

=============================================================================
