------------------------------- MODULE Inodes -------------------------------
(***************************************************************************)
(* The inode table and the bitmaps: fs/inode.c, fs/bitmap.c, truncate.c.   *)
(* What tasks do with inodes is in Names; this module has the state and    *)
(* the procedures iget(), iput(), sync_inodes(), new_block(), free_block(),*)
(* new_inode(), truncate() and free_inode() they are made of.              *)
(*                                                                         *)
(* The kernel is not preempted: an action goes from one place where a task *)
(* may sleep to the next.  It may sleep where it reads a block, and where  *)
(* it waits for an inode another task has locked; iput() and iget() both   *)
(* begin with such a wait.  One device, whose blocks never fail to be      *)
(* read; blocks are found through i_zone[], a sequence here, however many  *)
(* levels of indirection lead to them.                                     *)
(***************************************************************************)
EXTENDS Naturals, Sequences, FiniteSets

CONSTANTS
  Task,
  Slot,       \* the entries of inode_table[]
  NrInodes,   \* numbers of inodes on the device; 1 is ROOT_INO
  NrBlocks,   \* data blocks of the device
  None        \* no inode, no block

ASSUME DeviceAssumption ==
  /\ NrInodes \in Nat \ {0} /\ NrBlocks \in Nat \ {0}
  /\ IsFiniteSet(Slot) /\ IsFiniteSet(Task)
  /\ None \notin Slot \cup Nat

Ino == 1..NrInodes
Block == 1..NrBlocks
Root == 1

VARIABLES
  table,     \* inode_table[]
  disk,      \* the inodes in their blocks
  imap,      \* inode numbers whose bit is set
  zmap,      \* blocks whose bit is set
  leaked,    \* blocks whose buffer keeps a count for ever
  at,        \* what each task is doing, see Idle
  syncing,   \* the inode that the update process writes
  raced,     \* history: what was still believed when it was no longer so
  panic      \* the message of panic(), after which nothing happens

(* i_num 0 stands for i_dev 0. *)
Empty == [nr |-> 0, count |-> 0, dirt |-> FALSE, lock |-> FALSE,
          kind |-> "none", nlinks |-> 0, zones |-> <<>>, size |-> 0]

(* struct d_inode *)
OnDisk(i) ==
  [kind |-> i.kind, nlinks |-> i.nlinks, zones |-> i.zones, size |-> i.size]

FromDisk(i, d) ==
  [i EXCEPT !.kind = d.kind, !.nlinks = d.nlinks, !.zones = d.zones,
            !.size = d.size]

(* A task in a system call: the operation and its path, the inodes it      *)
(* holds, the number it looks for, the block it reads with the number of   *)
(* entries it believes there are, the entry it has found; the inodes it is *)
(* about to iput(), the block whose buffer it keeps until they are put, and*)
(* what comes then.                                                        *)
Idle == [pc |-> "user", op |-> "none", path |-> <<>>, to |-> <<>>,
         dir |-> None, ino |-> None, old |-> None, nr |-> 0,
         k |-> 0, b |-> None, n |-> 0, e |-> <<>>,
         puts |-> <<>>, bh |-> None, then |-> "user"]

Release(r, slots, then) ==
  [r EXCEPT !.pc = "put", !.puts = slots, !.then = then,
            !.dir = None, !.ino = None, !.k = 0, !.b = None, !.n = 0,
            !.e = <<>>, !.old = IF then = "user" THEN None ELSE @,
            !.bh = None]

(* Several calls brelse() only after the last iput(). *)
ReleaseHolding(r, slots, b) == [Release(r, slots, "user") EXCEPT !.bh = b]

(* The next iput(), or what comes after the last.                          *)
PutDone(r) ==
  IF Len(r.puts) > 1 THEN [r EXCEPT !.pc = "put", !.puts = Tail(@)]
  ELSE IF r.then = "user" THEN Idle
  ELSE [r EXCEPT !.pc = r.then, !.puts = <<>>, !.then = "user"]

Go(t, r) == at' = [at EXCEPT ![t] = r]

Change(s, i) == table' = [table EXCEPT ![s] = i]

Panic(message) ==
  /\ panic' = message
  /\ at' = [t \in Task |-> [at[t] EXCEPT !.pc = "stopped"]]
  /\ UNCHANGED <<table, disk, imap, zmap, syncing, raced, leaked>>

-----------------------------------------------------------------------------
(* get_empty_inode() looks for a slot that nobody counts on.  Such a slot  *)
(* is neither dirty nor locked (IdleIsClean), so it finds no slot to write *)
(* or to wait for.                                                         *)
IdleSlots == {s \in Slot : table[s].count = 0}

(* The slots iget() finds an inode in: those nobody counts on may have it, *)
(* too.  Mutant: it looks only at slots in use.                            *)
ThereInUse(tbl, nr) == {s \in Slot : tbl[s].nr = nr /\ tbl[s].count > 0}

There(tbl, nr) == {s \in Slot : tbl[s].nr = nr}

(* find_first_zero() *)
Lowest(S) == CHOOSE x \in S : \A y \in S : x <= y

FreeBits(n, map) == (1..n) \ map

-----------------------------------------------------------------------------
(* iput().  It begins with wait_on_inode().                                *)

LastRef(i) == i.count = 1 /\ i.nr # 0

(* Mutant: the inode is left to sync_inodes(). *)
LeftToSync(i) == FALSE

MustWrite(i) == i.dirt

PutShared(t) ==
  LET s == Head(at[t].puts)
      i == table[s]
  IN /\ at[t].pc = "put" /\ ~i.lock
     /\ i.count > 0 /\ ~LastRef(i)
     /\ Change(s, [i EXCEPT !.count = @ - 1])
     /\ Go(t, PutDone(at[t]))
     /\ UNCHANGED <<disk, imap, zmap, syncing, raced, panic, leaked>>

PutLast(t) ==
  LET s == Head(at[t].puts)
      i == table[s]
  IN /\ at[t].pc = "put" /\ ~i.lock
     /\ LastRef(i) /\ i.nlinks > 0
     /\ IF MustWrite(i)
        THEN /\ Change(s, [i EXCEPT !.lock = TRUE])          \* write_inode()
             /\ Go(t, [at[t] EXCEPT !.pc = "write"])
        ELSE /\ Change(s, [i EXCEPT !.count = 0])
             /\ Go(t, PutDone(at[t]))
     /\ UNCHANGED <<disk, imap, zmap, syncing, raced, panic, leaked>>

(* The end of write_inode().  An inode that was freed while its block was  *)
(* read has the number 0, and 0 - 1 modulo INODES_PER_BLOCK is the last    *)
(* inode of the block: here there is one block of inodes.                  *)
Written(s) ==
  /\ disk' = [disk EXCEPT ![IF table[s].nr = 0 THEN NrInodes ELSE table[s].nr]
                  = OnDisk(table[s])]
  /\ Change(s, [table[s] EXCEPT !.dirt = FALSE, !.lock = FALSE])

(* "We can sleep - so do again". *)
WriteInode(t) ==
  /\ at[t].pc = "write"
  /\ Written(Head(at[t].puts))
  /\ Go(t, [at[t] EXCEPT !.pc = "put"])
  /\ UNCHANGED <<imap, zmap, syncing, raced, panic, leaked>>

PutUnlinked(t) ==
  LET i == table[Head(at[t].puts)]
  IN /\ at[t].pc = "put" /\ ~i.lock
     /\ LastRef(i) /\ i.nlinks = 0
     /\ Go(t, [at[t] EXCEPT !.pc = "trunc"])
     /\ UNCHANGED <<table, disk, imap, zmap, syncing, raced, panic, leaked>>

-----------------------------------------------------------------------------
(* truncate().  free_block() is told a block and may sleep until its       *)
(* buffer is unlocked; then it clears the bit, unless the buffer has other *)
(* users: who has asked for the block keeps his own count then.            *)

Truncated(t) == IF at[t].pc = "trunc" THEN Head(at[t].puts) ELSE at[t].ino

(* A task has the buffer of the block it reads, of the entry it found, and *)
(* the one it keeps until its inodes are put; this it has itself as well   *)
(* when iput() truncates a directory.                                      *)
HasBuffer(t, b) ==
  at[t].b = b \/ at[t].bh = b \/ (at[t].e # <<>> /\ at[t].e[1] = b)

BufferHeld(t, b) ==
  b \in leaked \/ at[t].bh = b \/ \E x \in Task \ {t} : HasBuffer(x, b)


Freed(t, b) == IF BufferHeld(t, b) THEN zmap ELSE zmap \ {b}

Leaks(t, b) == leaked' = leaked \cup (IF BufferHeld(t, b) THEN {b} ELSE {})

HasData(i) == i.kind \in {"reg", "dir"}

HasZones(i) == HasData(i) /\ i.zones # <<>>

TakeZone(t) ==
  /\ at[t].pc \in {"trunc", "otrunc"} /\ at[t].b = None
  /\ HasZones(table[Truncated(t)])
  /\ Go(t, [at[t] EXCEPT !.b = Head(table[Truncated(t)].zones)])
  /\ UNCHANGED <<table, disk, imap, zmap, leaked, syncing, raced, panic>>

FreeZone(t) ==
  LET s == Truncated(t)
      b == at[t].b
      zones == table[s].zones
  IN /\ at[t].pc \in {"trunc", "otrunc"} /\ b # None
     /\ IF b \notin zmap /\ ~BufferHeld(t, b)
        THEN Panic("free_block: bit already cleared")
        ELSE /\ zmap' = Freed(t, b)
             /\ Leaks(t, b)
             /\ raced' = raced \cup (IF BufferHeld(t, b) THEN {"buffer"} ELSE {})
             /\ Change(s, IF zones # <<>> /\ Head(zones) = b
                          THEN [table[s] EXCEPT !.zones = Tail(@)] ELSE table[s])
             /\ Go(t, [at[t] EXCEPT !.b = None])
             /\ UNCHANGED <<disk, imap, syncing, panic>>

(* new_block() has set the bit and slept for a buffer: it must be its only *)
(* user.                                                                   *)
NewBlock(t) == ~BufferHeld(t, at[t].b)

NewBlockPanics(t) ==
  /\ at[t].pc \in {"dots", "grow", "extend"} /\ ~NewBlock(t)
  /\ Panic("new block: count is != 1")

(* free_inode() *)
FreeInode(t) ==
  LET s == Head(at[t].puts)
  IN /\ at[t].pc = "trunc" /\ at[t].b = None /\ ~HasZones(table[s])
     /\ IF table[s].count > 1 THEN Panic("free_inode")
        ELSE IF table[s].nlinks > 0 THEN Panic("trying to free inode with links")
        ELSE /\ imap' = imap \ {table[s].nr}
             /\ Change(s, Empty)
             /\ Go(t, PutDone(at[t]))
             /\ raced' = raced \cup (IF table[s].lock THEN {"written"} ELSE {})
             /\ UNCHANGED <<disk, zmap, syncing, panic, leaked>>

-----------------------------------------------------------------------------
(* The update process calls sync(2) over and over: sync_inodes() writes    *)
(* one dirty inode after the other, whoever uses them.                     *)
SyncInode(s) ==
  /\ panic = "" /\ syncing = None
  /\ table[s].dirt /\ ~table[s].lock
  /\ Change(s, [table[s] EXCEPT !.lock = TRUE])
  /\ syncing' = s
  /\ UNCHANGED <<disk, imap, zmap, at, raced, panic, leaked>>

SyncDone ==
  /\ panic = "" /\ syncing # None
  /\ Written(syncing)
  /\ syncing' = None
  /\ UNCHANGED <<imap, zmap, at, raced, panic, leaked>>

PutStep(t) ==
  PutShared(t) \/ PutLast(t) \/ WriteInode(t) \/ PutUnlinked(t) \/ TakeZone(t)
  \/ FreeZone(t) \/ FreeInode(t) \/ NewBlockPanics(t)
=============================================================================
