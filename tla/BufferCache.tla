----------------------------- MODULE BufferCache -----------------------------
(***************************************************************************)
(* The buffer cache, fs/buffer.c, on top of the request queue of           *)
(* kernel/blk_drv/ll_rw_blk.c and the wait queues of kernel/sched.c, with  *)
(* its callers file_read/file_write (fs/file_dev.c), block_read/block_write*)
(* (fs/block_dev.c) and sys_sync.                                          *)
(*                                                                         *)
(* A task in the kernel runs alone until it sleeps; the interrupt of the   *)
(* drive may come between any two of its steps outside cli()/sti().  Each  *)
(* label of pc is a place in the C code; a step runs from one to the next. *)
(* A stretch of code is one step where an interrupt in its middle would do *)
(* the same just before it or just after it: not so make_request(), which  *)
(* goes to sleep on wait_for_request with interrupts enabled.              *)
(***************************************************************************)
EXTENDS Naturals, Sequences, FiniteSets, FiniteSetsExt

CONSTANTS
  Proc, None,    \* tasks; the NULL task pointer
  NrBuffers,     \* NR_BUFFERS
  NrRequest,     \* NR_REQUEST
  Block,         \* block numbers, positive: 0 stands for "no device" (b_dev=0)
  DevOf,         \* DevOf[k]: minor device of block k, positive
  Val,           \* contents of a block, 0 what the medium holds at first
  Ops,           \* the calls tasks make
  ReadAhead,     \* how many following blocks block_read() asks breada() for
  Faults,        \* may get_fs_byte() fault and sleep while a buffer is filled?
  IOErrors,      \* the commands, READ or WRITE, that may fail
  MaxCalls       \* bound on the calls made by all tasks together, 0 for none

Buffer == 1..NrBuffers

(* The wait queues: one per buffer, buffer_wait and wait_for_request. *)
buffer_wait == NrBuffers + 1
wait_for_request == NrBuffers + 2
Queue == 1..(NrBuffers + 2)

VARIABLES
  current, state, head, tmp, on,  \* see WaitQueue
  queue,    \* the request list of the device, see Elevator
  moved,    \* have the data of the request at its head crossed the bus?
  disk,     \* disk[k]: what the medium holds
  buf,      \* buf[b]: the buffer_head and its data
  task,     \* task[p]: the call p is in and its local variables
  calls,    \* how many calls have been made, if they are bounded
  missed    \* history: who was not asleep yet when a request became free

WQ == INSTANCE WaitQueue WITH Interruptible <- {}
EL == INSTANCE Elevator WITH Sector <- Block, Handle <- Buffer

READ == EL!READ
WRITE == EL!WRITE

AllOps == {"file_read", "file_write", "block_read", "block_write",
           "block_write_full", "sync"}
Reads == {"file_read", "block_read"}
UsesBreada == {"block_read", "block_write"}

(* There are NR_TASKS slots for tasks. *)
ASSUME ProcAssumption == IsFiniteSet(Proc)
ASSUME SizeAssumption == NrBuffers \in Nat \ {0} /\ NrRequest \in Nat \ {0}
ASSUME BlockAssumption == Block \subseteq Nat \ {0}
ASSUME DevAssumption == DevOf \in [Block -> Nat \ {0}]
ASSUME ValAssumption == 0 \in Val
ASSUME OpsAssumption == Ops \subseteq AllOps
ASSUME ReadAheadAssumption == ReadAhead \in Nat
ASSUME MaxCallsAssumption == MaxCalls \in Nat

wqvars == <<current, state, head, tmp, on>>
devvars == <<queue, moved, disk, calls, missed>>
vars == <<wqvars, devvars, buf, task>>

(* On the way from the search for a free request to the sleep for one.     *)
GoingToSleep == {"no_request", "read_head", "take_head"}
Requesting == {"get_request"} \cup GoingToSleep

Label == {"user", "find", "gh_wait", "gb_wait", "ll_rw_block",
          "bread_wait", "ahead", "drop", "copy", "fault", "copy_rest",
          "brelse", "sync_wait", "return"} \cup Requesting

BufferHead == [block : Block \cup {0}, count : Nat, lock : BOOLEAN,
               dirt : BOOLEAN, uptodate : BOOLEAN, data : Val]

(* blk: the block the call is about; want: the one getblk() looks for;     *)
(* bh: its buffer; first: breada()'s buffer while it reads ahead;          *)
(* i, dev, passes: sync_dev()'s loop, passes = 0 outside; dev = 0 for      *)
(* sys_sync(); done: the data were copied.                                 *)
Task == [pc : Label, op : AllOps, blk : Block \cup {0}, want : Block \cup {0},
         val : Val, bh : Buffer \cup {0}, first : Buffer \cup {0},
         i : Buffer \cup {0}, dev : Nat, passes : 0..2, done : BOOLEAN]

Idle == [pc |-> "user", op |-> "sync", blk |-> 0, want |-> 0, val |-> 0,
         bh |-> 0, first |-> 0, i |-> 0, dev |-> 0, passes |-> 0,
         done |-> FALSE]

TypeOK ==
  /\ WQ!TypeOK
  /\ queue \in Seq(EL!Request)
  /\ moved \in BOOLEAN
  /\ disk \in [Block -> Val]
  /\ buf \in [Buffer -> BufferHead]
  /\ task \in [Proc -> Task]
  /\ missed \subseteq Proc

Init ==
  /\ WQ!Init
  /\ EL!Init
  /\ moved = FALSE
  /\ disk = [k \in Block |-> 0]
  /\ buf = [b \in Buffer |-> [block |-> 0, count |-> 0, lock |-> FALSE,
                              dirt |-> FALSE, uptodate |-> FALSE, data |-> 0]]
  /\ task = [p \in Proc |-> Idle]
  /\ calls = 0 /\ missed = {}

-----------------------------------------------------------------------------
(* Where a task is, and the buffer its code is concerned with. *)

At(p, label) == current = p /\ task[p].pc = label
Goto(p, label) == task' = [task EXCEPT ![p].pc = label]

BufDev(b) == IF buf[b].block = 0 THEN 0 ELSE DevOf[buf[b].block]
Syncing(p) == task[p].passes > 0

(* ll_rw_block(): called with WRITE by the syncs, with READA by breada()   *)
(* (for its first buffer, not the one read ahead), with READ by bread().   *)
Command(p) == IF Syncing(p) THEN WRITE ELSE READ
Target(p) == IF Syncing(p) THEN task[p].i
             ELSE IF task[p].first # 0 THEN task[p].first ELSE task[p].bh
RwAhead(p) == ~Syncing(p) /\ task[p].first # 0

(* sync_dev() and sys_sync(): buffers that are clean and unlocked, or of    *)
(* another device, are passed over; then comes the next pass, then the     *)
(* return, to user mode or to the victim's wait_on_buffer() in getblk().   *)
Matches(dev, b) == dev = 0 \/ BufDev(b) = dev

NextSync(t, bufs) ==
  LET rest(i) == {b \in Buffer : /\ b > i /\ Matches(t.dev, b)
                                 /\ bufs[b].lock \/ bufs[b].dirt}
      go(i, passes) == [t EXCEPT !.pc = "sync_wait", !.i = Min(rest(i)),
                                 !.passes = passes]
  IN IF rest(t.i) # {} THEN go(t.i, t.passes)
     ELSE IF t.passes = 2 /\ rest(0) # {} THEN go(0, 1)
     ELSE [t EXCEPT !.pc = IF t.op = "sync" THEN "return" ELSE "gb_wait",
                    !.i = 0, !.passes = 0, !.dev = 0]

(* getblk() returns buffer b to bread() or breada(), or to block_write() when *)
(* the whole block is written.                                             *)
Got(t, b, uptodate) ==
  [t EXCEPT !.bh = b,
            !.pc = IF t.op = "block_write_full" THEN "copy"
                   ELSE IF ~uptodate THEN "ll_rw_block"
                   ELSE IF t.first # 0 THEN "drop"
                   ELSE IF t.op \in UsesBreada THEN "ahead"
                   ELSE "copy"]

(* Return from ll_rw_block() to the caller. *)
FromRequest(p, bufs) ==
  task' = [task EXCEPT ![p] =
             IF Syncing(p) THEN NextSync(@, bufs)
             ELSE IF RwAhead(p) THEN [@ EXCEPT !.pc = "drop"]
             ELSE IF @.op \in UsesBreada THEN [@ EXCEPT !.pc = "ahead"]
             ELSE [@ EXCEPT !.pc = "bread_wait"]]

Badness(b) == (IF buf[b].dirt THEN 2 ELSE 0) + (IF buf[b].lock THEN 1 ELSE 0)
Cached(k) == {b \in Buffer : buf[b].block = k}

(* Process p only moves on in its code. *)
Local == UNCHANGED <<wqvars, devvars>>

-----------------------------------------------------------------------------
(* while (bh->b_lock) sleep_on(&bh->b_wait), in wait_on_buffer() and       *)
(* lock_buffer(); the latter is not reached by a READA of a locked buffer. *)

WaitsFor(p) ==
  IF task[p].pc \in {"gh_wait", "gb_wait", "bread_wait", "brelse"}
    THEN task[p].bh
  ELSE IF task[p].pc = "sync_wait" THEN task[p].i
  ELSE IF task[p].pc = "ll_rw_block" /\ ~RwAhead(p) THEN Target(p)
  ELSE 0

WaitOnBuffer(p) ==
  /\ current = p
  /\ WaitsFor(p) # 0
  /\ buf[WaitsFor(p)].lock
  /\ WQ!SleepOn(p, WaitsFor(p))
  /\ UNCHANGED <<devvars, buf, task>>

Resume(p) ==
  /\ WQ!ResumeSleepOn(p)
  /\ UNCHANGED <<devvars, buf, task>>

-----------------------------------------------------------------------------
(* System calls, up to the call of getblk() or of sys_sync()'s loop.       *)

AnotherCall ==
  IF MaxCalls = 0 THEN UNCHANGED calls
  ELSE calls < MaxCalls /\ calls' = calls + 1

Enter(p) ==
  /\ task[p].pc = "user"
  /\ WQ!Dispatch(p)
  /\ \/ \E o \in Ops \ {"sync"}, k \in Block :
          \E v \in IF o \in Reads THEN {0} ELSE Val \ {0} :
            task' = [task EXCEPT ![p] = [Idle EXCEPT !.pc = "find", !.op = o,
                                         !.blk = k, !.want = k, !.val = v]]
     \/ /\ "sync" \in Ops
        /\ task' = [task EXCEPT ![p] = NextSync([Idle EXCEPT !.passes = 1],
                                               buf)]
  /\ AnotherCall /\ UNCHANGED <<queue, moved, disk, missed, buf>>

Return(p) ==
  /\ At(p, "return")
  /\ task' = [task EXCEPT ![p] = Idle]
  /\ WQ!Yield(p)
  /\ UNCHANGED <<devvars, buf>>

-----------------------------------------------------------------------------
(* getblk() and get_hash_table()                                           *)

(* Mutant: b_count is not raised before the wait. *)
FindHitUncounted(p) ==
  /\ At(p, "find")
  /\ \E b \in Cached(task[p].want) :
       task' = [task EXCEPT ![p].pc = "gh_wait", ![p].bh = b]
  /\ UNCHANGED buf /\ Local

(* find_buffer() succeeds: b_count++, then wait_on_buffer(). *)
FindHit(p) ==
  /\ At(p, "find")
  /\ \E b \in Cached(task[p].want) :
       /\ buf' = [buf EXCEPT ![b].count = @ + 1]
       /\ task' = [task EXCEPT ![p].pc = "gh_wait", ![p].bh = b]
  /\ Local

(* After the wait the buffer must still be the one looked for. *)
GetHashTable(p) ==
  /\ At(p, "gh_wait") /\ ~buf[task[p].bh].lock
  /\ IF buf[task[p].bh].block = task[p].want
       THEN /\ task' = [task EXCEPT ![p] = Got(@, @.bh, buf[@.bh].uptodate)]
            /\ UNCHANGED buf
       ELSE /\ buf' = [buf EXCEPT ![task[p].bh].count = @ - 1]
            /\ Goto(p, "find")
  /\ Local

(* The scan of the free list: the unused buffer of least badness, the      *)
(* first in a list whose order is left open among equals.                  *)
Victims ==
  LET unused == {b \in Buffer : buf[b].count = 0}
  IN {b \in unused : \A c \in unused : Badness(b) <= Badness(c)}

FindVictim(p) ==
  /\ At(p, "find") /\ Cached(task[p].want) = {}
  /\ \E b \in Victims : task' = [task EXCEPT ![p].pc = "gb_wait", ![p].bh = b]
  /\ UNCHANGED buf /\ Local

SleepForBuffer(p) ==
  /\ At(p, "find") /\ Cached(task[p].want) = {}
  /\ Victims = {}
  /\ WQ!SleepOn(p, buffer_wait)
  /\ UNCHANGED <<devvars, buf, task>>

(* The victim is unlocked: it was taken meanwhile, or it is dirty and must *)
(* be written first, or somebody else brought the block in, ...            *)
VictimUnfit(p) ==
  /\ At(p, "gb_wait") /\ ~buf[task[p].bh].lock
  /\ LET b == task[p].bh IN
       \/ buf[b].count # 0 /\ Goto(p, "find")
       \/ /\ buf[b].count = 0 /\ buf[b].dirt
          /\ task' = [task EXCEPT ![p] =
                       NextSync([@ EXCEPT !.i = 0, !.dev = BufDev(b),
                                          !.passes = 2], buf)]
       \/ /\ buf[b].count = 0 /\ ~buf[b].dirt
          /\ Cached(task[p].want) # {} /\ Goto(p, "find")
  /\ UNCHANGED buf /\ Local

(* Mutants: one check after the sleep is forgotten. *)
FreeUnlessTaken(b, k) == ~buf[b].lock /\ ~buf[b].dirt /\ Cached(k) = {}
FreeUnlessCached(b, k) == ~buf[b].lock /\ ~buf[b].dirt /\ buf[b].count = 0

(* "FINALLY we know that this buffer is the only one of it's kind" *)
Free(b, k) == /\ ~buf[b].lock /\ buf[b].count = 0 /\ ~buf[b].dirt
              /\ Cached(k) = {}

(* Mutant: b_uptodate is not reset. *)
TakenOverValid(h, k) == [h EXCEPT !.count = 1, !.dirt = FALSE, !.block = k]

TakenOver(h, k) == [h EXCEPT !.count = 1, !.dirt = FALSE, !.uptodate = FALSE,
                             !.block = k]

(* ... or it gets its new identity. *)
Assign(p) ==
  /\ At(p, "gb_wait") /\ Free(task[p].bh, task[p].want)
  /\ buf' = [buf EXCEPT ![task[p].bh] = TakenOver(@, task[p].want)]
  /\ task' = [task EXCEPT ![p] = Got(@, @.bh, FALSE)]
  /\ Local

-----------------------------------------------------------------------------
(* breada() after getblk(), and the wait of bread() and breada().          *)

(* The loop of breada() over the blocks read ahead, those of the device. *)
NextAhead(p) ==
  /\ At(p, "ahead")
  /\ LET t == task[p]
         next == t.want + 1
         first == IF t.first = 0 THEN t.bh ELSE t.first
         more == /\ next <= t.blk + ReadAhead /\ next \in Block
                 /\ DevOf[next] = DevOf[t.blk]
     IN IF more
          THEN task' = [task EXCEPT ![p].pc = "find", ![p].want = next,
                                    ![p].bh = 0, ![p].first = first]
          ELSE task' = [task EXCEPT ![p].pc = "bread_wait", ![p].want = t.blk,
                                    ![p].bh = first, ![p].first = 0]
  /\ UNCHANGED buf /\ Local

(* tmp->b_count--, with no wake_up(&buffer_wait). *)
Drop(p) ==
  /\ At(p, "drop")
  /\ buf' = [buf EXCEPT ![task[p].bh].count = @ - 1]
  /\ Goto(p, "ahead")
  /\ Local

(* wait_on_buffer() is over: the block was read, or it is unreadable. *)
BreadDone(p) ==
  /\ At(p, "bread_wait") /\ ~buf[task[p].bh].lock
  /\ Goto(p, IF buf[task[p].bh].uptodate THEN "copy" ELSE "brelse")
  /\ UNCHANGED buf /\ Local

-----------------------------------------------------------------------------
(* The callers: the data are copied between the buffer and the user.       *)

(* Mutant: file_write() leaves b_dirt alone. *)
MarksDirtyNot(t) == t.op # "file_write"

(* file_write() sets b_dirt before it copies, block_write() afterwards. *)
MarksDirty(t) == t.op # "file_write" \/ t.pc = "copy"

(* The copy between the buffer and the user, and what of it is left after  *)
(* a page fault.                                                           *)
Copy(p) ==
  /\ current = p /\ task[p].pc \in {"copy", "copy_rest"}
  /\ LET t == task[p] IN
       IF t.op \in Reads
         THEN /\ task' = [task EXCEPT ![p].val = buf[t.bh].data,
                                      ![p].done = TRUE, ![p].pc = "brelse"]
              /\ UNCHANGED buf
         ELSE /\ buf' = [buf EXCEPT ![t.bh].data = t.val,
                                     ![t.bh].dirt = @ \/ MarksDirty(t)]
              /\ task' = [task EXCEPT ![p].done = TRUE, ![p].pc = "brelse"]
  /\ Local

(* The user page is not present when get_fs_byte() or put_fs_byte()        *)
(* touches it: do_no_page() reads it in, which lets other tasks run before *)
(* the copy goes on.                                                       *)
Fault(p) ==
  /\ Faults /\ At(p, "copy")
  /\ buf' = [buf EXCEPT ![task[p].bh].dirt = @ \/ task[p].op = "file_write"]
  /\ Goto(p, "fault")
  /\ WQ!Yield(p)
  /\ UNCHANGED devvars

FaultDone(p) ==
  /\ task[p].pc = "fault"
  /\ WQ!Dispatch(p)
  /\ Goto(p, "copy_rest")
  /\ UNCHANGED <<devvars, buf>>

(* brelse(); a count of zero is the panic "Trying to free free buffer". *)
Brelse(p) ==
  /\ At(p, "brelse") /\ ~buf[task[p].bh].lock
  /\ buf[task[p].bh].count > 0
  /\ buf' = [buf EXCEPT ![task[p].bh].count = @ - 1]
  /\ Goto(p, "return")
  /\ WQ!WakeUp({buffer_wait})
  /\ UNCHANGED devvars

-----------------------------------------------------------------------------
(* sys_sync() and sync_dev(); the inode table is taken to hold no dirty    *)
(* inode, so sync_inodes() does nothing.                                   *)

SyncBuffer(p) ==
  /\ At(p, "sync_wait") /\ ~buf[task[p].i].lock
  /\ task' = [task EXCEPT ![p] =
       IF Matches(@.dev, @.i) /\ buf[@.i].dirt
         THEN [@ EXCEPT !.pc = "ll_rw_block"]
         ELSE NextSync(@, buf)]
  /\ UNCHANGED buf /\ Local

-----------------------------------------------------------------------------
(* ll_rw_block() and make_request()                                        *)

(* READA of a locked buffer: forget it. *)
ForgetReadAhead(p) ==
  /\ At(p, "ll_rw_block") /\ RwAhead(p) /\ buf[Target(p)].lock
  /\ FromRequest(p, buf)
  /\ UNCHANGED buf /\ Local

Needed(p) == IF Command(p) = WRITE THEN buf[Target(p)].dirt
                                   ELSE ~buf[Target(p)].uptodate

(* lock_buffer(), and the request turns out to be needless, or a READA     *)
(* finds no free one: unlock_buffer().                                     *)
NoRequest(p) ==
  /\ At(p, "ll_rw_block") /\ ~buf[Target(p)].lock
  /\ \/ ~Needed(p)
     \/ RwAhead(p) /\ EL!FreeSlots(Command(p)) = {}
  /\ FromRequest(p, buf)
  /\ WQ!WakeUp({Target(p)})
  /\ UNCHANGED <<devvars, buf>>

(* Mutant: lock_buffer() does not look at b_lock. *)
HasLockedTwice(p) ==
  \/ At(p, "get_request")
  \/ At(p, "ll_rw_block") /\ Needed(p)

(* p is past lock_buffer() and wants a request. *)
HasLocked(p) ==
  \/ At(p, "get_request")
  \/ At(p, "ll_rw_block") /\ ~buf[Target(p)].lock /\ Needed(p)

(* lock_buffer() and the request is filled in and linked by add_request(). *)
AddRequest(p) ==
  /\ HasLocked(p)
  /\ EL!MakeRequest(Command(p), buf[Target(p)].block, Target(p))
  /\ buf' = [buf EXCEPT ![Target(p)].lock = TRUE, ![Target(p)].dirt = FALSE]
  /\ FromRequest(p, buf')
  /\ UNCHANGED <<wqvars, moved, disk, calls, missed>>

(* lock_buffer() and no request is found free.                             *)
NoneFree(p) ==
  /\ HasLocked(p)
  /\ EL!FreeSlots(Command(p)) = {} /\ ~RwAhead(p)
  /\ buf' = [buf EXCEPT ![Target(p)].lock = TRUE]
  /\ Goto(p, "no_request")
  /\ missed' = missed \ {p}
  /\ UNCHANGED <<wqvars, queue, moved, disk, calls>>

(* sleep_on(&wait_for_request), the buffer locked.  No cli() protects it:  *)
(* an end_request() since the search is not heard of, one between the      *)
(* first two steps wakes a task whose name tmp keeps, and one between the  *)
(* last two takes p off the queue before it sleeps.                        *)
SleepForRequest(p) ==
  /\ \/ /\ At(p, "no_request") /\ Goto(p, "read_head")
        /\ WQ!ReadHead(p, wait_for_request)
     \/ /\ At(p, "read_head") /\ Goto(p, "take_head")
        /\ WQ!TakeHead(p, wait_for_request)
     \/ /\ At(p, "take_head") /\ Goto(p, "get_request")
        /\ WQ!FallAsleep(p, wait_for_request)
  /\ UNCHANGED <<devvars, buf>>

-----------------------------------------------------------------------------
(* The drive and its interrupt.                                            *)

(* read_intr()/write_intr(): the data of the request at the head cross.    *)
MoveData ==
  /\ queue # <<>> /\ ~moved
  /\ moved' = TRUE
  /\ LET r == Head(queue) IN
       IF r.cmd = READ
         THEN /\ buf' = [buf EXCEPT ![r.bh].data = disk[r.sector]]
              /\ UNCHANGED disk
         ELSE /\ disk' = [disk EXCEPT ![r.sector] = buf[r.bh].data]
              /\ UNCHANGED buf
  /\ UNCHANGED <<wqvars, queue, task, calls, missed>>

(* Mutant: the tasks that wait for a free request are not woken. *)
WakesOnlyBuffer(r) == {r.bh}

WakesAtEnd(r) == {r.bh, wait_for_request}

(* end_request(uptodate) *)
EndRequest(uptodate) ==
  /\ EL!EndRequest
  /\ IF uptodate THEN moved ELSE Head(queue).cmd \in IOErrors
  /\ moved' = FALSE
  /\ buf' = [buf EXCEPT ![Head(queue).bh].uptodate = uptodate,
                        ![Head(queue).bh].lock = FALSE]
  /\ WQ!WakeUp(WakesAtEnd(Head(queue)))
  /\ missed' = missed \cup {p \in Proc : task[p].pc \in GoingToSleep}
  /\ UNCHANGED <<disk, task, calls>>

-----------------------------------------------------------------------------

Step(p) ==
  \/ WaitOnBuffer(p) \/ Return(p)
  \/ FindHit(p) \/ GetHashTable(p) \/ FindVictim(p) \/ SleepForBuffer(p)
  \/ VictimUnfit(p) \/ Assign(p)
  \/ NextAhead(p) \/ Drop(p) \/ BreadDone(p)
  \/ Copy(p) \/ Fault(p) \/ Brelse(p)
  \/ SyncBuffer(p)
  \/ ForgetReadAhead(p) \/ NoRequest(p) \/ AddRequest(p)
  \/ NoneFree(p) \/ SleepForRequest(p)

Interrupt == MoveData \/ EndRequest(TRUE) \/ EndRequest(FALSE)

(* All that goes on by itself: tasks enter the kernel when they like. *)
GoesOn == (\E p \in Proc : Step(p) \/ Resume(p) \/ FaultDone(p)) \/ Interrupt

Next == GoesOn \/ \E p \in Proc : Enter(p)

Spec == Init /\ [][Next]_vars

(* schedule() runs some runnable task if there is one, a task in kernel    *)
(* mode goes on, and the drive interrupts for every command: no more is    *)
(* assumed, not even that each runnable task gets its turn.                *)
FairSpec == Spec /\ WF_vars(GoesOn)

-----------------------------------------------------------------------------

(* The buffers on which p has raised b_count and not yet lowered it. *)
HoldsBh(p) ==
  \/ task[p].pc \in {"gh_wait", "bread_wait", "drop", "copy", "fault",
                     "copy_rest", "brelse"}
  \/ task[p].pc \in {"ll_rw_block"} \cup Requesting /\ ~Syncing(p)
  \/ task[p].pc = "ahead" /\ task[p].first = 0

(* find_buffer() is never faced with two buffers for one block, although   *)
(* getblk() sleeps between its look at the hash table and the insertion.   *)
OneBufferPerBlock ==
  \A b, c \in Buffer : buf[b].block = buf[c].block /\ buf[b].block # 0 => b = c

(* A buffer keeps its block while a task holds it, over every sleep of     *)
(* getblk(), bread() and breada(): what get_hash_table() calls "shouldn't  *)
(* really happen" does not happen.                                         *)
IdentityStable ==
  \A p \in Proc :
    /\ HoldsBh(p) => buf[task[p].bh].block = task[p].want
    /\ task[p].first # 0 => buf[task[p].first].block = task[p].blk

(* b_count is the number of tasks that hold the buffer, so brelse() never  *)
(* meets "Trying to free free buffer" and no buffer is pinned for ever.    *)
CountIsReferences ==
  \A b \in Buffer :
    buf[b].count = Cardinality({p \in Proc : HoldsBh(p) /\ task[p].bh = b})
                     + Cardinality({p \in Proc : task[p].first = b})

(* b_lock is set by exactly one request of the list, or one task waiting   *)
(* for a free request, and for the block the buffer still has: no buffer   *)
(* is unlocked by a request that is not its own, and none is left locked.  *)
LockHasOneOwner ==
  /\ TypeOK
  /\ \A b \in Buffer :
       Cardinality({i \in DOMAIN queue : queue[i].bh = b})
         + Cardinality({p \in Proc : task[p].pc \in Requesting
                                       /\ Target(p) = b})
         = IF buf[b].lock THEN 1 ELSE 0
  /\ \A i \in DOMAIN queue : queue[i].sector = buf[queue[i].bh].block

(* A buffer that is valid, clean and unlocked holds what the medium holds, *)
(* whatever was copied into it while its last write was under way.         *)
CleanMatchesDisk ==
  \A b \in Buffer :
    buf[b].uptodate /\ ~buf[b].dirt /\ ~buf[b].lock
      => buf[b].data = disk[buf[b].block]

(* The contents of block k as a reader should see them: what a buffer      *)
(* holds, if it holds something valid or something to be written.          *)
Current(b) ==
  \/ buf[b].uptodate \/ buf[b].dirt
  \/ \E i \in DOMAIN queue : queue[i].bh = b /\ queue[i].cmd = WRITE

StoreOf(k) ==
  IF \E b \in Cached(k) : Current(b)
    THEN buf[CHOOSE b \in Cached(k) : Current(b)].data
    ELSE disk[k]

CallOf(p) ==
  IF task[p].pc = "user" \/ task[p].op = "sync" THEN [op |-> "none"]
  ELSE [op |-> IF task[p].op \in Reads THEN "read" ELSE "write",
        blk |-> task[p].blk, val |-> task[p].val, done |-> task[p].done]

BS == INSTANCE BlockStore WITH store <- [k \in Block |-> StoreOf(k)],
                               call <- [p \in Proc |-> CallOf(p)]

(* The cache implements the block store: a read returns what the last      *)
(* write left, though the block was evicted, written back and read again   *)
(* in between.                                                             *)
ImplementsBlockStore == BS!Spec

(* A task sleeps for a request that became free before it slept, and there *)
(* is none under way whose end would wake it.                              *)
WakeUpMissed ==
  \E p \in missed : /\ task[p].pc = "get_request" /\ WQ!Asleep(p)
                    /\ queue = <<>>

(* Every call returns: no task is left behind on buffer_wait, on a buffer, *)
(* or on wait_for_request when all requests have ended, and no two wait for*)
(* each other, though stale pointers wake tasks that wait for something    *)
(* else.  The exception is what the missing cli() of make_request() does:  *)
(* a task that missed its wake-up sleeps on with its buffer locked.        *)
EveryCallReturns ==
  \/ \A p \in Proc : task[p].pc # "user" ~> task[p].pc = "user"
  \/ <>[]WakeUpMissed
=============================================================================
