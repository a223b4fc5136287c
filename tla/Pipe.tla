-------------------------------- MODULE Pipe --------------------------------
(***************************************************************************)
(* Open files and pipes: the descriptors of each task, file_table, the     *)
(* counts that hold them together (fs/open.c, fs/fcntl.c, kernel/fork.c),  *)
(* and reading and writing one pipe (fs/pipe.c).  Other files have one     *)
(* inode, "reg", of which only the count is kept.                          *)
(*                                                                         *)
(* A task in the kernel runs alone until it sleeps.  In the pipe code that *)
(* is in sleep_on(), or in a page fault while bytes are copied from or to  *)
(* user memory.                                                            *)
(***************************************************************************)
EXTENDS Naturals, FiniteSets, FiniteSetsExt

CONSTANTS
  Task,       \* the slots of task[]
  First,      \* the task there is at the start
  NrOpen,     \* NR_OPEN
  NrFile,     \* NR_FILE
  PageSize,   \* PAGE_SIZE, the bytes of the ring
  Counts,     \* the counts programs read and write
  MaxCalls    \* bound on the calls that make descriptors or tasks

ASSUME TaskAssumption == IsFiniteSet(Task) /\ First \in Task
ASSUME SizesAssumption == /\ NrOpen \in Nat /\ NrFile \in Nat
                          /\ PageSize \in Nat \ {0}
                          /\ Counts \subseteq Nat \ {0}
                          /\ MaxCalls \in Nat

Fd == 0..(NrOpen - 1)
File == 1..NrFile
NoFile == 0
Byte == 0..(2 * PageSize - 1)      \* the bytes written, numbered in turn

VARIABLES
  filp,            \* current->filp
  close_on_exec,
  file_table,      \* f_count, f_inode, f_mode
  i_count,         \* of the pipe and of "reg"
  head, tail,      \* PIPE_HEAD and PIPE_TAIL
  ring,            \* the page of the pipe
  at,              \* where each task is
  calls,           \* bound: the calls made, see MaxCalls
  sent, got,       \* history: the numbers of the next byte in and out
  inOrder,         \* history: whether every byte read was the right one
  slept            \* history: whether a copy has slept; the bytes are no
                   \* longer followed then

filevars == <<filp, close_on_exec, file_table, i_count>>
ringvars == <<head, tail, ring, sent, got, inOrder, slept>>
vars == <<filp, close_on_exec, file_table, i_count, head, tail, ring, at,
          calls, sent, got, inOrder, slept>>

(* pc, the count left to read or write, and the descriptors of an open()   *)
(* or pipe() that sleeps.                                                  *)
At(pc) == [pc |-> pc, left |-> 0, fds |-> <<>>]

NoBytes == [i \in 0..(PageSize - 1) |-> 0]

(* What a free file is left with is written over before it is looked at.   *)
Unused == [count |-> 0, inode |-> "reg", mode |-> "rw"]

Init ==
  /\ filp = [t \in Task |-> [fd \in Fd |-> NoFile]]
  /\ close_on_exec = [t \in Task |-> {}]
  /\ file_table = [f \in File |-> Unused]
  /\ i_count = [pipe |-> 0, reg |-> 0]
  /\ head = 0 /\ tail = 0 /\ ring = NoBytes
  /\ at = [t \in Task |-> At(IF t = First THEN "user" ELSE "none")]
  /\ calls = 0
  /\ sent = 0 /\ got = 0 /\ inOrder = TRUE /\ slept = FALSE

(* The kernel is not preempted: while a task runs in it the others wait. *)
Running == {t \in Task : at[t].pc \in {"read", "write"}}

FreeFiles == {f \in File : file_table[f].count = 0}
FreeFds(t) == {fd \in Fd : filp[t][fd] = NoFile}

(* wake_up(&inode->i_wait): every sleeper tests again (see WaitQueue). *)
Woken(a) == [t \in Task |->
  CASE a[t].pc = "read_sleep" -> [a[t] EXCEPT !.pc = "read_woken"]
    [] a[t].pc = "write_sleep" -> [a[t] EXCEPT !.pc = "write_woken"]
    [] OTHER -> a[t]]

-----------------------------------------------------------------------------
(* Descriptors. *)

Call(t) == at[t].pc = "user" /\ Running = {}

(* sys_pipe() up to get_pipe_inode(), which may sleep for an empty inode.  *)
SysPipe(t) ==
  /\ Call(t)
  /\ Cardinality(FreeFiles) >= 2 /\ Cardinality(FreeFds(t)) >= 2
  /\ LET f0 == Min(FreeFiles)  f1 == Min(FreeFiles \ {f0})
         d0 == Min(FreeFds(t)) d1 == Min(FreeFds(t) \ {d0})
     IN /\ file_table' = [file_table EXCEPT ![f0].count = 1, ![f1].count = 1]
        /\ filp' = [filp EXCEPT ![t][d0] = f0, ![t][d1] = f1]
        /\ at' = [at EXCEPT ![t] = [At("pipe") EXCEPT !.fds = <<d0, d1>>]]
  /\ UNCHANGED <<close_on_exec, i_count, ringvars>>

(* The pipe gets its inode and page, or all is given back.  One page is    *)
(* left, so there is one pipe at a time.                                   *)
PipeInode(t) ==
  LET d0 == at[t].fds[1]  d1 == at[t].fds[2]
      f0 == filp[t][d0] f1 == filp[t][d1]
  IN /\ at[t].pc = "pipe" /\ Running = {}
     /\ \/ /\ i_count["pipe"] = 0
           /\ i_count' = [i_count EXCEPT !["pipe"] = 2]
           /\ head' = 0 /\ tail' = 0 /\ sent' = 0 /\ got' = 0
           /\ ring' = NoBytes /\ slept' = FALSE
           /\ file_table' = [file_table EXCEPT
                ![f0] = [count |-> 1, inode |-> "pipe", mode |-> "r"],
                ![f1] = [count |-> 1, inode |-> "pipe", mode |-> "w"]]
           /\ UNCHANGED <<filp, inOrder>>
        \/ /\ file_table' = [file_table EXCEPT ![f0].count = 0, ![f1].count = 0]
           /\ filp' = [filp EXCEPT ![t][d0] = NoFile, ![t][d1] = NoFile]
           /\ UNCHANGED <<i_count, ringvars>>
     /\ at' = [at EXCEPT ![t] = At("user")]
     /\ UNCHANGED close_on_exec

(* sys_open() up to open_namei(), which sleeps. *)
SysOpen(t) ==
  /\ Call(t)
  /\ FreeFds(t) # {}
  /\ LET fd == Min(FreeFds(t))
     IN /\ close_on_exec' = [close_on_exec EXCEPT ![t] = @ \ {fd}]
        /\ IF FreeFiles = {} THEN UNCHANGED <<filp, file_table, at>>
           ELSE LET f == Min(FreeFiles)
                IN /\ filp' = [filp EXCEPT ![t][fd] = f]
                   /\ file_table' = [file_table EXCEPT ![f].count = @ + 1]
                   /\ at' = [at EXCEPT ![t] = [At("open") EXCEPT !.fds = <<fd>>]]
  /\ UNCHANGED <<i_count, ringvars>>

(* open_namei() has found the inode, or not. *)
Opened(t) ==
  LET fd == at[t].fds[1]
      f == filp[t][fd]
  IN /\ at[t].pc = "open" /\ Running = {}
     /\ \/ /\ i_count' = [i_count EXCEPT !["reg"] = @ + 1]
           /\ file_table' = [file_table EXCEPT
                ![f] = [count |-> 1, inode |-> "reg", mode |-> "rw"]]
           /\ UNCHANGED filp
        \/ /\ filp' = [filp EXCEPT ![t][fd] = NoFile]
           /\ file_table' = [file_table EXCEPT ![f].count = 0]
           /\ UNCHANGED i_count
     /\ at' = [at EXCEPT ![t] = At("user")]
     /\ UNCHANGED <<close_on_exec, ringvars>>

(* Mutant: any close gives up the inode. *)
LastClosedAny(t, D) == {f \in File : \E fd \in D : filp[t][fd] = f}

(* How often the task holds each file in the descriptors of D. *)
Held(t, D, f) == Cardinality({fd \in D : filp[t][fd] = f})

(* The files whose last reference goes with the descriptors D of t. *)
LastClosed(t, D) ==
  {f \in File : file_table[f].count > 0
                /\ file_table[f].count = Held(t, D, f)}

(* Mutant: the sleepers of the pipe are not told. *)
IputSilently(files, a) ==
  /\ i_count' = [n \in DOMAIN i_count |->
       i_count[n] - Cardinality({f \in files : file_table[f].inode = n})]
  /\ at' = a

(* iput() of the inodes of these files.  A pipe wakes its sleepers. *)
Iput(files, a) ==
  /\ i_count' = [n \in DOMAIN i_count |->
       i_count[n] - Cardinality({f \in files : file_table[f].inode = n})]
  /\ at' = IF \E f \in files : file_table[f].inode = "pipe" THEN Woken(a)
                                                            ELSE a

(* sys_close() of the descriptors D, one after another, after which the    *)
(* state of the tasks is a.  Where the inode is no pipe, iput() may sleep  *)
(* to write it before it counts down; here it counts down at once.  What   *)
(* the others then see of D half closed is what they also see of a program *)
(* that closes D one by one.                                               *)
CloseAll(t, D, a) ==
  /\ filp' = [filp EXCEPT ![t] = [fd \in Fd |->
                IF fd \in D THEN NoFile ELSE @[fd]]]
  /\ file_table' = [f \in File |->
       IF f \in LastClosed(t, D) THEN Unused
       ELSE [file_table[f] EXCEPT !.count = @ - Held(t, D, f)]]
  /\ Iput(LastClosed(t, D), a)

SysClose(t) ==
  /\ Call(t)
  /\ \E fd \in Fd \ FreeFds(t) :
       /\ CloseAll(t, {fd}, at)
       /\ close_on_exec' = [close_on_exec EXCEPT ![t] = @ \ {fd}]
  /\ UNCHANGED ringvars

(* dupfd() once a free descriptor arg is found. *)
Dupfd(t, fd, arg) ==
  /\ filp' = [filp EXCEPT ![t][arg] = filp[t][fd]]
  /\ file_table' = [file_table EXCEPT ![filp[t][fd]].count = @ + 1]
  /\ close_on_exec' = [close_on_exec EXCEPT ![t] = @ \ {arg}]

(* sys_dup(), and sys_fcntl() with F_DUPFD. *)
SysDup(t) ==
  /\ Call(t)
  /\ \E fd \in Fd \ FreeFds(t), least \in Fd :
       LET args == {d \in FreeFds(t) : d >= least}
       IN args # {} /\ Dupfd(t, fd, Min(args))
  /\ UNCHANGED <<i_count, at, ringvars>>

(* sys_dup2(): a descriptor copied to itself is only closed. *)
SysDup2(t) ==
  /\ Call(t)
  /\ \E old, new \in Fd \ FreeFds(t) :
       /\ LET f == filp[t][old]
              closed == LastClosed(t, {new})
          IN IF old = new THEN CloseAll(t, {new}, at)
             ELSE /\ filp' = [filp EXCEPT ![t][new] = f]
                  /\ file_table' = [g \in File |->
                       IF g \in closed \ {f} THEN Unused
                       ELSE [file_table[g] EXCEPT !.count = @ - Held(t, {new}, g)
                                                     + (IF g = f THEN 1 ELSE 0)]]
                  /\ Iput(closed, at)
       /\ close_on_exec' = [close_on_exec EXCEPT ![t] = @ \ {new}]
  /\ UNCHANGED ringvars

(* sys_fcntl() with F_SETFD. *)
SetCloseOnExec(t) ==
  /\ Call(t)
  /\ \E fd \in Fd \ FreeFds(t) :
       close_on_exec' = [close_on_exec EXCEPT ![t] = @ \cup {fd}]
  /\ UNCHANGED <<filp, file_table, i_count, at, ringvars>>

(* do_execve() closes what is marked. *)
Execve(t) ==
  /\ Call(t)
  /\ close_on_exec[t] # {}
  /\ CloseAll(t, close_on_exec[t], at)
  /\ close_on_exec' = [close_on_exec EXCEPT ![t] = {}]
  /\ UNCHANGED ringvars

(* copy_process() *)
Fork(t) ==
  /\ Call(t)
  /\ \E u \in Task :
       /\ at[u].pc = "none"
       /\ filp' = [filp EXCEPT ![u] = filp[t]]
       /\ close_on_exec' = [close_on_exec EXCEPT ![u] = close_on_exec[t]]
       /\ at' = [at EXCEPT ![u] = At("user")]
  /\ file_table' = [f \in File |->
       [file_table[f] EXCEPT !.count = @ + Held(t, Fd, f)]]
  /\ UNCHANGED <<i_count, ringvars>>

(* do_exit(); the first task stays. *)
Exit(t) ==
  /\ Call(t)
  /\ t # First
  /\ CloseAll(t, Fd, [at EXCEPT ![t] = At("none")])
  /\ close_on_exec' = [close_on_exec EXCEPT ![t] = {}]
  /\ UNCHANGED ringvars

-----------------------------------------------------------------------------
(* Reading and writing the pipe. *)

PipeSize == (head + PageSize - tail) % PageSize

(* Mutant: a full pipe looks like an empty one. *)
RoomWhole == PageSize - PipeSize

(* One byte of the page stays free, to tell full from empty. *)
Room == PageSize - 1 - PipeSize

(* sys_read() and sys_write() of a pipe, with the mode tested. *)
Enter(t, pc, mode) ==
  /\ Call(t)
  /\ \E fd \in Fd \ FreeFds(t), count \in Counts :
       /\ file_table[filp[t][fd]].inode = "pipe"
       /\ file_table[filp[t][fd]].mode = mode
       /\ at' = [at EXCEPT ![t] = [At(pc) EXCEPT !.left = count]]
  /\ UNCHANGED <<filevars, ringvars>>

SysRead(t) == Enter(t, "read", "r")
SysWrite(t) == Enter(t, "write", "w")

(* The end of either call. *)
Return(t) ==
  /\ at' = Woken([at EXCEPT ![t] = At("user")])
  /\ UNCHANGED <<filevars, ringvars>>

(* Nothing to read, or no room: wake the others, and sleep if somebody is  *)
(* left at the other end, else return; a writer gets SIGPIPE then.         *)
WaitOrReturn(t, sleep) ==
  \/ /\ i_count["pipe"] # 2
     /\ Return(t)
  \/ /\ i_count["pipe"] = 2
     /\ at' = [Woken(at) EXCEPT ![t].pc = sleep]
     /\ UNCHANGED <<filevars, ringvars>>

(* What can be moved in one piece. *)
Chars(t, pos, size) == Min({PageSize - pos, at[t].left, size})

(* The copy of a piece happens at once, or faults and happens later.       *)
Piece(t, now, later, chars) ==
  /\ \/ at' = [at EXCEPT ![t].pc = now, ![t].left = @ - chars]
        /\ UNCHANGED slept
     \/ /\ at' = [at EXCEPT ![t].pc = later, ![t].left = @ - chars]
        /\ slept' = TRUE

Numbered(byte, i) == (byte + i) % Cardinality(Byte)

CopyOut(pos, chars, byte) ==
  inOrder' = (inOrder /\ \A i \in 0..(chars - 1) :
                            ring[pos + i] = Numbered(byte, i))

CopyIn(pos, chars, byte) ==
  ring' = [i \in DOMAIN ring |->
             IF i \in pos..(pos + chars - 1) THEN Numbered(byte, i - pos)
                                             ELSE ring[i]]

(* The history goes on with these numbers unless a copy sleeps. *)
Follow(nextSent, nextGot, copied) ==
  IF slept' THEN sent' = 0 /\ got' = 0 /\ ring' = NoBytes /\ UNCHANGED inOrder
            ELSE sent' = nextSent /\ got' = nextGot /\ copied

(* read_pipe(), one turn of its loops. *)
ReadPipe(t) ==
  /\ at[t].pc = "read"
  /\ \/ at[t].left = 0 /\ Return(t)
     \/ at[t].left > 0 /\ PipeSize = 0 /\ WaitOrReturn(t, "read_sleep")
     \/ /\ at[t].left > 0 /\ PipeSize > 0
        /\ LET chars == Chars(t, tail, PipeSize)
           IN /\ tail' = (tail + chars) % PageSize
              /\ Piece(t, "read", "copy_out", chars)
              /\ Follow(sent, Numbered(got, chars),
                        CopyOut(tail, chars, got) /\ UNCHANGED ring)
        /\ UNCHANGED <<filevars, head>>

(* write_pipe(), one turn of its loops. *)
WritePipe(t) ==
  /\ at[t].pc = "write"
  /\ \/ at[t].left = 0 /\ Return(t)
     \/ at[t].left > 0 /\ Room = 0 /\ WaitOrReturn(t, "write_sleep")
     \/ /\ at[t].left > 0 /\ Room > 0
        /\ LET chars == Chars(t, head, Room)
           IN /\ head' = (head + chars) % PageSize
              /\ Piece(t, "write", "copy_in", chars)
              /\ Follow(Numbered(sent, chars), got,
                        CopyIn(head, chars, sent) /\ UNCHANGED inOrder)
        /\ UNCHANGED <<filevars, tail>>

(* The page fault is over and the copy gets done, to or from what is there *)
(* by then; which bytes those are is no longer followed.                   *)
FaultDone(t) ==
  /\ Running = {}
  /\ \/ at[t].pc = "copy_out" /\ at' = [at EXCEPT ![t].pc = "read"]
     \/ at[t].pc = "copy_in" /\ at' = [at EXCEPT ![t].pc = "write"]
  /\ UNCHANGED <<filevars, ringvars>>

(* sleep_on() returns. *)
Resume(t) ==
  /\ Running = {}
  /\ \/ at[t].pc = "read_woken" /\ at' = [at EXCEPT ![t].pc = "read"]
     \/ at[t].pc = "write_woken" /\ at' = [at EXCEPT ![t].pc = "write"]
  /\ UNCHANGED <<filevars, ringvars>>

(* The rest of calls that have begun. *)
Kernel(t) == \/ ReadPipe(t) \/ WritePipe(t) \/ FaultDone(t) \/ Resume(t)
             \/ PipeInode(t) \/ Opened(t)

(* Calls that make descriptors or tasks, and those that do not. *)
Bounded(t) == \/ SysPipe(t) \/ SysOpen(t) \/ SysDup(t) \/ SysDup2(t)
              \/ SetCloseOnExec(t) \/ Fork(t)

Free(t) == SysClose(t) \/ Execve(t) \/ Exit(t) \/ SysRead(t) \/ SysWrite(t)

Next ==
  \E t \in Task : \/ Bounded(t) /\ calls < MaxCalls /\ calls' = calls + 1
                  \/ (Kernel(t) \/ Free(t)) /\ UNCHANGED calls

Spec == Init /\ [][Next]_vars

-----------------------------------------------------------------------------
(* The variables have their types; so a file never has a negative count.   *)
TypeOK ==
  /\ filp \in [Task -> [Fd -> File \cup {NoFile}]]
  /\ close_on_exec \in [Task -> SUBSET Fd]
  /\ \A f \in File : file_table[f].count \in Nat
  /\ i_count \in [{"pipe", "reg"} -> Nat]
  /\ head \in 0..(PageSize - 1) /\ tail \in 0..(PageSize - 1)
  /\ ring \in [0..(PageSize - 1) -> Byte]
  /\ Cardinality(Running) <= 1

(* Files that sys_open() or sys_pipe() has taken and not yet filled in. *)
Reserved ==
  UNION {{filp[t][at[t].fds[i]] : i \in DOMAIN at[t].fds} : t \in Task}

(* The count of a file is the number of descriptors that name it and that  *)
(* of an inode the number of files on it, through every dup, dup2, fork,   *)
(* exit, close-on-exec and half-done open: nothing is freed in use or kept *)
(* for ever.  i_count[pipe] = 2 thus means what read_pipe() takes it for,  *)
(* that both ends are open.  Only an open descriptor is marked to be       *)
(* closed by exec.                                                         *)
FilesCounted ==
  /\ TypeOK
  /\ \A f \in File :
       file_table[f].count = Cardinality({x \in Task \X Fd : filp[x[1]][x[2]] = f})
  /\ \A n \in {"pipe", "reg"} :
       i_count[n] = Cardinality({f \in File \ Reserved :
                      file_table[f].count > 0 /\ file_table[f].inode = n})
  /\ \A t \in Task : close_on_exec[t] \subseteq Fd \ FreeFds(t)

(* While no copy has slept, every byte comes out once and in the order in  *)
(* which the bytes went in, whatever the pieces and around the turn.       *)
BytesInOrder == inOrder

(* When no task is on its way in the pipe any more, a reader sleeps only   *)
(* on an empty pipe and a writer only on a full one, and only if the other *)
(* end is open: nobody sleeps on bytes that are there, with any number of  *)
(* readers and writers on one wait queue, nor after the last close.        *)
NobodyLeftAsleep ==
  (\A t \in Task : at[t].pc \in {"none", "user", "open", "pipe",
                                 "read_sleep", "write_sleep"})
    => \A t \in Task :
         /\ at[t].pc = "read_sleep" => PipeSize = 0 /\ i_count["pipe"] = 2
         /\ at[t].pc = "write_sleep" => Room = 0 /\ i_count["pipe"] = 2
=============================================================================
