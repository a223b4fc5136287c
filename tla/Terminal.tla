------------------------------ MODULE Terminal ------------------------------
(***************************************************************************)
(* A terminal on a serial line: kernel/chr_drv/tty_io.c, rs_io.s, serial.c *)
(* and the flushes of tty_ioctl.c.  The receive interrupt puts a character *)
(* in read_q and runs copy_to_cooked(), which edits the line in secondary  *)
(* and echoes into write_q; tty_read() takes from secondary, tty_write()   *)
(* fills write_q, and the transmit interrupt empties it.                   *)
(*                                                                         *)
(* Interrupts come between any two steps of a task unless it has said      *)
(* cli(), and run to their end.  Of write_q only CHARS is kept.            *)
(* Readers and writers sleep with interruptible_sleep_on() on proc_list of *)
(* secondary and write_q, see WaitQueue.  User memory does not fault.      *)
(* ONLCR and ECHOCTL are on, VMIN is 1 and VTIME 0, as tty.h sets them.    *)
(***************************************************************************)
EXTENDS WaitQueue, Integers, SequencesExt

CONSTANTS
  Size,          \* TTY_BUF_SIZE
  CanonLeft,     \* 20: with less room than this half a line may be read
  RoomWanted,    \* 128: a writer who found the queue full waits for so much
  Startup,       \* 256: so few characters left wake the writer
  Keys,          \* what is typed, characters
  Control,       \* the characters below 32: a newline, "nl", and others
  Modes,         \* what programs set c_lflag to, sets of flags
  INIT_C_CC,     \* what c_cc is at first
  Ccs,           \* what they set it to
  Texts,         \* what programs write, sequences of "x" and "nl"
  MaxCount,      \* they read up to so much
  MaxTyped,      \* bound on what is typed,
  MaxCalls       \* and on the system calls

ASSUME SizesAssumption ==
  /\ {Size, CanonLeft, RoomWanted, Startup, MaxCount, MaxTyped, MaxCalls}
       \subseteq Nat
  /\ RoomWanted + Startup < Size
  /\ Modes \subseteq SUBSET {"ICANON", "ECHO", "ISIG"}
  /\ Texts \subseteq Seq({"x", "nl"}) \ {<<>>}

(* The two pointers that are slept on, secondary.proc_list and             *)
(* write_q.proc_list.  TtyInit says it, so that what is shown of wait      *)
(* queues in general may be used here.                                     *)
ProcLists == Queue = {"secondary", "write_q"} /\ Interruptible = Queue

VARIABLES
  lflag,         \* termios.c_lflag
  cc,            \* termios.c_cc
  read_q,        \* received characters not yet looked at
  secondary,     \* lines edited and not yet read
  data,          \* secondary.data
  chars,         \* CHARS(write_q)
  stale,         \* characters echoed since a PUTCH under way read the head
  tx,            \* is the transmit interrupt enabled?
  cr_flag,       \* tty_write()'s static variable: the CR of this NL is out
  at,            \* where each task is
  signal,        \* the tasks with a signal
  typed, calls,  \* bounds: characters typed and calls made so far
  overtaken,     \* history: a reader has read past the head, see Getch;
  miscounted,    \* c_cc was changed to count other lines in secondary;
  deferred       \* who was sent back to sleep behind a newer sleeper

termios == <<lflag, cc, miscounted>>
inputs == <<read_q, secondary, data, overtaken>>
outputs == <<chars, stale, tx>>
vars == <<wqvars, termios, inputs, outputs, cr_flag, at, signal, typed, calls,
          deferred>>

(* Where a task is, and nr and buf of the call under way. *)
User == [pc |-> "user", nr |-> 0, buf |-> <<>>]

TtyInit ==
  /\ ProcLists /\ Init
  /\ lflag \in Modes /\ cc = INIT_C_CC /\ miscounted = FALSE
  /\ read_q = <<>> /\ secondary = <<>> /\ data = 0
  /\ chars = 0 /\ stale = 0 /\ tx = FALSE /\ cr_flag = FALSE
  /\ at = [t \in Proc |-> User]
  /\ signal = {} /\ typed = 0 /\ calls = 0 /\ overtaken = FALSE
  /\ deferred = {}

(* FULL and LEFT *)
Full(q) == Len(q) = Size - 1
Left(q) == Size - 1 - Len(q)
WriteLeft == Size - 1 - chars

(* sleep_if_empty() and sleep_if_full() look again after a sleep with      *)
(* interrupts off.                                                         *)
Masked == current # None /\ at[current].pc \in {"read_sleep", "write_sleep"}

(* Mutant: readers are woken only when there is a whole line. *)
WokenByLine == IF data' = 0 THEN {} ELSE {"secondary"}

WokenByInput == {"secondary"}

(* Mutant: nobody is told that the queue has run empty. *)
TellsUnlessEmpty == chars \in 2..Startup

TellsWriter == chars <= Startup \/ chars = 1

-----------------------------------------------------------------------------
(* copy_to_cooked().  The state s it works on has the fields of the        *)
(* terminal, and "rest", what stays in read_q because secondary is full.   *)

LineEnd(c) == c \in {"nl", cc["VEOF"]}

(* Two characters are shown for a control character and for a newline.     *)
Width(c) == IF c \in Control THEN 2 ELSE 1

(* Echo: so many PUTCHs, with no look at the room there is, and rs_write(),*)
(* which enables the transmit interrupt if the queue is not empty.  A full *)
(* queue that gets one more is empty.                                      *)
Echo(s, puts) ==
  IF "ECHO" \notin lflag THEN s
  ELSE LET more == (s.chars + puts) % Size
       IN [s EXCEPT !.chars = more, !.tx = @ \/ more > 0]

(* The characters after the last line end: what erase and kill may take.   *)
Unfinished(q) ==
  Cardinality({i \in DOMAIN q : \A j \in i..Len(q) : ~LineEnd(q[j])})

EraseLast(s) ==
  [Echo(s, Width(Last(s.secondary))) EXCEPT !.secondary = Front(@)]

EraseLine(s) ==
  LET n == Unfinished(s.secondary)
      upto[i \in 0..n] == IF i = 0 THEN s ELSE EraseLast(upto[i - 1])
  IN upto[n]

(* Mutant: an EOF is not counted. *)
CountedNewlines(s, c) == IF c = "nl" THEN s.data + 1 ELSE s.data

Counted(s, c) == IF LineEnd(c) THEN s.data + 1 ELSE s.data

Keep(s, c) ==
  LET shown == Echo([s EXCEPT !.data = Counted(s, c)], Width(c))
  IN [shown EXCEPT !.secondary = Append(@, c)]

Cook(s, c) ==
  IF Full(s.secondary) THEN [s EXCEPT !.rest = Append(@, c)]
  ELSE IF "ICANON" \in lflag /\ c = cc["VKILL"] THEN EraseLine(s)
  ELSE IF "ICANON" \in lflag /\ c = cc["VERASE"]
       THEN IF Unfinished(s.secondary) = 0 THEN s ELSE EraseLast(s)
  ELSE IF "ISIG" \in lflag /\ c = cc["VINTR"] THEN [s EXCEPT !.intr = TRUE]
  ELSE Keep(s, c)

(* What is in read_q, one character after the other. *)
Cooked(s, q) ==
  LET upto[i \in 0..Len(q)] == IF i = 0 THEN s ELSE Cook(upto[i - 1], q[i])
  IN upto[Len(q)]

(* read_char: the character is dropped if read_q is full; then             *)
(* do_tty_interrupt().  tty_intr() gives every task of the group a signal; *)
(* a task outside a call has dealt with its signal before it calls again.  *)
Receive(c) ==
  LET received == IF Full(read_q) THEN read_q ELSE Append(read_q, c)
      s == Cooked([secondary |-> secondary, data |-> data, chars |-> chars,
                   tx |-> tx, rest |-> <<>>, intr |-> FALSE], received)
  IN /\ ~overtaken /\ ~Masked
     /\ typed < MaxTyped
     /\ typed' = typed + 1
     /\ read_q' = s.rest /\ secondary' = s.secondary /\ data' = s.data
     /\ chars' = s.chars /\ tx' = s.tx
     /\ stale' = IF \E t \in Proc : at[t].pc = "inc"
                 THEN (stale + Size + s.chars - chars) % Size ELSE 0
     /\ signal' = IF s.intr THEN {t \in Proc : at[t].pc # "user"} ELSE signal
     /\ WakeUp(WokenByInput)
     /\ UNCHANGED <<termios, cr_flag, at, calls, overtaken, deferred>>

(* write_char: one character goes out; few left, or none, make the writer  *)
(* at the head of proc_list runnable, but leave him there; the interrupt   *)
(* is disabled with an empty queue.                                        *)
Transmit ==
  /\ tx /\ ~overtaken /\ ~Masked
  /\ chars' = IF chars = 0 THEN 0 ELSE chars - 1
  /\ tx' = (chars > 1)
  /\ state' = [t \in Proc |-> IF TellsWriter /\ head["write_q"] = t
                                THEN "running" ELSE state[t]]
  /\ UNCHANGED <<current, head, tmp, on, termios, inputs, stale, cr_flag, at,
                 signal, typed, calls, deferred>>

(* schedule() comes to a task in interruptible_sleep_on(): one with a      *)
(* signal it makes runnable first; one that meets a newer sleeper goes     *)
(* back to sleep, and nothing points to it any more.                       *)
Resume(t) ==
  /\ ~overtaken
  /\ \/ current = None /\ t \in signal /\ Signal(t) /\ UNCHANGED deferred
     \/ ResumeDefer(t) /\ deferred' = deferred \cup {t}
     \/ ResumeInterruptible(t) /\ deferred' = deferred \ {t}
  /\ UNCHANGED <<termios, inputs, outputs, cr_flag, at, signal, typed, calls>>

-----------------------------------------------------------------------------
(* tty_read() *)

Free(t) ==
  /\ at[t].pc = "user" /\ current = None /\ ~overtaken
  /\ calls < MaxCalls /\ calls' = calls + 1

(* The call begins and the task has the processor. *)
Call(t) == Free(t) /\ Dispatch(t)

Goto(t, pc) == at' = [at EXCEPT ![t].pc = pc]
GoOn(t, pc) == Goto(t, pc) /\ UNCHANGED <<wqvars, signal>>

(* The call ends; what signal there was is dealt with on the way out. *)
Return(t) ==
  at' = [at EXCEPT ![t] = User] /\ signal' = signal \ {t} /\ Yield(t)

SysRead(t) ==
  /\ Call(t)
  /\ \E nr \in 1..MaxCount :
       at' = [at EXCEPT ![t] = [User EXCEPT !.pc = "read", !.nr = nr]]
  /\ UNCHANGED <<termios, inputs, outputs, cr_flag, signal, typed, deferred>>

(* Half a line that is not to be read yet: neither condition to sleep nor  *)
(* to go on holds, and tty_read() goes round until more is typed.          *)
HalfLine ==
  "ICANON" \in lflag /\ data = 0 /\ Left(secondary) > CanonLeft

Spins(t) == /\ at[t].pc = "read" /\ t \notin signal
            /\ secondary # <<>> /\ HalfLine

Read(t) ==
  /\ current = t /\ at[t].pc \in {"read", "read_sleep"} /\ ~overtaken
  /\ \/ t \in signal /\ Return(t)
     \/ /\ t \notin signal /\ secondary = <<>>
        /\ SleepOn(t, "secondary")
        /\ Goto(t, "read_sleep") /\ UNCHANGED signal
     \/ /\ t \notin signal /\ secondary # <<>>
        /\ GoOn(t, IF HalfLine THEN "read" ELSE "getch")
  /\ UNCHANGED <<termios, inputs, outputs, cr_flag, typed, calls, deferred>>

LinesLeft(c) == IF LineEnd(c) THEN data - 1 ELSE data

(* GETCH, and the test of the loop.  If the characters were erased between *)
(* the test and this step, tail passes head and the queue is full of what  *)
(* it held before: the terminal is not followed any further.               *)
Getch(t) ==
  /\ at[t].pc = "getch" /\ ~overtaken
  /\ IF secondary = <<>>
     THEN /\ overtaken' = TRUE
          /\ UNCHANGED <<wqvars, read_q, secondary, data, at, signal>>
     ELSE LET c == Head(secondary)
          IN /\ secondary' = Tail(secondary)
             /\ data' = LinesLeft(c)
             /\ IF \/ c = cc["VEOF"] /\ "ICANON" \in lflag
                   \/ at[t].nr = 1 \/ Len(secondary) = 1
                THEN Return(t)
                ELSE /\ at' = [at EXCEPT ![t].nr = @ - 1]
                     /\ UNCHANGED <<wqvars, signal>>
             /\ UNCHANGED <<read_q, overtaken>>
  /\ UNCHANGED <<termios, outputs, cr_flag, typed, calls, deferred>>

-----------------------------------------------------------------------------
(* tty_write() *)

SysWrite(t) ==
  /\ Call(t)
  /\ \E text \in Texts :
       at' = [at EXCEPT ![t] = [User EXCEPT !.pc = "write", !.buf = text]]
  /\ UNCHANGED <<termios, inputs, outputs, cr_flag, signal, typed, deferred>>

(* sleep_if_full(): with any room it does nothing, but a writer who has    *)
(* found the queue full waits for RoomWanted.                              *)
SleepIfFull(t) ==
  /\ current = t /\ ~overtaken
  /\ \/ /\ at[t].pc = "write"
        /\ IF WriteLeft = 0 THEN GoOn(t, "full")
           ELSE IF t \in signal THEN Return(t)
           ELSE GoOn(t, "fill")
     \/ /\ at[t].pc \in {"full", "write_sleep"}
        /\ IF t \in signal THEN Return(t)
           ELSE IF WriteLeft >= RoomWanted THEN GoOn(t, "fill")
           ELSE /\ SleepOn(t, "write_q")
                /\ Goto(t, "write_sleep") /\ UNCHANGED signal
  /\ UNCHANGED <<termios, inputs, outputs, cr_flag, typed, calls, deferred>>

(* The inner loop of tty_write(): its test, ...                            *)
Fill(t) ==
  /\ at[t].pc = "fill" /\ ~overtaken
  /\ \/ /\ at[t].buf # <<>> /\ WriteLeft > 0
        /\ GoOn(t, "putch")
        /\ UNCHANGED outputs
     \/ /\ at[t].buf = <<>> \/ WriteLeft = 0
        /\ tx' = (tx \/ chars > 0)                           \* rs_write()
        /\ IF at[t].buf = <<>> THEN Return(t)
           ELSE Goto(t, "write") /\ Yield(t) /\ UNCHANGED signal
        /\ UNCHANGED <<chars, stale>>
  /\ UNCHANGED <<termios, inputs, cr_flag, typed, calls, deferred>>

(* ... schedule(), if there is more to write, ...                          *)
Rescheduled(t) ==
  /\ at[t].pc = "write" /\ ~overtaken
  /\ Dispatch(t)
  /\ UNCHANGED <<termios, inputs, outputs, cr_flag, at, signal, typed, calls,
                 deferred>>

(* ... what to put, and PUTCH reads the head, ...                          *)
Putch(t) ==
  LET newline == Head(at[t].buf) = "nl" /\ ~cr_flag
  IN /\ at[t].pc = "putch" /\ ~overtaken
     /\ cr_flag' = newline
     /\ at' = [at EXCEPT ![t].pc = "inc", ![t].buf = IF newline THEN @ ELSE Tail(@)]
     /\ UNCHANGED <<wqvars, termios, inputs, outputs, signal, typed, calls,
                    deferred>>

(* ... and PUTCH sets it one further, over what was echoed meanwhile.      *)
Inc(t) ==
  /\ at[t].pc = "inc" /\ ~overtaken
  /\ chars' = (chars + Size + 1 - stale) % Size
  /\ stale' = 0
  /\ GoOn(t, "fill")
  /\ UNCHANGED <<termios, inputs, tx, cr_flag, typed, calls, deferred>>

-----------------------------------------------------------------------------
(* tty_ioctl() *)

Flush(t) ==
  /\ Free(t)
  /\ read_q' \in {read_q, <<>>} /\ chars' \in {chars, 0}
  /\ UNCHANGED <<wqvars, termios, secondary, data, stale, tx, cr_flag, at,
                 signal, typed, overtaken, deferred>>

(* set_termios() and set_termio() copy c_lflag, ...                        *)
SetTermios(t) ==
  /\ Call(t)
  /\ lflag' \in Modes
  /\ read_q' \in {read_q, <<>>}      \* TCSETSF and TCSETAF flush
  /\ Goto(t, "termios")
  /\ UNCHANGED <<cc, miscounted, secondary, data, outputs, cr_flag, signal,
                 typed, overtaken, deferred>>

(* The lines and EOFs in a queue. *)
Lines(q) == Cardinality({i \in DOMAIN q : LineEnd(q[i])})

(* ... and then c_cc.                                                      *)
SetCc(t) ==
  /\ at[t].pc = "termios" /\ ~overtaken
  /\ cc' \in Ccs
  /\ UNCHANGED <<lflag, inputs, outputs, cr_flag, typed, calls, deferred>>
  /\ miscounted' = (miscounted \/ Lines(secondary)' # Lines(secondary))
  /\ Return(t)

Step(t) == \/ Read(t) \/ Getch(t)
           \/ SleepIfFull(t) \/ Fill(t) \/ Rescheduled(t) \/ Putch(t) \/ Inc(t)
           \/ SetCc(t)

TtyNext ==
  \/ \E c \in Keys : Receive(c)
  \/ Transmit
  \/ \E t \in Proc : SysRead(t) \/ SysWrite(t) \/ Flush(t) \/ SetTermios(t)
                     \/ Resume(t) \/ Step(t)

TtySpec == TtyInit /\ [][TtyNext]_vars

(* The line transmits, once cli() no longer holds its interrupt up, and    *)
(* schedule() does not pass over a task for ever.                          *)
TtyFairSpec ==
  TtySpec /\ SF_vars(Transmit) /\ \A t \in Proc : SF_vars(Resume(t) \/ Step(t))

-----------------------------------------------------------------------------
(* The queues hold what fits in them, and whoever is in the middle of a    *)
(* call has the processor or sleeps where the call says it does.           *)
TtyTypeOK ==
  /\ TypeOK
  /\ lflag \in Modes /\ cc \in {INIT_C_CC} \cup Ccs /\ data \in Int
  /\ read_q \in Seq(Keys) /\ secondary \in Seq(Keys)
  /\ Len(read_q) < Size /\ Len(secondary) < Size
  /\ chars \in 0..Size - 1 /\ stale \in 0..Size - 1
  /\ {tx, cr_flag, overtaken, miscounted} \subseteq BOOLEAN
  /\ signal \subseteq Proc /\ deferred \subseteq Proc
  /\ \A t \in Proc :
       /\ on[t] = "secondary" => at[t].pc = "read_sleep"
       /\ on[t] = "write_q" => at[t].pc = "write_sleep"
       /\ on[t] = None => at[t].pc \in {"user", "write"} \/ current = t

(* secondary.data, which decides whether a reader may go on, is counted up *)
(* by the interrupt and down by the reader: it is the number of lines and  *)
(* EOFs in the queue, whatever is erased, killed or flushed and whichever  *)
(* mode each character was typed and read in.  It is not where VEOF was    *)
(* changed under characters that are EOFs by the one c_cc and not by the   *)
(* other, nor after a reader has read past the head.                       *)
LinesCounted ==
  /\ TtyTypeOK
  /\ overtaken \/ miscounted \/ data = Lines(secondary)

(* Who sleeps can be told: the reader at the head of his queue sleeps only *)
(* while there is nothing to read, and the writer at the head of his only  *)
(* while the line has an interrupt to come, though echoes fill the queue   *)
(* and flushes empty it behind his back; and every other sleeper is in the *)
(* tmp of one in front of him.  That is not so of a task that was woken    *)
(* and met a newer sleeper at the head: interruptible_sleep_on() sent it   *)
(* back to sleep.                                                          *)
NoSleeperForgotten ==
  /\ head["secondary"] # None => secondary = <<>>
  /\ \A t \in Proc : head["write_q"] = t /\ Asleep(t) => tx
  /\ \A t \in Proc : Asleep(t) => Pointed(t) \/ t \in deferred

Writing == {"write", "full", "write_sleep", "fill", "putch", "inc"}

(* tty_write() ends, unless a newer writer sends this one back to sleep,   *)
(* or a reader goes round in the kernel for the rest of an unfinished      *)
(* line: then nobody else runs.                                            *)
WritesEnd ==
  \A t \in Proc :
    at[t].pc \in Writing ~>
      \/ at[t].pc = "user" \/ overtaken \/ t \in deferred
      \/ \E r \in Proc : Spins(r)
=============================================================================
