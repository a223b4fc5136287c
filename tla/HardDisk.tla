------------------------------ MODULE HardDisk ------------------------------
(***************************************************************************)
(* The hard disk driver, kernel/blk_drv/hd.c, over the request queue of    *)
(* Elevator.  add_request() starts it when the queue was empty; from then  *)
(* on each interrupt runs the handler left in do_hd, which takes the next  *)
(* sector, retries, or ends CURRENT, and starts the next command.          *)
(* A block is two sectors; CURRENT remembers how far it has come (sector,  *)
(* buffer, nr_sectors: "off" here), and a retry goes on from there.        *)
(*                                                                         *)
(* The drive: a command ends with an interrupt, with or without an error,  *)
(* after each sector of a transfer and once for the others.  It is ready   *)
(* for a command whenever none is under way (hd_out() panics otherwise).   *)
(* A write may never ask for its data; then it does not interrupt either.  *)
(***************************************************************************)
EXTENDS Elevator

CONSTANTS
  MaxErrors,   \* MAX_ERRORS
  NrSects      \* hd[minor].nr_sects

ASSUME MaxErrorsAssumption == MaxErrors \in Nat \ {0}
ASSUME NrSectsAssumption == NrSects \in [{DevOf[s] : s \in Sector} -> Nat]

VARIABLES
  at,            \* "repeat": in do_hd_request() with its loop to turn again
  do_hd,         \* the handler of the next interrupt
  reset,
  recalibrate,
  cur,           \* CURRENT's off (sectors done) and errors
  drive,         \* the command under way, its next sector and what is left,
                 \* and the part of the buffer it was given to write
  moved,         \* history: <<sector, part>> moved for CURRENT so far
  uptodate       \* the argument of the last end_request()

hdVars == <<at, do_hd, reset, recalibrate, cur, drive, moved,
            uptodate>>
vars == <<queue, at, do_hd, reset, recalibrate, cur, drive, moved,
          uptodate>>

SectorsPerBlock == 2
Fresh == [off |-> 0, errors |-> 0]
NoCommand == [cmd |-> "none", sector |-> 0, left |-> 0, data |-> 0]

(* CURRENT->sector and CURRENT->nr_sectors. *)
CurrentSector == SectorsPerBlock * Head(queue).sector + cur.off
Left == SectorsPerBlock - cur.off

(* The test of do_hd_request(), made again at each retry. *)
OutOfRange == CurrentSector + 2 > NrSects[Head(queue).dev]

HdInit ==
  /\ Init
  /\ at = "idle" /\ do_hd = "none"
  /\ reset = TRUE /\ recalibrate = TRUE
  /\ cur = Fresh /\ drive = NoCommand
  /\ moved = {} /\ uptodate = TRUE

(* end_request(ok). *)
HdEndRequest(ok) == EndRequest /\ cur' = Fresh /\ uptodate' = ok

(* Mutant: the error is not counted. *)
BadRwIntrUncounted ==
  /\ UNCHANGED <<queue, uptodate, cur>>
  /\ reset' = (reset \/ cur.errors > MaxErrors \div 2)

(* bad_rw_intr().  After end_request() the second test reads the errors of *)
(* the next request, which has none yet; without one it reads address 8,   *)
(* the entry pg_dir[2], which boot/head.s set to pg2+7: reset is set.      *)
BadRwIntr ==
  LET errors == cur.errors + 1
  IN \/ /\ errors >= MaxErrors
        /\ HdEndRequest(FALSE)
        /\ reset' = (reset \/ Len(queue) = 1)
     \/ /\ errors < MaxErrors
        /\ cur' = [cur EXCEPT !.errors = errors]
        /\ reset' = (reset \/ errors > MaxErrors \div 2)
        /\ UNCHANGED <<queue, uptodate>>

(* hd_out() *)
HdOut(cmd, sector, left, data, handler) ==
  /\ do_hd' = handler
  /\ drive' = [cmd |-> cmd, sector |-> sector, left |-> left, data |-> data]

-----------------------------------------------------------------------------
(* add_request() by a task: an empty queue starts the driver. *)
HdAdd ==
  /\ at = "idle"
  /\ Add
  /\ at' = IF queue = <<>> THEN "repeat" ELSE "idle"
  /\ UNCHANGED <<do_hd, reset, recalibrate, cur, drive, moved,
                 uptodate>>

(* do_hd_request(), one turn of its loop; the interrupt handlers that call *)
(* it let nothing else happen in between.                                  *)
AtRepeat ==
  /\ at = "repeat"
  /\ moved' = IF cur.off = 0 THEN {} ELSE moved

NothingToDo ==
  /\ AtRepeat
  /\ queue = <<>>
  /\ at' = "idle"
  /\ UNCHANGED <<queue, do_hd, reset, recalibrate, cur, drive, uptodate>>

FailOutOfRange ==
  /\ AtRepeat
  /\ queue # <<>> /\ OutOfRange
  /\ HdEndRequest(FALSE)
  /\ UNCHANGED <<at, do_hd, reset, recalibrate, drive>>

StartReset ==
  /\ AtRepeat
  /\ queue # <<>> /\ ~OutOfRange
  /\ reset
  /\ reset' = FALSE /\ recalibrate' = TRUE
  /\ HdOut("specify", 0, 0, 0, "recal_intr")
  /\ at' = "idle"
  /\ UNCHANGED <<queue, cur, uptodate>>

StartRecalibrate ==
  /\ AtRepeat
  /\ queue # <<>> /\ ~OutOfRange
  /\ ~reset /\ recalibrate
  /\ recalibrate' = FALSE
  /\ HdOut("restore", 0, 0, 0, "recal_intr")
  /\ at' = "idle"
  /\ UNCHANGED <<queue, reset, cur, uptodate>>

StartTransfer ==
  /\ AtRepeat
  /\ queue # <<>> /\ ~OutOfRange
  /\ ~reset /\ ~recalibrate
  /\ \/ /\ Head(queue).cmd = READ
        /\ HdOut("read", CurrentSector, Left, 0, "read_intr")
     \/ /\ Head(queue).cmd = WRITE       \* DRQ came, the data is handed over
        /\ HdOut("write", CurrentSector, Left, cur.off, "write_intr")
  /\ at' = "idle"
  /\ UNCHANGED <<queue, reset, recalibrate, cur, uptodate>>

(* No DRQ in 3000 looks: an error, and round again. *)
WriteTimesOut ==
  /\ AtRepeat
  /\ queue # <<>> /\ ~OutOfRange
  /\ ~reset /\ ~recalibrate
  /\ Head(queue).cmd = WRITE
  /\ do_hd' = "write_intr" /\ drive' = NoCommand
  /\ BadRwIntr
  /\ UNCHANGED <<at, recalibrate>>

DoHdRequest == \/ NothingToDo \/ FailOutOfRange \/ StartReset
               \/ StartRecalibrate \/ StartTransfer \/ WriteTimesOut

-----------------------------------------------------------------------------
(* hd_interrupt: the handler is taken out of do_hd and called. *)
Interrupt(handler) ==
  /\ at = "idle"
  /\ drive.cmd # "none"
  /\ do_hd = handler

(* win_result() reports an error: the command is over; count it, go on. *)
Failed(handler) ==
  /\ Interrupt(handler)
  /\ do_hd' = "none" /\ drive' = NoCommand
  /\ BadRwIntr
  /\ at' = "repeat"
  /\ UNCHANGED <<recalibrate, moved>>

(* The command with one sector less to go. *)
AfterSector(data) ==
  IF drive.left = 1 THEN NoCommand
  ELSE [drive EXCEPT !.sector = @ + 1, !.left = @ - 1, !.data = data]

(* Mutant: the handler is not set again for the second sector. *)
MoreToComeDisarmed(handler, errors) ==
  /\ Left > 1
  /\ cur' = [off |-> cur.off + 1, errors |-> errors]
  /\ do_hd' = "none"
  /\ UNCHANGED <<queue, at, uptodate>>

(* --CURRENT->nr_sectors, and the handler is set again if that leaves any. *)
MoreToCome(handler, errors) ==
  /\ Left > 1
  /\ cur' = [off |-> cur.off + 1, errors |-> errors]
  /\ do_hd' = handler
  /\ UNCHANGED <<queue, at, uptodate>>

AllDone ==
  /\ Left = 1
  /\ HdEndRequest(TRUE)
  /\ do_hd' = "none"
  /\ at' = "repeat"

ReadIntr ==
  /\ Interrupt("read_intr")
  /\ moved' = moved \cup {<<drive.sector, cur.off>>}
  /\ MoreToCome("read_intr", 0) \/ AllDone
  /\ drive' = AfterSector(0)
  /\ UNCHANGED <<reset, recalibrate>>

(* Mutant: the part just written goes out again as the next sector. *)
NextDataSame == cur.off

(* The part handed over after a sector has been written. *)
NextData == cur.off + 1

(* write_intr() leaves CURRENT->errors as it is, unlike read_intr(). *)
WriteIntr ==
  /\ Interrupt("write_intr")
  /\ moved' = moved \cup {<<drive.sector, drive.data>>}
  /\ MoreToCome("write_intr", cur.errors) \/ AllDone
  /\ drive' = AfterSector(NextData)
  /\ UNCHANGED <<reset, recalibrate>>

RecalIntr ==
  /\ Interrupt("recal_intr")
  /\ do_hd' = "none" /\ drive' = NoCommand
  /\ at' = "repeat"
  /\ UNCHANGED <<queue, reset, recalibrate, cur, moved, uptodate>>

HdInterrupt ==
  \/ \E handler \in {"read_intr", "write_intr", "recal_intr"} : Failed(handler)
  \/ ReadIntr \/ WriteIntr \/ RecalIntr

HdNext == HdAdd \/ DoHdRequest \/ HdInterrupt

HdSpec == HdInit /\ [][HdNext]_vars

(* The drive interrupts for every command, and the loop runs on. *)
HdFairSpec == HdSpec /\ WF_vars(HdInterrupt) /\ WF_vars(DoHdRequest)

-----------------------------------------------------------------------------
(* The variables have their types, whatever the drive does. *)
HdTypeOK ==
  /\ TypeOK
  /\ at \in {"idle", "repeat"}
  /\ do_hd \in {"none", "read_intr", "write_intr", "recal_intr"}
  /\ {reset, recalibrate, uptodate} \subseteq BOOLEAN
  /\ cur.off \in 0..(SectorsPerBlock - 1) /\ cur.errors \in 0..(MaxErrors - 1)
  /\ drive.cmd \in {"none", "read", "write", "specify", "restore"}

(* While requests wait the drive has a command whose interrupt will find   *)
(* its handler, and a transfer is where CURRENT is: neither an error nor   *)
(* the jump from one request to the next leaves the driver asleep, with a  *)
(* handler that does not belong to the command, or out of step.            *)
DriveAtWork ==
  /\ HdTypeOK
  /\ at = "idle" =>
    \/ queue = <<>> /\ drive = NoCommand
    \/ /\ queue # <<>>
       /\ do_hd = CASE drive.cmd = "read" -> "read_intr"
                    [] drive.cmd = "write" -> "write_intr"
                    [] drive.cmd \in {"specify", "restore"} -> "recal_intr"
                    [] OTHER -> "lost"
       /\ drive.cmd \in {"read", "write"} =>
            /\ (drive.cmd = "write") <=> (Head(queue).cmd = WRITE)
            /\ drive.sector = CurrentSector /\ drive.left = Left
            /\ ~reset /\ ~recalibrate

(* A request ends well only when both sectors of its block were moved, to  *)
(* or from the right part of the buffer, through all retries.              *)
DoneIsMoved ==
  [][Len(queue') < Len(queue) /\ uptodate' =>
       moved' = {<<SectorsPerBlock * Head(queue).sector + part, part>> :
                   part \in 0..(SectorsPerBlock - 1)}]_vars

(* Every request is taken off the list, whatever errors and time-outs the  *)
(* drive answers with and whatever keeps arriving.                         *)
RequestsEnd ==
  \A s \in Sector :
    (\E i \in DOMAIN queue : queue[i].sector = s)
      ~> ~(\E i \in DOMAIN queue : queue[i].sector = s)
=============================================================================
