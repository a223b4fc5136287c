------------------------------- MODULE Floppy -------------------------------
(***************************************************************************)
(* The floppy driver, kernel/blk_drv/floppy.c, with the motors and timers  *)
(* of kernel/sched.c it is built on, and the tasks that ask in             *)
(* floppy_change() whether a diskette was changed.                         *)
(*                                                                         *)
(* The driver is a chain of handlers: do_fd_request() turns the motor on   *)
(* and sets a timer; floppy_on_interrupt() selects the drive, and after a  *)
(* second timer transfer() seeks; seek_interrupt() starts the transfer and *)
(* rw_interrupt() ends the request and looks for the next.  An error sends *)
(* the chain through reset or recalibration.  A handler and all it calls   *)
(* are one action.  There is one controller: what it is told last is in    *)
(* do_floppy, also when an earlier command has yet to interrupt.           *)
(***************************************************************************)
EXTENDS Naturals, Sequences, FiniteSetsExt, SequencesExt

CONSTANTS
  Drive,
  Caller,       \* tasks that call floppy_change()
  Beyond,       \* tracks from this one on are not on the diskette
  MaxErrors,    \* MAX_ERRORS
  MotorUp,      \* HZ/2: ticks until a motor has its speed
  MotorOff,     \* 3*HZ: ticks a motor runs on
  CommandTicks, \* a command of the controller takes at most so many
  MaxFaults,    \* bound on its time-outs, on recalibrations that fail and
                \* on interrupts nobody expects,
  MaxRequests,  \* on the requests,
  MaxChanges    \* and on the calls of floppy_change()

ASSUME FloppyAssumption ==
  /\ IsFiniteSet(Drive) /\ Drive \subseteq Nat /\ 0 \in Drive
  /\ {Beyond, MaxErrors, MotorUp, MotorOff, CommandTicks, MaxFaults,
      MaxRequests, MaxChanges} \subseteq Nat
  /\ MotorUp > 2 /\ Beyond > 0

(* A motor that is left alone runs for a seek, a transfer and the timer    *)
(* between: with 3*HZ, if the controller takes less than a second and a    *)
(* half for a command.                                                     *)
ASSUME MotorLasts == MotorOff >= 2 * CommandTicks + 2

VARIABLES
  d,          \* the driver and the drives, see FdInit
  ticking,    \* do_timer() is under way
  faults, requests, changes     \* counts, see the bounds

fdVars == <<d, ticking, faults, requests, changes>>

Long == MotorOff + 1     \* 10000 ticks, longer than all there is to do

(* The sets of tasks at a place in floppy_change(). *)
Awakened(pc, from, to) == [t \in Caller |-> IF pc[t] = from THEN to ELSE pc[t]]

Odd(r, what) == [r EXCEPT !.odd = @ \cup {what}]

-----------------------------------------------------------------------------
(* Timers.  timer_list is a list of differences; "due" is history: how     *)
(* many ticks each timer still wanted to wait.                             *)

TimeUpTo(timers, i) ==
  LET sum[k \in 0..Len(timers)] ==
        IF k = 0 THEN 0 ELSE sum[k - 1] + timers[k].n
  IN sum[i]

(* add_timer() with n > 0, which leaves the timer behind as it was. *)
AddTimer(r, n, fn) ==
  LET i == Cardinality({k \in DOMAIN r.timers : TimeUpTo(r.timers, k) < n})
      new == [n |-> n - TimeUpTo(r.timers, i), fn |-> fn, due |-> n]
  IN [r EXCEPT !.timers = InsertAt(@, i + 1, new)]

(* A tick.  Mutant: every timer is counted down, not the first alone. *)
CountDownAll(timers) ==
  [i \in DOMAIN timers |->
     [timers[i] EXCEPT !.n = IF @ > 0 THEN @ - 1 ELSE 0,
                       !.due = IF @ > 0 THEN @ - 1 ELSE 0]]

CountDown(timers) ==
  [i \in DOMAIN timers |->
     [timers[i] EXCEPT !.n = IF i = 1 THEN @ - 1 ELSE @,
                       !.due = IF @ > 0 THEN @ - 1 ELSE 0]]

-----------------------------------------------------------------------------
(* Motors and selection: current_DOR is r.motors and r.dor. *)

(* ticks_to_floppy_on(): mon_timer[nr] is what it returns. *)
TicksToOn(r, nr) ==
  LET dor == IF r.selected THEN r.dor ELSE nr
      mon == IF nr \notin r.motors THEN MotorUp
             ELSE IF dor # r.dor /\ r.mon[nr] < 2 THEN 2
             ELSE r.mon[nr]
  IN [r EXCEPT !.moff[nr] = Long, !.mon[nr] = mon, !.dor = dor,
               !.motors = @ \cup {nr}]

Off(r, nr) == [r EXCEPT !.moff[nr] = MotorOff]     \* floppy_off()

(* floppy_deselect() *)
Deselect(r) ==
  [r EXCEPT !.selected = FALSE, !.pc = Awakened(@, "select", "test")]

(* end_request() *)
EndRequest(r) ==
  [Off(r, Head(r.queue).dev) EXCEPT !.queue = Tail(@)]

-----------------------------------------------------------------------------
(* The handlers: each has the set of states it may leave behind.           *)

(* The controller is told what to do, and will interrupt. *)
Command(r, kind) ==
  [r EXCEPT !.do_floppy = kind, !.age = 0,
            !.ints = Append(@, [kind |-> kind, drive |-> r.drive,
                                track |-> r.seek_track])]

(* CURRENT is looked into when there is none. *)
NoCurrent(r) == [r EXCEPT !.lost = TRUE]

ResetFloppy(r) ==
  Command([r EXCEPT !.reset = FALSE, !.recalibrate = TRUE, !.seek = FALSE],
          "reset")

(* output_byte() gives up: whoever sees it calls do_fd_request(), which    *)
(* resets the controller.                                                  *)
Refused(r) ==
  IF faults < MaxFaults THEN {ResetFloppy([r EXCEPT !.fault = TRUE])} ELSE {}

RecalibrateFloppy(r) ==
  LET s == [r EXCEPT !.recalibrate = FALSE, !.current_track = 0]
  IN {Command(s, "recal")} \cup Refused(s)

SetupRw(r) ==
  IF r.queue = <<>> THEN {NoCurrent(r)}
  ELSE {Command(r, "rw")} \cup Refused(r)

Transfer(r) ==
  IF r.reset THEN {ResetFloppy(r)}
  ELSE Refused(r) \cup (IF r.seek THEN {Command(r, "seek")} ELSE SetupRw(r))

FloppyOn(r) ==
  IF r.drive # r.dor
  THEN {AddTimer([r EXCEPT !.selected = TRUE, !.dor = r.drive], 2, "transfer")}
  ELSE Transfer([r EXCEPT !.selected = TRUE])

(* The requests that are beyond the end of the diskette fail at once; they *)
(* leave their drive in current_drive and, in seek, that it was another.   *)
SkipBeyond(r) ==
  LET fit == {i \in DOMAIN r.queue : r.queue[i].track < Beyond}
      k == IF fit = {} THEN Len(r.queue) ELSE Min(fit) - 1
      devs == [i \in 0..k |-> IF i = 0 THEN r.drive ELSE r.queue[i].dev]
      s == [r EXCEPT !.queue = SubSeq(@, k + 1, Len(@)), !.drive = devs[k],
                     !.seek = \E i \in 1..k : devs[i] # devs[i - 1],
                     !.moff = [n \in Drive |->
                                 IF \E i \in 1..k : devs[i] = n
                                 THEN MotorOff ELSE @[n]]]
  IN IF k = 0 THEN s ELSE Odd(s, "beyond")

(* Where the next request is, and whether the heads are there.  Mutant:    *)
(* another drive is not sought for.                                        *)
SetUpOnTrack(r) ==
  LET q == Head(r.queue)
  IN [r EXCEPT !.drive = q.dev, !.seek_track = q.track,
               !.seek = q.track # r.current_track]

SetUp(r) ==
  LET q == Head(r.queue)
  IN [r EXCEPT !.drive = q.dev, !.seek_track = q.track,
               !.seek = @ \/ r.drive # q.dev \/ q.track # r.current_track]

DoFdRequest(r) ==
  LET s == [r EXCEPT !.seek = FALSE]
      next == SkipBeyond(s)
      up == TicksToOn(SetUp(next), Head(next.queue).dev)
  IN IF s.reset THEN {ResetFloppy(s)}
     ELSE IF s.recalibrate THEN RecalibrateFloppy(s)
     ELSE IF next.queue = <<>> THEN {next}
     ELSE IF up.mon[up.drive] = 0 THEN FloppyOn(up)
     ELSE {AddTimer(up, up.mon[up.drive], "on")}

(* bad_flp_intr().  After end_request() the last test is of the errors of  *)
(* the next request; without one it reads an entry of the page directory,  *)
(* which is large.  Mutant: an error is not counted.                       *)
BadUncounted(r) ==
  IF r.queue = <<>> THEN {NoCurrent(r)}
  ELSE DoFdRequest([r EXCEPT !.recalibrate = TRUE])

Bad(r) ==
  LET s == [r EXCEPT !.queue[1].errors = @ + 1]
      next == IF s.queue[1].errors > MaxErrors THEN EndRequest(Deselect(s)) ELSE s
      again == next.queue = <<>> \/ next.queue[1].errors > MaxErrors \div 2
  IN IF r.queue = <<>> THEN {NoCurrent(r)}
     ELSE DoFdRequest([next EXCEPT !.reset = @ \/ again,
                                   !.recalibrate = @ \/ ~again])

(* An interrupt handler asks the controller for its results; output_byte() *)
(* and result() may time out, which is an error and calls for a reset.     *)
Answered(r) ==
  {r} \cup (IF faults < MaxFaults
            THEN {[r EXCEPT !.reset = TRUE, !.fault = TRUE]} ELSE {})

(* rw_interrupt(): the transfer is done, or the diskette write protected,  *)
(* which after a time-out is said by an earlier result; or there was an    *)
(* error.                                                                  *)
RwDone(r, c) ==
  (IF c.kind # "rw" /\ ~r.reset THEN {}
   ELSE IF r.queue = <<>> THEN {NoCurrent(r)}
   ELSE DoFdRequest(EndRequest(Deselect(r))))
  \cup Bad(r)

RwInterrupt(r, c) == UNION {RwDone(s, c) : s \in Answered(r)}

(* seek_interrupt(): the heads are where they should be, or not. *)
SeekDone(r, c) ==
  (IF /\ ~r.reset /\ c.kind \in {"seek", "recal"}
      /\ r.heads[c.drive] = r.seek_track
   THEN SetupRw([r EXCEPT !.current_track = r.seek_track]) ELSE {})
  \cup Bad(r)

SeekInterrupt(r, c) == UNION {SeekDone(s, c) : s \in Answered(r)}

ResetInterrupt(r) == UNION {DoFdRequest(s) : s \in Answered(r)}

RecalInterrupt(r, ok) ==
  DoFdRequest(IF ok THEN [r EXCEPT !.recalibrate = FALSE]
                    ELSE [r EXCEPT !.reset = TRUE, !.fault = TRUE])

Unexpected(r) == {[r EXCEPT !.reset = TRUE], [r EXCEPT !.recalibrate = TRUE]}

-----------------------------------------------------------------------------
(* add_request() puts a request somewhere behind the first; the first      *)
(* starts the driver, whatever the controller is doing.                    *)

Settle(S) ==
  \E r \in S : /\ d' = [r EXCEPT !.fault = FALSE]
               /\ faults' = IF r.fault THEN faults + 1 ELSE faults

Still == ~ticking /\ ~d.lost

AddRequest(dev, track) ==
  LET q == [dev |-> dev, track |-> track, errors |-> 0]
      one == [d EXCEPT !.queue = <<q>>]
  IN /\ Still /\ requests < MaxRequests
     /\ requests' = requests + 1
     /\ \/ /\ d.queue = <<>>
           /\ Settle(DoFdRequest(IF d.ints = <<>> THEN one ELSE Odd(one, "overtaken")))
        \/ \E i \in 2..(Len(d.queue) + 1) :
             Settle({[d EXCEPT !.queue = InsertAt(@, i, q)]})
     /\ UNCHANGED <<ticking, changes>>

(* _floppy_interrupt takes the handler out of do_floppy and calls it.  A   *)
(* seek or recalibration has moved the heads, or not.                      *)
Moved(c) ==
  CASE c.kind = "seek" -> {d.heads[c.drive], c.track}
    [] c.kind = "recal" -> {d.heads[c.drive], 0}
    [] OTHER -> {d.heads[c.drive]}

Interrupt ==
  LET c == Head(d.ints)
  IN /\ Still /\ d.ints # <<>>
     /\ \E track \in Moved(c) :
          LET r == [d EXCEPT !.ints = Tail(@), !.do_floppy = "none", !.age = 0,
                             !.heads[c.drive] = track]
          IN \/ d.do_floppy = "rw" /\ Settle(RwInterrupt(r, c))
             \/ d.do_floppy = "seek" /\ Settle(SeekInterrupt(r, c))
             \/ d.do_floppy = "recal" /\ track = 0 /\ Settle(RecalInterrupt(r, TRUE))
             \/ /\ d.do_floppy = "recal" /\ faults < MaxFaults
                /\ Settle(RecalInterrupt(r, FALSE))
             \/ d.do_floppy = "reset" /\ Settle(ResetInterrupt(r))
             \/ d.do_floppy = "none" /\ Settle(Unexpected(r))
     /\ UNCHANGED <<ticking, requests, changes>>

(* An interrupt without a command. *)
Spurious ==
  /\ Still /\ d.ints = <<>> /\ faults < MaxFaults
  /\ d' \in Unexpected(d) /\ faults' = faults + 1
  /\ UNCHANGED <<ticking, requests, changes>>

-----------------------------------------------------------------------------
(* do_timer(): the first timer counts down, those that have expired fire   *)
(* one by one, and then the motors are looked after.                       *)

(* do_floppy_timer().  Mutant: it counts, but wakes nobody. *)
CountMotors(r) ==
  LET up == {n \in r.motors : r.mon[n] > 0}
      stop == {n \in r.motors \ up : r.moff[n] = 0}
  IN [r EXCEPT !.mon = [n \in Drive |-> IF n \in up THEN @[n] - 1 ELSE @[n]],
               !.moff = [n \in Drive |->
                           IF n \in (r.motors \ up) \ stop /\ @[n] < Long
                           THEN @[n] - 1 ELSE @[n]],
               !.motors = @ \ stop]

DoFloppyTimer(r) ==
  LET ready == {n \in r.motors : r.mon[n] = 1}
  IN [CountMotors(r) EXCEPT
        !.pc = [t \in Caller |-> IF @[t] = "motor" /\ r.nr[t] \in ready
                                  THEN "on" ELSE @[t]]]

Expired(r) == r.timers # <<>> /\ Head(r.timers).n = 0

Due == d.ints = <<>> \/ d.age < CommandTicks

Tick ==
  LET r == [d EXCEPT !.age = IF d.ints = <<>> THEN 0 ELSE @ + 1,
                     !.timers = CountDown(@)]
  IN /\ Still /\ Due
     /\ ticking' = Expired(r)
     /\ d' = IF Expired(r) THEN r ELSE DoFloppyTimer(r)
     /\ UNCHANGED <<faults, requests, changes>>

Fire ==
  LET r == [d EXCEPT !.timers = Tail(@)]
      fired == IF Head(d.timers).fn = "on" THEN FloppyOn(r) ELSE Transfer(r)
  IN /\ ticking /\ ~d.lost
     /\ ticking' = Expired(r)
     /\ Settle(IF Expired(r) THEN fired ELSE {DoFloppyTimer(s) : s \in fired})
     /\ UNCHANGED <<requests, changes>>

-----------------------------------------------------------------------------
(* floppy_change().  The tasks take turns only where they sleep, but an    *)
(* interrupt may come between a test and what is done upon it: at "doze"   *)
(* and "nap".  The look at the drive is no step of its own.                *)

Turn(t) ==
  /\ Still
  /\ \A x \in Caller \ {t} : d.pc[x] \notin {"doze", "nap"}

Goes(r) == d' = r /\ UNCHANGED <<ticking, faults, requests>>

Change(t, nr) ==
  /\ Turn(t) /\ d.pc[t] = "out" /\ changes < MaxChanges
  /\ changes' = changes + 1
  /\ Goes([d EXCEPT !.pc[t] = "on", !.nr[t] = nr])

(* floppy_on() *)
On(t) ==
  LET r == TicksToOn(d, d.nr[t])
  IN /\ Turn(t) /\ d.pc[t] = "on"
     /\ Goes([r EXCEPT !.pc[t] = IF r.mon[d.nr[t]] = 0 THEN "test" ELSE "doze"])
     /\ UNCHANGED changes

(* ticks_to_floppy_on() has ended with sti(). *)
Doze(t) ==
  /\ Turn(t) /\ d.pc[t] = "doze"
  /\ Goes([(IF d.mon[d.nr[t]] = 0 THEN Odd(d, "missed") ELSE d)
             EXCEPT !.pc[t] = "motor"])
  /\ UNCHANGED changes

Test(t) ==
  LET nr == d.nr[t]
  IN /\ Turn(t) /\ d.pc[t] = "test"
     /\ Goes(IF d.dor = nr THEN [Off(d, nr) EXCEPT !.pc[t] = "out"]
             ELSE [d EXCEPT !.pc[t] = IF d.selected THEN "nap" ELSE "on"])
     /\ UNCHANGED changes

Nap(t) ==
  /\ Turn(t) /\ d.pc[t] = "nap"
  /\ Goes([(IF ~d.selected THEN Odd(d, "missed") ELSE d)
             EXCEPT !.pc[t] = "select"])
  /\ UNCHANGED changes

FloppyChange(t) == On(t) \/ Doze(t) \/ Test(t) \/ Nap(t)

(* The driver has served a request on track 0 of drive 0, and the motors   *)
(* have stopped.  (Before the first request current_track is 255, and      *)
(* every track is another.)  The heads of the other drives are elsewhere.  *)
FdInit ==
  /\ d = [queue |-> <<>>, do_floppy |-> "none", ints |-> <<>>, age |-> 0,
          reset |-> FALSE, recalibrate |-> FALSE, seek |-> FALSE,
          drive |-> 0, current_track |-> 0, seek_track |-> 0,
          dor |-> 0, selected |-> FALSE, motors |-> {},
          mon |-> [n \in Drive |-> 0], moff |-> [n \in Drive |-> 0],
          timers |-> <<>>, heads |-> [n \in Drive |-> IF n = 0 THEN 0 ELSE 1],
          pc |-> [x \in Caller |-> "out"], nr |-> [x \in Caller |-> 0],
          lost |-> FALSE, fault |-> FALSE, odd |-> {}]
  /\ ticking = FALSE /\ faults = 0 /\ requests = 0 /\ changes = 0

FdNext ==
  \/ \E dev \in Drive, track \in 0..Beyond : AddRequest(dev, track)
  \/ Interrupt \/ Spurious \/ Tick \/ Fire
  \/ \E t \in Caller : FloppyChange(t) \/ \E nr \in Drive : Change(t, nr)

FdSpec == FdInit /\ [][FdNext]_fdVars

(* Time goes on, do_timer() ends, an interrupt that is due comes, and the  *)
(* scheduler returns to every task that can run.  The second conjunct is   *)
(* fairness of Fire, which alone is enabled while ticking; the third is    *)
(* fairness of Interrupt, as Tick waits for it when it is due.             *)
FdFairSpec ==
  /\ FdSpec
  /\ WF_fdVars(Tick)
  /\ []<>(ticking => d.lost)
  /\ []<>(Due \/ d.lost)
  /\ \A t \in Caller : SF_fdVars(FloppyChange(t))

-----------------------------------------------------------------------------
(* Properties.  Three things go wrong; d.odd is history and tells them:    *)
(*   overtaken  a request found the queue empty and the controller still   *)
(*              at a reset or a recalibration, and started the driver for  *)
(*              the second time;                                           *)
(*   beyond     a request off the diskette left its drive in current_drive *)
(*              without a seek there;                                      *)
(*   missed     a wake-up came between a test and the sleep upon it.       *)

Unless(odd, P) == d.odd \cap odd = {} => P

(* When the controller is told to seek or to transfer, this is for the     *)
(* request at the head of the queue, on a drive that is selected and whose *)
(* motor runs at its speed, and a transfer is where its track is: through  *)
(* all errors, resets and recalibrations, and with the other tasks turning *)
(* motors on and off.  CURRENT is never looked into when there is none.    *)
TransferIsSetUp ==
  /\ Unless({"overtaken"}, ~d.lost)
  /\ d.do_floppy \in {"seek", "rw"} =>
       Unless({"overtaken"},
         /\ d.queue # <<>> /\ d.selected
         /\ d.drive = Head(d.queue).dev /\ d.seek_track = Head(d.queue).track
         /\ d.dor = d.drive /\ d.drive \in d.motors /\ d.mon[d.drive] <= 1)
  /\ d.do_floppy = "rw" =>
       Unless({"overtaken", "beyond"}, d.heads[d.drive] = d.seek_track)

(* The timer list never lets a timer expire early: neither a motor nor a   *)
(* drive is used before it is ready.  add_timer() can make the timers      *)
(* behind a new one late (sched.c:297), but while the driver is started    *)
(* once at a time there is one timer and it is exact.                      *)
TimersNeverEarly ==
  \A i \in DOMAIN d.timers :
    /\ TimeUpTo(d.timers, i) >= d.timers[i].due
    /\ Unless({"overtaken"}, TimeUpTo(d.timers, i) = d.timers[i].due)

(* The requests are all served or given up, whatever the controller does   *)
(* (but looking into a CURRENT that is not there).                         *)
RequestsEnd == d.queue # <<>> ~> d.queue = <<>> \/ d.lost

(* A task that looks at a drive is not forgotten: motor and selection come *)
(* back to it, also when the driver takes the drive from it.               *)
ChangesEnd ==
  \A t \in Caller : d.pc[t] # "out" ~>
    \/ d.pc[t] = "out"
    \/ d.odd \cap {"missed", "overtaken"} # {} \/ d.lost
=============================================================================
