---------------------------- MODULE Waits_proofs ----------------------------
(***************************************************************************)
(* Proofs about waiting: in the wait queues of kernel/sched.c, for any set *)
(* of tasks and any set of queues; for the motors and timers of the floppy *)
(* driver, for any set of drives and any number of requests; and for a     *)
(* terminal, for any number of tasks, any sizes of its queues and any keys,*)
(* modes and c_cc.                                                         *)
(***************************************************************************)
EXTENDS Terminal, Floppy, Numbers, FunctionTheorems

-----------------------------------------------------------------------------
(* Type correctness, together with what the non-preemptive kernel gives:   *)
(* the running task is awake and outside every sleep frame, and only       *)
(* interruptible_sleep_on() makes a task interruptible.                    *)

CurrentAwake ==
  current # None => on[current] = None /\ state[current] = "running"

InterruptibleState ==
  \A p \in Proc : state[p] = "interruptible" => on[p] \in Interruptible

Typing == TypeOK /\ CurrentAwake /\ InterruptibleState

(* At first everybody is awake and in no frame.                            *)
LEMMA TypingInit == Init => Typing
BY NoneAssumption DEF Init, Typing, TypeOK, CurrentAwake, InterruptibleState, State

(* Each action leaves a frame as it found the state, or sets both.         *)
LEMMA TypingNext == Typing /\ [Next]_wqvars => Typing'
<1> SUFFICES ASSUME Typing, [Next]_wqvars PROVE Typing'
  OBVIOUS
<1> USE NoneAssumption, InterruptibleAssumption
    DEF Typing, TypeOK, CurrentAwake, InterruptibleState, State
<1>1. CASE UNCHANGED wqvars
  BY <1>1 DEF wqvars
<1>2. ASSUME NEW p \in Proc, Dispatch(p) PROVE Typing'
  BY <1>2 DEF Dispatch, Runnable
<1>3. ASSUME NEW p \in Proc, Yield(p) PROVE Typing'
  BY <1>3 DEF Yield
<1>4. ASSUME NEW p \in Proc, NEW q \in Queue, SleepOn(p, q) PROVE Typing'
  BY <1>4 DEF SleepOn
<1>5. ASSUME NEW p \in Proc, ResumeSleepOn(p) PROVE Typing'
  BY <1>5 DEF ResumeSleepOn, LeaveFrame
<1>6. ASSUME NEW p \in Proc, ResumeDefer(p) PROVE Typing'
  BY <1>6 DEF ResumeDefer
<1>7. ASSUME NEW p \in Proc, ResumeInterruptible(p) PROVE Typing'
  BY <1>7 DEF ResumeInterruptible, LeaveFrame
<1>8. ASSUME NEW p \in Proc, Signal(p) PROVE Typing'
  BY <1>8 DEF Signal
<1>9. ASSUME NEW qs \in SUBSET Queue, WakeUp(qs) PROVE Typing'
  BY <1>9 DEF WakeUp
<1> QED
  BY <1>1, <1>2, <1>3, <1>4, <1>5, <1>6, <1>7, <1>8, <1>9 DEF Next

(* Every reachable state of the wait queues has the types TypeOK lists.    *)
THEOREM TypeCorrect == Spec => []TypeOK
<1>1. Typing => TypeOK
  BY DEF Typing
<1> QED
  BY <1>1, TypingInit, TypingNext, PTL DEF Spec

(* So this is so of every reachable state.                                 *)
LEMMA TypingInvariant == Spec => []Typing
BY TypingInit, TypingNext, PTL DEF Spec

-----------------------------------------------------------------------------
(* NoLostSleeper is inductive as it stands: whoever drops a pointer to a   *)
(* task, wake_up() clearing a head or a frame being left, wakes that task. *)

LEMMA LostNext == Typing /\ NoLostSleeper /\ [Next]_wqvars => NoLostSleeper'
<1> SUFFICES ASSUME Typing, NoLostSleeper, [Next]_wqvars,
                    NEW x \in Proc, Asleep(x)'
             PROVE  /\ on'[x] \in Queue
                    /\ on'[x] \notin Interruptible => Pointed(x)'
  BY DEF NoLostSleeper, Asleep, Pointed
<1> USE NoneAssumption, InterruptibleAssumption
    DEF Typing, TypeOK, CurrentAwake, InterruptibleState, State, NoLostSleeper, Asleep, Pointed
<1>1. CASE UNCHANGED wqvars
  BY <1>1 DEF wqvars
<1>2. ASSUME NEW p \in Proc, Dispatch(p)
      PROVE  on'[x] \in Queue /\ (on'[x] \notin Interruptible => Pointed(x)')
  BY <1>2 DEF Dispatch, Runnable
<1>3. ASSUME NEW p \in Proc, Yield(p)
      PROVE  on'[x] \in Queue /\ (on'[x] \notin Interruptible => Pointed(x)')
  BY <1>3 DEF Yield
<1>4. ASSUME NEW p \in Proc, NEW q \in Queue, SleepOn(p, q)
      PROVE  on'[x] \in Queue /\ (on'[x] \notin Interruptible => Pointed(x)')
  BY <1>4 DEF SleepOn
<1>5. ASSUME NEW p \in Proc, ResumeSleepOn(p)
      PROVE  on'[x] \in Queue /\ (on'[x] \notin Interruptible => Pointed(x)')
  BY <1>5 DEF ResumeSleepOn, LeaveFrame
<1>6. ASSUME NEW p \in Proc, ResumeDefer(p)
      PROVE  on'[x] \in Queue /\ (on'[x] \notin Interruptible => Pointed(x)')
  BY <1>6 DEF ResumeDefer
<1>7. ASSUME NEW p \in Proc, ResumeInterruptible(p)
      PROVE  on'[x] \in Queue /\ (on'[x] \notin Interruptible => Pointed(x)')
  BY <1>7 DEF ResumeInterruptible, LeaveFrame
<1>8. ASSUME NEW p \in Proc, Signal(p)
      PROVE  on'[x] \in Queue /\ (on'[x] \notin Interruptible => Pointed(x)')
  BY <1>8 DEF Signal
<1>9. ASSUME NEW qs \in SUBSET Queue, WakeUp(qs)
      PROVE  on'[x] \in Queue /\ (on'[x] \notin Interruptible => Pointed(x)')
  BY <1>9 DEF WakeUp
<1> QED
  BY <1>1, <1>2, <1>3, <1>4, <1>5, <1>6, <1>7, <1>8, <1>9 DEF Next

(* No sleeper of an ordinary queue is ever left without a pointer through  *)
(* which wake_up() and the frames of sleep_on() can reach it, whatever the *)
(* interruptible queues of the same tasks do.                              *)
THEOREM NoSleeperIsLost == Spec => []NoLostSleeper
<1>1. Init => NoLostSleeper
  BY DEF Init, NoLostSleeper, Asleep
<1> QED
  BY <1>1, TypingInvariant, LostNext, PTL DEF Spec

-----------------------------------------------------------------------------
(* The head of an interruptible queue is a task inside the queue.          *)

LEMMA StaleNext == Typing /\ NoStaleInterruptibleHead /\ [Next]_wqvars => NoStaleInterruptibleHead'
<1> SUFFICES ASSUME Typing, NoStaleInterruptibleHead, [Next]_wqvars,
                    NEW q \in Interruptible, head'[q] # None
             PROVE  on'[head'[q]] = q
  BY DEF NoStaleInterruptibleHead
<1> USE NoneAssumption, InterruptibleAssumption
    DEF Typing, TypeOK, CurrentAwake, InterruptibleState, State, NoStaleInterruptibleHead
<1>1. CASE UNCHANGED wqvars
  BY <1>1 DEF wqvars
<1>2. ASSUME NEW p \in Proc, Dispatch(p) PROVE on'[head'[q]] = q
  BY <1>2 DEF Dispatch, Runnable
<1>3. ASSUME NEW p \in Proc, Yield(p) PROVE on'[head'[q]] = q
  BY <1>3 DEF Yield
<1>4. ASSUME NEW p \in Proc, NEW r \in Queue, SleepOn(p, r)
      PROVE  on'[head'[q]] = q
  BY <1>4 DEF SleepOn
<1>5. ASSUME NEW p \in Proc, ResumeSleepOn(p) PROVE on'[head'[q]] = q
  BY <1>5 DEF ResumeSleepOn, LeaveFrame
<1>6. ASSUME NEW p \in Proc, ResumeDefer(p) PROVE on'[head'[q]] = q
  BY <1>6 DEF ResumeDefer
<1>7. ASSUME NEW p \in Proc, ResumeInterruptible(p) PROVE on'[head'[q]] = q
  BY <1>7 DEF ResumeInterruptible, LeaveFrame
<1>8. ASSUME NEW p \in Proc, Signal(p) PROVE on'[head'[q]] = q
  BY <1>8 DEF Signal
<1>9. ASSUME NEW qs \in SUBSET Queue, WakeUp(qs) PROVE on'[head'[q]] = q
  BY <1>9 DEF WakeUp
<1> QED
  BY <1>1, <1>2, <1>3, <1>4, <1>5, <1>6, <1>7, <1>8, <1>9 DEF Next

(* The head pointer of an interruptible queue never names a task that has  *)
(* left the queue, so wake_up() of it sets nobody else running.            *)
THEOREM HeadNeverStale == Spec => []NoStaleInterruptibleHead
<1>1. Init => NoStaleInterruptibleHead
  BY InterruptibleAssumption DEF Init, NoStaleInterruptibleHead
<1> QED
  BY <1>1, TypingInvariant, StaleNext, PTL DEF Spec
-----------------------------------------------------------------------------
(* The exact shape of the chains, when no queue is interruptible.          *)

Exact == HeadsExact /\ TmpsExact

LEMMA ExactNext ==
  ASSUME Interruptible = {}, Typing, Exact, [Next]_wqvars
  PROVE  Exact'
<1> USE NoneAssumption
    DEF Typing, TypeOK, CurrentAwake, InterruptibleState, State, Exact, HeadsExact, TmpsExact,
        Asleep
<1>1. CASE UNCHANGED wqvars
  BY <1>1 DEF wqvars
<1>2. ASSUME NEW p \in Proc, Dispatch(p) PROVE Exact'
  BY <1>2 DEF Dispatch, Runnable
<1>3. ASSUME NEW p \in Proc, Yield(p) PROVE Exact'
  BY <1>3 DEF Yield
<1>4. ASSUME NEW p \in Proc, NEW q \in Queue, SleepOn(p, q) PROVE Exact'
  <2>1. HeadsExact'
    BY <1>4 DEF SleepOn
  <2>2. TmpsExact'
    BY <1>4 DEF SleepOn
  <2> QED
    BY <2>1, <2>2
<1>5. ASSUME NEW p \in Proc, ResumeSleepOn(p) PROVE Exact'
  <2>1. HeadsExact'
    BY <1>5 DEF ResumeSleepOn, LeaveFrame
  <2>2. TmpsExact'
    BY <1>5 DEF ResumeSleepOn, LeaveFrame
  <2> QED
    BY <2>1, <2>2
<1>6. ASSUME NEW p \in Proc, ResumeDefer(p) PROVE Exact'
  BY <1>6 DEF ResumeDefer
<1>7. ASSUME NEW p \in Proc, ResumeInterruptible(p) PROVE Exact'
  BY <1>7 DEF ResumeInterruptible
<1>8. ASSUME NEW p \in Proc, Signal(p) PROVE Exact'
  BY <1>8 DEF Signal
<1>9. ASSUME NEW qs \in SUBSET Queue, WakeUp(qs) PROVE Exact'
  <2>1. HeadsExact'
    BY <1>9 DEF WakeUp
  <2>2. TmpsExact'
    BY <1>9 DEF WakeUp
  <2> QED
    BY <2>1, <2>2
<1> QED
  BY <1>1, <1>2, <1>3, <1>4, <1>5, <1>6, <1>7, <1>8, <1>9 DEF Next

(* With ordinary queues only, the chains of sleepers are exact: everything *)
(* a head or a frame points at is asleep in that queue and pointed at once.*)
THEOREM ChainsAreExact == Spec => []ChainsExact
<1>1. CASE Interruptible = {}
  <2>1. Init => Exact
    BY NoneAssumption DEF Init, Exact, HeadsExact, TmpsExact, Asleep
  <2>2. Typing /\ Exact /\ [Next]_wqvars => Exact'
    BY <1>1, ExactNext
  <2>3. Exact => ChainsExact
    BY DEF Exact, ChainsExact
  <2> QED
    BY <2>1, <2>2, <2>3, TypingInvariant, PTL DEF Spec
<1>2. CASE Interruptible # {}
  <2>1. ChainsExact
    BY <1>2 DEF ChainsExact
  <2> QED
    BY <2>1, PTL
<1> QED
  BY <1>1, <1>2

-----------------------------------------------------------------------------
(* The floppy driver.  Its record has these fields.                        *)
FdWhen == {"rw", "seek", "recal", "reset"}

FdRequest == [dev : Drive, track : Nat, errors : Nat]

FdCommand == [kind : FdWhen, drive : Drive, track : Nat]

FdTimer == [n : Nat, fn : {"on", "transfer"}, due : Nat]

FdState ==
  [queue : Seq(FdRequest), do_floppy : FdWhen \cup {"none"}, ints : Seq(FdCommand),
   age : Nat, reset : BOOLEAN, recalibrate : BOOLEAN, seek : BOOLEAN,
   drive : Drive, current_track : Nat, seek_track : Nat, dor : Drive,
   selected : BOOLEAN, motors : SUBSET Drive, mon : [Drive -> Nat],
   moff : [Drive -> Nat], timers : Seq(FdTimer), heads : [Drive -> Nat],
   pc : [Caller -> {"out", "on", "doze", "motor", "test", "nap", "select"}],
   nr : [Caller -> Drive], lost : BOOLEAN, fault : BOOLEAN,
   odd : SUBSET {"overtaken", "beyond", "missed"}]

(* No timer expires early. *)
NotEarly(l) == \A i \in 1..Len(l) : TimeUpTo(l, i) >= l[i].due

(* The request CURRENT is what the driver is set up for. *)
Served(r) ==
  /\ r.queue # <<>> /\ r.queue[1].track < Beyond
  /\ r.drive = r.queue[1].dev /\ r.seek_track = r.queue[1].track

(* The drive has its motor: it has run up, but for the tick that is under  *)
(* way (k = 1), and will run for n ticks more.                             *)
MotorRuns(r, k, n) ==
  /\ r.drive \in r.motors /\ r.mon[r.drive] <= 1 + k
  /\ r.moff[r.drive] >= n + (IF r.mon[r.drive] > 0 THEN 0 ELSE k)

(* The controller has nothing to do, and no timer runs. *)
Resting(r) == r.ints = <<>> /\ r.timers = <<>> /\ r.do_floppy = "none"

Selection(r) ==
  r.selected => /\ r.queue # <<>> /\ r.queue[1].track < Beyond
                /\ r.drive = r.queue[1].dev /\ r.dor = r.drive

(* The heads are where the driver thinks they are, or it knows better. *)
HeadsKnown(r) ==
  \/ "beyond" \in r.odd \/ r.reset \/ r.recalibrate
  \/ r.heads[r.drive] = r.current_track

OnTrack(r) == "beyond" \in r.odd \/ r.heads[r.drive] = r.seek_track

TimerWaits(r, k) ==
  LET t == r.timers[1]
  IN /\ r.ints = <<>> /\ r.do_floppy = "none"
     /\ Len(r.timers) = 1 /\ t.due = t.n
     /\ Served(r) /\ (r.seek \/ (OnTrack(r) /\ r.current_track = r.seek_track))
     /\ t.fn = "on" =>
          /\ r.drive \in r.motors /\ t.n + k <= r.mon[r.drive]
          /\ r.mon[r.drive] <= t.n + k \/ r.mon[r.drive] <= 2
          /\ r.moff[r.drive] >= MotorOff
     /\ t.fn = "transfer" =>
          /\ t.n <= 2 /\ r.selected /\ MotorRuns(r, k, 2 * CommandTicks + t.n)

Commanded(r, k) ==
  LET c == r.ints[1]
  IN /\ r.timers = <<>> /\ Len(r.ints) = 1
     /\ c.kind = r.do_floppy /\ c.drive = r.drive /\ c.track = r.seek_track
     /\ r.age <= CommandTicks
     /\ c.kind = "reset" => r.recalibrate
     /\ c.kind = "recal" => r.current_track = 0
     /\ c.kind \in {"seek", "rw"} => Served(r) /\ r.selected
     /\ c.kind = "seek" => MotorRuns(r, k, 2 * CommandTicks - r.age)
     /\ c.kind = "rw" =>
          /\ MotorRuns(r, k, CommandTicks - r.age)
          /\ OnTrack(r) /\ r.current_track = r.seek_track

Alive(r) == "overtaken" \notin r.odd

FdGood(r, k) ==
  Alive(r) =>
    /\ ~r.lost /\ Selection(r)
    /\ \/ Resting(r) /\ HeadsKnown(r) /\ r.queue = <<>>
       \/ TimerWaits(r, k)
       \/ Commanded(r, k)

FdInv ==
  /\ d \in FdState /\ NotEarly(d.timers)
  /\ ticking \in BOOLEAN /\ (ticking <=> Expired(d))
  /\ FdGood(d, IF ticking THEN 1 ELSE 0)

-----------------------------------------------------------------------------
(* The list of timers: how long each of them has to wait.                  *)
LEMMA TimerFields ==
  ASSUME NEW l \in Seq(FdTimer)
  PROVE  /\ Len(l) \in Nat
         /\ \A i \in 1..Len(l) : /\ l[i] \in FdTimer /\ l[i].n \in Nat
                                 /\ l[i].due \in Nat
                                 /\ l[i].fn \in {"on", "transfer"}
<1>1. Len(l) \in Nat /\ \A i \in 1..Len(l) : l[i] \in FdTimer
  BY LenProperties, ElementOfSeq
<1> QED
  BY <1>1 DEF FdTimer

(* The time of a timer is that of the one before and its difference.       *)
LEMMA TimeIs ==
  ASSUME NEW l \in Seq(FdTimer)
  PROVE  /\ TimeUpTo(l, 0) = 0
         /\ \A i \in 1..Len(l) : TimeUpTo(l, i) = TimeUpTo(l, i - 1) + l[i].n
         /\ \A i \in 0..Len(l) : TimeUpTo(l, i) \in Nat
<1> DEFINE n == Len(l)
           Is(f) == f = [k \in 0..n |-> IF k = 0 THEN 0 ELSE f[k - 1] + l[k].n]
           step == [x \in Nat \X (1..n) |-> x[1] + l[x[2]].n]
<1>1. n \in Nat /\ \A i \in 1..n : l[i].n \in Nat
  BY TimerFields
<1>2. IsStep(step, Nat, n)
  BY <1>1 DEF IsStep
<1>3. PICK f : IsComputed(f, step, Nat, n, 0)
  <2> HIDE DEF step, n
  <2> QED
    BY <1>1, <1>2, StepsExist
<1>4. /\ f \in [0..n -> Nat] /\ f[0] = 0
      /\ \A i \in 1..n : f[i] = step[<<f[i - 1], i>>]
  <2> HIDE DEF step
  <2> QED
    BY <1>3 DEF IsComputed
<1>5. \A i \in 1..n : f[i] = f[i - 1] + l[i].n
  <2> SUFFICES ASSUME NEW i \in 1..n
               PROVE  f[i] = f[i - 1] + l[i].n
    OBVIOUS
  <2>1. f[i - 1] \in Nat
    BY <1>1, <1>4
  <2> QED
    BY <1>4, <2>1
<1>6. Is(f)
  <2> SUFFICES ASSUME NEW i \in 0..n
               PROVE  f[i] = IF i = 0 THEN 0 ELSE f[i - 1] + l[i].n
    BY <1>4
  <2>1. i = 0 \/ i \in 1..n
    BY <1>1
  <2> QED
    BY <1>4, <1>5, <2>1
<1> DEFINE sum == CHOOSE h : Is(h)
<1>7. Is(sum)
  BY <1>6
<1>8. \A i : TimeUpTo(l, i) = sum[i]
  BY DEF TimeUpTo
<1> HIDE DEF sum
<1>9. sum[0] = 0 /\ \A i \in 1..n : sum[i] = sum[i - 1] + l[i].n
  <2>1. 0 \in 0..n /\ \A i \in 1..n : i \in 0..n /\ i # 0
    BY <1>1
  <2> QED
    BY <1>7, <2>1
<1> DEFINE S == {i \in 0..n : sum[i] \in Nat}
<1>10. \A i \in 0..n : i \in S
  <2>1. 0 \in S
    BY <1>1, <1>9
  <2>2. ASSUME NEW i \in 1..n, i - 1 \in S PROVE i \in S
    <3>1. sum[i - 1] \in Nat /\ l[i].n \in Nat /\ i \in 0..n
      BY <1>1, <2>2
    <3>2. sum[i] = sum[i - 1] + l[i].n
      BY <1>9
    <3> QED
      BY <3>1, <3>2
  <2> HIDE DEF S, n
  <2> QED
    BY <1>1, <2>1, <2>2, UpTo
<1> QED
  BY <1>8, <1>9, <1>10

(* They expire one after the other.                                        *)
LEMMA TimeGrows ==
  ASSUME NEW l \in Seq(FdTimer)
  PROVE  \A j \in 0..Len(l) : \A i \in 0..j : TimeUpTo(l, i) <= TimeUpTo(l, j)
<1> DEFINE n == Len(l)
           T(i) == TimeUpTo(l, i)
           S == {j \in 0..n : \A i \in 0..j : T(i) <= T(j)}
<1>1. /\ n \in Nat
      /\ \A i \in 1..n : T(i) = T(i - 1) + l[i].n /\ l[i].n \in Nat
      /\ \A i \in 0..n : T(i) \in Nat
  BY TimerFields, TimeIs
<1> HIDE DEF T
<1>2. 0 \in S
  BY <1>1
<1>3. ASSUME NEW j \in 1..n, j - 1 \in S PROVE j \in S
  <2>1. T(j - 1) <= T(j) /\ j \in 0..n /\ j - 1 \in 0..n
    <3>1. j \in 0..n /\ j - 1 \in 0..n
      BY <1>1
    <3>2. T(j) = T(j - 1) + l[j].n /\ l[j].n \in Nat
      BY <1>1
    <3>3. T(j - 1) \in Nat
      BY <1>1, <3>1
    <3> QED
      BY <3>1, <3>2, <3>3
  <2> SUFFICES ASSUME NEW i \in 0..j PROVE T(i) <= T(j)
    BY <2>1
  <2>2. i = j \/ i \in 0..(j - 1)
    BY <1>1
  <2>3. i \in 0..n /\ T(i) \in Nat /\ T(j) \in Nat /\ T(j - 1) \in Nat
    BY <1>1, <2>1
  <2> QED
    BY <1>3, <2>1, <2>2, <2>3
<1>4. \A j \in 0..n : j \in S
  <2> HIDE DEF S, n
  <2> QED
    BY <1>1, <1>2, <1>3, UpTo
<1> QED
  BY <1>4 DEF T

(* Where two lists have the same differences, the same time passes.        *)
SameGaps(l, a, m, b, n) == \A k \in 1..n : m[b + k].n = l[a + k].n

SameTimes(l, a, m, b, n) ==
  \A k \in 0..n : TimeUpTo(m, b + k) - TimeUpTo(m, b)
                    = TimeUpTo(l, a + k) - TimeUpTo(l, a)

LEMMA TimePasses ==
  ASSUME NEW l \in Seq(FdTimer), NEW m \in Seq(FdTimer), NEW n \in Nat,
         NEW a \in Nat, NEW b \in Nat, a + n <= Len(l), b + n <= Len(m),
         SameGaps(l, a, m, b, n)
  PROVE  SameTimes(l, a, m, b, n)
<1> DEFINE T(i) == TimeUpTo(l, i)
           U(i) == TimeUpTo(m, i)
           S == {k \in 0..n : U(b + k) - U(b) = T(a + k) - T(a)}
<1>1. /\ Len(l) \in Nat /\ Len(m) \in Nat
      /\ \A i \in 1..Len(l) : T(i) = T(i - 1) + l[i].n
      /\ \A i \in 0..Len(l) : T(i) \in Nat
      /\ \A i \in 1..Len(m) : U(i) = U(i - 1) + m[i].n
      /\ \A i \in 0..Len(m) : U(i) \in Nat
      /\ \A i \in 1..Len(l) : l[i].n \in Nat
  BY TimerFields, TimeIs
<1> HIDE DEF T, U
<1>2. 0 \in S
  <2>1. a \in 0..Len(l) /\ b \in 0..Len(m)
    BY <1>1
  <2>2. a + 0 = a /\ b + 0 = b /\ T(a) \in Nat /\ U(b) \in Nat
    BY <1>1, <2>1
  <2> QED
    BY <2>2
<1>3. ASSUME NEW k \in 1..n, k - 1 \in S PROVE k \in S
  <2>1. /\ a + k \in 1..Len(l) /\ a + (k - 1) \in 0..Len(l)
        /\ (a + k) - 1 = a + (k - 1) /\ (b + k) - 1 = b + (k - 1)
        /\ b + k \in 1..Len(m) /\ b + (k - 1) \in 0..Len(m)
        /\ a \in 0..Len(l) /\ b \in 0..Len(m) /\ k \in 0..n
    <3>1. Len(l) \in Nat /\ Len(m) \in Nat /\ k \in Nat /\ 1 <= k /\ k <= n
      BY <1>1
    <3> QED
      BY <3>1
  <2>2. /\ T(a + k) = T(a + (k - 1)) + l[a + k].n
        /\ U(b + k) = U(b + (k - 1)) + l[a + k].n
    <3>1. U(b + k) = U(b + (k - 1)) + m[b + k].n
      BY <1>1, <2>1
    <3>2. m[b + k].n = l[a + k].n
      BY DEF SameGaps
    <3> QED
      BY <1>1, <2>1, <3>1, <3>2
  <2>3. /\ T(a + (k - 1)) \in Nat /\ U(b + (k - 1)) \in Nat /\ T(a) \in Nat
        /\ U(b) \in Nat /\ l[a + k].n \in Nat
    BY <1>1, <2>1
  <2>4. U(b + (k - 1)) - U(b) = T(a + (k - 1)) - T(a)
    BY <1>3
  <2> DEFINE t == T(a + (k - 1))
             u == U(b + (k - 1))
             t0 == T(a)
             u0 == U(b)
             c == l[a + k].n
  <2>5. U(b + k) - U(b) = T(a + k) - T(a)
    <3>1. t \in Nat /\ u \in Nat /\ t0 \in Nat /\ u0 \in Nat /\ c \in Nat
      BY <2>3
    <3>2. u - u0 = t - t0
      BY <2>4
    <3>3. T(a + k) = t + c /\ U(b + k) = u + c
      BY <2>2
    <3> HIDE DEF t, u, t0, u0, c
    <3>4. (u + c) - u0 = (t + c) - t0
      BY <3>1, <3>2
    <3> QED
      BY <3>3, <3>4 DEF t0, u0
  <2> QED
    BY <2>1, <2>5
<1>4. \A k \in 0..n : k \in S
  <2> HIDE DEF S
  <2> QED
    BY <1>2, <1>3, UpTo
<1> QED
  BY <1>4 DEF T, U, SameTimes

(* Of short lists.                                                         *)
LEMMA HeadIs ==
  ASSUME NEW S, NEW l \in Seq(S), l # <<>>
  PROVE  /\ Head(l) = l[1] /\ Head(l) \in S /\ 1 \in 1..Len(l) /\ Len(l) \in Nat
         /\ Tail(l) \in Seq(S) /\ Len(Tail(l)) = Len(l) - 1
         /\ \A i \in 1..(Len(l) - 1) : Tail(l)[i] = l[i + 1]
         /\ Len(l) = 1 => Tail(l) = <<>>
<1>1. Len(l) \in Nat /\ Len(l) # 0
  BY EmptySeq
<1>2. /\ Head(l) \in S /\ Tail(l) \in Seq(S) /\ Len(Tail(l)) = Len(l) - 1
      /\ \A i \in 1..Len(Tail(l)) : Tail(l)[i] = l[i + 1]
  BY HeadTailProperties
<1>3. Len(l) = 1 => Tail(l) = <<>>
  <2> SUFFICES ASSUME Len(l) = 1 PROVE Tail(l) = <<>>
    OBVIOUS
  <2> DEFINE t == Tail(l)
  <2>1. t \in Seq(S) /\ Len(t) = 0
    BY <1>2
  <2> HIDE DEF t
  <2>2. t = <<>>
    BY <2>1, EmptySeq
  <2> QED
    BY <2>2 DEF t
<1>4. Head(l) = l[1]
  BY <1>1
<1> QED
  BY <1>1, <1>2, <1>3, <1>4

(* A sequence of one.                                                      *)
LEMMA OneLong ==
  ASSUME NEW S, NEW l \in Seq(S), Len(l) = 1
  PROVE  l = <<l[1]>>
OBVIOUS

(* add_timer() puts a timer behind those that expire sooner.               *)
Sooner(l, n) == {k \in DOMAIN l : TimeUpTo(l, k) < n}

(* Those that expire before n are the first ones of the list.              *)
LEMMA SoonerIs ==
  ASSUME NEW l \in Seq(FdTimer), NEW n \in Nat
  PROVE  /\ Cardinality(Sooner(l, n)) \in 0..Len(l)
         /\ \A k \in 1..Len(l) :
              TimeUpTo(l, k) < n <=> k <= Cardinality(Sooner(l, n))
<1> DEFINE T(k) == TimeUpTo(l, k)
           X == Sooner(l, n)
           p == Len(l)
<1>0. X = {k \in DOMAIN l : T(k) < n}
  BY DEF Sooner
<1>1. /\ p \in Nat /\ DOMAIN l = 1..p
      /\ \A k \in 1..p : T(k) \in Nat /\ \A j \in 1..k : T(j) <= T(k)
  <2>1. p \in Nat /\ DOMAIN l = 1..p
    BY LenProperties
  <2>2. \A k \in 0..p : T(k) \in Nat
    BY TimeIs
  <2>3. \A k \in 0..p : \A j \in 0..k : T(j) <= T(k)
    BY TimeGrows
  <2> HIDE DEF T, p
  <2> QED
    BY <2>1, <2>2, <2>3
<1> HIDE DEF T, p, X
<1>2. X \in SUBSET (0..p) /\ X \in SUBSET (1..p)
  BY <1>0, <1>1
<1>3. CASE X = {}
  <2>1. Cardinality(X) = 0
    BY <1>3, FS_EmptySet
  <2>2. \A k \in 1..p : ~(T(k) < n)
    BY <1>0, <1>1, <1>3
  <2> QED
    BY <1>1, <2>1, <2>2 DEF T, p, X
<1>4. CASE X # {}
  <2> DEFINE m == Max(X)
  <2>1. m \in X /\ \A y \in X : m >= y
    BY <1>1, <1>2, <1>4, MaxIn
  <2>2. m \in 1..p /\ T(m) < n
    BY <2>1, <1>0, <1>2
  <2> HIDE DEF m
  <2>3. ASSUME NEW k \in 1..p PROVE T(k) < n <=> k <= m
    <3>1. CASE k <= m
      <4>1. k \in 1..m
        BY <1>1, <2>2, <3>1
      <4>2. T(k) <= T(m) /\ T(k) \in Nat /\ T(m) \in Nat
        BY <1>1, <2>2, <4>1
      <4> QED
        BY <2>2, <3>1, <4>2
    <3>2. CASE ~(k <= m)
      <4>1. k \notin X
        BY <1>1, <2>1, <2>2, <3>2
      <4> QED
        BY <1>0, <1>1, <3>2, <4>1
    <3> QED
      BY <3>1, <3>2
  <2>4. X = 1..m
    <3>1. \A k \in 1..m : k \in 1..p /\ k <= m
      BY <1>1, <2>2
    <3>2. \A k \in X : k \in 1..m
      BY <1>1, <1>2, <2>1, <2>2
    <3>3. \A k \in 1..m : k \in X
      BY <1>0, <1>1, <2>3, <3>1
    <3> QED
      BY <3>2, <3>3
  <2>5. Cardinality(X) = m
    <3>1. m \in Int /\ m >= 1
      BY <1>1, <2>2
    <3>2. Cardinality(1..m) = m
      BY <3>1, FS_Interval
    <3> QED
      BY <2>4, <3>2
  <2>6. m \in 0..p
    BY <1>1, <2>2
  <2>7. /\ Cardinality(X) \in 0..p
        /\ \A k \in 1..p : T(k) < n <=> k <= Cardinality(X)
    BY <2>3, <2>5, <2>6
  <2> QED
    BY <2>7 DEF T, p, X
<1> QED
  BY <1>3, <1>4

Clock(n, fn) == [n |-> n, fn |-> fn, due |-> n]

(* What add_timer() leaves: no timer is early, the first is expired only   *)
(* if it was.                                                              *)
LEMMA TimerAdded ==
  ASSUME NEW r \in FdState, NotEarly(r.timers), NEW n \in Nat, n > 0,
         NEW fn \in {"on", "transfer"}
  PROVE  \E l \in Seq(FdTimer) :
           /\ AddTimer(r, n, fn) = [r EXCEPT !.timers = l]
           /\ NotEarly(l) /\ l # <<>>
           /\ l[1].n = 0 <=> Expired(r)
           /\ r.timers = <<>> => l = <<Clock(n, fn)>>
<1> DEFINE l == r.timers
           p == Len(l)
           i == Cardinality(Sooner(l, n))
           new == [n |-> n - TimeUpTo(l, i), fn |-> fn, due |-> n]
           m == WithElement(l, i + 1, new)
<1>1. l \in Seq(FdTimer)
  BY DEF FdState
<1>2. AddTimer(r, n, fn) = [r EXCEPT !.timers = m]
  BY DEF AddTimer, InsertAt, WithElement, Sooner
<1> DEFINE T(k) == TimeUpTo(l, k)
           U(k) == TimeUpTo(m, k)
<1>3. i \in 0..p /\ \A k \in 1..p : T(k) < n <=> k <= i
  BY <1>1, SoonerIs
<1>4. /\ p \in Nat /\ T(0) = 0
      /\ \A k \in 0..p : T(k) \in Nat
      /\ \A k \in 1..p : T(k) = T(k - 1) + l[k].n /\ l[k].n \in Nat
                         /\ l[k].due \in Nat /\ T(k) >= l[k].due
  BY <1>1, TimeIs, TimerFields DEF NotEarly
<1>5. p = 0 <=> l = <<>>
  BY <1>1, EmptySeq
<1> HIDE DEF l, p, i, T
<1>6. T(i) < n /\ T(i) \in Nat
  <2>1. i = 0 \/ i \in 1..p
    BY <1>3, <1>4
  <2> QED
    BY <1>3, <1>4, <2>1
<1>7. new \in FdTimer
  <2>1. n - T(i) \in Nat
    BY <1>6
  <2> QED
    BY <2>1 DEF T, FdTimer
<1>8. new.n = n - T(i) /\ new.due = n
  BY DEF T
<1>9. i = 0 /\ l = <<>> => new = Clock(n, fn)
  <2>1. i = 0 => n - T(i) = n
    BY <1>4
  <2> QED
    BY <2>1 DEF Clock, T
<1> HIDE DEF new
<1>10. /\ m \in Seq(FdTimer) /\ Len(m) = p + 1
       /\ \A k \in 1..i : m[k] = l[k]
       /\ m[i + 1] = new
       /\ \A k \in (i + 2)..(p + 1) : m[k] = l[k - 1]
  <2> DEFINE j == i + 1
  <2>1. j \in 1..(p + 1) /\ j - 1 = i /\ j + 1 = i + 2
    BY <1>3, <1>4
  <2> HIDE DEF j
  <2>2. /\ WithElement(l, j, new) \in Seq(FdTimer)
        /\ Len(WithElement(l, j, new)) = Len(l) + 1
        /\ \A k \in 1..(j - 1) : WithElement(l, j, new)[k] = l[k]
        /\ WithElement(l, j, new)[j] = new
        /\ \A k \in (j + 1)..(Len(l) + 1) : WithElement(l, j, new)[k] = l[k - 1]
    BY <1>1, <1>7, <2>1, Inserted DEF p
  <2>3. m = WithElement(l, j, new)
    BY DEF j
  <2> HIDE DEF m
  <2>4. m[i + 1] = new
    BY <2>2, <2>3 DEF j
  <2> QED
    BY <2>1, <2>2, <2>3, <2>4 DEF p
<1> HIDE DEF m
<1>11. \A k \in 0..i : U(k) = T(k)
  <2>1. SameGaps(l, 0, m, 0, i)
    BY <1>3, <1>4, <1>10 DEF SameGaps
  <2>2. 0 + i <= Len(l) /\ 0 + i <= Len(m) /\ i \in Nat
    BY <1>3, <1>4, <1>10 DEF p
  <2>3. \A k \in 0..i : TimeUpTo(m, 0 + k) - TimeUpTo(m, 0)
                          = TimeUpTo(l, 0 + k) - TimeUpTo(l, 0)
    <3>1. SameTimes(l, 0, m, 0, i)
      BY <1>1, <1>10, <2>1, <2>2, TimePasses
    <3> QED
      BY <3>1 DEF SameTimes
  <2>4. TimeUpTo(m, 0) = 0 /\ \A k \in 0..Len(m) : TimeUpTo(m, k) \in Nat
    BY <1>10, TimeIs
  <2> SUFFICES ASSUME NEW k \in 0..i PROVE U(k) = T(k)
    OBVIOUS
  <2>5. 0 + k = k /\ k \in 0..Len(m) /\ k \in 0..p
    BY <1>3, <1>4, <1>10
  <2>6. U(k) - 0 = T(k) - 0
    BY <1>4, <2>3, <2>4, <2>5 DEF T
  <2>7. U(k) \in Nat /\ T(k) \in Nat
    BY <1>4, <2>4, <2>5
  <2> QED
    BY <2>6, <2>7
<1>12. U(i + 1) = n
  <2>1. U(i + 1) = U((i + 1) - 1) + m[i + 1].n /\ (i + 1) - 1 = i
    <3>1. i + 1 \in 1..Len(m) /\ (i + 1) - 1 = i
      BY <1>3, <1>4, <1>10
    <3>2. \A k \in 1..Len(m) : U(k) = U(k - 1) + m[k].n
      BY <1>10, TimeIs
    <3> QED
      BY <3>1, <3>2
  <2>2. U(i) = T(i)
    BY <1>3, <1>4, <1>11
  <2> QED
    BY <1>6, <1>8, <1>10, <2>1, <2>2
<1>13. \A k \in (i + 2)..(p + 1) : U(k) >= T(k - 1)
  <2>1. SameGaps(l, i, m, i + 1, p - i)
    <3> SUFFICES ASSUME NEW k \in 1..(p - i)
                 PROVE  m[(i + 1) + k].n = l[i + k].n
      BY DEF SameGaps
    <3>1. /\ (i + 1) + k \in (i + 2)..(p + 1)
          /\ ((i + 1) + k) - 1 = i + k
      BY <1>3, <1>4
    <3> QED
      BY <1>10, <3>1
  <2>2. /\ i + (p - i) <= Len(l) /\ (i + 1) + (p - i) <= Len(m)
        /\ i \in Nat /\ i + 1 \in Nat /\ p - i \in Nat
    BY <1>3, <1>4, <1>10 DEF p
  <2>3. \A k \in 0..(p - i) : TimeUpTo(m, (i + 1) + k) - TimeUpTo(m, i + 1)
                                = TimeUpTo(l, i + k) - TimeUpTo(l, i)
    <3>1. SameTimes(l, i, m, i + 1, p - i)
      BY <1>1, <1>10, <2>1, <2>2, TimePasses
    <3> QED
      BY <3>1 DEF SameTimes
  <2> SUFFICES ASSUME NEW k \in (i + 2)..(p + 1) PROVE U(k) >= T(k - 1)
    OBVIOUS
  <2> DEFINE j == k - (i + 1)
  <2>4. j \in 0..(p - i) /\ (i + 1) + j = k /\ i + j = k - 1
    BY <1>3, <1>4
  <2> HIDE DEF j
  <2>5. TimeUpTo(m, (i + 1) + j) - TimeUpTo(m, i + 1)
          = TimeUpTo(l, i + j) - TimeUpTo(l, i)
    BY <2>3, <2>4
  <2>6. U(k) - n = T(k - 1) - T(i)
    BY <1>12, <2>4, <2>5 DEF T
  <2>7. U(k) \in Nat /\ T(k - 1) \in Nat
    <3>1. k \in 0..Len(m) /\ k - 1 \in 0..p
      BY <1>3, <1>4, <1>10
    <3> QED
      BY <1>4, <1>10, <3>1, TimeIs
  <2> QED
    BY <1>6, <2>6, <2>7
<1>14. NotEarly(m)
  <2> SUFFICES ASSUME NEW k \in 1..(p + 1) PROVE U(k) >= m[k].due
    BY <1>10 DEF NotEarly
  <2>1. CASE k \in 1..i
    <3>1. k \in 1..p /\ k \in 0..i
      BY <1>3, <1>4, <2>1
    <3> QED
      BY <1>4, <1>10, <1>11, <2>1, <3>1
  <2>2. CASE k = i + 1
    BY <1>8, <1>10, <1>12, <2>2
  <2>3. CASE k \in (i + 2)..(p + 1)
    <3>1. k - 1 \in 1..p /\ k - 1 \in 0..p /\ k \in 0..Len(m)
      BY <1>3, <1>4, <1>10, <2>3
    <3>2. T(k - 1) >= l[k - 1].due /\ T(k - 1) \in Nat /\ l[k - 1].due \in Nat
      BY <1>4, <3>1
    <3>3. U(k) \in Nat
      BY <1>10, <3>1, TimeIs
    <3>4. m[k] = l[k - 1] /\ U(k) >= T(k - 1)
      BY <1>10, <1>13, <2>3
    <3> QED
      BY <3>2, <3>3, <3>4
  <2>4. k \in 1..i \/ k = i + 1 \/ k \in (i + 2)..(p + 1)
    BY <1>3, <1>4
  <2> QED
    BY <2>1, <2>2, <2>3, <2>4
<1>15. m # <<>>
  BY <1>4, <1>10, EmptySeq
<1>16. m[1].n = 0 <=> (l # <<>> /\ Head(l).n = 0)
  <2>1. l # <<>> => Head(l) = l[1] /\ 1 \in 1..p
    BY <1>1, <1>4, <1>5, HeadIs
  <2>2. CASE i = 0
    <3>1. m[1] = new /\ T(0) = 0
      <4>1. i + 1 = 1
        BY <2>2
      <4> QED
        BY <1>4, <1>10, <4>1
    <3>2. m[1].n # 0
      BY <1>6, <1>8, <2>2, <3>1
    <3>3. l # <<>> => l[1].n # 0
      <4> SUFFICES ASSUME l # <<>> PROVE l[1].n # 0
        OBVIOUS
      <4>1. 1 \in 1..p /\ ~(1 <= i) /\ 1 - 1 = 0
        BY <2>1, <2>2
      <4>2. ~(T(1) < n) /\ T(1) = T(0) + l[1].n /\ l[1].n \in Nat
        BY <1>3, <1>4, <4>1
      <4> QED
        BY <1>4, <4>2
    <3> QED
      BY <2>1, <3>2, <3>3
  <2>3. CASE i # 0
    <3>1. 1 \in 1..i /\ p # 0
      BY <1>3, <1>4, <2>3
    <3> QED
      BY <1>5, <1>10, <2>1, <3>1
  <2> QED
    BY <2>2, <2>3
<1>17. l = <<>> => m = <<Clock(n, fn)>>
  <2> SUFFICES ASSUME l = <<>> PROVE m = <<Clock(n, fn)>>
    OBVIOUS
  <2>1. i = 0 /\ i + 1 = 1 /\ Len(m) = 1
    BY <1>3, <1>4, <1>5, <1>10
  <2>2. m[1] = Clock(n, fn)
    BY <1>9, <1>10, <2>1
  <2> QED
    BY <1>10, <2>1, <2>2, OneLong
<1> QED
  BY <1>2, <1>10, <1>14, <1>15, <1>16, <1>17 DEF l, Expired

(* The first timer has expired and is taken away.                          *)
LEMMA TimerTaken ==
  ASSUME NEW l \in Seq(FdTimer), l # <<>>, l[1].n = 0, NotEarly(l)
  PROVE  Tail(l) \in Seq(FdTimer) /\ NotEarly(Tail(l))
<1> DEFINE m == Tail(l)
           p == Len(l)
<1>1. /\ p \in Nat /\ p >= 1 /\ m \in Seq(FdTimer) /\ Len(m) = p - 1
      /\ \A i \in 1..(p - 1) : m[i] = l[i + 1]
  BY HeadIs
<1> HIDE DEF m
<1>2. SameTimes(l, 1, m, 0, p - 1)
  <2>1. SameGaps(l, 1, m, 0, p - 1)
    <3> SUFFICES ASSUME NEW k \in 1..(p - 1) PROVE m[0 + k].n = l[1 + k].n
      BY DEF SameGaps
    <3>1. 0 + k = k /\ 1 + k = k + 1
      BY <1>1
    <3> QED
      BY <1>1, <3>1
  <2>2. p - 1 \in Nat /\ 1 + (p - 1) <= Len(l) /\ 0 + (p - 1) <= Len(m)
    BY <1>1
  <2> QED
    BY <1>1, <2>1, <2>2, TimePasses
<1>3. TimeUpTo(l, 1) = 0
  <2>1. 1 \in 1..p /\ 1 - 1 = 0
    BY <1>1
  <2>2. TimeUpTo(l, 1) = TimeUpTo(l, 1 - 1) + l[1].n /\ TimeUpTo(l, 0) = 0
    BY <2>1, TimeIs
  <2> QED
    BY <2>1, <2>2
<1>4. ASSUME NEW i \in 1..(p - 1) PROVE TimeUpTo(m, i) >= m[i].due
  <2>1. i \in 0..(p - 1) /\ i + 1 \in 1..p /\ 0 + i = i /\ 1 + i = i + 1
        /\ i + 1 \in 0..p /\ i \in 0..Len(m)
    BY <1>1
  <2>2. TimeUpTo(m, 0 + i) - TimeUpTo(m, 0) = TimeUpTo(l, 1 + i) - TimeUpTo(l, 1)
    BY <1>2, <2>1 DEF SameTimes
  <2>3. TimeUpTo(m, 0) = 0 /\ TimeUpTo(m, i) \in Nat /\ TimeUpTo(l, i + 1) \in Nat
    BY <1>1, <2>1, TimeIs
  <2>4. TimeUpTo(m, i) = TimeUpTo(l, i + 1)
    BY <1>3, <2>1, <2>2, <2>3
  <2>5. TimeUpTo(l, i + 1) >= l[i + 1].due
    BY <2>1 DEF NotEarly
  <2>6. m[i] = l[i + 1]
    BY <1>1
  <2> QED
    BY <2>4, <2>5, <2>6
<1> QED
  BY <1>1, <1>4 DEF NotEarly, m

(* A tick is counted by the first, and so by all of them.                  *)
LEMMA TickCounted ==
  ASSUME NEW l \in Seq(FdTimer), NotEarly(l), l # <<>> => l[1].n # 0
  PROVE  LET m == CountDown(l)
         IN /\ m \in Seq(FdTimer) /\ NotEarly(m) /\ Len(m) = Len(l)
            /\ l = <<>> <=> m = <<>>
            /\ l # <<>> => /\ m[1].n = l[1].n - 1 /\ m[1].fn = l[1].fn
                           /\ l[1].due > 0 => m[1].due = l[1].due - 1
<1> DEFINE p == Len(l)
           e(i) == [l[i] EXCEPT !.n = IF i = 1 THEN @ - 1 ELSE @,
                                !.due = IF @ > 0 THEN @ - 1 ELSE 0]
           m == CountDown(l)
<1>1. /\ p \in Nat /\ DOMAIN l = 1..p
      /\ \A i \in 1..p : l[i] \in FdTimer /\ l[i].n \in Nat /\ l[i].due \in Nat
  BY LenProperties, TimerFields
<1>2. p = 0 <=> l = <<>>
  BY EmptySeq
<1>3. p # 0 => 1 \in 1..p /\ l[1].n - 1 \in Nat
  <2> SUFFICES ASSUME p # 0 PROVE 1 \in 1..p /\ l[1].n - 1 \in Nat
    OBVIOUS
  <2>1. 1 \in 1..p /\ l[1].n # 0
    BY <1>1, <1>2
  <2>2. l[1].n \in Nat
    BY <1>1, <2>1
  <2> QED
    BY <2>1, <2>2
<1>4. ASSUME NEW i \in 1..p
      PROVE  /\ e(i) \in FdTimer
             /\ e(i).n = IF i = 1 THEN l[i].n - 1 ELSE l[i].n
             /\ e(i).fn = l[i].fn
             /\ e(i).due = IF l[i].due > 0 THEN l[i].due - 1 ELSE 0
  <2> DEFINE x == l[i]
             n == IF i = 1 THEN x.n - 1 ELSE x.n
             due == IF x.due > 0 THEN x.due - 1 ELSE 0
  <2>1. x \in FdTimer /\ n \in Nat /\ due \in Nat
    <3>1. n \in Nat
      BY <1>1, <1>3
    <3>2. due \in Nat
      <4>1. x.due \in Nat
        BY <1>1
      <4> HIDE DEF x
      <4> QED
        BY <4>1
    <3> QED
      BY <1>1, <3>1, <3>2
  <2>2. e(i) = [x EXCEPT !.n = n, !.due = due]
    BY <2>1 DEF FdTimer
  <2> HIDE DEF n, due, x
  <2>3. /\ [x EXCEPT !.n = n, !.due = due] \in FdTimer
        /\ [x EXCEPT !.n = n, !.due = due].n = n
        /\ [x EXCEPT !.n = n, !.due = due].fn = x.fn
        /\ [x EXCEPT !.n = n, !.due = due].due = due
    BY <2>1 DEF FdTimer
  <2> HIDE DEF e
  <2> QED
    BY <2>2, <2>3 DEF n, due, x
<1> HIDE DEF e
<1>5. m = [i \in 1..p |-> e(i)]
  BY <1>1 DEF CountDown, e
<1>6. m \in Seq(FdTimer)
  BY <1>1, <1>4, <1>5, SeqDef
<1>7. Len(m) = p /\ \A i \in 1..p : m[i] = e(i)
  <2>1. DOMAIN m = 1..p
    BY <1>5
  <2>2. DOMAIN m = 1..Len(m) /\ Len(m) \in Nat
    BY <1>6, LenProperties
  <2> HIDE DEF m
  <2>3. Len(m) = p
    BY <1>1, <2>1, <2>2
  <2> QED
    BY <1>5, <2>3
<1> HIDE DEF m
<1>8. l = <<>> <=> m = <<>>
  <2>1. Len(m) = 0 <=> m = <<>>
    BY <1>6, EmptySeq
  <2> QED
    BY <1>2, <1>7, <2>1
<1>9. p # 0 => TimeUpTo(m, 1) = TimeUpTo(l, 1) - 1
  <2> SUFFICES ASSUME p # 0 PROVE TimeUpTo(m, 1) = TimeUpTo(l, 1) - 1
    OBVIOUS
  <2>1. 1 - 1 = 0 /\ 1 \in 1..p
    BY <1>3
  <2>2. TimeUpTo(l, 1) = TimeUpTo(l, 1 - 1) + l[1].n /\ TimeUpTo(l, 0) = 0
    BY <2>1, TimeIs
  <2>3. TimeUpTo(m, 1) = TimeUpTo(m, 1 - 1) + m[1].n /\ TimeUpTo(m, 0) = 0
    BY <1>6, <1>7, <2>1, TimeIs
  <2>4. m[1].n = l[1].n - 1 /\ l[1].n \in Nat
    BY <1>1, <1>4, <1>7, <2>1
  <2> QED
    BY <2>1, <2>2, <2>3, <2>4
<1>10. ASSUME NEW i \in 1..p PROVE TimeUpTo(m, i) = TimeUpTo(l, i) - 1
  <2>1. p # 0 /\ p - 1 \in Nat /\ 1 + (p - 1) <= Len(l) /\ 1 + (p - 1) <= Len(m)
    BY <1>1, <1>7
  <2>2. SameGaps(l, 1, m, 1, p - 1)
    <3> SUFFICES ASSUME NEW k \in 1..(p - 1) PROVE m[1 + k].n = l[1 + k].n
      BY DEF SameGaps
    <3>1. 1 + k \in 1..p /\ 1 + k # 1
      BY <1>1
    <3> QED
      BY <1>4, <1>7, <3>1
  <2>3. SameTimes(l, 1, m, 1, p - 1)
    BY <1>6, <2>1, <2>2, TimePasses
  <2>4. i - 1 \in 0..(p - 1) /\ 1 + (i - 1) = i /\ i \in 0..p /\ 1 \in 0..p
    BY <1>1
  <2>5. TimeUpTo(m, i) - TimeUpTo(m, 1) = TimeUpTo(l, i) - TimeUpTo(l, 1)
    <3>1. TimeUpTo(m, 1 + (i - 1)) - TimeUpTo(m, 1)
            = TimeUpTo(l, 1 + (i - 1)) - TimeUpTo(l, 1)
      BY <2>3, <2>4 DEF SameTimes
    <3> QED
      BY <2>4, <3>1
  <2>6. /\ TimeUpTo(m, i) \in Nat /\ TimeUpTo(l, i) \in Nat
        /\ TimeUpTo(m, 1) \in Nat /\ TimeUpTo(l, 1) \in Nat
    BY <1>6, <1>7, <2>4, TimeIs
  <2> QED
    BY <1>9, <2>1, <2>5, <2>6
<1>11. ASSUME NEW i \in 1..p PROVE TimeUpTo(m, i) >= m[i].due
  <2>1. TimeUpTo(m, i) = TimeUpTo(l, i) - 1 /\ TimeUpTo(l, i) >= l[i].due
    BY <1>10 DEF NotEarly
  <2>2. i \in 0..p /\ TimeUpTo(m, i) \in Nat /\ TimeUpTo(l, i) \in Nat
    BY <1>1, <1>6, <1>7, TimeIs
  <2>3. l[i].due \in Nat /\ m[i].due = IF l[i].due > 0 THEN l[i].due - 1 ELSE 0
    BY <1>1, <1>4, <1>7
  <2> QED
    BY <2>1, <2>2, <2>3
<1>12. l # <<>> => /\ m[1].n = l[1].n - 1 /\ m[1].fn = l[1].fn
                   /\ l[1].due > 0 => m[1].due = l[1].due - 1
  <2> SUFFICES ASSUME l # <<>>
               PROVE  /\ m[1].n = l[1].n - 1 /\ m[1].fn = l[1].fn
                      /\ l[1].due > 0 => m[1].due = l[1].due - 1
    OBVIOUS
  <2>1. 1 \in 1..p
    BY <1>2, <1>3
  <2> QED
    BY <1>4, <1>7, <2>1
<1> QED
  BY <1>6, <1>7, <1>8, <1>11, <1>12 DEF NotEarly, m

-----------------------------------------------------------------------------
(* What the handlers leave behind.  Every one of them keeps this ...       *)
FdShape(r) == r \in FdState /\ NotEarly(r.timers)

Follows(r, s) ==
  FdShape(s) /\ (Expired(s) <=> Expired(r)) /\ (Alive(s) <=> Alive(r))

(* ... and is called with a controller that has nothing to do.             *)
Quiet(r) == Alive(r) /\ ~r.lost /\ Resting(r) /\ Selection(r)

SetUpFor(r) ==
  Served(r) /\ (r.seek \/ (OnTrack(r) /\ r.current_track = r.seek_track))

Commandable(r, kind, k) ==
  /\ kind = "reset" => r.recalibrate
  /\ kind = "recal" => r.current_track = 0
  /\ kind \in {"seek", "rw"} => Served(r) /\ r.selected
  /\ kind = "seek" => MotorRuns(r, k, 2 * CommandTicks)
  /\ kind = "rw" => /\ MotorRuns(r, k, CommandTicks)
                    /\ OnTrack(r) /\ r.current_track = r.seek_track

(* It is enough that the timers and the history stay.                      *)
LEMMA FollowsOn ==
  ASSUME NEW r, FdShape(r), NEW s \in FdState, s.timers = r.timers, s.odd = r.odd
  PROVE  Follows(r, s)
BY DEF Follows, FdShape, Expired, Alive

(* One handler after the other.                                            *)
LEMMA FollowsOnOn ==
  ASSUME NEW r, NEW s, NEW t, Follows(r, s), Follows(s, t)
  PROVE  Follows(r, t)
BY DEF Follows

(* The constants, as numbers.                                              *)
LEMMA TicksAre ==
  /\ CommandTicks \in Nat /\ MotorOff \in Nat /\ MotorUp \in Nat /\ MotorUp > 2
  /\ Beyond \in Nat /\ Long \in Nat /\ Long > MotorOff
  /\ MotorOff >= 2 * CommandTicks + 2
BY FloppyAssumption, MotorLasts DEF Long

(* A command to a controller that has nothing to do.                       *)
LEMMA CommandIs ==
  ASSUME NEW r, FdShape(r), NEW kind \in FdWhen, NEW k \in {0, 1}
  PROVE  LET s == Command(r, kind)
         IN /\ Follows(r, s)
            /\ Quiet(r) /\ Commandable(r, kind, k) => FdGood(s, k)
<1> DEFINE c == [kind |-> kind, drive |-> r.drive, track |-> r.seek_track]
           s == Command(r, kind)
<1>1. r \in FdState
  BY DEF FdShape
<1>2. c \in FdCommand
  BY <1>1 DEF FdCommand, FdState
<1> HIDE DEF c
<1>3. Append(r.ints, c) \in Seq(FdCommand)
  <2>1. r.ints \in Seq(FdCommand)
    BY <1>1 DEF FdState
  <2> QED
    BY <1>2, <2>1
<1>4. s = [r EXCEPT !.do_floppy = kind, !.age = 0, !.ints = Append(r.ints, c)]
  BY <1>1 DEF Command, c, FdState
<1>5. s \in FdState
  <2> HIDE DEF s
  <2> QED
    BY <1>1, <1>3, <1>4 DEF FdState
<1>6. Follows(r, s)
  <2>1. s.timers = r.timers /\ s.odd = r.odd
    BY <1>1, <1>4 DEF FdState
  <2> QED
    BY <1>5, <2>1, FollowsOn
<1>7. /\ s.do_floppy = kind /\ s.age = 0 /\ s.ints = Append(r.ints, c)
      /\ s.queue = r.queue /\ s.recalibrate = r.recalibrate
      /\ s.drive = r.drive /\ s.current_track = r.current_track
      /\ s.seek_track = r.seek_track /\ s.dor = r.dor
      /\ s.selected = r.selected /\ s.motors = r.motors /\ s.mon = r.mon
      /\ s.moff = r.moff /\ s.timers = r.timers /\ s.heads = r.heads
      /\ s.lost = r.lost /\ s.odd = r.odd
  BY <1>1, <1>4 DEF FdState
<1> HIDE DEF s
<1>8. ASSUME Quiet(r), Commandable(r, kind, k) PROVE FdGood(s, k)
  <2>1. /\ Alive(r) /\ ~s.lost /\ s.timers = <<>> /\ r.ints = <<>> /\ Selection(s)
    BY <1>7, <1>8 DEF Quiet, Resting, Selection
  <2>2. s.ints = <<c>> /\ Len(s.ints) = 1 /\ s.ints[1] = c
    BY <1>7, <2>1
  <2>3. c.kind = kind /\ c.drive = s.drive /\ c.track = s.seek_track
    BY <1>7 DEF c
  <2>4. \A n : MotorRuns(s, k, n) <=> MotorRuns(r, k, n)
    BY <1>7 DEF MotorRuns
  <2>5. (Served(s) <=> Served(r)) /\ (OnTrack(s) <=> OnTrack(r))
    BY <1>7 DEF Served, OnTrack
  <2>6. /\ 2 * CommandTicks - s.age = 2 * CommandTicks
        /\ CommandTicks - s.age = CommandTicks /\ s.age <= CommandTicks
    BY <1>7, TicksAre
  <2>7. Commanded(s, k)
    BY <1>7, <1>8, <2>1, <2>2, <2>3, <2>4, <2>5, <2>6 DEF Commanded, Commandable
  <2> QED
    BY <2>1, <2>7 DEF FdGood
<1> QED
  BY <1>6, <1>8 DEF s

(* reset_floppy()                                                          *)
LEMMA ResetIs ==
  ASSUME NEW r, FdShape(r), NEW k \in {0, 1}
  PROVE  LET s == ResetFloppy(r)
         IN Follows(r, s) /\ (Quiet(r) => FdGood(s, k))
<1> DEFINE t == [r EXCEPT !.reset = FALSE, !.recalibrate = TRUE, !.seek = FALSE]
<1>1. r \in FdState
  BY DEF FdShape
<1>2. t \in FdState
  BY <1>1 DEF FdState
<1>3. /\ t.timers = r.timers /\ t.odd = r.odd /\ t.lost = r.lost /\ t.ints = r.ints
      /\ t.do_floppy = r.do_floppy /\ t.selected = r.selected
      /\ t.queue = r.queue /\ t.drive = r.drive /\ t.dor = r.dor /\ t.recalibrate
  BY <1>1 DEF FdState
<1>4. ResetFloppy(r) = Command(t, "reset")
  BY DEF ResetFloppy
<1> HIDE DEF t
<1>5. Follows(r, t)
  BY <1>2, <1>3, FollowsOn
<1>6. Quiet(r) => Quiet(t)
  BY <1>3 DEF Quiet, Resting, Selection, Alive
<1>7. Commandable(t, "reset", k)
  BY <1>3 DEF Commandable
<1>8. FdShape(t) /\ "reset" \in FdWhen
  BY <1>5 DEF Follows, FdWhen
<1>9. Follows(t, Command(t, "reset")) /\ (Quiet(t) => FdGood(Command(t, "reset"), k))
  BY <1>7, <1>8, CommandIs
<1> QED
  BY <1>4, <1>5, <1>6, <1>9, FollowsOnOn

(* The controller does not take a byte: it is reset.                       *)
LEMMA RefusedIs ==
  ASSUME NEW r, FdShape(r), NEW k \in {0, 1}, NEW s \in Refused(r)
  PROVE  Follows(r, s) /\ (Quiet(r) => FdGood(s, k))
<1> DEFINE t == [r EXCEPT !.fault = TRUE]
<1>1. r \in FdState
  BY DEF FdShape
<1>2. t \in FdState
  BY <1>1 DEF FdState
<1>3. /\ t.timers = r.timers /\ t.odd = r.odd /\ t.lost = r.lost /\ t.ints = r.ints
      /\ t.do_floppy = r.do_floppy /\ t.selected = r.selected
      /\ t.queue = r.queue /\ t.drive = r.drive /\ t.dor = r.dor
  BY <1>1 DEF FdState
<1>4. s = ResetFloppy(t)
  BY DEF Refused
<1> HIDE DEF t
<1>5. Follows(r, t)
  BY <1>2, <1>3, FollowsOn
<1>6. Quiet(r) => Quiet(t)
  BY <1>3 DEF Quiet, Resting, Selection, Alive
<1>7. FdShape(t)
  BY <1>5 DEF Follows
<1>8. Follows(t, s) /\ (Quiet(t) => FdGood(s, k))
  BY <1>4, <1>7, ResetIs
<1> QED
  BY <1>5, <1>6, <1>8, FollowsOnOn

(* recalibrate_floppy()                                                    *)
LEMMA RecalibrateIs ==
  ASSUME NEW r, FdShape(r), NEW k \in {0, 1}, NEW s \in RecalibrateFloppy(r)
  PROVE  Follows(r, s) /\ (Quiet(r) => FdGood(s, k))
<1> DEFINE t == [r EXCEPT !.recalibrate = FALSE, !.current_track = 0]
<1>1. r \in FdState
  BY DEF FdShape
<1>2. t \in FdState
  BY <1>1 DEF FdState
<1>3. /\ t.timers = r.timers /\ t.odd = r.odd /\ t.lost = r.lost /\ t.ints = r.ints
      /\ t.do_floppy = r.do_floppy /\ t.selected = r.selected
      /\ t.queue = r.queue /\ t.drive = r.drive /\ t.dor = r.dor
      /\ t.current_track = 0
  BY <1>1 DEF FdState
<1>4. s = Command(t, "recal") \/ s \in Refused(t)
  BY DEF RecalibrateFloppy
<1> HIDE DEF t
<1>5. Follows(r, t)
  BY <1>2, <1>3, FollowsOn
<1>6. Quiet(r) => Quiet(t)
  BY <1>3 DEF Quiet, Resting, Selection, Alive
<1>7. FdShape(t) /\ Commandable(t, "recal", k) /\ "recal" \in FdWhen
  BY <1>3, <1>5 DEF Follows, Commandable, FdWhen
<1>8. Follows(t, s) /\ (Quiet(t) => FdGood(s, k))
  BY <1>4, <1>7, CommandIs, RefusedIs
<1> QED
  BY <1>5, <1>6, <1>8, FollowsOnOn

(* CURRENT is looked into when there is none.                              *)
LEMMA NoCurrentIs ==
  ASSUME NEW r, FdShape(r)
  PROVE  Follows(r, NoCurrent(r))
<1>1. r \in FdState
  BY DEF FdShape
<1>2. NoCurrent(r) \in FdState
  BY <1>1 DEF FdState, NoCurrent
<1>3. NoCurrent(r).timers = r.timers /\ NoCurrent(r).odd = r.odd
  BY <1>1 DEF FdState, NoCurrent
<1> QED
  BY <1>2, <1>3, FollowsOn

(* setup_rw_floppy()                                                       *)
LEMMA SetupRwIs ==
  ASSUME NEW r, FdShape(r), NEW k \in {0, 1}, NEW s \in SetupRw(r)
  PROVE  /\ Follows(r, s)
         /\ Quiet(r) /\ Commandable(r, "rw", k) => FdGood(s, k)
<1>1. CASE r.queue = <<>>
  <2>1. s = NoCurrent(r)
    BY <1>1 DEF SetupRw
  <2>2. ~Commandable(r, "rw", k)
    BY <1>1 DEF Commandable, Served
  <2> QED
    BY <2>1, <2>2, NoCurrentIs
<1>2. CASE r.queue # <<>>
  <2>1. s = Command(r, "rw") \/ s \in Refused(r)
    BY <1>2 DEF SetupRw
  <2>2. "rw" \in FdWhen
    BY DEF FdWhen
  <2> QED
    BY <2>1, <2>2, CommandIs, RefusedIs
<1> QED
  BY <1>1, <1>2

(* transfer(): it seeks first if it has to.                                *)
LEMMA TransferIs ==
  ASSUME NEW r, FdShape(r), NEW k \in {0, 1}, NEW s \in Transfer(r)
  PROVE  /\ Follows(r, s)
         /\ Quiet(r) /\ SetUpFor(r) /\ r.selected /\ MotorRuns(r, k, 2 * CommandTicks)
              => FdGood(s, k)
<1>1. CASE r.reset
  <2>1. s = ResetFloppy(r)
    BY <1>1 DEF Transfer
  <2> QED
    BY <2>1, ResetIs
<1>2. CASE ~r.reset /\ s \in Refused(r)
  BY <1>2, RefusedIs
<1>3. CASE ~r.reset /\ s \notin Refused(r) /\ r.seek
  <2>1. s = Command(r, "seek") /\ "seek" \in FdWhen
    BY <1>3 DEF Transfer, FdWhen
  <2>2. SetUpFor(r) /\ r.selected /\ MotorRuns(r, k, 2 * CommandTicks)
          => Commandable(r, "seek", k)
    BY DEF SetUpFor, Commandable
  <2> QED
    BY <2>1, <2>2, CommandIs
<1>4. CASE ~r.reset /\ s \notin Refused(r) /\ ~r.seek
  <2>1. s \in SetupRw(r)
    BY <1>4 DEF Transfer
  <2>2. MotorRuns(r, k, 2 * CommandTicks) => MotorRuns(r, k, CommandTicks)
    <3>1. r.moff[r.drive] \in Nat
      BY DEF FdShape, FdState
    <3> QED
      BY <3>1, TicksAre DEF MotorRuns
  <2>3. SetUpFor(r) /\ r.selected /\ MotorRuns(r, k, 2 * CommandTicks)
          => Commandable(r, "rw", k)
    BY <1>4, <2>2 DEF SetUpFor, Commandable
  <2> QED
    BY <2>1, <2>3, SetupRwIs
<1> QED
  BY <1>1, <1>2, <1>3, <1>4

(* floppy_on_interrupt(): the motor has its speed.                         *)
LEMMA FloppyOnIs ==
  ASSUME NEW r, FdShape(r), NEW k \in {0, 1}, NEW s \in FloppyOn(r)
  PROVE  /\ Follows(r, s)
         /\ /\ Quiet(r) /\ SetUpFor(r)
            /\ MotorRuns(r, k, 2 * CommandTicks + 2)
            => FdGood(s, k)
<1> DEFINE t == [r EXCEPT !.selected = TRUE]
           u == [r EXCEPT !.selected = TRUE, !.dor = r.drive]
           Pre == /\ Quiet(r) /\ SetUpFor(r)
                  /\ MotorRuns(r, k, 2 * CommandTicks + 2)
<1>1. r \in FdState /\ r.moff[r.drive] \in Nat
  BY DEF FdShape, FdState
<1>2. CASE r.drive # r.dor
  <2>1. u \in FdState
    BY <1>1 DEF FdState
  <2>2. /\ u.timers = r.timers /\ u.odd = r.odd /\ u.lost = r.lost
        /\ u.ints = r.ints /\ u.do_floppy = r.do_floppy /\ u.selected = TRUE
        /\ u.queue = r.queue /\ u.drive = r.drive /\ u.dor = r.drive
        /\ u.seek = r.seek /\ u.current_track = r.current_track
        /\ u.seek_track = r.seek_track /\ u.heads = r.heads
        /\ u.motors = r.motors /\ u.mon = r.mon /\ u.moff = r.moff
    BY <1>1 DEF FdState
  <2>3. Follows(r, u)
    BY <2>1, <2>2, FollowsOn
  <2>4. s = AddTimer(u, 2, "transfer")
    BY <1>1, <1>2 DEF FloppyOn, FdState
  <2> HIDE DEF u
  <2>5. PICK l \in Seq(FdTimer) :
          /\ AddTimer(u, 2, "transfer") = [u EXCEPT !.timers = l]
          /\ NotEarly(l) /\ l # <<>>
          /\ l[1].n = 0 <=> Expired(u)
          /\ u.timers = <<>> => l = <<Clock(2, "transfer")>>
    <3>1. NotEarly(u.timers)
      BY <2>3 DEF Follows, FdShape
    <3> QED
      BY <2>1, <3>1, TimerAdded
  <2>6. s \in FdState
    <3>1. s = [u EXCEPT !.timers = l]
      BY <2>4, <2>5
    <3> QED
      BY <2>1, <3>1 DEF FdState
  <2>7. /\ s.timers = l /\ s.odd = u.odd /\ s.lost = u.lost
        /\ s.ints = u.ints /\ s.do_floppy = u.do_floppy
        /\ s.selected = u.selected /\ s.queue = u.queue /\ s.drive = u.drive
        /\ s.dor = u.dor /\ s.seek = u.seek /\ s.current_track = u.current_track
        /\ s.seek_track = u.seek_track /\ s.heads = u.heads
        /\ s.motors = u.motors /\ s.mon = u.mon /\ s.moff = u.moff
    BY <2>1, <2>4, <2>5 DEF FdState
  <2>8. Follows(u, s)
    BY <2>5, <2>6, <2>7, HeadIs DEF Follows, FdShape, Expired, Alive
  <2>9. ASSUME Pre PROVE FdGood(s, k)
    <3>1. l = <<Clock(2, "transfer")>>
      BY <2>2, <2>5, <2>9 DEF Quiet, Resting
    <3>2. /\ Len(l) = 1 /\ l[1].n = 2 /\ l[1].due = 2 /\ l[1].fn = "transfer"
      BY <3>1 DEF Clock
    <3>3. Served(s) /\ (s.seek \/ (OnTrack(s) /\ s.current_track = s.seek_track))
      BY <2>2, <2>7, <2>9 DEF SetUpFor, Served, OnTrack
    <3>4. MotorRuns(s, k, 2 * CommandTicks + 2)
      BY <2>2, <2>7, <2>9 DEF MotorRuns
    <3>5. s.ints = <<>> /\ s.do_floppy = "none" /\ ~s.lost /\ s.selected
      BY <2>2, <2>7, <2>9 DEF Quiet, Resting
    <3>6. TimerWaits(s, k)
      BY <2>7, <3>2, <3>3, <3>4, <3>5 DEF TimerWaits
    <3>7. Selection(s)
      BY <2>2, <2>7, <3>3 DEF Selection, Served
    <3> QED
      BY <3>5, <3>6, <3>7 DEF FdGood
  <2> QED
    BY <2>3, <2>8, <2>9, FollowsOnOn
<1>3. CASE r.drive = r.dor
  <2>1. t \in FdState
    BY <1>1 DEF FdState
  <2>2. /\ t.timers = r.timers /\ t.odd = r.odd /\ t.lost = r.lost
        /\ t.ints = r.ints /\ t.do_floppy = r.do_floppy /\ t.selected = TRUE
        /\ t.queue = r.queue /\ t.drive = r.drive /\ t.dor = r.dor
        /\ t.seek = r.seek /\ t.current_track = r.current_track
        /\ t.seek_track = r.seek_track /\ t.heads = r.heads
        /\ t.motors = r.motors /\ t.mon = r.mon /\ t.moff = r.moff
    BY <1>1 DEF FdState
  <2>3. Follows(r, t)
    BY <2>1, <2>2, FollowsOn
  <2>4. s \in Transfer(t)
    BY <1>3 DEF FloppyOn
  <2> HIDE DEF t
  <2>5. FdShape(t)
    BY <2>3 DEF Follows
  <2>6. /\ Follows(t, s)
        /\ Quiet(t) /\ SetUpFor(t) /\ t.selected /\ MotorRuns(t, k, 2 * CommandTicks)
              => FdGood(s, k)
    BY <2>4, <2>5, TransferIs
  <2>7. ASSUME Pre
        PROVE  Quiet(t) /\ SetUpFor(t) /\ t.selected /\ MotorRuns(t, k, 2 * CommandTicks)
    <3>1. SetUpFor(t)
      BY <2>2, <2>7 DEF SetUpFor, Served, OnTrack
    <3>2. Quiet(t)
      BY <1>3, <2>2, <2>7 DEF Quiet, Resting, Selection, Alive, SetUpFor, Served
    <3>3. MotorRuns(t, k, 2 * CommandTicks)
      BY <1>1, <2>2, <2>7, TicksAre DEF MotorRuns
    <3> QED
      BY <2>2, <3>1, <3>2, <3>3
  <2> QED
    BY <2>3, <2>6, <2>7, FollowsOnOn
<1> QED
  BY <1>2, <1>3

(* The requests beyond the diskette are dropped, others stay.              *)
LEMMA SkipIs ==
  ASSUME NEW r, FdShape(r)
  PROVE  LET s == SkipBeyond(r)
         IN /\ Follows(r, s)
            /\ s.queue = <<>> \/ s.queue[1].track < Beyond
            /\ s.lost = r.lost /\ s.ints = r.ints /\ s.timers = r.timers
            /\ s.do_floppy = r.do_floppy /\ s.selected = r.selected
            /\ s.dor = r.dor /\ s.reset = r.reset
            /\ s.recalibrate = r.recalibrate /\ s.heads = r.heads
            /\ s.current_track = r.current_track
            /\ \/ "beyond" \in s.odd /\ ~(r.queue # <<>> /\ r.queue[1].track < Beyond)
               \/ s.queue = r.queue /\ s.drive = r.drive /\ s.odd = r.odd
<1> DEFINE q == r.queue
           p == Len(q)
           fit == {i \in DOMAIN q : q[i].track < Beyond}
           k == IF fit = {} THEN p ELSE Min(fit) - 1
           devs == [i \in 0..k |-> IF i = 0 THEN r.drive ELSE q[i].dev]
           seek == \E i \in 1..k : devs[i] # devs[i - 1]
           moff == [n \in Drive |-> IF \E i \in 1..k : devs[i] = n
                                    THEN MotorOff ELSE r.moff[n]]
           rest == SubSeq(q, k + 1, p)
           s == [r EXCEPT !.queue = rest, !.drive = devs[k], !.seek = seek,
                          !.moff = moff]
           t == SkipBeyond(r)
<1>1. r \in FdState /\ q \in Seq(FdRequest) /\ r.drive \in Drive
      /\ r.odd \subseteq {"overtaken", "beyond", "missed"}
  BY DEF FdShape, FdState
<1>2. /\ p \in Nat /\ DOMAIN q = 1..p
      /\ \A i \in 1..p : /\ q[i] \in FdRequest /\ q[i].dev \in Drive
                         /\ q[i].track \in Nat
  <2>1. /\ p \in Nat /\ DOMAIN q = 1..p /\ \A i \in 1..p : q[i] \in FdRequest
    BY <1>1, LenProperties, ElementOfSeq
  <2> QED
    BY <2>1 DEF FdRequest
<1>3. p = 0 <=> q = <<>>
  BY <1>1, EmptySeq
<1>4. t = IF k = 0 THEN s ELSE Odd(s, "beyond")
  BY <1>1 DEF SkipBeyond, FdState
<1> HIDE DEF q, p, t
<1>5. /\ k \in 0..p
      /\ k # p => q[k + 1].track < Beyond
      /\ k = 0 <=> (p = 0 \/ q[1].track < Beyond)
  <2>1. fit \in SUBSET (1..p) /\ fit \in SUBSET Nat
    BY <1>2
  <2>2. \A i \in 1..p : i \in fit <=> q[i].track < Beyond
    BY <1>2
  <2> HIDE DEF fit
  <2>3. CASE fit = {}
    <3>1. k = p /\ (p # 0 => 1 \in 1..p)
      BY <1>2, <2>3
    <3> QED
      BY <1>2, <2>2, <2>3, <3>1
  <2>4. CASE fit # {}
    <3> DEFINE m == Min(fit)
    <3>1. m \in fit /\ \A y \in fit : m <= y
      BY <2>1, <2>4, MinIn
    <3>2. k = m - 1
      BY <2>4
    <3> HIDE DEF m, k
    <3>3. m \in 1..p /\ q[m].track < Beyond
      BY <2>1, <2>2, <3>1
    <3>4. 1 \in 1..p /\ (q[1].track < Beyond => m <= 1)
      BY <1>2, <2>2, <3>1, <3>3
    <3>5. k + 1 = m /\ k \in 0..p
      BY <1>2, <3>2, <3>3
    <3>6. k = 0 <=> m = 1
      BY <1>2, <3>2, <3>3
    <3>7. q[1].track < Beyond => m = 1
      BY <1>2, <3>3, <3>4
    <3> QED
      BY <1>2, <3>3, <3>4, <3>5, <3>6, <3>7
  <2> QED
    BY <2>3, <2>4
<1> HIDE DEF k
<1>6. /\ devs[k] \in Drive /\ (k = 0 => devs[k] = r.drive)
  <2>1. k \in 0..k /\ (k # 0 => k \in 1..p)
    BY <1>2, <1>5
  <2> QED
    BY <1>1, <1>2, <2>1
<1>7. /\ rest \in Seq(FdRequest)
      /\ rest = <<>> \/ rest[1].track < Beyond
      /\ k = 0 => rest = q
  <2>1. k + 1 \in Int /\ p \in Int /\ k \in Nat /\ p \in Nat /\ k <= p
    BY <1>2, <1>5
  <2>2. \A i \in (k + 1)..p : q[i] \in FdRequest
    BY <1>2, <1>5
  <2>3. /\ rest \in Seq(FdRequest)
        /\ \A i \in 1..(p - (k + 1) + 1) : rest[i] = q[(k + 1) + i - 1]
    BY <2>1, <2>2, SubSeqProperties
  <2>4. CASE k = p
    <3>1. p < k + 1
      BY <2>1, <2>4
    <3>2. rest = <<>>
      BY <2>1, <3>1, SubSeqEmpty
    <3> QED
      BY <1>3, <2>3, <2>4, <3>2
  <2>5. CASE k # p
    <3>1. 1 \in 1..(p - (k + 1) + 1) /\ (k + 1) + 1 - 1 = k + 1
      BY <2>1, <2>5
    <3>2. rest[1].track < Beyond
      BY <1>5, <2>3, <2>5, <3>1
    <3>3. k = 0 => rest = q
      <4>1. SubSeq(q, 1, p) = q
        BY <1>1, SubSeqFull DEF p, q
      <4>2. k = 0 => k + 1 = 1
        BY <2>1
      <4> QED
        BY <4>1, <4>2
    <3> QED
      BY <2>3, <3>2, <3>3
  <2> QED
    BY <2>4, <2>5
<1>8. seek \in BOOLEAN
  OBVIOUS
<1>9. moff \in [Drive -> Nat]
  <2>1. r.moff \in [Drive -> Nat]
    BY <1>1 DEF FdState
  <2> QED
    BY <2>1, TicksAre
<1> DEFINE dev == devs[k]
<1> HIDE DEF devs
<1> HIDE DEF seek, moff, rest, dev
<1>10. s = [r EXCEPT !.queue = rest, !.drive = dev, !.seek = seek, !.moff = moff]
  BY DEF dev
<1> HIDE DEF s
<1>11. /\ s \in FdState
  BY <1>1, <1>6, <1>7, <1>8, <1>9, <1>10 DEF FdState, dev
<1>12. /\ s.queue = rest /\ s.drive = dev /\ s.odd = r.odd
       /\ s.lost = r.lost /\ s.ints = r.ints /\ s.timers = r.timers
       /\ s.do_floppy = r.do_floppy /\ s.selected = r.selected
       /\ s.dor = r.dor /\ s.reset = r.reset
       /\ s.recalibrate = r.recalibrate /\ s.heads = r.heads
       /\ s.current_track = r.current_track
  BY <1>1, <1>10 DEF FdState
<1>13. CASE k = 0
  <2>1. t = s
    BY <1>4, <1>13
  <2>2. Follows(r, s)
    BY <1>11, <1>12, FollowsOn
  <2> QED
    BY <1>6, <1>7, <1>12, <1>13, <2>1, <2>2 DEF t, q, dev
<1>14. CASE k # 0
  <2> DEFINE o == Odd(s, "beyond")
  <2>1. t = o
    BY <1>4, <1>14
  <2>2. o \in FdState /\ o.odd = r.odd \cup {"beyond"}
    BY <1>1, <1>11, <1>12 DEF FdState, Odd
  <2>3. /\ o.queue = rest /\ o.lost = r.lost /\ o.ints = r.ints
        /\ o.timers = r.timers /\ o.do_floppy = r.do_floppy
        /\ o.selected = r.selected /\ o.dor = r.dor /\ o.reset = r.reset
        /\ o.recalibrate = r.recalibrate /\ o.heads = r.heads
        /\ o.current_track = r.current_track
    BY <1>11, <1>12 DEF FdState, Odd
  <2> HIDE DEF o
  <2>4. Follows(r, o)
    BY <2>2, <2>3 DEF Follows, FdShape, Expired, Alive
  <2>5. ~(r.queue # <<>> /\ r.queue[1].track < Beyond)
    BY <1>3, <1>5, <1>14 DEF q
  <2> QED
    BY <1>7, <2>1, <2>2, <2>3, <2>4, <2>5 DEF t
<1> QED
  BY <1>13, <1>14

(* A motor is turned on, and selected if nothing else is.                  *)
LEMMA TicksToOnIs ==
  ASSUME NEW r, FdShape(r), NEW nr \in Drive
  PROVE  LET s == TicksToOn(r, nr)
         IN /\ Follows(r, s)
            /\ \E mon \in Nat :
                 /\ s = [r EXCEPT !.moff = [r.moff EXCEPT ![nr] = Long],
                                  !.mon = [r.mon EXCEPT ![nr] = mon],
                                  !.dor = IF r.selected THEN r.dor ELSE nr,
                                  !.motors = r.motors \cup {nr}]
                 /\ \/ nr \notin r.motors
                    \/ mon = r.mon[nr]
                    \/ ~r.selected /\ r.mon[nr] < 2 /\ mon = 2
<1> DEFINE dor == IF r.selected THEN r.dor ELSE nr
           mon == IF nr \notin r.motors THEN MotorUp
                  ELSE IF dor # r.dor /\ r.mon[nr] < 2 THEN 2
                  ELSE r.mon[nr]
           moffs == [r.moff EXCEPT ![nr] = Long]
           mons == [r.mon EXCEPT ![nr] = mon]
           s == [r EXCEPT !.moff = moffs, !.mon = mons, !.dor = dor,
                          !.motors = r.motors \cup {nr}]
<1>1. /\ r \in FdState /\ r.moff \in [Drive -> Nat] /\ r.mon \in [Drive -> Nat]
      /\ r.mon[nr] \in Nat /\ r.dor \in Drive /\ r.motors \subseteq Drive
  BY DEF FdShape, FdState
<1>2. mon \in Nat /\ dor \in Drive
  BY <1>1, TicksAre
<1>3. \/ nr \notin r.motors
      \/ mon = r.mon[nr]
      \/ ~r.selected /\ r.mon[nr] < 2 /\ mon = 2
  OBVIOUS
<1>4. TicksToOn(r, nr) = s
  BY <1>1 DEF TicksToOn, FdState
<1> HIDE DEF mon
<1>5. moffs \in [Drive -> Nat] /\ mons \in [Drive -> Nat]
  BY <1>1, <1>2, TicksAre
<1> HIDE DEF moffs, mons, dor
<1>6. s \in FdState
  BY <1>1, <1>2, <1>5 DEF FdState
<1>7. s.timers = r.timers /\ s.odd = r.odd
  BY <1>1 DEF FdState
<1>8. s = [r EXCEPT !.moff = [r.moff EXCEPT ![nr] = Long],
                    !.mon = [r.mon EXCEPT ![nr] = mon],
                    !.dor = IF r.selected THEN r.dor ELSE nr,
                    !.motors = r.motors \cup {nr}]
  BY DEF moffs, mons, dor
<1> HIDE DEF s
<1>9. Follows(r, s)
  BY <1>6, <1>7, FollowsOn
<1> QED
  BY <1>2, <1>3, <1>4, <1>8, <1>9

(* The next request is looked at, and its motor.                           *)
LEMMA SetUpIs ==
  ASSUME NEW r, FdShape(r), r.queue # <<>>
  PROVE  LET q == r.queue[1]
             s == SetUp(r)
             u == TicksToOn(s, Head(s.queue).dev)
         IN /\ q \in FdRequest /\ Head(r.queue) = q
            /\ Follows(r, u) /\ u.queue = r.queue /\ u.drive = q.dev
            /\ Head(r.queue).dev \in Drive
            /\ u.seek_track = q.track /\ u.current_track = r.current_track
            /\ u.seek \/ (r.drive = q.dev /\ q.track = r.current_track)
            /\ u.lost = r.lost /\ u.ints = r.ints /\ u.timers = r.timers
            /\ u.do_floppy = r.do_floppy /\ u.selected = r.selected
            /\ u.heads = r.heads /\ u.odd = r.odd
            /\ u.dor = IF r.selected THEN r.dor ELSE q.dev
            /\ q.dev \in u.motors /\ u.moff[q.dev] = Long /\ u.mon[q.dev] \in Nat
<1> DEFINE q == r.queue[1]
           b == r.seek \/ r.drive # q.dev \/ q.track # r.current_track
           s == SetUp(r)
           u == TicksToOn(s, q.dev)
<1>1. r \in FdState /\ r.queue \in Seq(FdRequest)
  BY DEF FdShape, FdState
<1>2. q \in FdRequest /\ Head(r.queue) = q
  BY <1>1, HeadIs
<1>3. q.dev \in Drive /\ q.track \in Nat
  BY <1>2 DEF FdRequest
<1>4. s = [r EXCEPT !.drive = q.dev, !.seek_track = q.track, !.seek = b]
  BY <1>1, <1>2 DEF SetUp, FdState
<1> HIDE DEF q
<1>5. b \in BOOLEAN /\ (b \/ (r.drive = q.dev /\ q.track = r.current_track))
  OBVIOUS
<1> HIDE DEF b, s
<1>6. s \in FdState
  BY <1>1, <1>3, <1>4, <1>5 DEF FdState
<1>7. /\ s.timers = r.timers /\ s.odd = r.odd /\ s.queue = r.queue
      /\ s.drive = q.dev /\ s.seek_track = q.track
      /\ s.current_track = r.current_track /\ s.seek = b /\ s.lost = r.lost
      /\ s.ints = r.ints /\ s.do_floppy = r.do_floppy
      /\ s.selected = r.selected /\ s.heads = r.heads /\ s.dor = r.dor
  BY <1>1, <1>4 DEF FdState
<1>8. Follows(r, s)
  BY <1>6, <1>7, FollowsOn
<1>9. FdShape(s)
  BY <1>8 DEF Follows
<1>10. Follows(s, u)
  BY <1>3, <1>9, TicksToOnIs
<1>11. PICK mon \in Nat :
         u = [s EXCEPT !.moff = [s.moff EXCEPT ![q.dev] = Long],
                       !.mon = [s.mon EXCEPT ![q.dev] = mon],
                       !.dor = IF s.selected THEN s.dor ELSE q.dev,
                       !.motors = s.motors \cup {q.dev}]
  BY <1>3, <1>9, TicksToOnIs
<1> HIDE DEF u
<1>12. /\ u.timers = s.timers /\ u.odd = s.odd /\ u.queue = s.queue
       /\ u.drive = s.drive /\ u.seek_track = s.seek_track
       /\ u.current_track = s.current_track /\ u.seek = s.seek /\ u.lost = s.lost
       /\ u.ints = s.ints /\ u.do_floppy = s.do_floppy
       /\ u.selected = s.selected /\ u.heads = s.heads
       /\ u.dor = IF s.selected THEN s.dor ELSE q.dev
       /\ u.motors = s.motors \cup {q.dev}
       /\ u.moff = [s.moff EXCEPT ![q.dev] = Long]
       /\ u.mon = [s.mon EXCEPT ![q.dev] = mon]
  BY <1>6, <1>11 DEF FdState
<1>13. u.moff[q.dev] = Long /\ u.mon[q.dev] = mon
  <2>1. s.moff \in [Drive -> Nat] /\ s.mon \in [Drive -> Nat]
    BY <1>6 DEF FdState
  <2> QED
    BY <1>3, <1>12, <2>1
<1>14. Follows(r, u)
  BY <1>8, <1>10, FollowsOnOn
<1>15. TicksToOn(s, Head(s.queue).dev) = u
  BY <1>2, <1>7 DEF u
<1>16. u.seek \/ (r.drive = q.dev /\ q.track = r.current_track)
  BY <1>5, <1>7, <1>12
<1> QED
  BY <1>2, <1>3, <1>7, <1>12, <1>13, <1>14, <1>15, <1>16 DEF q, s

(* The request function: wherever it is called, it leaves the driver in    *)
(* order.                                                                  *)
LEMMA DoFdRequestIs ==
  ASSUME NEW r, FdShape(r), NEW z \in DoFdRequest(r)
  PROVE  /\ Follows(r, z)
         /\ Quiet(r) /\ HeadsKnown(r) => FdGood(z, 0)
<1> DEFINE s == [r EXCEPT !.seek = FALSE]
           next == SkipBeyond(s)
           q == next.queue[1]
           up == TicksToOn(SetUp(next), Head(next.queue).dev)
           upq == TicksToOn(SetUp(next), Head(SetUp(next).queue).dev)
<1>1. r \in FdState
  BY DEF FdShape
<1>2. s \in FdState
  BY <1>1 DEF FdState
<1>3. /\ s.timers = r.timers /\ s.odd = r.odd /\ s.queue = r.queue
      /\ s.drive = r.drive /\ s.current_track = r.current_track
      /\ s.lost = r.lost /\ s.ints = r.ints /\ s.do_floppy = r.do_floppy
      /\ s.selected = r.selected /\ s.heads = r.heads /\ s.dor = r.dor
      /\ s.reset = r.reset /\ s.recalibrate = r.recalibrate
  BY <1>1 DEF FdState
<1>4. Follows(r, s) /\ FdShape(s)
  BY <1>2, <1>3, FollowsOn DEF Follows
<1>5. Quiet(r) /\ HeadsKnown(r) => Quiet(s) /\ HeadsKnown(s)
  BY <1>3 DEF Quiet, HeadsKnown, Resting, Selection, Alive
<1>6. \/ s.reset /\ z = ResetFloppy(s)
      \/ ~s.reset /\ s.recalibrate /\ z \in RecalibrateFloppy(s)
      \/ ~s.reset /\ ~s.recalibrate /\ next.queue = <<>> /\ z = next
      \/ /\ ~s.reset /\ ~s.recalibrate /\ next.queue # <<>>
         /\ \/ up.mon[up.drive] = 0 /\ z \in FloppyOn(up)
            \/ /\ up.mon[up.drive] # 0
               /\ z = AddTimer(up, up.mon[up.drive], "on")
  BY DEF DoFdRequest
<1> HIDE DEF s
<1>7. CASE s.reset /\ z = ResetFloppy(s)
  BY <1>4, <1>5, <1>7, ResetIs, FollowsOnOn
<1>8. CASE ~s.reset /\ s.recalibrate /\ z \in RecalibrateFloppy(s)
  BY <1>4, <1>5, <1>8, RecalibrateIs, FollowsOnOn
<1>9. /\ Follows(s, next) /\ FdShape(next)
      /\ next.queue = <<>> \/ next.queue[1].track < Beyond
      /\ next.lost = s.lost /\ next.ints = s.ints /\ next.timers = s.timers
      /\ next.do_floppy = s.do_floppy /\ next.selected = s.selected
      /\ next.dor = s.dor /\ next.reset = s.reset
      /\ next.recalibrate = s.recalibrate /\ next.heads = s.heads
      /\ next.current_track = s.current_track
      /\ \/ "beyond" \in next.odd /\ ~(s.queue # <<>> /\ s.queue[1].track < Beyond)
         \/ next.queue = s.queue /\ next.drive = s.drive /\ next.odd = s.odd
  BY <1>4, SkipIs DEF Follows
<1> HIDE DEF next
<1>10. Quiet(s) /\ HeadsKnown(s) =>
         /\ Quiet(next) /\ HeadsKnown(next)
         /\ next.selected => next.drive = next.queue[1].dev /\ next.dor = next.drive
  BY <1>9 DEF Quiet, HeadsKnown, Resting, Selection, Follows
<1>11. CASE ~s.reset /\ ~s.recalibrate /\ next.queue = <<>> /\ z = next
  <2>1. Follows(r, z)
    BY <1>4, <1>9, <1>11, FollowsOnOn
  <2>2. Quiet(next) /\ HeadsKnown(next) => FdGood(next, 0)
    BY <1>11 DEF Quiet, FdGood
  <2> QED
    BY <1>5, <1>10, <1>11, <2>1, <2>2
<1>12. CASE ~s.reset /\ ~s.recalibrate /\ next.queue # <<>>
  <2> DEFINE nxt == SetUp(next)
  <2>1. /\ q \in FdRequest /\ Head(next.queue) = q
        /\ Follows(next, upq) /\ upq.queue = next.queue /\ upq.drive = q.dev
        /\ upq.seek_track = q.track /\ upq.current_track = next.current_track
        /\ upq.seek \/ (next.drive = q.dev /\ q.track = next.current_track)
        /\ upq.lost = next.lost /\ upq.ints = next.ints /\ upq.timers = next.timers
        /\ upq.do_floppy = next.do_floppy /\ upq.selected = next.selected
        /\ upq.heads = next.heads /\ upq.odd = next.odd
        /\ upq.dor = IF next.selected THEN next.dor ELSE q.dev
        /\ q.dev \in upq.motors /\ upq.moff[q.dev] = Long /\ upq.mon[q.dev] \in Nat
    BY <1>9, <1>12, SetUpIs
  <2>2. SetUp(next).queue = next.queue
    <3>1. next \in FdState
      BY <1>9 DEF FdShape
    <3> QED
      BY <3>1 DEF SetUp, FdState
  <2>3. up = upq
    BY <2>2
  <2> HIDE DEF upq, up, q
  <2>4. Follows(r, up) /\ FdShape(up)
    BY <1>4, <1>9, <2>1, <2>3, FollowsOnOn DEF Follows
  <2> DEFINE Pre == Quiet(r) /\ HeadsKnown(r)
  <2>5. ASSUME Pre
        PROVE  /\ Quiet(up) /\ SetUpFor(up) /\ up.drive = q.dev
    <3>1. Quiet(next) /\ HeadsKnown(next)
      BY <1>5, <1>10, <2>5
    <3>2. Served(up)
      BY <1>9, <1>12, <2>1, <2>3 DEF Served, q
    <3>3. up.seek \/ (OnTrack(up) /\ up.current_track = up.seek_track)
      BY <1>9, <1>12, <2>1, <2>3, <3>1 DEF HeadsKnown, OnTrack
    <3>4. Selection(up)
      BY <1>5, <1>9, <1>10, <1>12, <2>1, <2>3, <2>5, <3>2 DEF Selection, Served, q
    <3>5. Alive(up) /\ ~up.lost /\ Resting(up)
      BY <2>1, <2>3, <3>1 DEF Quiet, Alive, Resting
    <3> QED
      BY <2>1, <2>3, <3>2, <3>3, <3>4, <3>5 DEF Quiet, SetUpFor
  <2>6. CASE up.mon[up.drive] = 0 /\ z \in FloppyOn(up)
    <3>1. MotorRuns(up, 0, 2 * CommandTicks + 2)
      <4>1. Long >= 2 * CommandTicks + 2
        BY TicksAre
      <4> QED
        BY <2>1, <2>3, <2>6, <4>1, TicksAre DEF MotorRuns
    <3>2. /\ Follows(up, z)
          /\ Quiet(up) /\ SetUpFor(up) /\ MotorRuns(up, 0, 2 * CommandTicks + 2)
               => FdGood(z, 0)
      BY <2>4, <2>6, FloppyOnIs
    <3> QED
      BY <2>4, <2>5, <3>1, <3>2, FollowsOnOn
  <2>7. CASE up.mon[up.drive] # 0 /\ z = AddTimer(up, up.mon[up.drive], "on")
    <3> DEFINE n == up.mon[up.drive]
    <3>1. up \in FdState /\ NotEarly(up.timers) /\ n \in Nat /\ n > 0
      <4>1. up \in FdState /\ NotEarly(up.timers)
        BY <2>4 DEF FdShape
      <4>2. up.drive = q.dev
        BY <2>1, <2>3
      <4> QED
        BY <2>1, <2>3, <2>7, <4>1, <4>2
    <3>2. PICK l \in Seq(FdTimer) :
            /\ AddTimer(up, n, "on") = [up EXCEPT !.timers = l]
            /\ NotEarly(l) /\ l # <<>>
            /\ l[1].n = 0 <=> Expired(up)
            /\ up.timers = <<>> => l = <<Clock(n, "on")>>
      <4> HIDE DEF n
      <4> QED
        BY <3>1, TimerAdded
    <3>3. z = [up EXCEPT !.timers = l]
      BY <2>7, <3>2
    <3>4. z \in FdState
      BY <3>1, <3>3 DEF FdState
    <3>5. /\ z.timers = l /\ z.odd = up.odd /\ z.lost = up.lost
          /\ z.ints = up.ints /\ z.do_floppy = up.do_floppy
          /\ z.selected = up.selected /\ z.queue = up.queue /\ z.drive = up.drive
          /\ z.dor = up.dor /\ z.seek = up.seek /\ z.current_track = up.current_track
          /\ z.seek_track = up.seek_track /\ z.heads = up.heads
          /\ z.motors = up.motors /\ z.mon = up.mon /\ z.moff = up.moff
      BY <3>1, <3>3 DEF FdState
    <3>6. Follows(up, z)
      BY <3>2, <3>4, <3>5, HeadIs DEF Follows, FdShape, Expired, Alive
    <3>7. ASSUME Pre PROVE FdGood(z, 0)
      <4>1. Quiet(up) /\ SetUpFor(up) /\ up.drive = q.dev
        BY <2>5, <3>7
      <4>2. l = <<Clock(n, "on")>>
        BY <3>2, <4>1 DEF Quiet, Resting
      <4> HIDE DEF n
      <4>3. Len(l) = 1 /\ l[1].n = n /\ l[1].due = n /\ l[1].fn = "on"
        BY <4>2 DEF Clock
      <4>4. Served(z) /\ (z.seek \/ (OnTrack(z) /\ z.current_track = z.seek_track))
        BY <3>5, <4>1 DEF SetUpFor, Served, OnTrack
      <4>5. /\ z.ints = <<>> /\ z.do_floppy = "none" /\ ~z.lost
            /\ z.drive \in z.motors /\ z.moff[z.drive] = Long
            /\ z.mon[z.drive] = n
        BY <2>1, <2>3, <3>5, <4>1 DEF Quiet, Resting, n
      <4>6. TimerWaits(z, 0)
        BY <3>1, <3>5, <4>3, <4>4, <4>5, TicksAre DEF TimerWaits
      <4>7. Selection(z)
        BY <3>5, <4>1 DEF Quiet, Selection
      <4> QED
        BY <4>5, <4>6, <4>7 DEF FdGood
    <3> QED
      BY <2>4, <3>6, <3>7, FollowsOnOn
  <2> QED
    BY <1>6, <1>12, <2>6, <2>7 DEF up
<1> QED
  BY <1>6, <1>7, <1>8, <1>11, <1>12

(* end_request() and what is done about errors.                            *)
LEMMA DeselectIs ==
  ASSUME NEW r, FdShape(r)
  PROVE  LET s == Deselect(r)
         IN /\ Follows(r, s) /\ s.selected = FALSE /\ s.queue = r.queue
            /\ s.lost = r.lost /\ s.ints = r.ints /\ s.timers = r.timers
            /\ s.do_floppy = r.do_floppy /\ s.drive = r.drive /\ s.odd = r.odd
            /\ s.heads = r.heads /\ s.current_track = r.current_track
            /\ s.reset = r.reset /\ s.recalibrate = r.recalibrate
<1> DEFINE pc == Awakened(r.pc, "select", "test")
           s == [r EXCEPT !.selected = FALSE, !.pc = pc]
<1>1. r \in FdState
  BY DEF FdShape
<1>2. pc \in [Caller -> {"out", "on", "doze", "motor", "test", "nap", "select"}]
  BY <1>1 DEF FdState, Awakened
<1>3. Deselect(r) = s
  BY <1>1 DEF Deselect, FdState
<1> HIDE DEF pc
<1>4. s \in FdState
  BY <1>1, <1>2 DEF FdState
<1>5. /\ s.selected = FALSE /\ s.queue = r.queue
      /\ s.lost = r.lost /\ s.ints = r.ints /\ s.timers = r.timers
      /\ s.do_floppy = r.do_floppy /\ s.drive = r.drive /\ s.odd = r.odd
      /\ s.heads = r.heads /\ s.current_track = r.current_track
      /\ s.reset = r.reset /\ s.recalibrate = r.recalibrate
  BY <1>1 DEF FdState
<1> HIDE DEF s
<1> QED
  BY <1>3, <1>4, <1>5, FollowsOn

(* floppy_off() sets when the motor stops.                                 *)
LEMMA OffIs ==
  ASSUME NEW r, FdShape(r), NEW nr \in Drive
  PROVE  /\ Off(r, nr) = [r EXCEPT !.moff = [r.moff EXCEPT ![nr] = MotorOff]]
         /\ [r.moff EXCEPT ![nr] = MotorOff] \in [Drive -> Nat]
         /\ Follows(r, Off(r, nr))
<1> DEFINE moff == [r.moff EXCEPT ![nr] = MotorOff]
<1>1. r \in FdState /\ r.moff \in [Drive -> Nat]
  BY DEF FdShape, FdState
<1>2. Off(r, nr) = [r EXCEPT !.moff = moff] /\ moff \in [Drive -> Nat]
  BY <1>1, TicksAre DEF Off, FdState
<1> HIDE DEF moff
<1> DEFINE s == [r EXCEPT !.moff = moff]
<1>3. s \in FdState
  BY <1>1, <1>2 DEF FdState
<1>4. s.timers = r.timers /\ s.odd = r.odd
  BY <1>1 DEF FdState
<1>5. Follows(r, s)
  <2> HIDE DEF s
  <2> QED
    BY <1>3, <1>4, FollowsOn
<1> QED
  BY <1>2, <1>5 DEF moff

(* end_request(): the next request is CURRENT.                             *)
LEMMA EndRequestIs ==
  ASSUME NEW r, FdShape(r), r.queue # <<>>
  PROVE  LET s == EndRequest(r)
         IN /\ Follows(r, s) /\ s.selected = r.selected /\ s.queue = Tail(r.queue)
            /\ s.lost = r.lost /\ s.ints = r.ints /\ s.timers = r.timers
            /\ s.do_floppy = r.do_floppy /\ s.drive = r.drive /\ s.odd = r.odd
            /\ s.heads = r.heads /\ s.current_track = r.current_track
            /\ s.reset = r.reset /\ s.recalibrate = r.recalibrate
<1> DEFINE t == Off(r, Head(r.queue).dev)
           rest == Tail(r.queue)
           s == [t EXCEPT !.queue = rest]
<1>1. r \in FdState /\ r.queue \in Seq(FdRequest)
  BY DEF FdShape, FdState
<1>2. Head(r.queue) \in FdRequest /\ rest \in Seq(FdRequest)
  BY <1>1, HeadIs
<1>3. Head(r.queue).dev \in Drive
  BY <1>2 DEF FdRequest
<1>4. /\ t = [r EXCEPT !.moff = [r.moff EXCEPT ![Head(r.queue).dev] = MotorOff]]
      /\ Follows(r, t) /\ t \in FdState
  BY <1>3, OffIs DEF Follows, FdShape
<1>5. EndRequest(r) = [t EXCEPT !.queue = Tail(t.queue)]
  BY <1>1 DEF EndRequest
<1> HIDE DEF t, rest
<1>6. /\ t.selected = r.selected /\ t.queue = r.queue
      /\ t.lost = r.lost /\ t.ints = r.ints /\ t.timers = r.timers
      /\ t.do_floppy = r.do_floppy /\ t.drive = r.drive /\ t.odd = r.odd
      /\ t.heads = r.heads /\ t.current_track = r.current_track
      /\ t.reset = r.reset /\ t.recalibrate = r.recalibrate
  BY <1>1, <1>4 DEF FdState
<1>7. EndRequest(r) = s
  BY <1>5, <1>6 DEF rest
<1>8. s \in FdState
  BY <1>2, <1>4 DEF FdState
<1>9. /\ s.selected = t.selected /\ s.queue = rest
      /\ s.lost = t.lost /\ s.ints = t.ints /\ s.timers = t.timers
      /\ s.do_floppy = t.do_floppy /\ s.drive = t.drive /\ s.odd = t.odd
      /\ s.heads = t.heads /\ s.current_track = t.current_track
      /\ s.reset = t.reset /\ s.recalibrate = t.recalibrate
  BY <1>4 DEF FdState
<1> HIDE DEF s
<1>10. Follows(r, s)
  BY <1>6, <1>8, <1>9, FollowsOn
<1> QED
  BY <1>6, <1>7, <1>9, <1>10 DEF rest

(* bad_flp_intr(): the request is tried again, or given up.                *)
LEMMA BadIs ==
  ASSUME NEW r, FdShape(r), NEW z \in Bad(r)
  PROVE  /\ Follows(r, z)
         /\ Quiet(r) /\ r.queue # <<>> => FdGood(z, 0)
<1>1. CASE r.queue = <<>>
  <2>1. z = NoCurrent(r)
    BY <1>1 DEF Bad
  <2> QED
    BY <1>1, <2>1, NoCurrentIs
<1>2. CASE r.queue # <<>>
  <2> DEFINE q == r.queue
             x == [q[1] EXCEPT !.errors = @ + 1]
             l == [q EXCEPT ![1] = x]
             s == [r EXCEPT !.queue[1].errors = @ + 1]
             t == [r EXCEPT !.queue = l]
             next == IF s.queue[1].errors > MaxErrors THEN EndRequest(Deselect(s)) ELSE s
             again == next.queue = <<>> \/ next.queue[1].errors > MaxErrors \div 2
             u == [next EXCEPT !.reset = @ \/ again, !.recalibrate = @ \/ ~again]
  <2>1. z \in DoFdRequest(u)
    BY <1>2 DEF Bad
  <2>2. r \in FdState /\ q \in Seq(FdRequest)
    BY DEF FdShape, FdState
  <2>3. 1 \in 1..Len(q) /\ q[1] \in FdRequest
    BY <1>2, <2>2, HeadIs
  <2>4. x \in FdRequest /\ x.dev = q[1].dev /\ x.track = q[1].track
    BY <2>3 DEF FdRequest
  <2>5. s = t
    BY <2>2, <2>3 DEF FdState
  <2> HIDE DEF s, x
  <2>6. l \in Seq(FdRequest) /\ Len(l) = Len(q) /\ l[1] = x
    BY <2>2, <2>3, <2>4, ExceptSeq
  <2>7. l # <<>>
    BY <2>3, <2>6
  <2> HIDE DEF q, l
  <2>8. t \in FdState
    BY <2>2, <2>6 DEF FdState
  <2>9. /\ t.selected = r.selected /\ t.queue = l
        /\ t.lost = r.lost /\ t.ints = r.ints /\ t.timers = r.timers
        /\ t.do_floppy = r.do_floppy /\ t.drive = r.drive /\ t.odd = r.odd
        /\ t.heads = r.heads /\ t.current_track = r.current_track
        /\ t.dor = r.dor
    BY <2>2 DEF FdState
  <2> HIDE DEF t
  <2>10. Follows(r, t) /\ FdShape(t)
    BY <2>8, <2>9, FollowsOn DEF Follows
  <2>11. Quiet(r) => Quiet(t)
    BY <2>4, <2>6, <2>7, <2>9 DEF Quiet, Resting, Selection, Alive, q
  <2>12. Follows(r, next) /\ (Quiet(r) => Quiet(next))
    <3>1. CASE s.queue[1].errors > MaxErrors
      <4> DEFINE e == Deselect(t)
      <4>1. next = EndRequest(e)
        BY <2>5, <3>1
      <4>2. /\ Follows(t, e) /\ FdShape(e) /\ e.selected = FALSE /\ e.queue = t.queue
            /\ e.lost = t.lost /\ e.ints = t.ints /\ e.timers = t.timers
            /\ e.do_floppy = t.do_floppy /\ e.odd = t.odd
        BY <2>10, DeselectIs DEF Follows
      <4> HIDE DEF e, next
      <4>3. /\ Follows(e, next) /\ next.selected = e.selected
            /\ next.lost = e.lost /\ next.ints = e.ints /\ next.timers = e.timers
            /\ next.do_floppy = e.do_floppy /\ next.odd = e.odd
        BY <2>7, <2>9, <4>1, <4>2, EndRequestIs
      <4>4. Follows(r, next)
        BY <2>10, <4>2, <4>3, FollowsOnOn
      <4>5. Quiet(t) => Quiet(next)
        BY <4>2, <4>3 DEF Quiet, Resting, Selection, Alive
      <4> QED
        BY <2>11, <4>4, <4>5
    <3>2. CASE ~(s.queue[1].errors > MaxErrors)
      BY <2>5, <2>10, <2>11, <3>2
    <3> QED
      BY <3>1, <3>2
  <2>13. FdShape(next) /\ next \in FdState
    BY <2>12 DEF Follows, FdShape
  <2> HIDE DEF next
  <2>14. again \in BOOLEAN
    OBVIOUS
  <2> HIDE DEF again
  <2>15. u \in FdState
    BY <2>13, <2>14 DEF FdState
  <2>16. /\ u.selected = next.selected /\ u.queue = next.queue
         /\ u.lost = next.lost /\ u.ints = next.ints /\ u.timers = next.timers
         /\ u.do_floppy = next.do_floppy /\ u.drive = next.drive
         /\ u.odd = next.odd /\ u.dor = next.dor
    BY <2>13 DEF FdState
  <2>17. u.reset \/ u.recalibrate
    <3>1. u.reset = (next.reset \/ again) /\ u.recalibrate = (next.recalibrate \/ ~again)
      BY <2>13 DEF FdState
    <3> QED
      BY <3>1, <2>14
  <2> HIDE DEF u
  <2>18. Follows(next, u)
    BY <2>13, <2>15, <2>16, FollowsOn
  <2>19. Quiet(next) => Quiet(u) /\ HeadsKnown(u)
    BY <2>16, <2>17 DEF Quiet, Resting, Selection, Alive, HeadsKnown
  <2>20. FdShape(u)
    BY <2>18 DEF Follows
  <2>21. Follows(u, z) /\ (Quiet(u) /\ HeadsKnown(u) => FdGood(z, 0))
    BY <2>1, <2>20, DoFdRequestIs
  <2> QED
    BY <2>12, <2>18, <2>19, <2>21, FollowsOnOn
<1> QED
  BY <1>1, <1>2

(* A time-out asks for a reset, and nothing else changes.                  *)
LEMMA AnsweredIs ==
  ASSUME NEW r, FdShape(r), NEW s \in Answered(r)
  PROVE  /\ Follows(r, s) /\ FdShape(s)
         /\ Quiet(r) => Quiet(s)
         /\ HeadsKnown(r) => HeadsKnown(s)
         /\ s.queue = r.queue /\ s.odd = r.odd /\ s.heads = r.heads
         /\ s.drive = r.drive /\ s.current_track = r.current_track
         /\ s.selected = r.selected
         /\ Served(r) => Served(s)
         /\ MotorRuns(r, 0, CommandTicks) => MotorRuns(s, 0, CommandTicks)
<1>1. r \in FdState
  BY DEF FdShape
<1>2. s = r \/ s = [r EXCEPT !.reset = TRUE, !.fault = TRUE]
  BY DEF Answered
<1>3. s \in FdState
  <2>1. [r EXCEPT !.reset = TRUE, !.fault = TRUE] \in FdState
    BY <1>1 DEF FdState
  <2> QED
    BY <1>1, <1>2, <2>1
<1>4. /\ s.timers = r.timers /\ s.odd = r.odd /\ s.lost = r.lost
      /\ s.ints = r.ints /\ s.do_floppy = r.do_floppy /\ s.selected = r.selected
      /\ s.queue = r.queue /\ s.drive = r.drive /\ s.dor = r.dor
      /\ s.heads = r.heads /\ s.current_track = r.current_track
      /\ s.seek_track = r.seek_track /\ s.recalibrate = r.recalibrate
      /\ s.motors = r.motors /\ s.mon = r.mon /\ s.moff = r.moff
      /\ r.reset => s.reset
  <2>1. CASE s = r
    BY <2>1
  <2>2. CASE s = [r EXCEPT !.reset = TRUE, !.fault = TRUE]
    BY <1>1, <2>2, SMTT(60) DEF FdState
  <2> QED
    BY <1>2, <2>1, <2>2
<1>5. Follows(r, s) /\ FdShape(s)
  BY <1>3, <1>4, FollowsOn DEF Follows
<1>6. Quiet(r) => Quiet(s)
  BY <1>4 DEF Quiet, Resting, Selection, Alive
<1>7. HeadsKnown(r) => HeadsKnown(s)
  BY <1>4 DEF HeadsKnown
<1>8. /\ Served(r) => Served(s)
      /\ MotorRuns(r, 0, CommandTicks) => MotorRuns(s, 0, CommandTicks)
  BY <1>4 DEF Served, MotorRuns
<1> QED
  BY <1>4, <1>5, <1>6, <1>7, <1>8

(* The handlers of the interrupts.                                         *)
LEMMA RwDoneIs ==
  ASSUME NEW r, FdShape(r), NEW c, NEW z \in RwDone(r, c)
  PROVE  /\ Follows(r, z)
         /\ /\ Quiet(r) /\ r.queue # <<>>
            /\ "beyond" \in r.odd \/ r.heads[r.drive] = r.current_track
            => FdGood(z, 0)
<1>1. CASE z \in Bad(r)
  BY <1>1, BadIs
<1>2. CASE z \notin Bad(r) /\ r.queue = <<>>
  <2>1. z = NoCurrent(r)
    BY <1>2 DEF RwDone
  <2> QED
    BY <1>2, <2>1, NoCurrentIs
<1>3. CASE z \notin Bad(r) /\ r.queue # <<>>
  <2> DEFINE e == Deselect(r)
             s == EndRequest(e)
  <2>1. z \in DoFdRequest(s)
    BY <1>3 DEF RwDone
  <2>2. /\ Follows(r, e) /\ FdShape(e) /\ e.selected = FALSE /\ e.queue = r.queue
        /\ e.lost = r.lost /\ e.ints = r.ints /\ e.timers = r.timers
        /\ e.do_floppy = r.do_floppy /\ e.drive = r.drive /\ e.odd = r.odd
        /\ e.heads = r.heads /\ e.current_track = r.current_track
    BY DeselectIs DEF Follows
  <2> HIDE DEF e
  <2>3. /\ Follows(e, s) /\ FdShape(s) /\ s.selected = e.selected
        /\ s.lost = e.lost /\ s.ints = e.ints /\ s.timers = e.timers
        /\ s.do_floppy = e.do_floppy /\ s.drive = e.drive /\ s.odd = e.odd
        /\ s.heads = e.heads /\ s.current_track = e.current_track
    BY <1>3, <2>2, EndRequestIs DEF Follows
  <2> HIDE DEF s
  <2>4. Follows(r, s)
    BY <2>2, <2>3, FollowsOnOn
  <2>5. ASSUME Quiet(r), "beyond" \in r.odd \/ r.heads[r.drive] = r.current_track
        PROVE  Quiet(s) /\ HeadsKnown(s)
    BY <2>2, <2>3, <2>5 DEF Quiet, Resting, Selection, Alive, HeadsKnown
  <2>6. Follows(s, z) /\ (Quiet(s) /\ HeadsKnown(s) => FdGood(z, 0))
    BY <2>1, <2>3, DoFdRequestIs
  <2> QED
    BY <2>4, <2>5, <2>6, FollowsOnOn
<1> QED
  BY <1>1, <1>2, <1>3

LEMMA RwInterruptIs ==
  ASSUME NEW r, FdShape(r), NEW c, NEW z \in RwInterrupt(r, c)
  PROVE  /\ Follows(r, z)
         /\ /\ Quiet(r) /\ r.queue # <<>>
            /\ "beyond" \in r.odd \/ r.heads[r.drive] = r.current_track
            => FdGood(z, 0)
<1>1. PICK s \in Answered(r) : z \in RwDone(s, c)
  BY DEF RwInterrupt
<1>2. /\ Follows(r, s) /\ FdShape(s) /\ (Quiet(r) => Quiet(s))
      /\ s.queue = r.queue /\ s.odd = r.odd /\ s.heads = r.heads
      /\ s.drive = r.drive /\ s.current_track = r.current_track
  BY AnsweredIs
<1>3. /\ Follows(s, z)
      /\ /\ Quiet(s) /\ s.queue # <<>>
         /\ "beyond" \in s.odd \/ s.heads[s.drive] = s.current_track
         => FdGood(z, 0)
  BY <1>1, <1>2, RwDoneIs
<1> QED
  BY <1>2, <1>3, FollowsOnOn

(* seek_interrupt(): the heads are there, or this was an error.            *)
LEMMA SeekDoneIs ==
  ASSUME NEW r, FdShape(r), NEW c, NEW z \in SeekDone(r, c)
  PROVE  /\ Follows(r, z)
         /\ /\ Quiet(r) /\ Served(r) /\ r.selected /\ c.drive = r.drive
            /\ MotorRuns(r, 0, CommandTicks)
            => FdGood(z, 0)
<1>1. CASE z \in Bad(r)
  BY <1>1, BadIs DEF Served
<1>2. CASE z \notin Bad(r)
  <2> DEFINE t == [r EXCEPT !.current_track = r.seek_track]
  <2>1. z \in SetupRw(t) /\ r.heads[c.drive] = r.seek_track
    BY <1>2 DEF SeekDone
  <2>2. r \in FdState
    BY DEF FdShape
  <2>3. t \in FdState
    BY <2>2 DEF FdState
  <2>4. /\ t.timers = r.timers /\ t.odd = r.odd /\ t.lost = r.lost
        /\ t.ints = r.ints /\ t.do_floppy = r.do_floppy /\ t.selected = r.selected
        /\ t.queue = r.queue /\ t.drive = r.drive /\ t.dor = r.dor
        /\ t.current_track = r.seek_track /\ t.seek_track = r.seek_track
        /\ t.heads = r.heads /\ t.motors = r.motors /\ t.mon = r.mon
        /\ t.moff = r.moff
    BY <2>2 DEF FdState
  <2> HIDE DEF t
  <2>5. Follows(r, t) /\ FdShape(t)
    BY <2>3, <2>4, FollowsOn DEF Follows
  <2>6. ASSUME Quiet(r), Served(r), r.selected, c.drive = r.drive,
               MotorRuns(r, 0, CommandTicks)
        PROVE  Quiet(t) /\ Commandable(t, "rw", 0)
    <3>1. Quiet(t)
      BY <2>4, <2>6 DEF Quiet, Resting, Selection, Alive
    <3>2. Served(t) /\ OnTrack(t) /\ MotorRuns(t, 0, CommandTicks)
      BY <2>1, <2>4, <2>6 DEF Served, OnTrack, MotorRuns
    <3> QED
      BY <2>4, <2>6, <3>1, <3>2 DEF Commandable
  <2>7. /\ Follows(t, z)
        /\ Quiet(t) /\ Commandable(t, "rw", 0) => FdGood(z, 0)
    BY <2>1, <2>5, SetupRwIs
  <2> QED
    BY <2>5, <2>6, <2>7, FollowsOnOn
<1> QED
  BY <1>1, <1>2

LEMMA SeekInterruptIs ==
  ASSUME NEW r, FdShape(r), NEW c, NEW z \in SeekInterrupt(r, c)
  PROVE  /\ Follows(r, z)
         /\ /\ Quiet(r) /\ Served(r) /\ r.selected /\ c.drive = r.drive
            /\ MotorRuns(r, 0, CommandTicks)
            => FdGood(z, 0)
<1>1. PICK s \in Answered(r) : z \in SeekDone(s, c)
  BY DEF SeekInterrupt
<1>2. /\ Follows(r, s) /\ FdShape(s) /\ (Quiet(r) => Quiet(s))
      /\ (Served(r) => Served(s)) /\ s.selected = r.selected
      /\ s.drive = r.drive
      /\ MotorRuns(r, 0, CommandTicks) => MotorRuns(s, 0, CommandTicks)
  BY AnsweredIs
<1>3. /\ Follows(s, z)
      /\ /\ Quiet(s) /\ Served(s) /\ s.selected /\ c.drive = s.drive
         /\ MotorRuns(s, 0, CommandTicks)
         => FdGood(z, 0)
  BY <1>1, <1>2, SeekDoneIs
<1> QED
  BY <1>2, <1>3, FollowsOnOn

(* reset_interrupt(): the request is taken up again.                       *)
LEMMA ResetInterruptIs ==
  ASSUME NEW r, FdShape(r), NEW z \in ResetInterrupt(r)
  PROVE  Follows(r, z) /\ (Quiet(r) /\ HeadsKnown(r) => FdGood(z, 0))
<1>1. PICK s \in Answered(r) : z \in DoFdRequest(s)
  BY DEF ResetInterrupt
<1>2. /\ Follows(r, s) /\ FdShape(s) /\ (Quiet(r) => Quiet(s))
      /\ HeadsKnown(r) => HeadsKnown(s)
  BY AnsweredIs
<1>3. Follows(s, z) /\ (Quiet(s) /\ HeadsKnown(s) => FdGood(z, 0))
  BY <1>1, <1>2, DoFdRequestIs
<1> QED
  BY <1>2, <1>3, FollowsOnOn

(* recal_interrupt(): so are they on track 0, or the controller is reset.  *)
LEMMA RecalInterruptIs ==
  ASSUME NEW r, FdShape(r), NEW ok \in BOOLEAN,
         NEW z \in RecalInterrupt(r, ok)
  PROVE  /\ Follows(r, z)
         /\ Quiet(r) /\ (ok => r.heads[r.drive] = r.current_track) => FdGood(z, 0)
<1> DEFINE t == IF ok THEN [r EXCEPT !.recalibrate = FALSE]
                ELSE [r EXCEPT !.reset = TRUE, !.fault = TRUE]
<1>1. z \in DoFdRequest(t)
  BY DEF RecalInterrupt
<1>2. r \in FdState
  BY DEF FdShape
<1>3. t \in FdState
  BY <1>2 DEF FdState
<1>4. /\ t.timers = r.timers /\ t.odd = r.odd /\ t.lost = r.lost
      /\ t.ints = r.ints /\ t.do_floppy = r.do_floppy /\ t.selected = r.selected
      /\ t.queue = r.queue /\ t.drive = r.drive /\ t.dor = r.dor
      /\ t.heads = r.heads /\ t.current_track = r.current_track
      /\ ok \/ t.reset
  BY <1>2 DEF FdState
<1> HIDE DEF t
<1>5. Follows(r, t) /\ FdShape(t)
  BY <1>3, <1>4, FollowsOn DEF Follows
<1>6. ASSUME Quiet(r), ok => r.heads[r.drive] = r.current_track
      PROVE  Quiet(t) /\ HeadsKnown(t)
  BY <1>4, <1>6 DEF Quiet, Resting, Selection, Alive, HeadsKnown
<1>7. Follows(t, z) /\ (Quiet(t) /\ HeadsKnown(t) => FdGood(z, 0))
  BY <1>1, <1>5, DoFdRequestIs
<1> QED
  BY <1>5, <1>6, <1>7, FollowsOnOn

(* unexpected_floppy_interrupt() asks for a reset or a recalibration.      *)
LEMMA UnexpectedIs ==
  ASSUME NEW r, FdShape(r), NEW z \in Unexpected(r)
  PROVE  /\ Follows(r, z)
         /\ r.ints = <<>> /\ FdGood(r, 0) => FdGood(z, 0)
<1>1. r \in FdState
  BY DEF FdShape
<1>2. z = [r EXCEPT !.reset = TRUE] \/ z = [r EXCEPT !.recalibrate = TRUE]
  BY DEF Unexpected
<1>3. z \in FdState
  <2>1. [r EXCEPT !.reset = TRUE] \in FdState
    BY <1>1 DEF FdState
  <2>2. [r EXCEPT !.recalibrate = TRUE] \in FdState
    BY <1>1 DEF FdState
  <2> QED
    BY <1>2, <2>1, <2>2
<1>4. /\ z.timers = r.timers /\ z.odd = r.odd /\ z.lost = r.lost
      /\ z.ints = r.ints /\ z.do_floppy = r.do_floppy /\ z.selected = r.selected
      /\ z.queue = r.queue /\ z.drive = r.drive /\ z.dor = r.dor
      /\ z.heads = r.heads /\ z.current_track = r.current_track
      /\ z.seek = r.seek /\ z.seek_track = r.seek_track
      /\ z.motors = r.motors /\ z.mon = r.mon /\ z.moff = r.moff
      /\ z.reset \/ z.recalibrate
  BY <1>1, <1>2 DEF FdState
<1>5. ASSUME r.ints = <<>>, FdGood(r, 0), Alive(r) PROVE FdGood(z, 0)
  <2>1. ~Commanded(r, 0)
    BY <1>5 DEF Commanded
  <2>2. CASE Resting(r) /\ HeadsKnown(r) /\ r.queue = <<>>
    BY <1>4, <1>5, <2>2 DEF FdGood, Resting, HeadsKnown, Selection, Alive
  <2>3. CASE TimerWaits(r, 0)
    <3>1. TimerWaits(z, 0)
      BY <1>4, <2>3 DEF TimerWaits, Served, OnTrack, MotorRuns
    <3>2. ~z.lost /\ Selection(z)
      BY <1>4, <1>5 DEF FdGood, Selection
    <3> QED
      BY <3>1, <3>2 DEF FdGood
  <2> QED
    BY <1>5, <2>1, <2>2, <2>3 DEF FdGood
<1>6. Follows(r, z)
  BY <1>3, <1>4, FollowsOn
<1>7. ~Alive(r) => FdGood(z, 0)
  BY <1>4 DEF FdGood, Alive
<1> QED
  BY <1>5, <1>6, <1>7

(* The motors at the end of a tick: those that run for the driver go on.   *)
LEMMA DoFloppyTimerIs ==
  ASSUME NEW r, FdShape(r)
  PROVE  LET s == DoFloppyTimer(r)
         IN /\ Follows(r, s)
            /\ FdGood(r, 1) => FdGood(s, 0)
<1> DEFINE up == {n \in r.motors : r.mon[n] > 0}
           stop == {n \in r.motors \ up : r.moff[n] = 0}
           ready == {n \in r.motors : r.mon[n] = 1}
           mon == [n \in Drive |-> IF n \in up THEN r.mon[n] - 1 ELSE r.mon[n]]
           moff == [n \in Drive |->
                      IF n \in (r.motors \ up) \ stop /\ r.moff[n] < Long
                      THEN r.moff[n] - 1 ELSE r.moff[n]]
           pc == [t \in Caller |-> IF r.pc[t] = "motor" /\ r.nr[t] \in ready
                                   THEN "on" ELSE r.pc[t]]
           s == [r EXCEPT !.mon = mon, !.moff = moff, !.motors = r.motors \ stop,
                          !.pc = pc]
<1>1. /\ r \in FdState /\ r.mon \in [Drive -> Nat] /\ r.moff \in [Drive -> Nat]
      /\ r.motors \subseteq Drive /\ r.drive \in Drive
      /\ r.pc \in [Caller -> {"out", "on", "doze", "motor", "test", "nap", "select"}]
  BY DEF FdShape, FdState
<1>2. DoFloppyTimer(r) = s
  BY <1>1 DEF DoFloppyTimer, CountMotors, FdState
<1>3. mon \in [Drive -> Nat]
  <2> SUFFICES ASSUME NEW n \in Drive
               PROVE  (IF n \in up THEN r.mon[n] - 1 ELSE r.mon[n]) \in Nat
    OBVIOUS
  <2>1. r.mon[n] \in Nat /\ (n \in up => r.mon[n] > 0)
    BY <1>1
  <2> QED
    BY <2>1
<1>4. moff \in [Drive -> Nat]
  <2> SUFFICES ASSUME NEW n \in Drive
               PROVE  (IF n \in (r.motors \ up) \ stop /\ r.moff[n] < Long
                       THEN r.moff[n] - 1 ELSE r.moff[n]) \in Nat
    OBVIOUS
  <2>1. r.moff[n] \in Nat /\ (n \in (r.motors \ up) \ stop => r.moff[n] # 0)
    BY <1>1
  <2> QED
    BY <2>1
<1>5. pc \in [Caller -> {"out", "on", "doze", "motor", "test", "nap", "select"}]
  BY <1>1
<1>6. r.motors \ stop \subseteq Drive
  BY <1>1
<1> DEFINE motors == r.motors \ stop
           x == r.drive
<1>7. /\ x \in r.motors /\ r.mon[x] > 0 =>
           x \in motors /\ mon[x] = r.mon[x] - 1 /\ moff[x] = r.moff[x]
      /\ x \in r.motors /\ ~(r.mon[x] > 0) /\ r.moff[x] # 0 =>
           /\ x \in motors /\ mon[x] = r.mon[x]
           /\ moff[x] = IF r.moff[x] < Long THEN r.moff[x] - 1 ELSE r.moff[x]
  BY <1>1
<1>8. s = [r EXCEPT !.mon = mon, !.moff = moff, !.motors = motors, !.pc = pc]
  OBVIOUS
<1>9. motors \subseteq Drive
  BY <1>6
<1> HIDE DEF mon, moff, motors, pc, s
<1>10. s \in FdState
  BY <1>1, <1>3, <1>4, <1>5, <1>8, <1>9 DEF FdState
<1>11. /\ s.timers = r.timers /\ s.odd = r.odd /\ s.lost = r.lost
       /\ s.ints = r.ints /\ s.do_floppy = r.do_floppy /\ s.selected = r.selected
       /\ s.queue = r.queue /\ s.drive = x /\ s.dor = r.dor /\ s.age = r.age
       /\ s.heads = r.heads /\ s.current_track = r.current_track
       /\ s.seek = r.seek /\ s.seek_track = r.seek_track
       /\ s.reset = r.reset /\ s.recalibrate = r.recalibrate
       /\ s.motors = motors /\ s.mon = mon /\ s.moff = moff
  BY <1>1, <1>8 DEF FdState
<1>12. r.mon[x] \in Nat /\ r.moff[x] \in Nat /\ mon[x] \in Nat /\ moff[x] \in Nat
  BY <1>1, <1>3, <1>4
<1>13. ASSUME NEW n \in Nat, MotorRuns(r, 1, n)
       PROVE  MotorRuns(s, 0, n)
  <2>1. /\ x \in r.motors /\ r.mon[x] <= 2
        /\ r.moff[x] >= n + (IF r.mon[x] > 0 THEN 0 ELSE 1)
    BY <1>13 DEF MotorRuns
  <2>2. x \in motors /\ mon[x] <= 1 /\ moff[x] >= n
    <3>1. CASE r.mon[x] > 0
      BY <1>7, <1>12, <2>1, <3>1
    <3>2. CASE ~(r.mon[x] > 0)
      BY <1>7, <1>12, <2>1, <3>2
    <3> QED
      BY <3>1, <3>2
  <2>3. n + (IF mon[x] > 0 THEN 0 ELSE 0) = n
    OBVIOUS
  <2> QED
    BY <1>11, <2>2, <2>3 DEF MotorRuns
<1>14. ASSUME FdGood(r, 1), Alive(r) PROVE FdGood(s, 0)
  <2>1. ~s.lost /\ Selection(s)
    BY <1>11, <1>14 DEF FdGood, Selection
  <2>2. (Served(s) <=> Served(r)) /\ (OnTrack(s) <=> OnTrack(r))
    BY <1>11 DEF Served, OnTrack
  <2>3. CASE Resting(r) /\ HeadsKnown(r) /\ r.queue = <<>>
    BY <1>11, <2>1, <2>3 DEF FdGood, Resting, HeadsKnown
  <2>4. CASE TimerWaits(r, 1)
    <3> DEFINE t == r.timers[1]
    <3>1. t.n \in Nat
      <4>1. r.timers \in Seq(FdTimer)
        BY <1>1 DEF FdState
      <4>2. 1 \in 1..Len(r.timers)
        BY <2>4 DEF TimerWaits
      <4> QED
        BY <4>1, <4>2, TimerFields
    <3>2. ASSUME t.fn = "on"
          PROVE  /\ x \in motors /\ t.n + 0 <= mon[x]
                 /\ mon[x] <= t.n + 0 \/ mon[x] <= 2
                 /\ moff[x] >= MotorOff
      <4>1. /\ x \in r.motors /\ t.n + 1 <= r.mon[x]
            /\ r.mon[x] <= t.n + 1 \/ r.mon[x] <= 2
            /\ r.moff[x] >= MotorOff
        BY <2>4, <3>2 DEF TimerWaits
      <4> HIDE DEF t
      <4>2. r.mon[x] > 0
        BY <1>12, <3>1, <4>1
      <4> QED
        BY <1>7, <1>12, <3>1, <4>1, <4>2
    <3>3. ASSUME t.fn = "transfer"
          PROVE  t.n <= 2 /\ s.selected /\ MotorRuns(s, 0, 2 * CommandTicks + t.n)
      <4>1. /\ t.n <= 2 /\ r.selected /\ MotorRuns(r, 1, 2 * CommandTicks + t.n)
        BY <2>4, <3>3 DEF TimerWaits
      <4>2. 2 * CommandTicks + t.n \in Nat
        BY <3>1, TicksAre
      <4> QED
        BY <1>11, <1>13, <4>1, <4>2
    <3>4. /\ r.ints = <<>> /\ r.do_floppy = "none"
          /\ Len(r.timers) = 1 /\ t.due = t.n /\ Served(r)
          /\ (r.seek \/ (OnTrack(r) /\ r.current_track = r.seek_track))
      BY <2>4 DEF TimerWaits
    <3>5. TimerWaits(s, 0)
      BY <1>11, <2>2, <3>2, <3>3, <3>4 DEF TimerWaits
    <3> QED
      BY <2>1, <3>5 DEF FdGood
  <2>5. CASE Commanded(r, 1)
    <3> DEFINE c == r.ints[1]
    <3>1. /\ r.timers = <<>> /\ Len(r.ints) = 1
          /\ c.kind = r.do_floppy /\ c.drive = r.drive /\ c.track = r.seek_track
          /\ r.age <= CommandTicks
          /\ c.kind = "reset" => r.recalibrate
          /\ c.kind = "recal" => r.current_track = 0
          /\ c.kind \in {"seek", "rw"} => Served(r) /\ r.selected
          /\ c.kind = "seek" => MotorRuns(r, 1, 2 * CommandTicks - r.age)
          /\ c.kind = "rw" => /\ MotorRuns(r, 1, CommandTicks - r.age)
                              /\ OnTrack(r) /\ r.current_track = r.seek_track
      BY <2>5 DEF Commanded
    <3>2. r.age \in Nat
      BY <1>1 DEF FdState
    <3>3. 2 * CommandTicks - r.age \in Nat /\ CommandTicks - r.age \in Nat
      BY <3>1, <3>2, TicksAre
    <3>4. /\ c.kind = "seek" => MotorRuns(s, 0, 2 * CommandTicks - r.age)
          /\ c.kind = "rw" => MotorRuns(s, 0, CommandTicks - r.age)
      BY <1>13, <3>1, <3>3
    <3>5. Commanded(s, 0)
      BY <1>11, <2>2, <3>1, <3>4 DEF Commanded
    <3> QED
      BY <2>1, <3>5 DEF FdGood
  <2> QED
    BY <1>14, <2>3, <2>4, <2>5 DEF FdGood
<1>15. ~Alive(r) => FdGood(s, 0)
  BY <1>11 DEF FdGood, Alive
<1>16. Follows(r, s)
  BY <1>10, <1>11, FollowsOn
<1> QED
  BY <1>2, <1>14, <1>15, <1>16

(* Others may do this to the driver: put a request behind CURRENT, turn    *)
(* motors on or see to it that they are turned off later, select a drive   *)
(* when none is selected.                                                  *)
FdUndisturbed(r, s, k) ==
  /\ s.queue = <<>> <=> r.queue = <<>>
  /\ r.queue # <<>> => s.queue[1] = r.queue[1]
  /\ s.do_floppy = r.do_floppy /\ s.ints = r.ints /\ s.age = r.age
  /\ s.reset = r.reset /\ s.recalibrate = r.recalibrate /\ s.seek = r.seek
  /\ s.drive = r.drive /\ s.current_track = r.current_track
  /\ s.seek_track = r.seek_track /\ s.selected = r.selected
  /\ s.timers = r.timers /\ s.heads = r.heads /\ s.lost = r.lost
  /\ ("beyond" \in s.odd <=> "beyond" \in r.odd)
  /\ ("overtaken" \in s.odd <=> "overtaken" \in r.odd)
  /\ r.selected => s.dor = r.dor
  /\ r.drive \in r.motors =>
       /\ r.drive \in s.motors
       /\ \/ s.mon[r.drive] = r.mon[r.drive]
          \/ k = 0 /\ ~r.selected /\ r.mon[r.drive] < 2 /\ s.mon[r.drive] = 2
       /\ \/ s.moff[r.drive] = r.moff[r.drive]
          \/ k = 0 /\ s.moff[r.drive] >= MotorOff

(* The driver stays in order.                                              *)
LEMMA FdUndisturbedKeeps ==
  ASSUME NEW k \in {0, 1}, NEW r \in FdState, NEW s \in FdState,
         FdUndisturbed(r, s, k), FdGood(r, k)
  PROVE  FdGood(s, k)
<1> DEFINE x == r.drive
<1>1. /\ r.mon[x] \in Nat /\ r.moff[x] \in Nat /\ s.mon[x] \in Nat
      /\ s.moff[x] \in Nat /\ r.age \in Nat
  BY DEF FdState
<1>2. CASE ~Alive(r)
  BY <1>2 DEF FdUndisturbed, Alive, FdGood
<1>3. CASE Alive(r)
  <2>1. ~s.lost /\ Selection(s)
    BY <1>3 DEF FdGood, Selection, FdUndisturbed
  <2>2. (Served(r) => Served(s)) /\ (OnTrack(r) => OnTrack(s))
    BY DEF FdUndisturbed, Served, OnTrack
  <2>3. ASSUME NEW n \in Nat, r.selected, n <= MotorOff, MotorRuns(r, k, n)
        PROVE  MotorRuns(s, k, n)
    <3>1. /\ x \in r.motors /\ r.mon[x] <= 1 + k
          /\ r.moff[x] >= n + (IF r.mon[x] > 0 THEN 0 ELSE k)
      BY <2>3 DEF MotorRuns
    <3>2. /\ s.drive = x /\ x \in s.motors /\ s.mon[x] = r.mon[x]
          /\ s.moff[x] = r.moff[x] \/ (k = 0 /\ s.moff[x] >= MotorOff)
      BY <2>3, <3>1 DEF FdUndisturbed
    <3>3. s.moff[x] >= n + (IF s.mon[x] > 0 THEN 0 ELSE k)
      BY <1>1, <2>3, <3>1, <3>2, TicksAre
    <3> QED
      BY <3>1, <3>2, <3>3 DEF MotorRuns
  <2>4. CASE Resting(r) /\ HeadsKnown(r) /\ r.queue = <<>>
    <3>1. Resting(s) /\ HeadsKnown(s) /\ s.queue = <<>>
      BY <2>4 DEF FdUndisturbed, Resting, HeadsKnown
    <3> QED
      BY <2>1, <3>1 DEF FdGood
  <2>5. CASE TimerWaits(r, k)
    <3> DEFINE t == r.timers[1]
    <3>1. t.n \in Nat
      <4>1. r.timers \in Seq(FdTimer)
        BY DEF FdState
      <4>2. 1 \in 1..Len(r.timers)
        BY <2>5 DEF TimerWaits
      <4> QED
        BY <4>1, <4>2, TimerFields
    <3>2. ASSUME t.fn = "on"
          PROVE  /\ x \in s.motors /\ t.n + k <= s.mon[x]
                 /\ s.mon[x] <= t.n + k \/ s.mon[x] <= 2
                 /\ s.moff[x] >= MotorOff
      <4>1. /\ x \in r.motors /\ t.n + k <= r.mon[x]
            /\ r.mon[x] <= t.n + k \/ r.mon[x] <= 2
            /\ r.moff[x] >= MotorOff
        BY <2>5, <3>2 DEF TimerWaits
      <4>2. /\ x \in s.motors
            /\ s.mon[x] = r.mon[x] \/ (r.mon[x] < 2 /\ s.mon[x] = 2)
            /\ s.moff[x] = r.moff[x] \/ s.moff[x] >= MotorOff
        BY <4>1 DEF FdUndisturbed
      <4> HIDE DEF t
      <4>3. t.n + k <= s.mon[x] /\ (s.mon[x] <= t.n + k \/ s.mon[x] <= 2)
        BY <1>1, <3>1, <4>1, <4>2
      <4> QED
        BY <4>1, <4>2, <4>3
    <3>3. ASSUME t.fn = "transfer"
          PROVE  t.n <= 2 /\ s.selected /\ MotorRuns(s, k, 2 * CommandTicks + t.n)
      <4>1. /\ t.n <= 2 /\ r.selected /\ MotorRuns(r, k, 2 * CommandTicks + t.n)
        BY <2>5, <3>3 DEF TimerWaits
      <4> HIDE DEF t
      <4>2. /\ 2 * CommandTicks + t.n \in Nat
            /\ 2 * CommandTicks + t.n <= MotorOff
        BY <3>1, <4>1, TicksAre
      <4>3. s.selected
        BY <4>1 DEF FdUndisturbed
      <4> QED
        BY <2>3, <4>1, <4>2, <4>3
    <3>4. /\ s.ints = <<>> /\ s.do_floppy = "none" /\ s.timers = r.timers
          /\ Len(r.timers) = 1 /\ t.due = t.n /\ Served(s) /\ s.drive = x
          /\ (s.seek \/ (OnTrack(s) /\ s.current_track = s.seek_track))
      BY <2>2, <2>5 DEF TimerWaits, FdUndisturbed
    <3>5. TimerWaits(s, k)
      BY <3>2, <3>3, <3>4 DEF TimerWaits
    <3> QED
      BY <2>1, <3>5 DEF FdGood
  <2>6. CASE Commanded(r, k)
    <3> DEFINE c == r.ints[1]
    <3>1. /\ r.timers = <<>> /\ Len(r.ints) = 1
          /\ c.kind = r.do_floppy /\ c.drive = r.drive /\ c.track = r.seek_track
          /\ r.age <= CommandTicks
          /\ c.kind = "reset" => r.recalibrate
          /\ c.kind = "recal" => r.current_track = 0
          /\ c.kind \in {"seek", "rw"} => Served(r) /\ r.selected
          /\ c.kind = "seek" => MotorRuns(r, k, 2 * CommandTicks - r.age)
          /\ c.kind = "rw" => /\ MotorRuns(r, k, CommandTicks - r.age)
                              /\ OnTrack(r) /\ r.current_track = r.seek_track
      BY <2>6 DEF Commanded
    <3>0. r.age \in Nat /\ r.age <= CommandTicks
      BY <1>1, <3>1
    <3>2. /\ 2 * CommandTicks - r.age \in Nat /\ CommandTicks - r.age \in Nat
          /\ 2 * CommandTicks - r.age <= MotorOff /\ CommandTicks - r.age <= MotorOff
      BY <3>0, TicksAre
    <3>3. /\ c.kind = "seek" => MotorRuns(s, k, 2 * CommandTicks - r.age)
          /\ c.kind = "rw" => MotorRuns(s, k, CommandTicks - r.age)
      BY <2>3, <3>1, <3>2
    <3>4. /\ s.ints = r.ints /\ s.timers = r.timers /\ s.age = r.age
          /\ s.do_floppy = r.do_floppy /\ s.drive = r.drive
          /\ s.seek_track = r.seek_track /\ s.current_track = r.current_track
          /\ s.selected = r.selected /\ s.recalibrate = r.recalibrate
      BY DEF FdUndisturbed
    <3>5. Commanded(s, k)
      BY <2>2, <3>1, <3>3, <3>4 DEF Commanded
    <3> QED
      BY <2>1, <3>5 DEF FdGood
  <2> QED
    BY <1>3, <2>4, <2>5, <2>6 DEF FdGood
<1> QED
  BY <1>2, <1>3

(* What a step leaves, but that "fault" is put down.                       *)
FdIn(k) == FdShape(d) /\ FdGood(d, k) /\ (Expired(d) <=> k = 1)

(* A step that ends in one of the states of S.                             *)
LEMMA SettledIs ==
  ASSUME NEW k \in {0, 1}, NEW S, Settle(S),
         \A s \in S : FdShape(s) /\ FdGood(s, k) /\ (Expired(s) <=> k = 1)
  PROVE  FdIn(k)'
<1>1. PICK s \in S : d' = [s EXCEPT !.fault = FALSE]
  BY DEF Settle
<1> DEFINE t == [s EXCEPT !.fault = FALSE]
<1>2. s \in FdState /\ FdShape(s) /\ FdGood(s, k) /\ (Expired(s) <=> k = 1)
  BY DEF FdShape
<1>3. t \in FdState
  BY <1>2 DEF FdState
<1>4. FdUndisturbed(s, t, k) /\ t.timers = s.timers
  BY <1>2 DEF FdState, FdUndisturbed
<1>5. d' = t
  BY <1>1
<1> HIDE DEF t
<1>6. FdGood(t, k)
  BY <1>2, <1>3, <1>4, FdUndisturbedKeeps
<1>7. FdShape(t) /\ (Expired(t) <=> k = 1)
  BY <1>2, <1>3, <1>4 DEF FdShape, Expired
<1> QED
  BY <1>5, <1>6, <1>7 DEF FdIn

(* The invariant, between two ticks and in one.                            *)
LEMMA FdInvIs ==
  ASSUME ticking \in BOOLEAN
  PROVE  FdInv <=> FdIn(IF ticking THEN 1 ELSE 0)
BY DEF FdInv, FdIn, FdShape

(* Once the driver was started twice nothing is claimed.                   *)
LEMMA GoodIfOvertaken ==
  ASSUME NEW r, ~Alive(r), NEW k
  PROVE  FdGood(r, k)
BY DEF FdGood

-----------------------------------------------------------------------------
(* Every action leaves the driver in order.                                *)
LEMMA FdInitOk ==
  FdInit => FdInv
<1> SUFFICES ASSUME FdInit PROVE FdInv
  OBVIOUS
<1>1. 0 \in Drive /\ Drive \subseteq Nat
  BY FloppyAssumption
<1> DEFINE mon == [n \in Drive |-> 0]
           heads == [n \in Drive |-> IF n = 0 THEN 0 ELSE 1]
           pc == [x \in Caller |-> "out"]
           nr == [x \in Caller |-> 0]
<1>2. /\ mon \in [Drive -> Nat] /\ heads \in [Drive -> Nat]
      /\ nr \in [Caller -> Drive] /\ heads[0] = 0
      /\ pc \in [Caller -> {"out", "on", "doze", "motor", "test", "nap", "select"}]
  BY <1>1
<1>3. /\ <<>> \in Seq(FdRequest) /\ <<>> \in Seq(FdCommand) /\ <<>> \in Seq(FdTimer)
      /\ {} \in SUBSET Drive /\ {} \in SUBSET {"overtaken", "beyond", "missed"}
      /\ FALSE \in BOOLEAN /\ 0 \in Nat /\ "none" \in FdWhen \cup {"none"}
  OBVIOUS
<1>4. d = [queue |-> <<>>, do_floppy |-> "none", ints |-> <<>>, age |-> 0,
           reset |-> FALSE, recalibrate |-> FALSE, seek |-> FALSE,
           drive |-> 0, current_track |-> 0, seek_track |-> 0,
           dor |-> 0, selected |-> FALSE, motors |-> {},
           mon |-> mon, moff |-> mon, timers |-> <<>>, heads |-> heads,
           pc |-> pc, nr |-> nr, lost |-> FALSE, fault |-> FALSE, odd |-> {}]
  BY DEF FdInit
<1> HIDE DEF mon, heads, pc, nr
<1>5. d \in FdState
  BY <1>1, <1>2, <1>3, <1>4 DEF FdState
<1>6. /\ d.queue = <<>> /\ d.do_floppy = "none" /\ d.ints = <<>>
      /\ d.drive = 0 /\ d.current_track = 0 /\ d.selected = FALSE
      /\ d.timers = <<>> /\ d.heads = heads /\ d.lost = FALSE /\ d.odd = {}
  BY <1>4
<1>7. NotEarly(d.timers) /\ ~Expired(d) /\ ticking = FALSE
  BY <1>6 DEF NotEarly, Expired, FdInit
<1>8. FdGood(d, 0)
  BY <1>2, <1>6 DEF FdGood, Selection, Resting, HeadsKnown
<1> QED
  BY <1>5, <1>7, <1>8 DEF FdInv

(* What is left to show of a step.                                         *)
LEMMA InOrder ==
  ASSUME NEW k \in {0, 1}, FdIn(k)',
         (k = 0 /\ ticking' = FALSE) \/ (k = 1 /\ ticking' = TRUE)
  PROVE  FdInv'
<1>1. FdShape(d)' /\ FdGood(d, k)' /\ (Expired(d)' <=> k = 1)
  BY DEF FdIn
<1>2. CASE k = 0
  <2>1. ticking' = FALSE
    BY <1>2
  <2>2. FdGood(d, IF ticking THEN 1 ELSE 0)'
    <3>1. (IF ticking THEN 1 ELSE 0)' = 0
      BY <2>1
    <3> QED
      BY <1>1, <1>2, <3>1
  <2>3. FdShape(d)' /\ (Expired(d)' <=> ticking')
    BY <1>1, <1>2, <2>1
  <2> QED
    BY <2>1, <2>2, <2>3 DEF FdInv, FdShape
<1>3. CASE k = 1
  <2>1. ticking' = TRUE
    BY <1>3
  <2>2. FdGood(d, IF ticking THEN 1 ELSE 0)'
    <3>1. (IF ticking THEN 1 ELSE 0)' = 1
      BY <2>1
    <3> QED
      BY <1>1, <1>3, <3>1
  <2>3. FdShape(d)' /\ (Expired(d)' <=> ticking')
    BY <1>1, <1>3, <2>1
  <2> QED
    BY <2>1, <2>2, <2>3 DEF FdInv, FdShape
<1> QED
  BY <1>2, <1>3

(* Outside do_timer() no timer is expired.                                 *)
LEMMA StillIs ==
  ASSUME FdInv, Still
  PROVE  /\ FdShape(d) /\ FdGood(d, 0) /\ ~Expired(d) /\ ticking = FALSE
         /\ ~d.lost /\ FdIn(0)
BY DEF FdInv, FdShape, Still, FdIn

(* A request finds the queue empty.                                        *)
LEMMA StartedIs ==
  ASSUME FdInv, Still, NEW q \in FdRequest, d.queue = <<>>,
         LET one == [d EXCEPT !.queue = <<q>>]
         IN Settle(DoFdRequest(IF d.ints = <<>> THEN one ELSE Odd(one, "overtaken")))
  PROVE  FdIn(0)'
<1> DEFINE qs == <<q>>
           one == [d EXCEPT !.queue = qs]
           r == IF d.ints = <<>> THEN one ELSE Odd(one, "overtaken")
<1>1. FdShape(d) /\ d \in FdState /\ FdGood(d, 0) /\ ~Expired(d)
  BY StillIs DEF FdShape
<1>2. qs \in Seq(FdRequest)
  OBVIOUS
<1>3. Settle(DoFdRequest(r))
  OBVIOUS
<1> HIDE DEF qs
<1>4. one \in FdState
  BY <1>1, <1>2 DEF FdState
<1>5. /\ one.timers = d.timers /\ one.odd = d.odd /\ one.lost = d.lost
      /\ one.ints = d.ints /\ one.do_floppy = d.do_floppy
      /\ one.selected = d.selected /\ one.drive = d.drive
      /\ one.heads = d.heads /\ one.current_track = d.current_track
      /\ one.reset = d.reset /\ one.recalibrate = d.recalibrate
  BY <1>1 DEF FdState
<1> HIDE DEF one
<1>6. FdShape(r) /\ ~Expired(r) /\ ((Quiet(r) /\ HeadsKnown(r)) \/ ~Alive(r))
  <2>1. CASE d.ints = <<>>
    <3>1. r = one /\ Follows(d, one)
      BY <1>1, <1>4, <1>5, <2>1, FollowsOn
    <3>2. ASSUME Alive(one) PROVE Quiet(one) /\ HeadsKnown(one)
      <4>1. Alive(d) /\ ~d.lost /\ Selection(d)
        BY <1>1, <1>5, <3>2 DEF FdGood, Alive
      <4>2. ~TimerWaits(d, 0)
        BY DEF TimerWaits, Served
      <4>3. ~Commanded(d, 0)
        BY <2>1 DEF Commanded
      <4>4. Resting(d) /\ HeadsKnown(d)
        BY <1>1, <4>1, <4>2, <4>3 DEF FdGood
      <4>5. ~d.selected
        BY <4>1 DEF Selection
      <4> QED
        BY <1>5, <4>1, <4>4, <4>5 DEF Quiet, Alive, Resting, Selection, HeadsKnown
    <3> QED
      BY <1>1, <3>1, <3>2 DEF Follows
  <2>2. CASE d.ints # <<>>
    <3> DEFINE odd == one.odd \cup {"overtaken"}
               s == [one EXCEPT !.odd = odd]
    <3>1. r = s
      BY <2>2 DEF Odd
    <3>2. odd \in SUBSET {"overtaken", "beyond", "missed"} /\ "overtaken" \in odd
      BY <1>4 DEF FdState
    <3> HIDE DEF odd
    <3>3. s \in FdState
      BY <1>4, <3>2 DEF FdState
    <3>4. s.timers = d.timers /\ s.odd = odd
      BY <1>4, <1>5 DEF FdState
    <3> QED
      BY <1>1, <3>1, <3>2, <3>3, <3>4 DEF FdShape, Expired, Alive
  <2> QED
    BY <2>1, <2>2
<1> HIDE DEF r
<1>7. ASSUME NEW z \in DoFdRequest(r)
      PROVE  FdShape(z) /\ FdGood(z, 0) /\ (Expired(z) <=> 0 = 1)
  <2>1. Follows(r, z) /\ (Quiet(r) /\ HeadsKnown(r) => FdGood(z, 0))
    BY <1>6, DoFdRequestIs
  <2> QED
    BY <1>6, <2>1, GoodIfOvertaken DEF Follows
<1> DEFINE S == DoFdRequest(r)
<1>8. Settle(S) /\ \A z \in S : FdShape(z) /\ FdGood(z, 0) /\ (Expired(z) <=> 0 = 1)
  BY <1>3, <1>7
<1> HIDE DEF S
<1> QED
  BY <1>8, SettledIs

(* A request is put behind the one the driver is at.                       *)
LEMMA QueuedIs ==
  ASSUME FdInv, Still, NEW q \in FdRequest, d.queue # <<>>,
         NEW i \in 2..(Len(d.queue) + 1),
         Settle({[d EXCEPT !.queue = InsertAt(@, i, q)]})
  PROVE  FdIn(0)'
<1> DEFINE qs == WithElement(d.queue, i, q)
           r == [d EXCEPT !.queue = qs]
<1>1. FdShape(d) /\ d \in FdState /\ FdGood(d, 0) /\ ~Expired(d)
  BY StillIs DEF FdShape
<1>2. d.queue \in Seq(FdRequest)
  BY <1>1 DEF FdState
<1>3. /\ Len(d.queue) \in Nat /\ i \in 1..(Len(d.queue) + 1) /\ i - 1 >= 1
      /\ 1 \in 1..(i - 1)
  BY <1>2, LenProperties
<1>4. qs \in Seq(FdRequest) /\ Len(qs) = Len(d.queue) + 1 /\ qs[1] = d.queue[1]
  <2> DEFINE l == d.queue
  <2>1. l \in Seq(FdRequest) /\ i \in 1..(Len(l) + 1) /\ 1 \in 1..(i - 1)
    BY <1>2, <1>3
  <2>2. qs = WithElement(l, i, q)
    OBVIOUS
  <2> HIDE DEF l, qs
  <2>3. /\ WithElement(l, i, q) \in Seq(FdRequest)
        /\ Len(WithElement(l, i, q)) = Len(l) + 1
        /\ \A k \in 1..(i - 1) : WithElement(l, i, q)[k] = l[k]
    BY <2>1, Inserted
  <2> QED
    BY <2>1, <2>2, <2>3 DEF l
<1>5. qs # <<>>
  <2> HIDE DEF qs
  <2> QED
    BY <1>3, <1>4
<1>6. Settle({r})
  BY <1>1 DEF InsertAt, WithElement
<1> HIDE DEF qs
<1>7. r \in FdState
  BY <1>1, <1>4 DEF FdState
<1>8. FdUndisturbed(d, r, 0) /\ r.timers = d.timers
  BY <1>1, <1>4, <1>5 DEF FdState, FdUndisturbed
<1> HIDE DEF r
<1>9. FdGood(r, 0)
  BY <1>1, <1>7, <1>8, FdUndisturbedKeeps
<1>10. FdShape(r) /\ (Expired(r) <=> 0 = 1)
  BY <1>1, <1>7, <1>8 DEF FdShape, Expired
<1> DEFINE S == {r}
<1>11. Settle(S) /\ \A z \in S : FdShape(z) /\ FdGood(z, 0) /\ (Expired(z) <=> 0 = 1)
  BY <1>6, <1>9, <1>10
<1> HIDE DEF S
<1> QED
  BY <1>11, SettledIs

(* So add_request() keeps the invariant.                                   *)
LEMMA AddRequestIs ==
  ASSUME FdInv, NEW dev \in Drive, NEW track \in 0..Beyond,
         AddRequest(dev, track)
  PROVE  FdInv'
<1> DEFINE q == [dev |-> dev, track |-> track, errors |-> 0]
<1>1. q \in FdRequest
  BY TicksAre DEF FdRequest
<1>2. /\ Still /\ ticking' = ticking
      /\ \/ /\ d.queue = <<>>
            /\ LET one == [d EXCEPT !.queue = <<q>>]
               IN Settle(DoFdRequest(IF d.ints = <<>> THEN one ELSE Odd(one, "overtaken")))
         \/ \E i \in 2..(Len(d.queue) + 1) :
              Settle({[d EXCEPT !.queue = InsertAt(@, i, q)]})
  BY DEF AddRequest
<1> HIDE DEF q
<1>3. d.queue = <<>> => 2..(Len(d.queue) + 1) = {}
  OBVIOUS
<1>4. FdIn(0)'
  BY <1>1, <1>2, <1>3, StartedIs, QueuedIs
<1>5. ticking' = FALSE
  BY <1>2, StillIs
<1> QED
  BY <1>4, <1>5, InOrder

(* The handler is taken out of do_floppy, and finds a controller that has  *)
(* nothing more to do.                                                     *)
InterruptTaken(track) ==
  [d EXCEPT !.ints = Tail(@), !.do_floppy = "none", !.age = 0,
            !.heads[Head(d.ints).drive] = track]

(* If it was the driver that gave the command, all is as it left it.       *)
LEMMA TakenIs ==
  ASSUME FdInv, Still, d.ints # <<>>, NEW track \in Moved(Head(d.ints))
  PROVE  LET r == InterruptTaken(track)
             c == Head(d.ints)
         IN /\ FdShape(r) /\ ~Expired(r) /\ (Alive(r) <=> Alive(d))
            /\ r.heads[c.drive] = track /\ r.seek_track = d.seek_track
            /\ r.drive = d.drive /\ r.current_track = d.current_track
            /\ r.odd = d.odd /\ r.recalibrate = d.recalibrate
            /\ r.queue = d.queue /\ r.selected = d.selected
            /\ r.motors = d.motors /\ r.mon = d.mon /\ r.moff = d.moff
            /\ Alive(d) => Quiet(r) /\ Commanded(d, 0) /\ c = d.ints[1]
            /\ c \in FdCommand
<1> DEFINE c == Head(d.ints)
           h == [d.heads EXCEPT ![c.drive] = track]
           l == Tail(d.ints)
           r == [d EXCEPT !.ints = l, !.do_floppy = "none", !.age = 0, !.heads = h]
<1>1. FdShape(d) /\ d \in FdState /\ FdGood(d, 0) /\ ~Expired(d)
  BY StillIs DEF FdShape
<1>2. d.ints \in Seq(FdCommand) /\ d.heads \in [Drive -> Nat]
  BY <1>1 DEF FdState
<1>3. /\ c = d.ints[1] /\ c \in FdCommand /\ l \in Seq(FdCommand)
      /\ Len(d.ints) = 1 => l = <<>>
  BY <1>2, HeadIs
<1>4. track \in Nat
  <2>1. c.drive \in Drive /\ c.track \in Nat
    BY <1>3 DEF FdCommand
  <2>2. d.heads[c.drive] \in Nat
    BY <1>2, <2>1
  <2>3. Moved(c) \subseteq Nat
    <3> HIDE DEF c
    <3> QED
      BY <2>1, <2>2 DEF Moved
  <2> QED
    BY <2>3
<1>5. h \in [Drive -> Nat] /\ h[c.drive] = track
  <2>1. c.drive \in Drive
    BY <1>3 DEF FdCommand
  <2> HIDE DEF c
  <2> QED
    BY <1>2, <1>4, <2>1
<1>6. InterruptTaken(track) = r
  BY <1>1 DEF InterruptTaken, FdState
<1> HIDE DEF c, h, l
<1>7. r \in FdState
  BY <1>1, <1>3, <1>5 DEF FdState
<1>8. /\ r.timers = d.timers /\ r.odd = d.odd /\ r.ints = l /\ r.heads = h
      /\ r.do_floppy = "none" /\ r.seek_track = d.seek_track
      /\ r.drive = d.drive /\ r.current_track = d.current_track
      /\ r.recalibrate = d.recalibrate /\ r.queue = d.queue
      /\ r.selected = d.selected /\ r.motors = d.motors /\ r.mon = d.mon
      /\ r.moff = d.moff /\ r.lost = d.lost /\ r.dor = d.dor
  BY <1>1 DEF FdState
<1> HIDE DEF r
<1>9. Follows(d, r)
  BY <1>1, <1>7, <1>8, FollowsOn
<1>10. ASSUME Alive(d) PROVE Quiet(r) /\ Commanded(d, 0)
  <2>1. ~d.lost /\ Selection(d)
    BY <1>1, <1>10 DEF FdGood
  <2>2. Commanded(d, 0)
    BY <1>1, <1>10 DEF FdGood, Resting, TimerWaits
  <2>3. d.timers = <<>> /\ Len(d.ints) = 1
    BY <2>2 DEF Commanded
  <2>4. Resting(r)
    BY <1>3, <1>8, <2>3 DEF Resting
  <2>5. Selection(r)
    BY <1>8, <2>1 DEF Selection
  <2> QED
    BY <1>8, <1>10, <2>1, <2>2, <2>4, <2>5 DEF Quiet, Alive
<1>11. /\ FdShape(r) /\ ~Expired(r) /\ (Alive(r) <=> Alive(d))
  BY <1>1, <1>9 DEF Follows
<1> QED
  BY <1>3, <1>5, <1>6, <1>8, <1>10, <1>11 DEF c

(* Whatever handler it is, it keeps the invariant.                         *)
LEMMA InterruptIs ==
  ASSUME FdInv, Interrupt
  PROVE  FdInv'
<1> DEFINE c == Head(d.ints)
<1>1. /\ Still /\ d.ints # <<>> /\ ticking' = ticking
      /\ \E track \in Moved(c) :
           LET r == InterruptTaken(track)
           IN \/ d.do_floppy = "rw" /\ Settle(RwInterrupt(r, c))
              \/ d.do_floppy = "seek" /\ Settle(SeekInterrupt(r, c))
              \/ d.do_floppy = "recal" /\ track = 0 /\ Settle(RecalInterrupt(r, TRUE))
              \/ d.do_floppy = "recal" /\ Settle(RecalInterrupt(r, FALSE))
              \/ d.do_floppy = "reset" /\ Settle(ResetInterrupt(r))
              \/ d.do_floppy = "none" /\ Settle(Unexpected(r))
  BY DEF Interrupt, InterruptTaken
<1> SUFFICES FdIn(0)'
  <2>1. ticking' = FALSE
    BY <1>1, StillIs
  <2> QED
    BY <2>1, InOrder
<1>2. PICK track \in Moved(c) :
           LET r == InterruptTaken(track)
           IN \/ d.do_floppy = "rw" /\ Settle(RwInterrupt(r, c))
              \/ d.do_floppy = "seek" /\ Settle(SeekInterrupt(r, c))
              \/ d.do_floppy = "recal" /\ track = 0 /\ Settle(RecalInterrupt(r, TRUE))
              \/ d.do_floppy = "recal" /\ Settle(RecalInterrupt(r, FALSE))
              \/ d.do_floppy = "reset" /\ Settle(ResetInterrupt(r))
              \/ d.do_floppy = "none" /\ Settle(Unexpected(r))
  BY <1>1
<1> DEFINE r == InterruptTaken(track)
<1>3. /\ FdShape(r) /\ ~Expired(r) /\ (Alive(r) <=> Alive(d))
      /\ r.heads[c.drive] = track /\ r.seek_track = d.seek_track
      /\ r.drive = d.drive /\ r.current_track = d.current_track
      /\ r.odd = d.odd /\ r.recalibrate = d.recalibrate
      /\ r.queue = d.queue /\ r.selected = d.selected
      /\ r.motors = d.motors /\ r.mon = d.mon /\ r.moff = d.moff
      /\ Alive(d) => Quiet(r) /\ Commanded(d, 0) /\ c = d.ints[1]
      /\ c \in FdCommand
  BY <1>1, TakenIs
<1>4. track \in Moved(c)
  OBVIOUS
<1> HIDE DEF c, r
<1>5. ASSUME Alive(d)
      PROVE  /\ c.kind = d.do_floppy /\ c.drive = r.drive
             /\ d.age <= CommandTicks
             /\ c.kind = "reset" => r.recalibrate
             /\ c.kind = "recal" => r.current_track = 0
             /\ c.kind \in {"seek", "rw"} => Served(r) /\ r.selected
             /\ c.kind = "seek" => MotorRuns(d, 0, 2 * CommandTicks - d.age)
             /\ c.kind = "rw" => /\ OnTrack(d) /\ d.current_track = d.seek_track
  <2>1. Commanded(d, 0) /\ c = d.ints[1]
    BY <1>3, <1>5
  <2>2. Served(r) <=> Served(d)
    BY <1>3 DEF Served
  <2> QED
    BY <1>3, <2>1, <2>2 DEF Commanded
<1> DEFINE ok(z) == FdShape(z) /\ FdGood(z, 0) /\ (Expired(z) <=> 0 = 1)
<1>6. ASSUME NEW z, Follows(r, z), Alive(d) => FdGood(z, 0)
      PROVE  ok(z)
  BY <1>3, <1>6, GoodIfOvertaken DEF Follows
<1>7. ASSUME NEW S, Settle(S), \A z \in S : ok(z)
      PROVE  FdIn(0)'
  BY <1>7, SettledIs
<1> HIDE DEF ok
<1>8. CASE d.do_floppy = "rw" /\ Settle(RwInterrupt(r, c))
  <2>1. ASSUME Alive(d)
        PROVE  /\ Quiet(r) /\ r.queue # <<>>
               /\ "beyond" \in r.odd \/ r.heads[r.drive] = r.current_track
    <3>1. /\ c.kind = "rw" /\ Served(r) /\ OnTrack(d) /\ c.drive = r.drive
          /\ d.current_track = d.seek_track /\ Quiet(r)
      BY <1>3, <1>5, <1>8, <2>1
    <3>2. track = d.heads[c.drive]
      BY <1>4, <3>1 DEF Moved
    <3> QED
      BY <1>3, <3>1, <3>2 DEF Served, OnTrack
  <2>2. ASSUME NEW z \in RwInterrupt(r, c) PROVE ok(z)
    <3>1. /\ Follows(r, z)
          /\ /\ Quiet(r) /\ r.queue # <<>>
             /\ "beyond" \in r.odd \/ r.heads[r.drive] = r.current_track
             => FdGood(z, 0)
      BY <1>3, RwInterruptIs
    <3> QED
      BY <1>6, <2>1, <3>1
  <2> QED
    BY <1>7, <1>8, <2>2
<1>9. CASE d.do_floppy = "seek" /\ Settle(SeekInterrupt(r, c))
  <2>1. ASSUME Alive(d)
        PROVE  /\ Quiet(r) /\ Served(r) /\ r.selected /\ c.drive = r.drive
               /\ MotorRuns(r, 0, CommandTicks)
    <3>1. /\ c.kind = "seek" /\ Served(r) /\ r.selected /\ c.drive = r.drive
          /\ MotorRuns(d, 0, 2 * CommandTicks - d.age) /\ Quiet(r)
          /\ d.age <= CommandTicks
      BY <1>3, <1>5, <1>9, <2>1
    <3>2. d.drive \in d.motors /\ d.mon[d.drive] <= 1 + 0
          /\ d.moff[d.drive] >= 2 * CommandTicks - d.age
      <4>1. d.moff[d.drive] \in Nat /\ d.age \in Nat
        <5>1. d \in FdState
          BY DEF FdInv
        <5> QED
          BY <5>1 DEF FdState
      <4>2. 2 * CommandTicks - d.age + 0 = 2 * CommandTicks - d.age
        BY <4>1, TicksAre
      <4> QED
        BY <3>1, <4>2 DEF MotorRuns
    <3>3. d.moff[d.drive] \in Nat /\ d.age \in Nat
      <4>1. d \in FdState
        BY DEF FdInv
      <4> QED
        BY <4>1 DEF FdState
    <3>4. d.moff[d.drive] >= CommandTicks + 0
      BY <3>1, <3>2, <3>3, TicksAre
    <3>5. MotorRuns(r, 0, CommandTicks)
      BY <1>3, <3>2, <3>4 DEF MotorRuns
    <3> QED
      BY <3>1, <3>5
  <2>2. ASSUME NEW z \in SeekInterrupt(r, c) PROVE ok(z)
    <3>1. /\ Follows(r, z)
          /\ /\ Quiet(r) /\ Served(r) /\ r.selected /\ c.drive = r.drive
             /\ MotorRuns(r, 0, CommandTicks)
             => FdGood(z, 0)
      BY <1>3, SeekInterruptIs
    <3> QED
      BY <1>6, <2>1, <3>1
  <2> QED
    BY <1>7, <1>9, <2>2
<1>10. CASE d.do_floppy = "recal" /\ track = 0 /\ Settle(RecalInterrupt(r, TRUE))
  <2>1. ASSUME Alive(d)
        PROVE  Quiet(r) /\ r.heads[r.drive] = r.current_track
    BY <1>3, <1>5, <1>10, <2>1
  <2>2. ASSUME NEW z \in RecalInterrupt(r, TRUE) PROVE ok(z)
    <3>1. /\ Follows(r, z)
          /\ Quiet(r) /\ (TRUE => r.heads[r.drive] = r.current_track) => FdGood(z, 0)
      BY <1>3, RecalInterruptIs
    <3> QED
      BY <1>6, <2>1, <3>1
  <2> QED
    BY <1>7, <1>10, <2>2
<1>11. CASE d.do_floppy = "recal" /\ Settle(RecalInterrupt(r, FALSE))
  <2>1. ASSUME NEW z \in RecalInterrupt(r, FALSE) PROVE ok(z)
    <3>1. /\ Follows(r, z)
          /\ Quiet(r) /\ (FALSE => r.heads[r.drive] = r.current_track) => FdGood(z, 0)
      BY <1>3, RecalInterruptIs
    <3> QED
      BY <1>3, <1>6, <3>1
  <2> QED
    BY <1>7, <1>11, <2>1
<1>12. CASE d.do_floppy = "reset" /\ Settle(ResetInterrupt(r))
  <2>1. ASSUME Alive(d) PROVE Quiet(r) /\ HeadsKnown(r)
    BY <1>3, <1>5, <1>12, <2>1 DEF HeadsKnown
  <2>2. ASSUME NEW z \in ResetInterrupt(r) PROVE ok(z)
    <3>1. Follows(r, z) /\ (Quiet(r) /\ HeadsKnown(r) => FdGood(z, 0))
      BY <1>3, ResetInterruptIs
    <3> QED
      BY <1>6, <2>1, <3>1
  <2> QED
    BY <1>7, <1>12, <2>2
<1>13. CASE d.do_floppy = "none" /\ Settle(Unexpected(r))
  <2>1. ~Alive(d)
    BY <1>3, <1>5, <1>13 DEF FdCommand, FdWhen
  <2>2. ASSUME NEW z \in Unexpected(r) PROVE ok(z)
    <3>1. Follows(r, z)
      BY <1>3, UnexpectedIs
    <3> QED
      BY <1>6, <2>1, <3>1
  <2> QED
    BY <1>7, <1>13, <2>2
<1> QED
  BY <1>2, <1>8, <1>9, <1>10, <1>11, <1>12, <1>13 DEF r

(* An interrupt that nobody expects.                                       *)
LEMMA SpuriousIs ==
  ASSUME FdInv, Spurious
  PROVE  FdInv'
<1>1. /\ Still /\ d.ints = <<>> /\ d' \in Unexpected(d) /\ ticking' = ticking
  BY DEF Spurious
<1>2. FdShape(d) /\ FdGood(d, 0) /\ ~Expired(d) /\ ticking = FALSE
  BY <1>1, StillIs
<1>3. Follows(d, d') /\ FdGood(d', 0)
  BY <1>1, <1>2, UnexpectedIs
<1>4. FdIn(0)'
  BY <1>2, <1>3 DEF FdIn, Follows
<1> QED
  BY <1>1, <1>2, <1>4, InOrder

(* A tick: the first timer counts down.                                    *)
TickedDown ==
  [d EXCEPT !.age = IF d.ints = <<>> THEN 0 ELSE @ + 1,
            !.timers = CountDown(@)]

(* Timer, command and motors are one tick further; the motors are not      *)
(* counted yet.                                                            *)
LEMMA TickedDownIs ==
  ASSUME FdInv, Still, Due
  PROVE  FdShape(TickedDown) /\ FdGood(TickedDown, 1)
<1> DEFINE age == IF d.ints = <<>> THEN 0 ELSE d.age + 1
           l == d.timers
           m == CountDown(l)
           r == [d EXCEPT !.age = age, !.timers = m]
           x == d.drive
<1>1. FdShape(d) /\ d \in FdState /\ FdGood(d, 0) /\ ~Expired(d)
  BY StillIs DEF FdShape
<1>2. l \in Seq(FdTimer) /\ NotEarly(l) /\ d.age \in Nat
  BY <1>1 DEF FdState, FdShape
<1>3. l # <<>> => l[1].n # 0
  BY <1>1, <1>2, HeadIs DEF Expired
<1>4. /\ m \in Seq(FdTimer) /\ NotEarly(m) /\ Len(m) = Len(l)
      /\ l = <<>> <=> m = <<>>
      /\ l # <<>> => /\ m[1].n = l[1].n - 1 /\ m[1].fn = l[1].fn
                     /\ l[1].due > 0 => m[1].due = l[1].due - 1
  <2> HIDE DEF l
  <2> QED
    BY <1>2, <1>3, TickCounted
<1>5. TickedDown = r
  BY <1>1 DEF TickedDown, FdState
<1>6. age \in Nat
  BY <1>2
<1>7. Due /\ (d.ints # <<>> => age = d.age + 1)
  OBVIOUS
<1> HIDE DEF age, m
<1>8. r \in FdState
  BY <1>1, <1>4, <1>6 DEF FdState
<1>9. /\ r.timers = m /\ r.age = age /\ r.odd = d.odd /\ r.ints = d.ints
      /\ r.heads = d.heads /\ r.do_floppy = d.do_floppy
      /\ r.seek_track = d.seek_track /\ r.seek = d.seek
      /\ r.drive = x /\ r.current_track = d.current_track
      /\ r.recalibrate = d.recalibrate /\ r.reset = d.reset
      /\ r.queue = d.queue
      /\ r.selected = d.selected /\ r.motors = d.motors /\ r.mon = d.mon
      /\ r.moff = d.moff /\ r.lost = d.lost /\ r.dor = d.dor
  BY <1>1 DEF FdState
<1> HIDE DEF r
<1>10. d.mon[x] \in Nat /\ d.moff[x] \in Nat
  BY <1>1 DEF FdState
<1>11. ASSUME NEW n \in Nat, n > 0, MotorRuns(d, 0, n)
       PROVE  MotorRuns(r, 1, n - 1)
  <2>1. /\ x \in d.motors /\ d.mon[x] <= 1 + 0
        /\ d.moff[x] >= n + (IF d.mon[x] > 0 THEN 0 ELSE 0)
    BY <1>11 DEF MotorRuns
  <2>2. d.mon[x] <= 1 + 1 /\ d.moff[x] >= (n - 1) + (IF d.mon[x] > 0 THEN 0 ELSE 1)
    BY <1>10, <1>11, <2>1
  <2> QED
    BY <1>9, <2>1, <2>2 DEF MotorRuns
<1>12. ASSUME Alive(d) PROVE FdGood(r, 1)
  <2>1. ~r.lost /\ Selection(r)
    BY <1>1, <1>9, <1>12 DEF FdGood, Selection
  <2>2. (Served(r) <=> Served(d)) /\ (OnTrack(r) <=> OnTrack(d))
    BY <1>9 DEF Served, OnTrack
  <2>3. CASE Resting(d) /\ HeadsKnown(d) /\ d.queue = <<>>
    BY <1>4, <1>9, <2>1, <2>3 DEF FdGood, Resting, HeadsKnown
  <2>4. CASE TimerWaits(d, 0)
    <3> DEFINE t == l[1]
               u == m[1]
    <3>1. Len(l) = 1 /\ t.due = t.n
      BY <2>4 DEF TimerWaits
    <3>2. t.n \in Nat /\ l # <<>>
      <4>1. 1 \in 1..Len(l) /\ l # <<>>
        BY <3>1
      <4> QED
        BY <1>2, <4>1, TimerFields
    <3>3. t.n > 0 /\ t.due > 0
      BY <1>3, <3>1, <3>2
    <3>4. u.n = t.n - 1 /\ u.fn = t.fn /\ u.due = t.due - 1 /\ Len(m) = 1
      BY <1>4, <3>1, <3>2, <3>3
    <3>5. ASSUME u.fn = "on"
          PROVE  /\ x \in r.motors /\ u.n + 1 <= r.mon[x]
                 /\ r.mon[x] <= u.n + 1 \/ r.mon[x] <= 2
                 /\ r.moff[x] >= MotorOff
      <4>1. /\ x \in d.motors /\ t.n + 0 <= d.mon[x]
            /\ d.mon[x] <= t.n + 0 \/ d.mon[x] <= 2
            /\ d.moff[x] >= MotorOff
        BY <2>4, <3>4, <3>5 DEF TimerWaits
      <4>2. u.n + 1 = t.n /\ t.n + 0 = t.n
        BY <3>2, <3>4
      <4> QED
        BY <1>9, <4>1, <4>2
    <3>6. ASSUME u.fn = "transfer"
          PROVE  u.n <= 2 /\ r.selected /\ MotorRuns(r, 1, 2 * CommandTicks + u.n)
      <4>1. /\ t.n <= 2 /\ d.selected /\ MotorRuns(d, 0, 2 * CommandTicks + t.n)
        BY <2>4, <3>4, <3>6 DEF TimerWaits
      <4> DEFINE n == 2 * CommandTicks + t.n
      <4>2. n \in Nat /\ n > 0 /\ n - 1 = 2 * CommandTicks + u.n /\ u.n <= 2
        <5> HIDE DEF t, u
        <5> QED
          BY <3>2, <3>3, <3>4, <4>1, TicksAre
      <4> HIDE DEF n
      <4>3. MotorRuns(d, 0, n)
        BY <4>1 DEF n
      <4>4. MotorRuns(r, 1, n - 1)
        BY <1>11, <4>2, <4>3
      <4> QED
        BY <1>9, <4>1, <4>2, <4>4
    <3>7. /\ d.ints = <<>> /\ d.do_floppy = "none" /\ Served(d)
          /\ (d.seek \/ (OnTrack(d) /\ d.current_track = d.seek_track))
      BY <2>4 DEF TimerWaits
    <3>8. TimerWaits(r, 1)
      BY <1>9, <2>2, <3>1, <3>4, <3>5, <3>6, <3>7 DEF TimerWaits
    <3> QED
      BY <2>1, <3>8 DEF FdGood
  <2>5. CASE Commanded(d, 0)
    <3> DEFINE c == d.ints[1]
    <3>1. /\ d.timers = <<>> /\ Len(d.ints) = 1
          /\ c.kind = d.do_floppy /\ c.drive = d.drive /\ c.track = d.seek_track
          /\ d.age <= CommandTicks
          /\ c.kind = "reset" => d.recalibrate
          /\ c.kind = "recal" => d.current_track = 0
          /\ c.kind \in {"seek", "rw"} => Served(d) /\ d.selected
          /\ c.kind = "seek" => MotorRuns(d, 0, 2 * CommandTicks - d.age)
          /\ c.kind = "rw" => /\ MotorRuns(d, 0, CommandTicks - d.age)
                              /\ OnTrack(d) /\ d.current_track = d.seek_track
      BY <2>5 DEF Commanded
    <3>2. d.ints # <<>>
      BY <3>1
    <3>3. d.age < CommandTicks /\ age = d.age + 1
      BY <1>7, <3>2 DEF Due
    <3> DEFINE n == 2 * CommandTicks - d.age
               p == CommandTicks - d.age
    <3>4. /\ n \in Nat /\ n > 0 /\ n - 1 = 2 * CommandTicks - age
          /\ p \in Nat /\ p > 0 /\ p - 1 = CommandTicks - age
          /\ age <= CommandTicks
      BY <1>2, <3>3, TicksAre
    <3> HIDE DEF n, p
    <3>5. c.kind = "seek" => MotorRuns(r, 1, 2 * CommandTicks - r.age)
      BY <1>9, <1>11, <3>1, <3>4 DEF n
    <3>6. c.kind = "rw" => MotorRuns(r, 1, CommandTicks - r.age)
      BY <1>9, <1>11, <3>1, <3>4 DEF p
    <3>7. r.timers = <<>>
      BY <1>4, <1>9, <3>1
    <3>8. Commanded(r, 1)
      BY <1>9, <2>2, <3>1, <3>4, <3>5, <3>6, <3>7 DEF Commanded
    <3> QED
      BY <2>1, <3>8 DEF FdGood
  <2> QED
    BY <1>1, <1>12, <2>3, <2>4, <2>5 DEF FdGood
<1>13. ~Alive(d) => FdGood(r, 1)
  BY <1>9 DEF FdGood, Alive
<1>14. FdShape(r)
  BY <1>4, <1>8, <1>9 DEF FdShape
<1> QED
  BY <1>5, <1>12, <1>13, <1>14

(* Then either a timer has expired or do_floppy_timer() counts the motors. *)
LEMMA TickIs ==
  ASSUME FdInv, Tick
  PROVE  FdInv'
<1> DEFINE r == TickedDown
<1>1. /\ Still /\ Due /\ ticking' = Expired(r)
      /\ d' = IF Expired(r) THEN r ELSE DoFloppyTimer(r)
  BY DEF Tick, TickedDown
<1>2. FdShape(r) /\ FdGood(r, 1)
  BY <1>1, TickedDownIs
<1> HIDE DEF r
<1>3. CASE Expired(r)
  <2>1. d' = r /\ ticking' = TRUE
    BY <1>1, <1>3
  <2>2. FdIn(1)'
    BY <1>2, <1>3, <2>1 DEF FdIn
  <2> QED
    BY <2>1, <2>2, InOrder
<1>4. CASE ~Expired(r)
  <2> DEFINE s == DoFloppyTimer(r)
  <2>1. d' = s /\ ticking' = FALSE
    BY <1>1, <1>4
  <2>2. Follows(r, s) /\ FdGood(s, 0)
    BY <1>2, DoFloppyTimerIs
  <2> HIDE DEF s
  <2>3. FdIn(0)'
    BY <1>4, <2>1, <2>2 DEF FdIn, Follows
  <2> QED
    BY <2>1, <2>3, InOrder
<1> QED
  BY <1>3, <1>4

(* The first timer has expired.                                            *)
LEMMA FiredIs ==
  ASSUME FdInv, ticking, ~d.lost
  PROVE  LET r == [d EXCEPT !.timers = Tail(@)]
             fired == IF Head(d.timers).fn = "on" THEN FloppyOn(r) ELSE Transfer(r)
         IN /\ FdShape(r) /\ (Alive(d) => ~Expired(r))
            /\ \A z \in fired : Follows(r, z) /\ FdGood(z, 1)
<1> DEFINE l == d.timers
           m == Tail(l)
           r == [d EXCEPT !.timers = m]
           x == d.drive
           fired == IF Head(l).fn = "on" THEN FloppyOn(r) ELSE Transfer(r)
<1>1. /\ d \in FdState /\ NotEarly(l) /\ Expired(d) /\ FdGood(d, 1)
  BY DEF FdInv
<1>2. l \in Seq(FdTimer)
  BY <1>1 DEF FdState
<1>3. /\ l # <<>> /\ Head(l) = l[1] /\ l[1].n = 0
      /\ Len(l) = 1 => m = <<>>
  BY <1>1, <1>2, HeadIs DEF Expired
<1>4. m \in Seq(FdTimer) /\ NotEarly(m)
  <2> HIDE DEF l
  <2> QED
    BY <1>1, <1>2, <1>3, TimerTaken
<1> HIDE DEF m
<1>5. r \in FdState
  BY <1>1, <1>4 DEF FdState
<1>6. /\ r.timers = m /\ r.odd = d.odd /\ r.ints = d.ints
      /\ r.heads = d.heads /\ r.do_floppy = d.do_floppy
      /\ r.seek_track = d.seek_track /\ r.seek = d.seek
      /\ r.drive = x /\ r.current_track = d.current_track
      /\ r.queue = d.queue
      /\ r.selected = d.selected /\ r.motors = d.motors /\ r.mon = d.mon
      /\ r.moff = d.moff /\ r.lost = d.lost /\ r.dor = d.dor
  BY <1>1 DEF FdState
<1>7. d = [d EXCEPT !.timers = l]
  BY <1>1 DEF FdState
<1> HIDE DEF r
<1>8. FdShape(r)
  BY <1>4, <1>5, <1>6 DEF FdShape
<1>9. d.mon[x] \in Nat /\ d.moff[x] \in Nat
  BY <1>1 DEF FdState
<1>10. ASSUME Alive(d)
       PROVE  /\ Quiet(r) /\ SetUpFor(r) /\ m = <<>>
              /\ l[1].fn = "on" => MotorRuns(r, 1, 2 * CommandTicks + 2)
              /\ l[1].fn = "transfer" => r.selected /\ MotorRuns(r, 1, 2 * CommandTicks)
  <2>1. ~d.lost /\ Selection(d)
    BY <1>1, <1>10 DEF FdGood
  <2>2. TimerWaits(d, 1)
    BY <1>1, <1>3, <1>10 DEF FdGood, Resting, Commanded
  <2>3. /\ d.ints = <<>> /\ d.do_floppy = "none" /\ Len(l) = 1 /\ Served(d)
        /\ (d.seek \/ (OnTrack(d) /\ d.current_track = d.seek_track))
    BY <2>2 DEF TimerWaits
  <2>4. m = <<>>
    BY <1>3, <2>3
  <2>5. Quiet(r)
    BY <1>6, <1>10, <2>1, <2>3, <2>4 DEF Quiet, Resting, Selection, Alive
  <2>6. SetUpFor(r)
    BY <1>6, <2>3 DEF SetUpFor, Served, OnTrack
  <2>7. ASSUME l[1].fn = "on"
        PROVE  MotorRuns(r, 1, 2 * CommandTicks + 2)
    <3>1. /\ x \in d.motors /\ 0 + 1 <= d.mon[x]
          /\ d.mon[x] <= 0 + 1 \/ d.mon[x] <= 2
          /\ d.moff[x] >= MotorOff
      BY <1>3, <2>2, <2>7 DEF TimerWaits
    <3>2. /\ d.mon[x] <= 1 + 1 /\ d.mon[x] > 0
          /\ d.moff[x] >= 2 * CommandTicks + 2 + 0
      BY <1>9, <3>1, TicksAre
    <3> QED
      BY <1>6, <3>1, <3>2 DEF MotorRuns
  <2>8. ASSUME l[1].fn = "transfer"
        PROVE  r.selected /\ MotorRuns(r, 1, 2 * CommandTicks)
    <3>1. d.selected /\ MotorRuns(d, 1, 2 * CommandTicks + 0)
      BY <1>3, <2>2, <2>8 DEF TimerWaits
    <3>2. 2 * CommandTicks + 0 = 2 * CommandTicks
      BY TicksAre
    <3> QED
      BY <1>6, <3>1, <3>2 DEF MotorRuns
  <2> QED
    BY <2>4, <2>5, <2>6, <2>7, <2>8
<1>11. Alive(d) => ~Expired(r)
  BY <1>6, <1>10 DEF Expired
<1>12. l[1].fn \in {"on", "transfer"}
  <2>1. 1 \in 1..Len(l)
    BY <1>2, <1>3, HeadIs
  <2> QED
    BY <1>2, <2>1, TimerFields
<1>13. ~Alive(r) <=> ~Alive(d)
  BY <1>6 DEF Alive
<1>14. ASSUME NEW z \in fired PROVE Follows(r, z) /\ FdGood(z, 1)
  <2>1. CASE l[1].fn = "on"
    <3>1. z \in FloppyOn(r)
      BY <1>3, <2>1
    <3>2. /\ Follows(r, z)
          /\ /\ Quiet(r) /\ SetUpFor(r)
             /\ MotorRuns(r, 1, 2 * CommandTicks + 2)
             => FdGood(z, 1)
      BY <1>8, <3>1, FloppyOnIs
    <3> QED
      BY <1>10, <1>13, <2>1, <3>2, GoodIfOvertaken DEF Follows
  <2>2. CASE l[1].fn = "transfer"
    <3>1. z \in Transfer(r)
      BY <1>3, <2>2
    <3>2. /\ Follows(r, z)
          /\ Quiet(r) /\ SetUpFor(r) /\ r.selected /\ MotorRuns(r, 1, 2 * CommandTicks)
               => FdGood(z, 1)
      BY <1>8, <3>1, TransferIs
    <3> QED
      BY <1>10, <1>13, <2>2, <3>2, GoodIfOvertaken DEF Follows
  <2> QED
    BY <1>12, <2>1, <2>2
<1>15. [d EXCEPT !.timers = Tail(@)] = r
  BY DEF r, m
<1> HIDE DEF l
<1> QED
  BY <1>8, <1>11, <1>14, <1>15 DEF l

(* The handler runs; with the last of them the motors are counted.         *)
LEMMA FireIs ==
  ASSUME FdInv, Fire
  PROVE  FdInv'
<1> DEFINE r == [d EXCEPT !.timers = Tail(@)]
           fired == IF Head(d.timers).fn = "on" THEN FloppyOn(r) ELSE Transfer(r)
<1>1. /\ ticking /\ ~d.lost /\ ticking' = Expired(r)
      /\ Settle(IF Expired(r) THEN fired ELSE {DoFloppyTimer(s) : s \in fired})
  BY DEF Fire
<1>2. /\ FdShape(r) /\ (Alive(d) => ~Expired(r))
      /\ \A z \in fired : Follows(r, z) /\ FdGood(z, 1)
  BY <1>1, FiredIs
<1> HIDE DEF r, fired
<1>3. CASE Expired(r)
  <2>1. Settle(fired) /\ ticking' = TRUE
    BY <1>1, <1>3
  <2>2. \A z \in fired : FdShape(z) /\ FdGood(z, 1) /\ (Expired(z) <=> 1 = 1)
    BY <1>2, <1>3 DEF Follows
  <2>3. FdIn(1)'
    BY <2>1, <2>2, SettledIs
  <2> QED
    BY <2>1, <2>3, InOrder
<1>4. CASE ~Expired(r)
  <2> DEFINE S == {DoFloppyTimer(s) : s \in fired}
  <2>1. Settle(S) /\ ticking' = FALSE
    BY <1>1, <1>4
  <2>2. ASSUME NEW z \in S
        PROVE  FdShape(z) /\ FdGood(z, 0) /\ (Expired(z) <=> 0 = 1)
    <3>1. PICK s \in fired : z = DoFloppyTimer(s)
      OBVIOUS
    <3>2. FdShape(s) /\ ~Expired(s) /\ FdGood(s, 1)
      BY <1>2, <1>4 DEF Follows
    <3>3. Follows(s, z) /\ FdGood(z, 0)
      BY <3>1, <3>2, DoFloppyTimerIs
    <3> QED
      BY <3>2, <3>3 DEF Follows
  <2> HIDE DEF S
  <2>3. FdIn(0)'
    BY <2>1, <2>2, SettledIs
  <2> QED
    BY <2>1, <2>3, InOrder
<1> QED
  BY <1>3, <1>4

(* The tasks in floppy_change(): each step changes a place, and before it  *)
(* perhaps what does not disturb the driver.                               *)
FdPlace == {"out", "on", "doze", "motor", "test", "nap", "select"}

LEMMA FdPlacedIs ==
  ASSUME FdInv, Still, NEW s \in FdState, FdUndisturbed(d, s, 0),
         NEW t \in Caller, NEW v \in FdPlace, Goes([s EXCEPT !.pc[t] = v])
  PROVE  FdInv'
<1> DEFINE pc == [s.pc EXCEPT ![t] = v]
           r == [s EXCEPT !.pc = pc]
<1>1. FdShape(d) /\ d \in FdState /\ FdGood(d, 0) /\ ~Expired(d)
  BY StillIs DEF FdShape
<1>2. FdGood(s, 0) /\ s.timers = d.timers
  BY <1>1, FdUndisturbedKeeps DEF FdUndisturbed
<1>3. pc \in [Caller -> FdPlace]
  <2>1. s.pc \in [Caller -> FdPlace]
    BY DEF FdState, FdPlace
  <2> QED
    BY <2>1
<1>4. d' = r /\ ticking' = ticking
  BY DEF Goes, FdState
<1> HIDE DEF pc
<1>5. r \in FdState
  BY <1>3 DEF FdState, FdPlace
<1>6. FdUndisturbed(s, r, 0) /\ r.timers = s.timers
  BY DEF FdState, FdUndisturbed
<1> HIDE DEF r
<1>7. FdGood(r, 0)
  BY <1>2, <1>5, <1>6, FdUndisturbedKeeps
<1>8. FdIn(0)'
  BY <1>1, <1>2, <1>4, <1>5, <1>6, <1>7 DEF FdIn, FdShape, Expired
<1>9. ticking' = FALSE
  BY <1>4, StillIs
<1> QED
  BY <1>8, <1>9, InOrder

(* Nothing is the least that can be done.                                  *)
LEMMA SameIsUndisturbed ==
  ASSUME NEW s, s = d
  PROVE  FdUndisturbed(d, s, 0)
BY DEF FdUndisturbed

(* History does not touch the driver.                                      *)
LEMMA MissedIs ==
  ASSUME d \in FdState
  PROVE  LET s == Odd(d, "missed")
         IN s \in FdState /\ FdUndisturbed(d, s, 0)
<1> DEFINE odd == d.odd \cup {"missed"}
           s == [d EXCEPT !.odd = odd]
<1>1. Odd(d, "missed") = s
  BY DEF Odd
<1>2. /\ odd \in SUBSET {"overtaken", "beyond", "missed"}
      /\ "beyond" \in odd <=> "beyond" \in d.odd
      /\ "overtaken" \in odd <=> "overtaken" \in d.odd
  BY DEF FdState
<1> HIDE DEF odd
<1>3. s \in FdState
  BY <1>2 DEF FdState
<1>4. FdUndisturbed(d, s, 0)
  BY <1>2 DEF FdState, FdUndisturbed
<1> QED
  BY <1>1, <1>3, <1>4

(* floppy_change() is called.                                              *)
LEMMA ChangeIs ==
  ASSUME FdInv, NEW t \in Caller, NEW nr \in Drive, Change(t, nr)
  PROVE  FdInv'
<1> DEFINE nrs == [d.nr EXCEPT ![t] = nr]
           s == [d EXCEPT !.nr = nrs]
<1>1. Still /\ Goes([d EXCEPT !.pc[t] = "on", !.nr[t] = nr])
  BY DEF Change, Turn
<1>2. d \in FdState
  BY DEF FdInv
<1>3. [d EXCEPT !.pc[t] = "on", !.nr[t] = nr] = [s EXCEPT !.pc[t] = "on"]
  BY <1>2 DEF FdState
<1>4. nrs \in [Caller -> Drive]
  <2>1. d.nr \in [Caller -> Drive]
    BY <1>2 DEF FdState
  <2> QED
    BY <2>1
<1> HIDE DEF nrs
<1>5. s \in FdState
  BY <1>2, <1>4 DEF FdState
<1>6. FdUndisturbed(d, s, 0)
  BY <1>2 DEF FdState, FdUndisturbed
<1>7. Goes([s EXCEPT !.pc[t] = "on"])
  BY <1>1, <1>3
<1> HIDE DEF s
<1> QED
  BY <1>1, <1>5, <1>6, <1>7, FdPlacedIs DEF FdPlace

(* floppy_on(): a drive is selected only if none is, its motor runs on.    *)
LEMMA OnIs ==
  ASSUME FdInv, NEW t \in Caller, On(t)
  PROVE  FdInv'
<1> DEFINE nr == d.nr[t]
           s == TicksToOn(d, nr)
           v == IF s.mon[nr] = 0 THEN "test" ELSE "doze"
           x == d.drive
<1>1. Still /\ Goes([s EXCEPT !.pc[t] = v])
  BY DEF On, Turn
<1>2. d \in FdState /\ nr \in Drive /\ FdShape(d)
  <2>1. d \in FdState
    BY DEF FdInv
  <2> QED
    BY <1>1, <2>1, StillIs DEF FdState
<1>3. v \in FdPlace
  BY DEF FdPlace
<1> HIDE DEF v, nr
<1>4. PICK mon \in Nat :
        /\ s = [d EXCEPT !.moff = [d.moff EXCEPT ![nr] = Long],
                         !.mon = [d.mon EXCEPT ![nr] = mon],
                         !.dor = IF d.selected THEN d.dor ELSE nr,
                         !.motors = d.motors \cup {nr}]
        /\ \/ nr \notin d.motors
           \/ mon = d.mon[nr]
           \/ ~d.selected /\ d.mon[nr] < 2 /\ mon = 2
  BY <1>2, TicksToOnIs
<1>5. Follows(d, s)
  BY <1>2, TicksToOnIs
<1>6. s \in FdState
  BY <1>5 DEF Follows, FdShape
<1> HIDE DEF s
<1>7. /\ s.queue = d.queue /\ s.do_floppy = d.do_floppy /\ s.ints = d.ints
      /\ s.age = d.age /\ s.reset = d.reset /\ s.recalibrate = d.recalibrate
      /\ s.seek = d.seek /\ s.drive = x /\ s.current_track = d.current_track
      /\ s.seek_track = d.seek_track /\ s.selected = d.selected
      /\ s.timers = d.timers /\ s.heads = d.heads /\ s.lost = d.lost
      /\ s.odd = d.odd /\ s.motors = d.motors \cup {nr}
      /\ s.dor = IF d.selected THEN d.dor ELSE nr
      /\ s.mon = [d.mon EXCEPT ![nr] = mon] /\ s.moff = [d.moff EXCEPT ![nr] = Long]
  BY <1>2, <1>4 DEF FdState
<1>8. d.mon \in [Drive -> Nat] /\ d.moff \in [Drive -> Nat] /\ x \in Drive
  BY <1>2 DEF FdState
<1>9. ASSUME x \in d.motors
      PROVE  /\ x \in s.motors
             /\ \/ s.mon[x] = d.mon[x]
                \/ 0 = 0 /\ ~d.selected /\ d.mon[x] < 2 /\ s.mon[x] = 2
             /\ \/ s.moff[x] = d.moff[x]
                \/ 0 = 0 /\ s.moff[x] >= MotorOff
  <2>1. CASE x = nr
    <3>1. s.mon[x] = mon /\ s.moff[x] = Long
      BY <1>2, <1>7, <1>8, <2>1
    <3>2. Long >= MotorOff
      BY TicksAre
    <3> QED
      BY <1>4, <1>7, <1>9, <2>1, <3>1, <3>2
  <2>2. CASE x # nr
    BY <1>7, <1>8, <1>9, <2>2
  <2> QED
    BY <2>1, <2>2
<1>10. FdUndisturbed(d, s, 0)
  BY <1>7, <1>9 DEF FdUndisturbed
<1> QED
  BY <1>1, <1>3, <1>6, <1>10, FdPlacedIs

(* The task sleeps until the motor has its speed, ...                      *)
LEMMA DozeIs ==
  ASSUME FdInv, NEW t \in Caller, Doze(t)
  PROVE  FdInv'
<1> DEFINE s == IF d.mon[d.nr[t]] = 0 THEN Odd(d, "missed") ELSE d
<1>1. Still /\ Goes([s EXCEPT !.pc[t] = "motor"])
  BY DEF Doze, Turn
<1>2. d \in FdState
  BY DEF FdInv
<1>3. s \in FdState /\ FdUndisturbed(d, s, 0)
  BY <1>2, MissedIs, SameIsUndisturbed
<1> HIDE DEF s
<1> QED
  BY <1>1, <1>3, FdPlacedIs DEF FdPlace

(* ... or until the drive is deselected.                                   *)
LEMMA NapIs ==
  ASSUME FdInv, NEW t \in Caller, Nap(t)
  PROVE  FdInv'
<1> DEFINE s == IF ~d.selected THEN Odd(d, "missed") ELSE d
<1>1. Still /\ Goes([s EXCEPT !.pc[t] = "select"])
  BY DEF Nap, Turn
<1>2. d \in FdState
  BY DEF FdInv
<1>3. s \in FdState /\ FdUndisturbed(d, s, 0)
  BY <1>2, MissedIs, SameIsUndisturbed
<1> HIDE DEF s
<1> QED
  BY <1>1, <1>3, FdPlacedIs DEF FdPlace

(* The drive is looked at if it is the selected one.                       *)
LEMMA TestIs ==
  ASSUME FdInv, NEW t \in Caller, Test(t)
  PROVE  FdInv'
<1> DEFINE nr == d.nr[t]
           s == Off(d, nr)
           v == IF d.selected THEN "nap" ELSE "on"
<1>1. Still /\ Goes(IF d.dor = nr THEN [s EXCEPT !.pc[t] = "out"]
                    ELSE [d EXCEPT !.pc[t] = v])
  BY DEF Test, Turn
<1>2. d \in FdState /\ nr \in Drive /\ FdShape(d)
  <2>1. d \in FdState
    BY DEF FdInv
  <2> QED
    BY <1>1, <2>1, StillIs DEF FdState
<1>3. v \in FdPlace /\ "out" \in FdPlace
  BY DEF FdPlace
<1> HIDE DEF v
<1>4. CASE d.dor = nr
  <2> DEFINE moff == [d.moff EXCEPT ![nr] = MotorOff]
  <2> HIDE DEF nr
  <2>1. s = [d EXCEPT !.moff = moff] /\ Follows(d, s)
    BY <1>2, OffIs
  <2>2. s \in FdState /\ Goes([s EXCEPT !.pc[t] = "out"])
    BY <1>1, <1>4, <2>1 DEF Follows, FdShape
  <2>3. /\ d.moff \in [Drive -> Nat] /\ d.drive \in Drive
    BY <1>2 DEF FdState
  <2>4. moff[d.drive] = d.moff[d.drive] \/ moff[d.drive] >= MotorOff
    BY <1>2, <2>3, TicksAre
  <2> HIDE DEF moff, s
  <2>5. FdUndisturbed(d, s, 0)
    BY <1>2, <2>1, <2>4 DEF FdState, FdUndisturbed
  <2> QED
    BY <1>1, <1>3, <2>2, <2>5, FdPlacedIs
<1>5. CASE d.dor # nr
  <2>1. Goes([d EXCEPT !.pc[t] = v])
    BY <1>1, <1>5
  <2> QED
    BY <1>1, <1>2, <1>3, <2>1, SameIsUndisturbed, FdPlacedIs
<1> QED
  BY <1>4, <1>5

(* A step that changes nothing.                                            *)
LEMMA FdStuttering ==
  ASSUME FdInv, UNCHANGED fdVars
  PROVE  FdInv'
<1>1. d' = d /\ ticking' = ticking
  BY DEF fdVars
<1>2. d \in FdState /\ NotEarly(d.timers) /\ ticking \in BOOLEAN
      /\ (ticking <=> Expired(d)) /\ FdGood(d, IF ticking THEN 1 ELSE 0)
  BY DEF FdInv
<1>3. (IF ticking THEN 1 ELSE 0)' = IF ticking THEN 1 ELSE 0
  BY <1>1
<1>4. FdGood(d, IF ticking THEN 1 ELSE 0)'
  BY <1>1, <1>2, <1>3
<1> QED
  BY <1>1, <1>2, <1>4 DEF FdInv

(* Every step keeps the invariant,                                         *)
LEMMA FdNextOk ==
  ASSUME FdInv, [FdNext]_fdVars
  PROVE  FdInv'
<1>1. CASE \E dev \in Drive, track \in 0..Beyond : AddRequest(dev, track)
  BY <1>1, AddRequestIs
<1>2. CASE Interrupt \/ Spurious \/ Tick \/ Fire
  BY <1>2, InterruptIs, SpuriousIs, TickIs, FireIs
<1>3. CASE \E t \in Caller : FloppyChange(t) \/ \E nr \in Drive : Change(t, nr)
  BY <1>3, OnIs, DozeIs, TestIs, NapIs, ChangeIs DEF FloppyChange
<1>4. CASE UNCHANGED fdVars
  BY <1>4, FdStuttering
<1> QED
  BY <1>1, <1>2, <1>3, <1>4 DEF FdNext

(* so it always holds.                                                     *)
LEMMA FdInvariant ==
  FdSpec => []FdInv
<1>1. FdInit => FdInv
  BY FdInitOk
<1>2. FdInv /\ [FdNext]_fdVars => FdInv'
  BY FdNextOk
<1> QED
  BY <1>1, <1>2, PTL DEF FdSpec

(* What the invariant says of the timers and of what the controller does.  *)
LEMMA FdTimersAre ==
  ASSUME FdInv
  PROVE  TimersNeverEarly
<1>1. d \in FdState /\ NotEarly(d.timers) /\ FdGood(d, IF ticking THEN 1 ELSE 0)
  BY DEF FdInv
<1> DEFINE l == d.timers
           k == IF ticking THEN 1 ELSE 0
<1>2. l \in Seq(FdTimer)
  BY <1>1 DEF FdState
<1> HIDE DEF k
<1>3. ASSUME NEW i \in 1..Len(l), Alive(d)
      PROVE  TimeUpTo(l, i) = l[i].due
  <2>1. l # <<>>
    BY <1>2, <1>3
  <2>2. TimerWaits(d, k)
    BY <1>1, <1>3, <2>1 DEF FdGood, Resting, Commanded, k
  <2>3. Len(l) = 1 /\ l[1].due = l[1].n
    BY <2>2 DEF TimerWaits
  <2>4. i = 1
    BY <1>3, <2>3
  <2> HIDE DEF l
  <2>5. /\ TimeUpTo(l, 0) = 0 /\ TimeUpTo(l, 1) = TimeUpTo(l, 1 - 1) + l[1].n
        /\ l[1].n \in Nat
    <3>1. 1 \in 1..Len(l)
      BY <2>3
    <3> QED
      BY <1>2, <3>1, TimeIs, TimerFields
  <2> QED
    BY <2>3, <2>4, <2>5
<1>4. DOMAIN l = 1..Len(l)
  BY <1>2
<1>5. d.odd \cap {"overtaken"} = {} => Alive(d)
  BY DEF Alive
<1> QED
  BY <1>1, <1>3, <1>4, <1>5 DEF TimersNeverEarly, Unless, NotEarly

LEMMA FdTransferIs ==
  ASSUME FdInv
  PROVE  TransferIsSetUp
<1>1. d \in FdState /\ FdGood(d, IF ticking THEN 1 ELSE 0)
  BY DEF FdInv
<1>2. d.odd \cap {"overtaken"} = {} => Alive(d)
  BY DEF Alive
<1>3. d.odd \cap {"overtaken", "beyond"} = {} => Alive(d) /\ "beyond" \notin d.odd
  BY DEF Alive
<1>4. Alive(d) => ~d.lost /\ Selection(d)
  BY <1>1 DEF FdGood
<1>5. ASSUME Alive(d), d.do_floppy \in {"seek", "rw"}
      PROVE  /\ d.queue # <<>> /\ d.selected
             /\ d.drive = Head(d.queue).dev /\ d.seek_track = Head(d.queue).track
             /\ d.dor = d.drive /\ d.drive \in d.motors /\ d.mon[d.drive] <= 1
             /\ d.do_floppy = "rw" => OnTrack(d)
  <2> DEFINE k == IF ticking THEN 1 ELSE 0
  <2> HIDE DEF k
  <2>1. Commanded(d, k)
    BY <1>1, <1>5 DEF FdGood, Resting, TimerWaits, k
  <2>2. d.timers = <<>>
    BY <2>1 DEF Commanded
  <2>3. k = 0
    BY <2>2 DEF FdInv, Expired, k
  <2>4. /\ d.ints[1].kind = d.do_floppy /\ Served(d) /\ d.selected
        /\ d.drive \in d.motors /\ d.mon[d.drive] <= 1 + 0
        /\ d.do_floppy = "rw" => OnTrack(d)
    BY <1>5, <2>1, <2>3 DEF Commanded, MotorRuns
  <2>5. d.dor = d.drive
    BY <1>4, <1>5, <2>4 DEF Selection
  <2>6. d.queue \in Seq(FdRequest) /\ d.queue # <<>>
    BY <1>1, <2>4 DEF FdState, Served
  <2>7. Head(d.queue) = d.queue[1]
    BY <2>6, HeadIs
  <2>8. d.mon[d.drive] <= 1
    BY <2>4
  <2> QED
    BY <2>4, <2>5, <2>6, <2>7, <2>8 DEF Served
<1> QED
  BY <1>2, <1>3, <1>4, <1>5 DEF TransferIsSetUp, Unless, OnTrack

(* No timer expires early, and while the driver is started once at a time  *)
(* there is one, which is exact: add_timer() and do_timer(), from any      *)
(* number of drives and requests.                                          *)
THEOREM FdTimersNeverEarly ==
  FdSpec => []TimersNeverEarly
<1>1. FdSpec => []FdInv
  BY FdInvariant
<1>2. FdInv => TimersNeverEarly
  BY FdTimersAre
<1> QED
  BY <1>1, <1>2, PTL

(* The controller is told to seek or to transfer only for CURRENT, on a    *)
(* selected drive with its motor up to speed, and to transfer where the    *)
(* track is, whatever fails before.                                        *)
THEOREM FdTransferIsSetUp ==
  FdSpec => []TransferIsSetUp
<1>1. FdSpec => []FdInv
  BY FdInvariant
<1>2. FdInv => TransferIsSetUp
  BY FdTransferIs
<1> QED
  BY <1>1, <1>2, PTL

-----------------------------------------------------------------------------
(* The terminal: how many lines there are in a queue.                      *)

(* What editing does to the number of lines in a queue.                    *)
LEMMA LinesNumber ==
  ASSUME NEW S, NEW q \in Seq(S)
  PROVE  /\ IsFiniteSet({i \in DOMAIN q : LineEnd(q[i])})
         /\ Lines(q) \in Nat
         /\ Lines(q) > 0 => q # <<>>
<1> DEFINE L == {i \in DOMAIN q : LineEnd(q[i])}
<1>1. DOMAIN q = 1..Len(q) /\ Len(q) \in Nat
  OBVIOUS
<1>2. IsFiniteSet(L)
  <2>1. IsFiniteSet(1..Len(q)) /\ L \subseteq 1..Len(q)
    BY <1>1, FS_Interval
  <2> HIDE DEF L
  <2> QED
    BY <2>1, FS_Subset
<1>3. Cardinality(L) \in Nat /\ (L = {} => Cardinality(L) = 0)
  BY <1>2, FS_CardinalityType, FS_EmptySet
<1>4. q = <<>> => L = {}
  OBVIOUS
<1>5. Lines(q) = Cardinality(L)
  BY DEF Lines
<1>6. Lines(q) \in Nat /\ (Lines(q) > 0 => q # <<>>)
  <2> HIDE DEF L
  <2> QED
    BY <1>3, <1>4, <1>5
<1> QED
  BY <1>2, <1>6

(* One more character is one more line if it ends one.                     *)
LEMMA LinesAppended ==
  ASSUME NEW S, NEW q \in Seq(S), NEW c \in S
  PROVE  /\ Append(q, c) \in Seq(S) /\ Len(Append(q, c)) = Len(q) + 1
         /\ Lines(Append(q, c)) = Lines(q) + (IF LineEnd(c) THEN 1 ELSE 0)
<1> DEFINE L == {i \in DOMAIN q : LineEnd(q[i])}
           r == Append(q, c)
           M == {i \in DOMAIN r : LineEnd(r[i])}
           n == Len(q) + 1
<1>1. /\ DOMAIN q = 1..Len(q) /\ Len(q) \in Nat
      /\ r \in Seq(S) /\ Len(r) = n /\ DOMAIN r = 1..n
      /\ r[n] = c /\ \A i \in 1..Len(q) : r[i] = q[i]
  OBVIOUS
<1>2. M = IF LineEnd(c) THEN L \cup {n} ELSE L
  <2> HIDE DEF r
  <2>1. \A i \in 1..n : i \in 1..Len(q) \/ i = n
    BY <1>1
  <2>2. n \notin 1..Len(q) /\ n \in 1..n /\ \A i \in 1..Len(q) : i \in 1..n
    BY <1>1
  <2> HIDE DEF n
  <2> QED
    BY <1>1, <2>1, <2>2
<1>3. n \notin L
  BY <1>1
<1>4. IsFiniteSet(L) /\ Cardinality(L) \in Nat
  BY LinesNumber DEF Lines
<1>5. Cardinality(L \cup {n}) = Cardinality(L) + 1
  <2> HIDE DEF L, n
  <2> QED
    BY <1>3, <1>4, FS_AddElement
<1>6. Lines(q) = Cardinality(L) /\ Lines(r) = Cardinality(M)
  BY DEF Lines
<1> HIDE DEF L, M, n, r
<1> QED
  BY <1>1, <1>2, <1>4, <1>5, <1>6 DEF n, r

(* Without its last character a queue has one line less, if that ended     *)
(* one.                                                                    *)
LEMMA LinesOfFront ==
  ASSUME NEW S, NEW q \in Seq(S), q # <<>>
  PROVE  /\ Front(q) \in Seq(S) /\ Len(Front(q)) = Len(q) - 1
         /\ Last(q) \in S
         /\ \A i \in 1..(Len(q) - 1) : Front(q)[i] = q[i]
         /\ Lines(q) = Lines(Front(q)) + (IF LineEnd(Last(q)) THEN 1 ELSE 0)
<1> DEFINE f == Front(q)
           n == Len(q)
<1>1. n \in Nat /\ n > 0 /\ q[n] \in S /\ Last(q) = q[n]
  BY DEF Last
<1>2. f \in Seq(S) /\ Len(f) = n - 1 /\ \A i \in 1..(n - 1) : f[i] = q[i]
  BY DEF Front
<1>3. Append(f, Last(q)) = q
  <2> DEFINE a == Append(f, Last(q))
  <2>1. a \in Seq(S) /\ Len(a) = n
    BY <1>1, <1>2
  <2>2. \A i \in 1..n : a[i] = q[i]
    BY <1>1, <1>2
  <2> QED
    BY <2>1, <2>2
<1>4. Lines(Append(f, Last(q))) = Lines(f) + (IF LineEnd(Last(q)) THEN 1 ELSE 0)
  <2> HIDE DEF f
  <2> QED
    BY <1>1, <1>2, LinesAppended
<1> QED
  BY <1>1, <1>2, <1>3, <1>4

(* And without its first, which shifts all others by one.                  *)
LEMMA LinesOfTail ==
  ASSUME NEW S, NEW q \in Seq(S), q # <<>>
  PROVE  /\ Tail(q) \in Seq(S) /\ Len(Tail(q)) = Len(q) - 1
         /\ Head(q) \in S
         /\ Lines(q) = Lines(Tail(q)) + (IF LineEnd(Head(q)) THEN 1 ELSE 0)
<1> DEFINE r == Tail(q)
           n == Len(q)
           L == {i \in DOMAIN q : LineEnd(q[i])}
           M == {i \in DOMAIN r : LineEnd(r[i])}
           next == [i \in M |-> i + 1]
           prev == [i \in L \ {1} |-> i - 1]
<1>1. /\ n \in Nat /\ n > 0 /\ Head(q) = q[1] /\ Head(q) \in S
      /\ DOMAIN q = 1..n
  OBVIOUS
<1>2. /\ r \in Seq(S) /\ Len(r) = n - 1 /\ DOMAIN r = 1..(n - 1)
      /\ \A i \in 1..(n - 1) : r[i] = q[i + 1]
  OBVIOUS
<1> HIDE DEF r
<1>3. IsFiniteSet(L) /\ Cardinality(L) \in Nat
  BY LinesNumber DEF Lines
<1>4. IsFiniteSet(M) /\ Cardinality(M) \in Nat
  BY <1>2, LinesNumber DEF Lines
<1>5. IsFiniteSet(L \ {1}) /\ Cardinality(L \ {1}) =
        IF 1 \in L THEN Cardinality(L) - 1 ELSE Cardinality(L)
  BY <1>3, FS_RemoveElement
<1>6. next \in Bijection(M, L \ {1})
  <2>1. \A i \in M : i + 1 \in L \ {1}
    BY <1>1, <1>2
  <2>2. \A i \in L \ {1} : i - 1 \in M /\ (i - 1) + 1 = i
    BY <1>1, <1>2
  <2>3. \A i, j \in M : i + 1 = j + 1 => i = j
    BY <1>2
  <2> HIDE DEF L, M
  <2>4. next \in [M -> L \ {1}]
    BY <2>1
  <2>5. \A i, j \in M : next[i] = next[j] => i = j
    BY <2>3
  <2>6. \A i \in L \ {1} : \E j \in M : next[j] = i
    BY <2>2
  <2> HIDE DEF next
  <2> QED
    BY <2>4, <2>5, <2>6, Fun_IsBij
<1>7. Cardinality(M) = Cardinality(L \ {1})
  BY <1>4, <1>5, <1>6, FS_Bijection DEF ExistsBijection
<1>8. 1 \in L <=> LineEnd(Head(q))
  BY <1>1
<1>9. Lines(q) = Cardinality(L) /\ Lines(r) = Cardinality(M)
  BY DEF Lines
<1> HIDE DEF L, M
<1> QED
  BY <1>1, <1>2, <1>3, <1>5, <1>7, <1>8, <1>9 DEF r

(* A new c_cc apart, what counts as a line does not change.                *)
LEMMA LinesSame ==
  ASSUME cc' = cc
  PROVE  Lines(secondary)' = Lines(secondary')
BY DEF Lines, LineEnd

-----------------------------------------------------------------------------
(* TtyInv: what each call has to be doing, where the tasks sleep, and who  *)
(* looks after the line.                                                   *)
Pcs == {"user", "read", "read_sleep", "getch", "write", "full", "write_sleep",
        "fill", "putch", "inc", "termios"}

Calls == [pc : Pcs, nr : Int, buf : Seq({"x", "nl"})]

Stores ==
  /\ lflag \in Modes /\ cc \in {INIT_C_CC} \cup Ccs /\ data \in Int
  /\ read_q \in Seq(Keys) /\ secondary \in Seq(Keys)
  /\ Len(read_q) < Size /\ Len(secondary) < Size
  /\ chars \in 0..Size - 1 /\ stale \in 0..Size - 1
  /\ tx \in BOOLEAN /\ cr_flag \in BOOLEAN /\ overtaken \in BOOLEAN
  /\ miscounted \in BOOLEAN
  /\ signal \subseteq Proc /\ deferred \subseteq Proc

Shapes ==
  /\ at \in [Proc -> Calls]
  /\ \A t \in Proc : at[t].pc = "putch" => at[t].buf # <<>>

(* A task sleeps where its call says it does, and one that neither sleeps  *)
(* nor has the processor is between two steps that schedule() may part.    *)
Positions ==
  \A t \in Proc :
    /\ on[t] = "secondary" => at[t].pc = "read_sleep"
    /\ on[t] = "write_q" => at[t].pc = "write_sleep"
    /\ on[t] = None => at[t].pc \in {"user", "write"} \/ current = t

(* What module WaitQueue promises of its queues. *)
Queues == ProcLists /\ Typing /\ NoStaleInterruptibleHead /\ NoLostSleeper

Counts == overtaken \/ miscounted \/ data = Lines(secondary)

Putting == {"fill", "putch", "inc"}

(* Characters go out, or somebody puts more there and will see to it.      *)
Sending == tx \/ chars = 0 \/ \E t \in Proc : at[t].pc \in Putting

TtyInv == /\ Stores /\ Shapes /\ Positions /\ Queues
          /\ Counts /\ Sending /\ NoSleeperForgotten

(* What is known of the sizes; % brings every number back into the queue.  *)
LEMMA SizeIs ==
  /\ Size \in Nat /\ Size > 0
  /\ CanonLeft \in Nat /\ RoomWanted \in Nat /\ Startup \in Nat
  /\ MaxCount \in Nat /\ RoomWanted + Startup < Size
  /\ \A x \in Int : x % Size \in 0..(Size - 1)
<1>1. /\ Size \in Nat /\ RoomWanted \in Nat /\ Startup \in Nat
      /\ CanonLeft \in Nat /\ MaxCount \in Nat
      /\ RoomWanted + Startup < Size
  BY SizesAssumption
<1>2. Size > 0
  BY <1>1
<1>3. \A x \in Int : x % Size \in 0..(Size - 1)
  BY <1>1, <1>2, Z3
<1> QED
  BY <1>1, <1>2, <1>3

(* The types are part of the invariant.                                    *)
LEMMA TypeFromInv == TtyInv => TtyTypeOK
BY DEF TtyInv, Stores, Positions, Queues, Typing, TtyTypeOK

-----------------------------------------------------------------------------
(* copy_to_cooked(), for one character and then for all of read_q.         *)
CookStates ==
  [secondary : Seq(Keys), data : Int, chars : 0..(Size - 1), tx : BOOLEAN,
   rest : Seq(Keys), intr : BOOLEAN]

Edited(s) ==
  /\ s \in CookStates
  /\ Len(s.secondary) < Size
  /\ miscounted \/ s.data = Lines(s.secondary)

(* The interrupt is not disabled, and enabled wherever characters come.    *)
StillSends(s, r) ==
  /\ s.tx => r.tx
  /\ s.tx \/ s.chars = 0 => r.tx \/ r.chars = 0

(* An echo changes only what is to go out, and sees to it that it does.    *)
LEMMA EchoIs ==
  ASSUME NEW s \in CookStates, NEW puts \in Nat
  PROVE  LET r == Echo(s, puts)
         IN /\ r \in CookStates
            /\ r.secondary = s.secondary /\ r.data = s.data /\ r.rest = s.rest
            /\ StillSends(s, r)
<1> DEFINE more == (s.chars + puts) % Size
           e == [s EXCEPT !.chars = more, !.tx = @ \/ more > 0]
<1>1. more \in 0..(Size - 1)
  <2>1. s.chars + puts \in Int
    BY SizeIs DEF CookStates
  <2> QED
    BY <2>1, SizeIs
<1>2. Echo(s, puts) = IF "ECHO" \notin lflag THEN s ELSE e
  BY DEF Echo
<1> HIDE DEF more
<1>3. /\ e.secondary = s.secondary /\ e.data = s.data /\ e.rest = s.rest
      /\ e.chars = more /\ e.intr = s.intr
      /\ e.tx \in BOOLEAN /\ (e.tx <=> s.tx \/ more > 0)
  <2>1. DOMAIN s = {"secondary", "data", "chars", "tx", "rest", "intr"}
    BY DEF CookStates
  <2>2. /\ e.secondary = s.secondary /\ e.data = s.data /\ e.rest = s.rest
        /\ e.chars = more /\ e.intr = s.intr
    BY <2>1
  <2>3. e.tx = (s.tx \/ more > 0)
    BY <2>1, Zenon
  <2> QED
    BY <2>2, <2>3
<1>4. e \in CookStates
  BY <1>1 DEF CookStates
<1> HIDE DEF e
<1>5. StillSends(s, e) /\ StillSends(s, s)
  <2>1. more > 0 \/ more = 0
    BY <1>1, SizeIs
  <2> QED
    BY <1>3, <2>1 DEF StillSends
<1> QED
  BY <1>2, <1>3, <1>4, <1>5

(* An echo puts some number of characters.                                 *)
LEMMA WidthIs == \A c : Width(c) \in Nat
BY DEF Width

(* Erasing a character that ends no line leaves the number of lines.       *)
LEMMA EraseLastIs ==
  ASSUME NEW s, Edited(s), s.secondary # <<>>, ~LineEnd(Last(s.secondary))
  PROVE  LET r == EraseLast(s)
         IN /\ Edited(r) /\ r.secondary = Front(s.secondary)
            /\ r.rest = s.rest /\ StillSends(s, r)
<1> DEFINE q == s.secondary
           e == Echo(s, Width(Last(q)))
           r == [e EXCEPT !.secondary = Front(@)]
<1>1. /\ s \in CookStates /\ q \in Seq(Keys) /\ Len(q) < Size
      /\ miscounted \/ s.data = Lines(q)
  BY DEF Edited, CookStates
<1>2. /\ e \in CookStates /\ e.secondary = q /\ e.data = s.data
      /\ e.rest = s.rest /\ StillSends(s, e)
  BY <1>1, WidthIs, EchoIs
<1>3. /\ Front(q) \in Seq(Keys) /\ Len(Front(q)) = Len(q) - 1
      /\ Lines(q) = Lines(Front(q)) + 0
  BY <1>1, LinesOfFront
<1>4. /\ Len(Front(q)) < Size /\ (miscounted \/ s.data = Lines(Front(q)))
  <2>1. Lines(Front(q)) \in Nat
    <3> DEFINE f == Front(q)
    <3> HIDE DEF f
    <3> SUFFICES Lines(f) \in Nat
      BY DEF f
    <3>1. f \in Seq(Keys)
      BY <1>3 DEF f
    <3> QED
      BY <3>1, LinesNumber
  <2>2. Len(q) \in Nat
    BY <1>1
  <2> QED
    BY <1>1, <1>3, <2>1, <2>2, SizeIs
<1>5. EraseLast(s) = r
  BY DEF EraseLast
<1> HIDE DEF e
<1>6. /\ r.secondary = Front(q) /\ r.data = e.data /\ r.rest = e.rest
      /\ r.chars = e.chars /\ r.tx = e.tx
      /\ r \in CookStates
  BY <1>2, <1>3 DEF CookStates
<1> HIDE DEF r
<1> QED
  BY <1>2, <1>4, <1>5, <1>6 DEF Edited, StillSends

(* What erase and kill may take has no end of a line in it.                *)
LEMMA UnfinishedIs ==
  ASSUME NEW S, NEW q \in Seq(S)
  PROVE  /\ Unfinished(q) \in 0..Len(q)
         /\ \A i \in (Len(q) - Unfinished(q) + 1)..Len(q) : ~LineEnd(q[i])
<1> DEFINE n == Len(q)
           E == {i \in 0..n : i = 0 \/ LineEnd(q[i])}
           U == {i \in DOMAIN q : \A j \in i..Len(q) : ~LineEnd(q[j])}
           m == Max(E)
<1>1. n \in Nat /\ DOMAIN q = 1..n
  OBVIOUS
<1>2. m \in E /\ \A i \in E : m >= i
  <2>1. E \in SUBSET (0..n) /\ 0 \in E
    BY <1>1
  <2> HIDE DEF E, n
  <2> QED
    BY <1>1, <2>1, MaxIn
<1>3. m \in 0..n /\ (m = 0 \/ LineEnd(q[m]))
  BY <1>2
<1>4. \A j \in (m + 1)..n : ~LineEnd(q[j])
  <2> HIDE DEF m
  <2> QED
    BY <1>1, <1>2, <1>3
<1> HIDE DEF m, E
<1>5. U = (m + 1)..n
  <2>1. \A i \in 1..n : i \in U <=> i \in (m + 1)..n
    <3> SUFFICES ASSUME NEW i \in 1..n
                 PROVE  i \in U <=> i \in (m + 1)..n
      OBVIOUS
    <3>1. CASE i > m
      BY <1>1, <1>3, <1>4, <3>1
    <3>2. CASE ~(i > m)
      <4>1. m \in i..n /\ LineEnd(q[m])
        BY <1>1, <1>3, <3>2
      <4> QED
        BY <1>1, <1>3, <3>2, <4>1
    <3> QED
      BY <3>1, <3>2
  <2>2. U \subseteq 1..n /\ (m + 1)..n \subseteq 1..n
    BY <1>1, <1>3
  <2> HIDE DEF U
  <2> QED
    BY <2>1, <2>2
<1>6. Unfinished(q) = n - m
  <2>1. Cardinality((m + 1)..n) = IF m + 1 > n THEN 0 ELSE n - (m + 1) + 1
    <3>1. m + 1 \in Int /\ n \in Int
      BY <1>1, <1>3
    <3> HIDE DEF n
    <3> QED
      BY <3>1, FS_Interval
  <2>2. Unfinished(q) = Cardinality(U)
    BY DEF Unfinished
  <2> HIDE DEF U
  <2> QED
    BY <1>1, <1>3, <1>5, <2>1, <2>2
<1> QED
  BY <1>1, <1>3, <1>4, <1>6

(* A line that is killed goes character by character from the end.         *)
LEMMA EraseLineIs ==
  ASSUME NEW s, Edited(s)
  PROVE  LET r == EraseLine(s)
         IN Edited(r) /\ r.rest = s.rest /\ StillSends(s, r)
<1> DEFINE q == s.secondary
           n == Unfinished(q)
           Good(r, i) == /\ Edited(r) /\ r.rest = s.rest /\ StillSends(s, r)
                         /\ Len(r.secondary) = Len(q) - i
                         /\ \A j \in 1..(Len(q) - i) : r.secondary[j] = q[j]
           Is(f) == f = [i \in 0..n |-> IF i = 0 THEN s ELSE EraseLast(f[i - 1])]
           step == [x \in CookStates \X (1..n) |->
                      IF EraseLast(x[1]) \in CookStates THEN EraseLast(x[1]) ELSE s]
<1>1. s \in CookStates /\ q \in Seq(Keys) /\ Len(q) \in Nat
  BY DEF Edited, CookStates
<1>2. n \in 0..Len(q) /\ n \in Nat /\ \A i \in (Len(q) - n + 1)..Len(q) : ~LineEnd(q[i])
  BY <1>1, UnfinishedIs
<1> HIDE DEF n
<1>3. Good(s, 0)
  BY <1>1 DEF StillSends
<1>4. ASSUME NEW r, NEW i \in 1..n, Good(r, i - 1)
      PROVE  Good(EraseLast(r), i) /\ EraseLast(r) \in CookStates
  <2> DEFINE l == r.secondary
             k == Len(q) - (i - 1)
  <2>1. k \in 1..Len(q) /\ k >= Len(q) - n + 1 /\ k - 1 = Len(q) - i
    BY <1>1, <1>2
  <2>2. l \in Seq(Keys) /\ Len(l) = k /\ l[k] = q[k] /\ l # <<>>
    <3>1. l \in Seq(Keys) /\ Len(l) = k /\ \A j \in 1..k : l[j] = q[j]
      BY <1>4 DEF Edited, CookStates
    <3> HIDE DEF l, k
    <3> QED
      BY <1>1, <2>1, <3>1
  <2>3. ~LineEnd(Last(l))
    <3>1. ~LineEnd(q[k])
      <4> HIDE DEF k
      <4> QED
        BY <1>1, <1>2, <2>1
    <3> QED
      BY <2>2, <3>1 DEF Last
  <2> DEFINE e == EraseLast(r)
  <2>4. /\ Edited(e) /\ e.secondary = Front(l) /\ e.rest = r.rest
        /\ StillSends(r, e)
    <3>1. Edited(r)
      BY <1>4
    <3> QED
      BY <2>2, <2>3, <3>1, EraseLastIs
  <2>5. /\ Len(Front(l)) = k - 1
        /\ \A j \in 1..(k - 1) : Front(l)[j] = l[j]
    BY <2>2, LinesOfFront
  <2>6. \A j \in 1..(k - 1) : j \in 1..k
    BY <1>1, <2>1
  <2>7. StillSends(s, e)
    BY <1>4, <2>4 DEF StillSends
  <2>8. r.rest = s.rest /\ \A j \in 1..k : l[j] = q[j]
    BY <1>4
  <2> HIDE DEF e, k, l
  <2>9. Good(e, i)
    BY <2>1, <2>4, <2>5, <2>6, <2>7, <2>8
  <2> QED
    BY <2>4, <2>9 DEF e, Edited
<1> HIDE DEF Good
<1>5. ASSUME NEW f, f[0] = s,
             \A i \in 1..n : Good(f[i - 1], i - 1) => f[i] = EraseLast(f[i - 1])
      PROVE  \A i \in 0..n : Good(f[i], i)
  <2> DEFINE S == {i \in 0..n : Good(f[i], i)}
  <2>1. 0 \in S
    BY <1>2, <1>3, <1>5
  <2>2. ASSUME NEW i \in 1..n, i - 1 \in S
        PROVE  i \in S
    <3>1. Good(f[i - 1], i - 1)
      BY <2>2
    <3>2. Good(f[i], i)
      BY <1>4, <1>5, <3>1
    <3> QED
      BY <1>2, <3>2
  <2>3. \A i \in 0..n : i \in S
    <3> HIDE DEF S
    <3> QED
      BY <1>2, <2>1, <2>2, UpTo
  <2> QED
    BY <2>3
<1>6. IsStep(step, CookStates, n)
  BY <1>1 DEF IsStep
<1>7. PICK f : IsComputed(f, step, CookStates, n, s)
  <2> HIDE DEF step
  <2> QED
    BY <1>1, <1>2, <1>6, StepsExist
<1>8. /\ f \in [0..n -> CookStates] /\ f[0] = s
      /\ \A i \in 1..n : f[i] = step[<<f[i - 1], i>>]
  <2> HIDE DEF step
  <2> QED
    BY <1>7 DEF IsComputed
<1>9. \A i \in 1..n : Good(f[i - 1], i - 1) => f[i] = EraseLast(f[i - 1])
  <2> SUFFICES ASSUME NEW i \in 1..n, Good(f[i - 1], i - 1)
               PROVE  f[i] = EraseLast(f[i - 1])
    OBVIOUS
  <2>1. f[i - 1] \in CookStates
    BY <1>2, <1>8
  <2>2. EraseLast(f[i - 1]) \in CookStates
    BY <1>4
  <2> QED
    BY <1>8, <2>1, <2>2
<1>10. \A i \in 0..n : Good(f[i], i)
  BY <1>5, <1>8, <1>9
<1>11. Is(f)
  <2> SUFFICES ASSUME NEW i \in 0..n
               PROVE  f[i] = IF i = 0 THEN s ELSE EraseLast(f[i - 1])
    BY <1>8
  <2>1. CASE i = 0
    BY <1>8, <2>1
  <2>2. CASE i # 0
    <3>1. i \in 1..n /\ i - 1 \in 0..n
      BY <1>2, <2>2
    <3> QED
      BY <1>9, <1>10, <2>2, <3>1
  <2> QED
    BY <2>1, <2>2
<1> DEFINE upto == CHOOSE h : Is(h)
<1>12. Is(upto)
  BY <1>11
<1>13. EraseLine(s) = upto[n]
  BY DEF EraseLine, n
<1> HIDE DEF upto
<1>14. upto[0] = s /\ \A i \in 1..n : upto[i] = EraseLast(upto[i - 1])
  <2>1. 0 \in 0..n /\ \A i \in 1..n : i \in 0..n /\ i # 0
    BY <1>2
  <2> QED
    BY <1>12, <2>1
<1>15. Good(upto[n], n)
  BY <1>2, <1>5, <1>14
<1> QED
  BY <1>13, <1>15 DEF Good

(* A character that is kept is counted if it ends a line.                  *)
LEMMA KeepIs ==
  ASSUME NEW s, Edited(s), ~Full(s.secondary), NEW c \in Keys
  PROVE  LET r == Keep(s, c)
         IN Edited(r) /\ r.rest = s.rest /\ StillSends(s, r)
<1> DEFINE q == s.secondary
           n == Counted(s, c)
           a == [s EXCEPT !.data = n]
           e == Echo(a, Width(c))
           r == [e EXCEPT !.secondary = Append(@, c)]
<1>1. /\ s \in CookStates /\ q \in Seq(Keys) /\ Len(q) \in Nat
      /\ Len(q) < Size /\ s.data \in Int
      /\ miscounted \/ s.data = Lines(q)
  BY DEF Edited, CookStates
<1>2. n = s.data + (IF LineEnd(c) THEN 1 ELSE 0) /\ n \in Int
  BY <1>1 DEF Counted
<1> HIDE DEF n
<1>3. /\ a \in CookStates /\ a.secondary = q /\ a.data = n /\ a.rest = s.rest
      /\ a.chars = s.chars /\ a.tx = s.tx
  BY <1>1, <1>2 DEF CookStates
<1> HIDE DEF a
<1>4. /\ e \in CookStates /\ e.secondary = q /\ e.data = n
      /\ e.rest = s.rest /\ StillSends(s, e)
  <2>1. /\ e \in CookStates /\ e.secondary = a.secondary /\ e.data = a.data
        /\ e.rest = a.rest /\ StillSends(a, e)
    BY <1>3, WidthIs, EchoIs
  <2> HIDE DEF e
  <2> QED
    BY <1>3, <2>1 DEF StillSends
<1>5. /\ Append(q, c) \in Seq(Keys) /\ Len(Append(q, c)) = Len(q) + 1
      /\ miscounted \/ n = Lines(Append(q, c))
  BY <1>1, <1>2, LinesAppended
<1>6. Len(q) + 1 < Size
  BY <1>1, SizeIs DEF Full
<1>7. Keep(s, c) = r
  BY DEF Keep, a, n
<1> HIDE DEF e
<1>8. /\ r.secondary = Append(q, c) /\ r.data = e.data /\ r.rest = e.rest
      /\ r.chars = e.chars /\ r.tx = e.tx
      /\ r \in CookStates
  BY <1>4, <1>5 DEF CookStates
<1> HIDE DEF r
<1> QED
  BY <1>4, <1>5, <1>6, <1>7, <1>8 DEF Edited, StillSends

(* One character: at most one more is left for later.                      *)
LEMMA CookIs ==
  ASSUME NEW s, Edited(s), NEW c \in Keys
  PROVE  LET r == Cook(s, c)
         IN Edited(r) /\ Len(r.rest) <= Len(s.rest) + 1 /\ StillSends(s, r)
<1> DEFINE q == s.secondary
<1>1. /\ s \in CookStates /\ q \in Seq(Keys) /\ Len(q) \in Nat
      /\ s.rest \in Seq(Keys) /\ Len(s.rest) \in Nat
  BY DEF Edited, CookStates
<1>2. CASE Full(q)
  <2> DEFINE r == [s EXCEPT !.rest = Append(@, c)]
  <2>1. Cook(s, c) = r
    BY <1>2 DEF Cook
  <2>2. /\ Append(s.rest, c) \in Seq(Keys)
        /\ Len(Append(s.rest, c)) = Len(s.rest) + 1
    BY <1>1
  <2>3. /\ r \in CookStates /\ r.secondary = q /\ r.data = s.data
        /\ r.rest = Append(s.rest, c) /\ r.chars = s.chars /\ r.tx = s.tx
    BY <1>1, <2>2 DEF CookStates
  <2> HIDE DEF r
  <2> QED
    BY <1>1, <2>1, <2>2, <2>3 DEF Edited, StillSends
<1>3. CASE ~Full(q) /\ "ICANON" \in lflag /\ c = cc["VKILL"]
  <2>1. Cook(s, c) = EraseLine(s)
    BY <1>3 DEF Cook
  <2> QED
    BY <1>1, <2>1, EraseLineIs
<1>4. CASE /\ ~Full(q) /\ "ICANON" \in lflag /\ c = cc["VERASE"]
           /\ c # cc["VKILL"]
  <2>1. Cook(s, c) = IF Unfinished(q) = 0 THEN s ELSE EraseLast(s)
    BY <1>4 DEF Cook
  <2>2. CASE Unfinished(q) = 0
    BY <1>1, <2>1, <2>2 DEF StillSends
  <2>3. CASE Unfinished(q) # 0
    <3>1. /\ Unfinished(q) \in 0..Len(q)
          /\ \A i \in (Len(q) - Unfinished(q) + 1)..Len(q) : ~LineEnd(q[i])
      BY <1>1, UnfinishedIs
    <3>2. Len(q) > 0 /\ ~LineEnd(q[Len(q)])
      BY <1>1, <2>3, <3>1
    <3>3. q # <<>> /\ ~LineEnd(Last(q))
      BY <1>1, <3>2 DEF Last
    <3> QED
      BY <1>1, <2>1, <2>3, <3>3, EraseLastIs
  <2> QED
    BY <2>2, <2>3
<1>5. CASE /\ ~Full(q) /\ ~("ICANON" \in lflag /\ c \in {cc["VKILL"], cc["VERASE"]})
           /\ "ISIG" \in lflag /\ c = cc["VINTR"]
  <2> DEFINE r == [s EXCEPT !.intr = TRUE]
  <2>1. Cook(s, c) = r
    BY <1>5 DEF Cook
  <2>2. /\ r \in CookStates /\ r.secondary = q /\ r.data = s.data
        /\ r.rest = s.rest /\ r.chars = s.chars /\ r.tx = s.tx
    BY <1>1 DEF CookStates
  <2> HIDE DEF r
  <2> QED
    BY <1>1, <2>1, <2>2 DEF Edited, StillSends
<1>6. CASE /\ ~Full(q) /\ ~("ICANON" \in lflag /\ c \in {cc["VKILL"], cc["VERASE"]})
           /\ ~("ISIG" \in lflag /\ c = cc["VINTR"])
  <2>1. Cook(s, c) = Keep(s, c)
    BY <1>6 DEF Cook
  <2> QED
    BY <1>1, <1>6, <2>1, KeepIs
<1> QED
  BY <1>2, <1>3, <1>4, <1>5, <1>6

(* All that was in read_q.                                                 *)
LEMMA CookedIs ==
  ASSUME NEW s, Edited(s), s.rest = <<>>, NEW q \in Seq(Keys)
  PROVE  LET r == Cooked(s, q)
         IN Edited(r) /\ Len(r.rest) <= Len(q) /\ StillSends(s, r)
<1> DEFINE n == Len(q)
           Good(r, i) == Edited(r) /\ Len(r.rest) <= i /\ StillSends(s, r)
           Is(f) == f = [i \in 0..n |-> IF i = 0 THEN s ELSE Cook(f[i - 1], q[i])]
           step == [x \in CookStates \X (1..n) |->
                      IF Cook(x[1], q[x[2]]) \in CookStates
                        THEN Cook(x[1], q[x[2]]) ELSE s]
<1>1. s \in CookStates /\ n \in Nat /\ \A i \in 1..n : q[i] \in Keys
  BY DEF Edited
<1>2. Good(s, 0)
  BY DEF StillSends
<1>3. ASSUME NEW r, NEW i \in 1..n, Good(r, i - 1)
      PROVE  Good(Cook(r, q[i]), i) /\ Cook(r, q[i]) \in CookStates
  <2> DEFINE e == Cook(r, q[i])
  <2>1. Edited(e) /\ Len(e.rest) <= Len(r.rest) + 1 /\ StillSends(r, e)
    BY <1>1, <1>3, CookIs
  <2>2. e \in CookStates /\ Len(e.rest) \in Nat /\ Len(r.rest) \in Nat
    BY <1>3, <2>1 DEF Edited, CookStates
  <2> HIDE DEF e
  <2>3. Len(e.rest) <= i
    BY <1>1, <1>3, <2>1, <2>2
  <2>4. StillSends(s, e)
    BY <1>3, <2>1 DEF StillSends
  <2> QED
    BY <2>1, <2>2, <2>3, <2>4 DEF e
<1> HIDE DEF Good
<1>5. ASSUME NEW f, f[0] = s,
             \A i \in 1..n : Good(f[i - 1], i - 1) => f[i] = Cook(f[i - 1], q[i])
      PROVE  \A i \in 0..n : Good(f[i], i)
  <2> DEFINE S == {i \in 0..n : Good(f[i], i)}
  <2>1. 0 \in S
    BY <1>1, <1>2, <1>5
  <2>2. ASSUME NEW i \in 1..n, i - 1 \in S
        PROVE  i \in S
    <3>1. Good(f[i - 1], i - 1)
      BY <2>2
    <3>2. Good(f[i], i)
      BY <1>3, <1>5, <3>1
    <3> QED
      BY <1>1, <3>2
  <2>3. \A i \in 0..n : i \in S
    <3> HIDE DEF S, n
    <3> QED
      BY <1>1, <2>1, <2>2, UpTo
  <2> QED
    BY <2>3
<1>6. IsStep(step, CookStates, n)
  BY <1>1 DEF IsStep
<1>7. PICK f : IsComputed(f, step, CookStates, n, s)
  <2> HIDE DEF step, n
  <2> QED
    BY <1>1, <1>6, StepsExist
<1>8. /\ f \in [0..n -> CookStates] /\ f[0] = s
      /\ \A i \in 1..n : f[i] = step[<<f[i - 1], i>>]
  <2> HIDE DEF step
  <2> QED
    BY <1>7 DEF IsComputed
<1>9. \A i \in 1..n : Good(f[i - 1], i - 1) => f[i] = Cook(f[i - 1], q[i])
  <2> SUFFICES ASSUME NEW i \in 1..n, Good(f[i - 1], i - 1)
               PROVE  f[i] = Cook(f[i - 1], q[i])
    OBVIOUS
  <2>1. f[i - 1] \in CookStates
    BY <1>1, <1>8
  <2>2. Cook(f[i - 1], q[i]) \in CookStates
    BY <1>3
  <2> QED
    BY <1>8, <2>1, <2>2
<1>10. \A i \in 0..n : Good(f[i], i)
  BY <1>5, <1>8, <1>9
<1>11. Is(f)
  <2> SUFFICES ASSUME NEW i \in 0..n
               PROVE  f[i] = IF i = 0 THEN s ELSE Cook(f[i - 1], q[i])
    BY <1>8
  <2>1. CASE i = 0
    BY <1>8, <2>1
  <2>2. CASE i # 0
    <3>1. i \in 1..n /\ i - 1 \in 0..n
      BY <1>1, <2>2
    <3> QED
      BY <1>9, <1>10, <2>2, <3>1
  <2> QED
    BY <2>1, <2>2
<1> DEFINE upto == CHOOSE h : Is(h)
<1>12. Is(upto)
  BY <1>11
<1>13. Cooked(s, q) = upto[n]
  BY DEF Cooked
<1> HIDE DEF upto
<1>14. upto[0] = s /\ \A i \in 1..n : upto[i] = Cook(upto[i - 1], q[i])
  <2>1. 0 \in 0..n /\ \A i \in 1..n : i \in 0..n /\ i # 0
    BY <1>1
  <2> QED
    BY <1>12, <2>1
<1>15. Good(upto[n], n)
  BY <1>1, <1>5, <1>14
<1> QED
  BY <1>13, <1>15 DEF Good

-----------------------------------------------------------------------------
(* The wait queues.  None is none of the tasks and pointers.               *)
LEMMA QueueIs ==
  ASSUME TtyInv
  PROVE  /\ Queue = {"secondary", "write_q"} /\ Interruptible = Queue
         /\ None \notin Proc /\ None \notin {"secondary", "write_q"}
BY NoneAssumption DEF TtyInv, Queues, ProcLists

(* Whatever module WaitQueue lets a step do keeps what it promises.        *)
LEMMA QueuesKept == Queues /\ [Next]_wqvars => Queues'
BY TypingNext, StaleNext, LostNext DEF Queues, ProcLists

(* The part of NoSleeperForgotten that is about pointers.                  *)
Reached == \A t \in Proc : Asleep(t) => Pointed(t) \/ t \in deferred

WriterTold == \A t \in Proc : head["write_q"] = t /\ Asleep(t) => tx

ReaderTold == head["secondary"] # None => secondary = <<>>

(* Together they are all of it.                                            *)
LEMMA ForgottenIs ==
  NoSleeperForgotten <=> ReaderTold /\ WriterTold /\ Reached
BY DEF NoSleeperForgotten, ReaderTold, WriterTold, Reached

(* Nobody else is in the kernel while a task has the processor, or nobody  *)
(* has it.                                                                 *)
LEMMA OthersAre ==
  ASSUME TtyInv, NEW t \in Proc, current \in {t, None}
  PROVE  /\ \A x \in Proc : x # t =>
              at[x].pc \in {"user", "write", "read_sleep", "write_sleep"}
         /\ tx \/ chars = 0 \/ at[t].pc \in Putting
<1>1. /\ \A x \in Proc : on[x] \in {"secondary", "write_q", None}
      /\ Positions /\ Sending
  BY QueueIs DEF TtyInv, Queues, Typing, TypeOK
<1>2. \A x \in Proc : x # t =>
        at[x].pc \in {"user", "write", "read_sleep", "write_sleep"}
  BY <1>1, QueueIs DEF Positions
<1> QED
  BY <1>1, <1>2 DEF Sending, Putting

(* What the steps of calls do to the wait queues: t goes on, gets the      *)
(* processor, gives it up or falls asleep.                                 *)
Moves(t, pc) ==
  \/ current = t /\ UNCHANGED wqvars
  \/ Dispatch(t)
  \/ Yield(t) /\ pc \in {"user", "write"}
  \/ SleepOn(t, "secondary") /\ pc = "read_sleep" /\ secondary = <<>>
  \/ SleepOn(t, "write_q") /\ pc = "write_sleep" /\ tx

(* They leave everybody who sleeps within reach.                           *)
LEMMA MovesReach ==
  ASSUME TtyInv, NEW t \in Proc, NEW pc, Moves(t, pc), tx => tx',
         deferred' = deferred, secondary' = secondary \/ head["secondary"] = None,
         secondary' = secondary \/ pc # "read_sleep"
  PROVE  Queues' /\ NoSleeperForgotten'
<1>1. [Next]_wqvars
  BY QueueIs DEF Moves, Next
<1>2. Queues'
  BY <1>1, QueuesKept DEF TtyInv
<1>3. ReaderTold /\ WriterTold /\ Reached /\ Queues
  BY ForgottenIs DEF TtyInv
<1>4. CASE UNCHANGED <<state, head, tmp, on>>
  <2>1. ReaderTold'
    BY <1>3, <1>4 DEF ReaderTold
  <2>2. WriterTold'
    BY <1>3, <1>4 DEF WriterTold, Asleep
  <2>3. Reached'
    BY <1>3, <1>4 DEF Reached, Asleep, Pointed
  <2> QED
    BY <1>2, <2>1, <2>2, <2>3 DEF NoSleeperForgotten, ReaderTold, WriterTold, Reached
<1>5. ASSUME NEW q \in {"secondary", "write_q"}, SleepOn(t, q),
             q = "secondary" => pc = "read_sleep" /\ secondary = <<>>,
             q = "write_q" => tx
      PROVE  NoSleeperForgotten'
  <2> USE QueueIs
  <2>1. /\ current = t /\ on[t] = None
        /\ head \in [Queue -> Proc \cup {None}] /\ tmp \in [Proc -> Proc \cup {None}]
        /\ on \in [Proc -> Queue \cup {None}] /\ state \in [Proc -> State]
        /\ \A z \in Queue : head[z] # None => on[head[z]] = z
        /\ \A x \in Proc : Asleep(x) => on[x] \in Queue
    BY <1>3, <1>5 DEF SleepOn, Queues, Typing, TypeOK, CurrentAwake,
         NoStaleInterruptibleHead, NoLostSleeper
  <2>2. /\ tmp' = [tmp EXCEPT ![t] = head[q]] /\ head' = [head EXCEPT ![q] = t]
        /\ on' = [on EXCEPT ![t] = q]
        /\ state' = [state EXCEPT ![t] = "interruptible"]
    BY <1>5 DEF SleepOn
  <2>3. ReaderTold'
    BY <1>3, <1>5, <2>1, <2>2 DEF ReaderTold
  <2>4. WriterTold'
    BY <1>3, <1>5, <2>1, <2>2 DEF WriterTold, Asleep
  <2>5. Reached'
    <3> SUFFICES ASSUME NEW x \in Proc, x # t, Asleep(x)'
                 PROVE  Pointed(x)' \/ x \in deferred
      BY <2>1, <2>2 DEF Reached, Pointed
    <3>1. Asleep(x) /\ on'[x] = on[x] /\ on[x] \in Queue
      BY <2>1, <2>2 DEF Asleep
    <3>2. CASE head[on[x]] = x
      BY <2>1, <2>2, <3>1, <3>2 DEF Pointed
    <3>3. CASE \E r \in Proc : on[r] = on[x] /\ tmp[r] = x
      <4>1. PICK r \in Proc : on[r] = on[x] /\ tmp[r] = x
        BY <3>3
      <4>2. r # t
        BY <2>1, <3>1, <4>1
      <4> QED
        BY <2>1, <2>2, <3>1, <4>1, <4>2 DEF Pointed
    <3> QED
      BY <1>3, <3>1, <3>2, <3>3 DEF Reached, Pointed
  <2> HIDE QueueIs
  <2> QED
    BY <2>3, <2>4, <2>5 DEF NoSleeperForgotten, ReaderTold, WriterTold, Reached
<1> QED
  BY <1>2, <1>4, <1>5 DEF Moves, Dispatch, Yield, wqvars

(* The steps of a call: the task moves, and what else must be shown.       *)
LEMMA StepKeeps ==
  ASSUME TtyInv, NEW t \in Proc, NEW r \in Calls, at' = [at EXCEPT ![t] = r],
         r.pc = "putch" => r.buf # <<>>,
         Moves(t, r.pc), deferred' = deferred, Stores', Counts',
         secondary' = secondary \/ (at[t].pc = "getch" /\ secondary # <<>>),
         secondary' = secondary \/ r.pc # "read_sleep", tx => tx',
         tx' \/ chars' = 0 \/ r.pc \in Putting
  PROVE  TtyInv'
<1>1. head["secondary"] # None => secondary = <<>>
  BY DEF TtyInv, NoSleeperForgotten
<1>2. Queues' /\ NoSleeperForgotten'
  BY <1>1, MovesReach
<1>3. /\ at \in [Proc -> Calls] /\ at' \in [Proc -> Calls] /\ at'[t] = r
      /\ \A x \in Proc : x # t => at'[x] = at[x]
  BY DEF TtyInv, Shapes
<1>4. Shapes'
  BY <1>3 DEF TtyInv, Shapes
<1>5. Sending'
  <2>1. CASE tx' \/ chars' = 0
    BY <2>1 DEF Sending
  <2>2. CASE r.pc \in Putting
    BY <1>3, <2>2 DEF Sending
  <2> QED
    BY <2>1, <2>2
<1>6. Positions'
  <2> SUFFICES ASSUME NEW x \in Proc
               PROVE  /\ on'[x] = "secondary" => at'[x].pc = "read_sleep"
                      /\ on'[x] = "write_q" => at'[x].pc = "write_sleep"
                      /\ on'[x] = None =>
                           at'[x].pc \in {"user", "write"} \/ current' = x
    BY DEF Positions
  <2> USE QueueIs
  <2>1. /\ on \in [Proc -> Queue \cup {None}]
        /\ current # None => on[current] = None
    BY DEF TtyInv, Queues, Typing, TypeOK, CurrentAwake
  <2>2. /\ on[x] = "secondary" => at[x].pc = "read_sleep"
        /\ on[x] = "write_q" => at[x].pc = "write_sleep"
        /\ on[x] = None => at[x].pc \in {"user", "write"} \/ current = x
    BY DEF TtyInv, Positions
  <2>3. CASE current = t /\ UNCHANGED wqvars
    BY <1>3, <2>1, <2>2, <2>3 DEF wqvars
  <2>4. CASE Dispatch(t)
    BY <1>3, <2>1, <2>2, <2>4 DEF Dispatch, Runnable
  <2>5. CASE Yield(t) /\ r.pc \in {"user", "write"}
    BY <1>3, <2>1, <2>2, <2>5 DEF Yield
  <2>6. CASE SleepOn(t, "secondary") /\ r.pc = "read_sleep"
    BY <1>3, <2>1, <2>2, <2>6 DEF SleepOn
  <2>7. CASE SleepOn(t, "write_q") /\ r.pc = "write_sleep"
    BY <1>3, <2>1, <2>2, <2>7 DEF SleepOn
  <2> QED
    BY <2>3, <2>4, <2>5, <2>6, <2>7 DEF Moves
<1> QED
  BY <1>2, <1>4, <1>5, <1>6 DEF TtyInv

-----------------------------------------------------------------------------
(* The interrupts.  wake_up() of the readers leaves no head to be read for.*)
LEMMA ReceiveKeeps ==
  ASSUME TtyInv, NEW c \in Keys, Receive(c)
  PROVE  TtyInv'
<1> DEFINE received == IF Full(read_q) THEN read_q ELSE Append(read_q, c)
           a == [secondary |-> secondary, data |-> data, chars |-> chars,
                 tx |-> tx, rest |-> <<>>, intr |-> FALSE]
           s == Cooked(a, received)
<1>1. /\ ~overtaken
      /\ read_q' = s.rest /\ secondary' = s.secondary /\ data' = s.data
      /\ chars' = s.chars /\ tx' = s.tx
      /\ stale' = IF \E t \in Proc : at[t].pc = "inc"
                  THEN (stale + Size + s.chars - chars) % Size ELSE 0
      /\ signal' = IF s.intr THEN {t \in Proc : at[t].pc # "user"} ELSE signal
      /\ WakeUp({"secondary"})
      /\ UNCHANGED <<lflag, cc, miscounted, cr_flag, at, calls, overtaken,
                     deferred>>
  BY DEF Receive, termios, WokenByInput
<1>2. received \in Seq(Keys) /\ Len(received) < Size /\ Len(received) \in Nat
  <2>1. read_q \in Seq(Keys) /\ Len(read_q) \in Nat /\ Len(read_q) < Size
    BY DEF TtyInv, Stores
  <2>2. Append(read_q, c) \in Seq(Keys) /\ Len(Append(read_q, c)) = Len(read_q) + 1
    BY <2>1
  <2> QED
    BY <2>1, <2>2, SizeIs DEF Full
<1> HIDE DEF received
<1>3. Edited(a) /\ a.rest = <<>> /\ a.tx = tx /\ a.chars = chars
  BY <1>1 DEF Edited, CookStates, TtyInv, Stores, Counts
<1> HIDE DEF a
<1>4. Edited(s) /\ Len(s.rest) <= Len(received) /\ StillSends(a, s)
  BY <1>2, <1>3, CookedIs
<1> HIDE DEF s
<1>5. /\ s.secondary \in Seq(Keys) /\ s.rest \in Seq(Keys)
      /\ s.data \in Int /\ s.chars \in 0..(Size - 1) /\ s.tx \in BOOLEAN
      /\ Len(s.secondary) < Size
      /\ miscounted \/ s.data = Lines(s.secondary)
      /\ Len(s.rest) < Size
  <2>1. /\ s \in CookStates /\ Len(s.secondary) < Size
        /\ miscounted \/ s.data = Lines(s.secondary)
    BY <1>4 DEF Edited
  <2>2. s.rest \in Seq(Keys) /\ Len(s.rest) \in Nat
    BY <2>1 DEF CookStates
  <2> QED
    BY <1>2, <1>4, <2>1, <2>2, SizeIs DEF CookStates
<1>6. stale' \in 0..(Size - 1)
  <2>1. stale + Size + s.chars - chars \in Int
    <3>1. stale \in 0..(Size - 1) /\ chars \in 0..(Size - 1)
      BY DEF TtyInv, Stores
    <3>2. s.chars \in 0..(Size - 1)
      BY <1>5
    <3>3. stale \in Int /\ chars \in Int /\ s.chars \in Int /\ Size \in Int
      BY <3>1, <3>2, SizeIs
    <3> QED
      BY <3>3
  <2>2. 0 \in 0..(Size - 1)
    BY SizeIs
  <2> QED
    BY <1>1, <2>1, <2>2, SizeIs
<1>7. Stores'
  <2>1. signal' \subseteq Proc
    BY <1>1 DEF TtyInv, Stores
  <2> QED
    BY <1>1, <1>5, <1>6, <2>1 DEF TtyInv, Stores
<1>8. Counts'
  <2>1. Lines(secondary)' = Lines(secondary')
    BY <1>1, LinesSame
  <2> QED
    BY <1>1, <1>5, <2>1 DEF Counts
<1>9. Sending'
  BY <1>1, <1>3, <1>4 DEF TtyInv, Sending, StillSends
<1>10. Queues'
  BY <1>1, QueueIs, QueuesKept DEF Next, TtyInv
<1>11. Shapes' /\ Positions'
  BY <1>1 DEF TtyInv, Shapes, Positions, WakeUp
<1>12. /\ head' = [head EXCEPT !["secondary"] = None]
       /\ \A t \in Proc : Asleep(t)' => Asleep(t) /\ head["secondary"] # t
       /\ UNCHANGED <<tmp, on>> /\ head \in [Queue -> Proc \cup {None}]
  <2>1. head \in [Queue -> Proc \cup {None}]
    BY DEF TtyInv, Queues, Typing, TypeOK
  <2>2. head' = [head EXCEPT !["secondary"] = None]
    BY <1>1, <2>1, QueueIs DEF WakeUp
  <2> QED
    BY <1>1, <2>1, <2>2 DEF WakeUp, Asleep
<1>13. NoSleeperForgotten'
  <2>1. ReaderTold /\ WriterTold /\ Reached
    BY ForgottenIs DEF TtyInv
  <2>2. ReaderTold'
    BY <1>12, QueueIs DEF ReaderTold
  <2>3. WriterTold'
    <3>1. tx => tx'
      BY <1>1, <1>3, <1>4 DEF StillSends
    <3> QED
      BY <1>12, <2>1, <3>1, QueueIs DEF WriterTold
  <2>4. Reached'
    <3> SUFFICES ASSUME NEW t \in Proc, Asleep(t)'
                 PROVE  Pointed(t)' \/ t \in deferred
      BY <1>1 DEF Reached
    <3>1. Asleep(t) /\ head["secondary"] # t /\ (Pointed(t) \/ t \in deferred)
      BY <1>12, <2>1 DEF Reached
    <3>2. on[t] \in {"secondary", "write_q"}
      BY <3>1, QueueIs DEF TtyInv, Queues, NoLostSleeper
    <3> QED
      BY <1>12, <3>1, <3>2, QueueIs DEF Pointed
  <2> QED
    BY <2>2, <2>3, <2>4 DEF NoSleeperForgotten, ReaderTold, WriterTold, Reached
<1> QED
  BY <1>7, <1>8, <1>9, <1>10, <1>11, <1>13 DEF TtyInv

(* The interrupt is disabled only with nothing left, and then tells the    *)
(* writer at the head.                                                     *)
LEMMA TransmitKeeps ==
  ASSUME TtyInv, Transmit
  PROVE  TtyInv'
<1>1. /\ chars' = IF chars = 0 THEN 0 ELSE chars - 1
      /\ tx' = (chars > 1) /\ tx
      /\ state' = [t \in Proc |-> IF TellsWriter /\ head["write_q"] = t
                                    THEN "running" ELSE state[t]]
      /\ UNCHANGED <<current, head, tmp, on, lflag, cc, miscounted, read_q,
                     secondary, data, overtaken, stale, cr_flag, at, signal,
                     typed, calls, deferred>>
  BY DEF Transmit, inputs, termios
<1>2. /\ chars \in 0..(Size - 1) /\ Size \in Nat /\ Size > 0
      /\ Startup \in Nat /\ tx' \in BOOLEAN
  BY <1>1, SizeIs DEF TtyInv, Stores
<1>3. chars' \in 0..(Size - 1) /\ (tx' \/ chars' = 0)
  <2>1. chars' \in 0..(Size - 1) /\ (chars > 1 \/ chars' = 0)
    BY <1>1, <1>2
  <2>2. chars > 1 => tx'
    BY <1>1
  <2> QED
    BY <2>1, <2>2
<1>4. tx' \/ TellsWriter
  <2>1. chars <= Startup \/ chars = 1 \/ chars > 1
    BY <1>2
  <2>2. chars > 1 => tx'
    BY <1>1
  <2> QED
    BY <2>1, <2>2 DEF TellsWriter
<1>5. /\ state \in [Proc -> State] /\ state' \in [Proc -> State]
      /\ \A t \in Proc : Asleep(t)' => state'[t] = state[t] /\ Asleep(t)
      /\ \A t \in Proc : state[t] = "running" => state'[t] = "running"
      /\ \A t \in Proc : TellsWriter /\ head["write_q"] = t => ~Asleep(t)'
  <2>1. state \in [Proc -> State]
    BY DEF TtyInv, Queues, Typing, TypeOK
  <2> QED
    BY <1>1, <2>1 DEF State, Asleep
<1>6. Queues'
  <2>1. Typing'
    <3>1. TypeOK'
      BY <1>1, <1>5 DEF TtyInv, Queues, Typing, TypeOK
    <3>2. CurrentAwake'
      BY <1>1, <1>5 DEF TtyInv, Queues, Typing, TypeOK, CurrentAwake
    <3>3. InterruptibleState'
      BY <1>1, <1>5 DEF TtyInv, Queues, Typing, InterruptibleState, Asleep
    <3> QED
      BY <3>1, <3>2, <3>3 DEF Typing
  <2>2. NoStaleInterruptibleHead'
    BY <1>1 DEF TtyInv, Queues, NoStaleInterruptibleHead
  <2>3. NoLostSleeper'
    BY <1>1, <1>5 DEF TtyInv, Queues, NoLostSleeper, Pointed
  <2> QED
    BY <2>1, <2>2, <2>3 DEF TtyInv, Queues, ProcLists
<1>7. NoSleeperForgotten'
  BY <1>1, <1>4, <1>5 DEF TtyInv, NoSleeperForgotten, Pointed
<1>8. Stores'
  BY <1>1, <1>2, <1>3 DEF TtyInv, Stores
<1>9. Shapes' /\ Positions'
  BY <1>1 DEF TtyInv, Shapes, Positions
<1>10. Counts'
  <2>1. Lines(secondary)' = Lines(secondary')
    BY <1>1, LinesSame
  <2> QED
    BY <1>1, <2>1 DEF TtyInv, Counts
<1> QED
  BY <1>3, <1>6, <1>7, <1>8, <1>9, <1>10 DEF TtyInv, Sending

(* A sleeper resumes: it leaves the queue and wakes the one behind, or it  *)
(* wakes the newer one, sleeps again and is not pointed at.                *)
LEMMA ResumeKeeps ==
  ASSUME TtyInv, NEW t \in Proc, Resume(t)
  PROVE  TtyInv'
<1>1. /\ UNCHANGED <<lflag, cc, miscounted, read_q, secondary, data, overtaken,
                     chars, stale, tx, cr_flag, at, signal>>
      /\ \/ current = None /\ Signal(t) /\ deferred' = deferred
         \/ ResumeDefer(t) /\ deferred' = deferred \cup {t}
         \/ ResumeInterruptible(t) /\ deferred' = deferred \ {t}
  BY DEF Resume, inputs, outputs, termios
<1>2. Queues'
  <2>1. [Next]_wqvars
    BY <1>1 DEF Next
  <2> QED
    BY <2>1, QueuesKept DEF TtyInv
<1>3. Stores' /\ Shapes'
  BY <1>1 DEF TtyInv, Stores, Shapes
<1>4. Counts'
  <2>1. Lines(secondary)' = Lines(secondary')
    BY <1>1, LinesSame
  <2> QED
    BY <1>1, <2>1 DEF TtyInv, Counts
<1>5. Sending'
  BY <1>1 DEF TtyInv, Sending
<1>6. /\ on \in [Proc -> Queue \cup {None}] /\ tmp \in [Proc -> Proc \cup {None}]
      /\ head \in [Queue -> Proc \cup {None}] /\ state \in [Proc -> State]
      /\ \A q \in Queue : head[q] # None => on[head[q]] = q
      /\ \A x \in Proc : Asleep(x) => on[x] \in Queue
  BY QueueIs DEF TtyInv, Queues, Typing, TypeOK, NoStaleInterruptibleHead,
       NoLostSleeper
<1>7. Positions'
  <2>1. CASE Signal(t) \/ ResumeDefer(t)
    BY <1>1, <2>1 DEF TtyInv, Positions, Signal, ResumeDefer
  <2>2. CASE ResumeInterruptible(t)
    BY <1>1, <1>6, <2>2, QueueIs
       DEF TtyInv, Positions, ResumeInterruptible, LeaveFrame
  <2> QED
    BY <1>1, <2>1, <2>2
<1>8. NoSleeperForgotten'
  <2>1. ReaderTold /\ WriterTold /\ Reached
    BY ForgottenIs DEF TtyInv
  <2>2. CASE Signal(t) /\ deferred' = deferred
    <3>1. /\ UNCHANGED <<head, tmp, on>>
          /\ \A x \in Proc : Asleep(x)' => Asleep(x)
      BY <1>6, <2>2 DEF Signal, Asleep
    <3> QED
      BY <1>1, <2>1, <2>2, <3>1
         DEF ReaderTold, WriterTold, Reached, NoSleeperForgotten, Pointed
  <2>3. CASE ResumeDefer(t) /\ deferred' = deferred \cup {t}
    <3>1. /\ UNCHANGED <<head, tmp, on>> /\ on[t] \in Queue
          /\ head[on[t]] # t
          /\ \A x \in Proc : x # t /\ Asleep(x)' => Asleep(x)
      BY <1>6, <2>3, QueueIs DEF ResumeDefer, Asleep
    <3>2. head["write_q"] # t
      BY <1>6, <3>1, QueueIs
    <3> QED
      BY <1>1, <2>1, <2>3, <3>1, <3>2
         DEF ReaderTold, WriterTold, Reached, NoSleeperForgotten, Pointed
  <2>4. CASE ResumeInterruptible(t) /\ deferred' = deferred \ {t}
    <3>1. /\ on[t] \in Queue /\ head[on[t]] \in {None, t} /\ state[t] = "running"
          /\ head' = [head EXCEPT ![on[t]] = None]
          /\ tmp' = [tmp EXCEPT ![t] = None] /\ on' = [on EXCEPT ![t] = None]
          /\ state' = IF tmp[t] = None THEN state
                      ELSE [state EXCEPT ![tmp[t]] = "running"]
      BY <2>4, QueueIs DEF ResumeInterruptible, LeaveFrame
    <3>2. \A x \in Proc : Asleep(x)' => Asleep(x) /\ x # t /\ x # tmp[t]
      BY <1>6, <3>1, QueueIs DEF Asleep
    <3>3. ReaderTold'
      BY <1>1, <1>6, <2>1, <3>1, QueueIs DEF ReaderTold
    <3>4. WriterTold'
      BY <1>1, <1>6, <2>1, <3>1, <3>2, QueueIs DEF WriterTold
    <3>5. Reached'
      <4> SUFFICES ASSUME NEW x \in Proc, Asleep(x)'
                   PROVE  Pointed(x)' \/ x \in deferred'
        BY DEF Reached
      <4>1. /\ Asleep(x) /\ x # t /\ x # tmp[t] /\ on'[x] = on[x]
            /\ on[x] \in Queue /\ (Pointed(x) \/ x \in deferred)
        BY <1>6, <2>1, <3>1, <3>2 DEF Reached
      <4>2. CASE head[on[x]] = x
        <5>1. head'[on[x]] = x
          BY <1>6, <3>1, <4>1, <4>2, QueueIs
        <5> QED
          BY <4>1, <5>1 DEF Pointed
      <4>3. ASSUME NEW r \in Proc, on[r] = on[x], tmp[r] = x
            PROVE  Pointed(x)'
        <5>1. r # t
          BY <4>1, <4>3
        <5>2. on'[r] = on[r] /\ tmp'[r] = tmp[r]
          BY <1>6, <3>1, <5>1
        <5> QED
          BY <4>1, <4>3, <5>2 DEF Pointed
      <4> QED
        BY <2>4, <4>1, <4>2, <4>3 DEF Pointed
    <3> QED
      BY <3>3, <3>4, <3>5 DEF NoSleeperForgotten, ReaderTold, WriterTold, Reached
  <2> QED
    BY <1>1, <2>2, <2>3, <2>4
<1> QED
  BY <1>2, <1>3, <1>4, <1>5, <1>7, <1>8 DEF TtyInv

-----------------------------------------------------------------------------
(* The calls.  The record of a call keeps its shape wherever it goes.      *)
LEMMA CallIs ==
  ASSUME TtyInv, NEW t \in Proc
  PROVE  /\ at[t] \in Calls /\ User \in Calls /\ User.pc = "user"
         /\ \A pc \in Pcs : /\ [at[t] EXCEPT !.pc = pc] \in Calls
                            /\ [at[t] EXCEPT !.pc = pc].pc = pc
                            /\ [at[t] EXCEPT !.pc = pc].buf = at[t].buf
<1>1. at[t] \in Calls
  BY DEF TtyInv, Shapes
<1> QED
  BY <1>1 DEF Calls, User, Pcs

(* What is not touched keeps its type, and the count.                      *)
LEMMA Untouched ==
  ASSUME TtyInv, UNCHANGED <<termios, inputs>>, deferred' = deferred,
         signal' = signal \/ \E t \in Proc : signal' = signal \ {t},
         chars' \in 0..(Size - 1), stale' \in 0..(Size - 1), tx' \in BOOLEAN,
         cr_flag' \in BOOLEAN
  PROVE  Stores' /\ Counts'
<1>1. cc' = cc
  BY DEF termios
<1>2. Lines(secondary)' = Lines(secondary')
  BY <1>1, LinesSame
<1> QED
  BY <1>2 DEF TtyInv, Stores, Counts, termios, inputs

(* The same for a step that leaves the output as it is too.                *)
LEMMA OutputsUntouched ==
  ASSUME TtyInv, UNCHANGED <<termios, inputs, outputs, cr_flag>>,
         deferred' = deferred,
         signal' = signal \/ \E t \in Proc : signal' = signal \ {t}
  PROVE  /\ Stores' /\ Counts' /\ secondary' = secondary
         /\ tx' = tx /\ chars' = chars
<1>1. /\ chars' \in 0..(Size - 1) /\ stale' \in 0..(Size - 1)
      /\ tx' \in BOOLEAN /\ cr_flag' \in BOOLEAN
      /\ secondary' = secondary /\ tx' = tx /\ chars' = chars
  BY DEF TtyInv, Stores, inputs, outputs
<1> QED
  BY <1>1, Untouched

(* A task that begins a call has been outside.                             *)
LEMMA FreeIs ==
  ASSUME TtyInv, NEW t \in Proc, Free(t)
  PROVE  /\ current = None /\ ~overtaken /\ at[t].pc = "user"
         /\ tx \/ chars = 0
<1>1. current = None /\ ~overtaken /\ at[t].pc = "user"
  BY DEF Free
<1> QED
  BY <1>1, OthersAre DEF Putting

(* A read begins.                                                          *)
LEMMA SysReadKeeps ==
  ASSUME TtyInv, NEW t \in Proc, SysRead(t)
  PROVE  TtyInv'
<1>1. /\ Free(t) /\ Dispatch(t)
      /\ UNCHANGED <<termios, inputs, outputs, cr_flag, signal, deferred>>
  BY DEF SysRead, Call
<1>2. PICK nr \in 1..MaxCount :
        at' = [at EXCEPT ![t] = [User EXCEPT !.pc = "read", !.nr = nr]]
  BY DEF SysRead
<1> DEFINE r == [User EXCEPT !.pc = "read", !.nr = nr]
<1>3. r \in Calls /\ r.pc = "read"
  <2>1. User \in Calls /\ "read" \in Pcs
    BY CallIs DEF Pcs
  <2>2. nr \in Int
    BY SizeIs
  <2> QED
    BY <2>1, <2>2 DEF Calls
<1> HIDE DEF r
<1>4. /\ Stores' /\ Counts' /\ secondary' = secondary
      /\ tx' = tx /\ chars' = chars
  BY <1>1, OutputsUntouched
<1>5. tx \/ chars = 0
  BY <1>1, FreeIs
<1>6. Moves(t, r.pc)
  BY <1>1 DEF Moves
<1> QED
  BY <1>1, <1>2, <1>3, <1>4, <1>5, <1>6, StepKeeps DEF r

(* So does a write.                                                        *)
LEMMA SysWriteKeeps ==
  ASSUME TtyInv, NEW t \in Proc, SysWrite(t)
  PROVE  TtyInv'
<1>1. /\ Free(t) /\ Dispatch(t)
      /\ UNCHANGED <<termios, inputs, outputs, cr_flag, signal, deferred>>
  BY DEF SysWrite, Call
<1>2. PICK text \in Texts :
        at' = [at EXCEPT ![t] = [User EXCEPT !.pc = "write", !.buf = text]]
  BY DEF SysWrite
<1> DEFINE r == [User EXCEPT !.pc = "write", !.buf = text]
<1>3. r \in Calls /\ r.pc = "write"
  <2>1. User \in Calls /\ text \in Seq({"x", "nl"}) /\ "write" \in Pcs
    BY SizesAssumption, CallIs DEF Pcs
  <2> QED
    BY <2>1 DEF Calls
<1> HIDE DEF r
<1>4. /\ Stores' /\ Counts' /\ secondary' = secondary
      /\ tx' = tx /\ chars' = chars
  BY <1>1, OutputsUntouched
<1>5. tx \/ chars = 0
  BY <1>1, FreeIs
<1>6. Moves(t, r.pc)
  BY <1>1 DEF Moves
<1> QED
  BY <1>1, <1>2, <1>3, <1>4, <1>5, <1>6, StepKeeps DEF r

(* After schedule() a writer looks at the queue again.                     *)
LEMMA RescheduledKeeps ==
  ASSUME TtyInv, NEW t \in Proc, Rescheduled(t)
  PROVE  TtyInv'
<1>1. /\ at[t].pc = "write" /\ Dispatch(t) /\ current = None
      /\ UNCHANGED <<termios, inputs, outputs, cr_flag, at, signal, deferred>>
  BY DEF Rescheduled, Dispatch, Runnable
<1>2. at[t] \in Calls /\ at' = [at EXCEPT ![t] = at[t]]
  BY <1>1, CallIs DEF TtyInv, Shapes
<1>3. /\ Stores' /\ Counts' /\ secondary' = secondary
      /\ tx' = tx /\ chars' = chars
  BY <1>1, OutputsUntouched
<1>4. tx \/ chars = 0
  BY <1>1, OthersAre DEF Putting
<1>5. Moves(t, at[t].pc)
  BY <1>1 DEF Moves
<1> QED
  BY <1>1, <1>2, <1>3, <1>4, <1>5, StepKeeps

(* The steps within a call belong to the task that has the processor.      *)
LEMMA StepIsCurrent ==
  ASSUME TtyInv, NEW t \in Proc,
         at[t].pc \in {"read", "getch", "full", "fill", "putch", "inc", "termios"}
  PROVE  current = t
BY QueueIs DEF TtyInv, Positions, Queues, Typing, TypeOK

(* A call ends or goes on.                                                 *)
LEMMA ReturnIs ==
  ASSUME TtyInv, NEW t \in Proc, Return(t)
  PROVE  /\ at' = [at EXCEPT ![t] = User] /\ User \in Calls
         /\ User.pc = "user" /\ Moves(t, User.pc) /\ signal' = signal \ {t}
BY CallIs DEF Return, Moves

LEMMA GoOnIs ==
  ASSUME TtyInv, NEW t \in Proc, current = t, NEW pc \in Pcs, GoOn(t, pc)
  PROVE  /\ at' = [at EXCEPT ![t] = [at[t] EXCEPT !.pc = pc]]
         /\ [at[t] EXCEPT !.pc = pc] \in Calls
         /\ [at[t] EXCEPT !.pc = pc].pc = pc
         /\ [at[t] EXCEPT !.pc = pc].buf = at[t].buf
         /\ Moves(t, pc) /\ signal' = signal
BY CallIs DEF GoOn, Goto, Moves

(* It goes to sleep on one of the queues.                                  *)
LEMMA SleepIs ==
  ASSUME TtyInv, NEW t \in Proc, NEW q, NEW pc \in Pcs,
         SleepOn(t, q), Goto(t, pc), UNCHANGED signal,
         \/ q = "secondary" /\ pc = "read_sleep" /\ secondary = <<>>
         \/ q = "write_q" /\ pc = "write_sleep" /\ tx
  PROVE  /\ at' = [at EXCEPT ![t] = [at[t] EXCEPT !.pc = pc]]
         /\ [at[t] EXCEPT !.pc = pc] \in Calls
         /\ [at[t] EXCEPT !.pc = pc].pc = pc
         /\ Moves(t, pc) /\ signal' = signal
BY CallIs DEF Goto, Moves

(* tty_read() sleeps only where it sees an empty queue.                    *)
LEMMA ReadKeeps ==
  ASSUME TtyInv, NEW t \in Proc, Read(t)
  PROVE  TtyInv'
<1>1. /\ UNCHANGED <<termios, inputs, outputs, cr_flag, deferred>>
      /\ current = t /\ at[t].pc \in {"read", "read_sleep"}
  BY DEF Read
<1>2. PICK r \in Calls :
        /\ at' = [at EXCEPT ![t] = r] /\ Moves(t, r.pc)
        /\ r.pc \in {"user", "read_sleep", "read", "getch"}
        /\ signal' = signal \/ signal' = signal \ {t}
  <2>1. CASE Return(t)
    BY <2>1, ReturnIs
  <2>2. CASE /\ secondary = <<>> /\ SleepOn(t, "secondary")
             /\ Goto(t, "read_sleep") /\ UNCHANGED signal
    <3>1. "read_sleep" \in Pcs
      BY DEF Pcs
    <3> DEFINE r == [at[t] EXCEPT !.pc = "read_sleep"]
    <3>2. /\ at' = [at EXCEPT ![t] = r] /\ r \in Calls /\ r.pc = "read_sleep"
          /\ Moves(t, "read_sleep") /\ signal' = signal
      BY <2>2, <3>1, SleepIs
    <3> HIDE DEF r
    <3> QED
      BY <3>2
  <2>3. ASSUME NEW pc \in {"read", "getch"}, GoOn(t, pc)
        PROVE  \E r \in Calls :
                 /\ at' = [at EXCEPT ![t] = r] /\ Moves(t, r.pc)
                 /\ r.pc \in {"user", "read_sleep", "read", "getch"}
                 /\ signal' = signal \/ signal' = signal \ {t}
    <3>1. pc \in Pcs
      BY DEF Pcs
    <3>2. /\ at' = [at EXCEPT ![t] = [at[t] EXCEPT !.pc = pc]]
          /\ [at[t] EXCEPT !.pc = pc] \in Calls
          /\ [at[t] EXCEPT !.pc = pc].pc = pc
          /\ Moves(t, pc) /\ signal' = signal
      BY <1>1, <2>3, <3>1, GoOnIs
    <3> DEFINE r == [at[t] EXCEPT !.pc = pc]
    <3> HIDE DEF r
    <3> QED
      BY <3>2 DEF r
  <2> QED
    BY <2>1, <2>2, <2>3 DEF Read
<1>3. /\ Stores' /\ Counts' /\ secondary' = secondary
      /\ tx' = tx /\ chars' = chars
  BY <1>1, <1>2, OutputsUntouched
<1>4. tx \/ chars = 0
  BY <1>1, OthersAre DEF Putting
<1> QED
  BY <1>1, <1>2, <1>3, <1>4, StepKeeps

(* GETCH takes the line away with its end.                                 *)
LEMMA GetchKeeps ==
  ASSUME TtyInv, NEW t \in Proc, Getch(t)
  PROVE  TtyInv'
<1>1. /\ at[t].pc = "getch" /\ ~overtaken
      /\ UNCHANGED <<lflag, cc, miscounted, chars, stale, tx, cr_flag, deferred>>
  BY DEF Getch, termios, outputs
<1>2. current = t
  BY <1>1, StepIsCurrent
<1>3. CASE secondary = <<>>
  <2>1. /\ overtaken' = TRUE
        /\ UNCHANGED <<current, state, head, tmp, on, read_q, secondary, data,
                       at, signal>>
    BY <1>3 DEF Getch, wqvars
  <2>2. Stores' /\ Shapes' /\ Positions' /\ Counts' /\ Sending'
    BY <1>1, <2>1 DEF TtyInv, Stores, Shapes, Positions, Counts, Sending
  <2>3. Queues'
    <3>1. [Next]_wqvars
      BY <2>1 DEF wqvars
    <3> QED
      BY <3>1, QueuesKept DEF TtyInv
  <2>4. NoSleeperForgotten'
    BY <1>1, <2>1 DEF TtyInv, NoSleeperForgotten, Asleep, Pointed
  <2> QED
    BY <2>2, <2>3, <2>4 DEF TtyInv
<1>4. CASE secondary # <<>>
  <2> DEFINE c == Head(secondary)
  <2>1. /\ secondary' = Tail(secondary) /\ data' = LinesLeft(c)
        /\ UNCHANGED <<read_q, overtaken>>
    BY <1>4 DEF Getch
  <2>2. PICK r \in Calls :
          /\ at' = [at EXCEPT ![t] = r] /\ Moves(t, r.pc)
          /\ r.pc \in {"user", "getch"}
          /\ signal' = signal \/ signal' = signal \ {t}
    <3>1. CASE Return(t)
      BY <3>1, ReturnIs
    <3>2. CASE /\ at' = [at EXCEPT ![t].nr = @ - 1]
               /\ UNCHANGED <<wqvars, signal>>
      <4> DEFINE r == [at[t] EXCEPT !.nr = @ - 1]
      <4>1. r \in Calls /\ r.pc = at[t].pc
        BY CallIs DEF Calls
      <4>2. at' = [at EXCEPT ![t] = r]
        BY <3>2
      <4> HIDE DEF r
      <4>3. Moves(t, r.pc)
        BY <1>2, <3>2 DEF Moves
      <4> QED
        BY <1>1, <3>2, <4>1, <4>2, <4>3
    <3>3. \/ Return(t)
          \/ /\ at' = [at EXCEPT ![t].nr = @ - 1]
             /\ UNCHANGED <<wqvars, signal>>
      BY <1>4 DEF Getch
    <3> QED
      BY <3>1, <3>2, <3>3
  <2>3. /\ secondary \in Seq(Keys) /\ data \in Int
        /\ miscounted \/ data = Lines(secondary)
        /\ Len(secondary) < Size /\ Len(secondary) \in Nat
    BY <1>1 DEF TtyInv, Stores, Counts
  <2>4. /\ Tail(secondary) \in Seq(Keys) /\ Len(Tail(secondary)) = Len(secondary) - 1
        /\ Lines(secondary) =
             Lines(Tail(secondary)) + (IF LineEnd(c) THEN 1 ELSE 0)
    BY <1>4, <2>3, LinesOfTail
  <2>5. /\ secondary' \in Seq(Keys) /\ Len(secondary') < Size
        /\ data' \in Int /\ (miscounted \/ data' = Lines(secondary'))
    <3>1. Lines(Tail(secondary)) \in Nat
      <4> DEFINE q == Tail(secondary)
      <4> HIDE DEF q
      <4> SUFFICES Lines(q) \in Nat
        BY DEF q
      <4>1. q \in Seq(Keys)
        BY <2>4 DEF q
      <4> QED
        BY <4>1, LinesNumber
    <3> DEFINE l == Lines(Tail(secondary))
    <3>2. data' \in Int /\ (miscounted \/ data' = l)
      <4> HIDE DEF l, c
      <4> QED
        BY <2>1, <2>3, <2>4, <3>1 DEF LinesLeft, l
    <3> QED
      BY <2>1, <2>3, <2>4, <3>1, <3>2, SizeIs
  <2>6. Stores'
    BY <1>1, <2>1, <2>2, <2>5 DEF TtyInv, Stores
  <2>7. Counts'
    <3>1. Lines(secondary)' = Lines(secondary')
      BY <1>1, LinesSame
    <3> QED
      BY <1>1, <2>5, <3>1 DEF Counts
  <2>8. tx \/ chars = 0
    BY <1>1, <1>2, OthersAre DEF Putting
  <2> QED
    BY <1>1, <1>4, <2>2, <2>6, <2>7, <2>8, StepKeeps
<1> QED
  BY <1>3, <1>4

(* A writer sleeps only where characters are left that an interrupt sends. *)
LEMMA SleepIfFullKeeps ==
  ASSUME TtyInv, NEW t \in Proc, SleepIfFull(t)
  PROVE  TtyInv'
<1>1. /\ UNCHANGED <<termios, inputs, outputs, cr_flag, deferred>>
      /\ current = t /\ at[t].pc \in {"write", "full", "write_sleep"}
  BY DEF SleepIfFull
<1>2. tx \/ chars = 0
  BY <1>1, OthersAre DEF Putting
<1>3. WriteLeft < RoomWanted => tx
  <2>1. WriteLeft < RoomWanted => chars # 0
    BY SizeIs DEF WriteLeft
  <2> QED
    BY <1>2, <2>1
<1>4. PICK r \in Calls :
        /\ at' = [at EXCEPT ![t] = r] /\ Moves(t, r.pc)
        /\ r.pc \in {"user", "full", "fill", "write_sleep"}
        /\ signal' = signal \/ signal' = signal \ {t}
  <2>1. CASE Return(t)
    BY <2>1, ReturnIs
  <2>2. CASE /\ ~(WriteLeft >= RoomWanted) /\ SleepOn(t, "write_q")
             /\ Goto(t, "write_sleep") /\ UNCHANGED signal
    <3>1. "write_sleep" \in Pcs
      BY DEF Pcs
    <3>2. tx
      <4>1. WriteLeft < RoomWanted
        BY <2>2, SizeIs DEF WriteLeft, TtyInv, Stores
      <4> QED
        BY <1>3, <4>1
    <3> DEFINE r == [at[t] EXCEPT !.pc = "write_sleep"]
    <3>3. /\ at' = [at EXCEPT ![t] = r] /\ r \in Calls /\ r.pc = "write_sleep"
          /\ Moves(t, "write_sleep") /\ signal' = signal
      BY <2>2, <3>1, <3>2, SleepIs
    <3> HIDE DEF r
    <3> QED
      BY <3>3
  <2>3. ASSUME NEW pc \in {"full", "fill"}, GoOn(t, pc)
        PROVE  \E r \in Calls :
                 /\ at' = [at EXCEPT ![t] = r] /\ Moves(t, r.pc)
                 /\ r.pc \in {"user", "full", "fill", "write_sleep"}
                 /\ signal' = signal \/ signal' = signal \ {t}
    <3>1. pc \in Pcs
      BY DEF Pcs
    <3> DEFINE r == [at[t] EXCEPT !.pc = pc]
    <3>2. /\ at' = [at EXCEPT ![t] = r] /\ r \in Calls /\ r.pc = pc
          /\ Moves(t, pc) /\ signal' = signal
      BY <1>1, <2>3, <3>1, GoOnIs
    <3> HIDE DEF r
    <3> QED
      BY <3>2
  <2> QED
    BY <2>1, <2>2, <2>3 DEF SleepIfFull
<1>5. /\ Stores' /\ Counts' /\ secondary' = secondary
      /\ tx' = tx /\ chars' = chars
  BY <1>1, <1>4, OutputsUntouched
<1> QED
  BY <1>1, <1>2, <1>4, <1>5, StepKeeps

(* PUTCH reads the head, ...                                               *)
LEMMA PutchKeeps ==
  ASSUME TtyInv, NEW t \in Proc, Putch(t)
  PROVE  TtyInv'
<1> DEFINE newline == Head(at[t].buf) = "nl" /\ ~cr_flag
           b == IF newline THEN at[t].buf ELSE Tail(at[t].buf)
           r == [at[t] EXCEPT !.pc = "inc", !.buf = b]
<1>1. /\ at[t].pc = "putch"
      /\ cr_flag' = newline
      /\ at' = [at EXCEPT ![t].pc = "inc",
                          ![t].buf = IF newline THEN @ ELSE Tail(@)]
      /\ UNCHANGED <<wqvars, termios, inputs, outputs, signal, deferred>>
  BY DEF Putch
<1>2. at[t].buf \in Seq({"x", "nl"}) /\ at[t].buf # <<>> /\ at[t] \in Calls
  BY <1>1, CallIs DEF TtyInv, Shapes, Calls
<1>3. b \in Seq({"x", "nl"})
  BY <1>2
<1>4. at' = [at EXCEPT ![t] = r]
  BY <1>1, CallIs DEF TtyInv, Shapes, Calls
<1> HIDE DEF b
<1>5. r \in Calls /\ r.pc = "inc"
  BY <1>2, <1>3 DEF Calls, Pcs
<1> HIDE DEF r
<1>6. /\ Stores' /\ Counts' /\ secondary' = secondary /\ tx' = tx
  <2>1. /\ chars' \in 0..(Size - 1) /\ stale' \in 0..(Size - 1)
        /\ tx' \in BOOLEAN /\ cr_flag' \in BOOLEAN
        /\ secondary' = secondary /\ tx' = tx
    BY <1>1 DEF TtyInv, Stores, inputs, outputs
  <2> QED
    BY <1>1, <2>1, Untouched
<1>7. current = t
  BY <1>1, StepIsCurrent
<1>8. Moves(t, r.pc) /\ r.pc \in Putting
  BY <1>1, <1>5, <1>7 DEF Moves, Putting
<1> QED
  BY <1>1, <1>4, <1>5, <1>6, <1>8, StepKeeps

(* ... and sets it: it is in the inner loop, and rs_write() will follow.   *)
LEMMA IncKeeps ==
  ASSUME TtyInv, NEW t \in Proc, Inc(t)
  PROVE  TtyInv'
<1> DEFINE r == [at[t] EXCEPT !.pc = "fill"]
<1>1. /\ at[t].pc = "inc"
      /\ chars' = (chars + Size + 1 - stale) % Size /\ stale' = 0
      /\ GoOn(t, "fill")
      /\ UNCHANGED <<termios, inputs, tx, cr_flag, deferred>>
  BY DEF Inc
<1>2. current = t
  BY <1>1, StepIsCurrent
<1>3. "fill" \in Pcs
  BY DEF Pcs
<1>4. /\ at' = [at EXCEPT ![t] = r] /\ r \in Calls /\ r.pc = "fill"
      /\ Moves(t, "fill") /\ signal' = signal
  BY <1>1, <1>2, <1>3, GoOnIs
<1> HIDE DEF r
<1>5. chars' \in 0..(Size - 1) /\ stale' \in 0..(Size - 1)
  <2>1. chars + Size + 1 - stale \in Int /\ 0 \in 0..(Size - 1)
    BY SizeIs DEF TtyInv, Stores
  <2> QED
    BY <1>1, <2>1, SizeIs
<1>6. /\ Stores' /\ Counts' /\ secondary' = secondary /\ tx' = tx
  <2>1. /\ tx' \in BOOLEAN /\ cr_flag' \in BOOLEAN
        /\ secondary' = secondary /\ tx' = tx
    BY <1>1 DEF TtyInv, Stores, inputs
  <2> QED
    BY <1>1, <1>4, <1>5, <2>1, Untouched
<1>7. /\ Moves(t, r.pc) /\ r.pc \in Putting /\ deferred' = deferred
      /\ r.pc # "putch"
  BY <1>1, <1>4 DEF Putting
<1> QED
  BY <1>4, <1>6, <1>7, StepKeeps

(* The end of the inner loop is rs_write(): what is queued goes out.       *)
LEMMA FillKeeps ==
  ASSUME TtyInv, NEW t \in Proc, Fill(t)
  PROVE  TtyInv'
<1>1. /\ at[t].pc = "fill"
      /\ UNCHANGED <<termios, inputs, cr_flag, deferred>>
  BY DEF Fill
<1>2. current = t
  BY <1>1, StepIsCurrent
<1>3. CASE /\ at[t].buf # <<>> /\ GoOn(t, "putch") /\ UNCHANGED outputs
  <2> DEFINE r == [at[t] EXCEPT !.pc = "putch"]
  <2>1. "putch" \in Pcs
    BY DEF Pcs
  <2>2. /\ at' = [at EXCEPT ![t] = r] /\ r \in Calls /\ r.pc = "putch"
        /\ r.buf # <<>> /\ Moves(t, "putch") /\ signal' = signal
    BY <1>2, <1>3, <2>1, GoOnIs
  <2> HIDE DEF r
  <2>3. /\ Stores' /\ Counts' /\ secondary' = secondary /\ tx' = tx
    BY <1>1, <1>3, <2>2, OutputsUntouched
  <2> QED
    BY <1>1, <2>2, <2>3, StepKeeps DEF Putting
<1>4. CASE /\ tx' = (tx \/ chars > 0)
           /\ Return(t) \/ (Goto(t, "write") /\ Yield(t) /\ UNCHANGED signal)
           /\ UNCHANGED <<chars, stale>>
  <2>1. PICK r \in Calls :
          /\ at' = [at EXCEPT ![t] = r] /\ Moves(t, r.pc)
          /\ r.pc \in {"user", "write"}
          /\ signal' = signal \/ signal' = signal \ {t}
    <3>1. CASE Return(t)
      BY <3>1, ReturnIs
    <3>2. CASE Goto(t, "write") /\ Yield(t) /\ UNCHANGED signal
      <4> DEFINE r == [at[t] EXCEPT !.pc = "write"]
      <4>1. /\ at' = [at EXCEPT ![t] = r] /\ r \in Calls /\ r.pc = "write"
        BY <3>2, CallIs DEF Goto, Pcs
      <4> HIDE DEF r
      <4>2. Moves(t, "write")
        BY <3>2 DEF Moves
      <4> QED
        BY <3>2, <4>1, <4>2
    <3> QED
      BY <1>4, <3>1, <3>2
  <2>2. /\ tx' \in BOOLEAN /\ (tx => tx') /\ (tx' \/ chars' = 0)
    <3>1. chars = 0 \/ chars > 0
      BY SizeIs DEF TtyInv, Stores
    <3>2. tx' \in BOOLEAN /\ (tx' <=> tx \/ chars > 0)
      BY <1>4, Zenon
    <3> QED
      BY <1>4, <3>1, <3>2
  <2>3. /\ Stores' /\ Counts' /\ secondary' = secondary
    <3>1. /\ chars' \in 0..(Size - 1) /\ stale' \in 0..(Size - 1)
          /\ cr_flag' \in BOOLEAN /\ secondary' = secondary
      BY <1>1, <1>4 DEF TtyInv, Stores, inputs
    <3> QED
      BY <1>1, <2>1, <2>2, <3>1, Untouched
  <2> QED
    BY <1>1, <2>1, <2>2, <2>3, StepKeeps
<1> QED
  BY <1>3, <1>4 DEF Fill

(* An empty queue fits and has no lines.                                   *)
LEMMA EmptyFits ==
  /\ <<>> \in Seq(Keys) /\ Len(<<>>) < Size /\ 0 \in 0..(Size - 1)
  /\ Lines(<<>>) = 0
<1>1. Len(<<>>) = 0 /\ <<>> \in Seq(Keys)
  OBVIOUS
<1>2. 0 < Size /\ 0 \in 0..(Size - 1)
  BY SizeIs
<1>3. Lines(<<>>) = Cardinality({})
  BY DEF Lines
<1> QED
  BY <1>1, <1>2, <1>3, FS_EmptySet

(* A flush may empty what the interrupt was waiting to send.               *)
LEMMA FlushKeeps ==
  ASSUME TtyInv, NEW t \in Proc, Flush(t)
  PROVE  TtyInv'
<1>1. /\ read_q' \in {read_q, <<>>} /\ chars' \in {chars, 0}
      /\ UNCHANGED <<current, state, head, tmp, on, lflag, cc, miscounted,
                     secondary, data, stale, tx, cr_flag, at, signal, overtaken,
                     deferred>>
  BY DEF Flush, wqvars, termios
<1>2. Stores'
  BY <1>1, EmptyFits DEF TtyInv, Stores
<1>3. Counts'
  <2>1. Lines(secondary)' = Lines(secondary')
    BY <1>1, LinesSame
  <2> QED
    BY <1>1, <2>1 DEF TtyInv, Counts
<1>4. Shapes' /\ Positions' /\ Sending'
  BY <1>1 DEF TtyInv, Shapes, Positions, Sending
<1>5. Queues'
  <2>1. [Next]_wqvars
    BY <1>1 DEF wqvars
  <2> QED
    BY <2>1, QueuesKept DEF TtyInv
<1>6. NoSleeperForgotten'
  BY <1>1 DEF TtyInv, NoSleeperForgotten, Asleep, Pointed
<1> QED
  BY <1>2, <1>3, <1>4, <1>5, <1>6 DEF TtyInv

(* Changing the mode touches no queue that is counted, ...                 *)
LEMMA SetTermiosKeeps ==
  ASSUME TtyInv, NEW t \in Proc, SetTermios(t)
  PROVE  TtyInv'
<1> DEFINE r == [at[t] EXCEPT !.pc = "termios"]
<1>1. /\ Free(t) /\ Dispatch(t) /\ Goto(t, "termios")
      /\ lflag' \in Modes /\ read_q' \in {read_q, <<>>}
      /\ UNCHANGED <<cc, miscounted, secondary, data, chars, stale, tx, cr_flag,
                     signal, overtaken, deferred>>
  BY DEF SetTermios, Call, outputs
<1>2. /\ at' = [at EXCEPT ![t] = r] /\ r \in Calls /\ r.pc = "termios"
  BY <1>1, CallIs DEF Goto, Pcs
<1> HIDE DEF r
<1>3. Stores'
  BY <1>1, EmptyFits DEF TtyInv, Stores
<1>4. Counts'
  <2>1. Lines(secondary)' = Lines(secondary')
    BY <1>1, LinesSame
  <2> QED
    BY <1>1, <2>1 DEF TtyInv, Counts
<1>5. tx \/ chars = 0
  BY <1>1, FreeIs
<1>6. Moves(t, r.pc)
  BY <1>1 DEF Moves
<1> QED
  BY <1>1, <1>2, <1>3, <1>4, <1>5, <1>6, StepKeeps

(* ... and c_cc, where it changes what is counted, is remembered.          *)
LEMMA SetCcKeeps ==
  ASSUME TtyInv, NEW t \in Proc, SetCc(t)
  PROVE  TtyInv'
<1>1. /\ at[t].pc = "termios" /\ cc' \in Ccs
      /\ miscounted' = (miscounted \/ Lines(secondary)' # Lines(secondary))
      /\ Return(t)
      /\ UNCHANGED <<lflag, read_q, secondary, data, overtaken, chars, stale, tx,
                     cr_flag, deferred>>
  BY DEF SetCc, inputs, outputs
<1>2. /\ at' = [at EXCEPT ![t] = User] /\ User \in Calls
      /\ User.pc = "user" /\ Moves(t, User.pc) /\ signal' = signal \ {t}
  BY <1>1, ReturnIs
<1>3. miscounted' \in BOOLEAN
      /\ (miscounted' <=> miscounted \/ Lines(secondary)' # Lines(secondary))
  BY <1>1, Zenon
<1>4. Stores'
  BY <1>1, <1>2, <1>3 DEF TtyInv, Stores
<1>5. Counts'
  BY <1>1, <1>3 DEF TtyInv, Counts
<1>6. tx \/ chars = 0
  <2>1. current = t
    BY <1>1, StepIsCurrent
  <2> QED
    BY <1>1, <2>1, OthersAre DEF Putting
<1> DEFINE r == User
<1> HIDE DEF r
<1> QED
  BY <1>1, <1>2, <1>4, <1>5, <1>6, StepKeeps

-----------------------------------------------------------------------------
(* The invariant holds of a terminal that nobody has used.                 *)
LEMMA TtyInvInit == TtyInit => TtyInv
<1> SUFFICES ASSUME TtyInit PROVE TtyInv
  OBVIOUS
<1>1. \A t \in Proc : at[t] = User
  BY DEF TtyInit
<1>2. User \in Calls /\ User.pc = "user"
  BY DEF User, Calls, Pcs
<1>3. at \in [Proc -> Calls]
  BY <1>2 DEF TtyInit
<1>4. Shapes /\ Positions
  BY <1>1, <1>2, <1>3, NoneAssumption DEF TtyInit, ProcLists, Init, Shapes, Positions
<1>5. Stores
  <2>1. /\ lflag \in Modes /\ data = 0 /\ signal = {} /\ deferred = {}
        /\ cc \in {INIT_C_CC} /\ miscounted \in BOOLEAN
        /\ tx \in BOOLEAN /\ cr_flag \in BOOLEAN /\ overtaken \in BOOLEAN
    BY DEF TtyInit
  <2>2. /\ read_q = <<>> /\ secondary = <<>> /\ chars = 0 /\ stale = 0
    BY DEF TtyInit
  <2> QED
    BY <2>1, <2>2, EmptyFits DEF Stores
<1>6. Queues
  <2>1. Init
    BY DEF TtyInit
  <2>2. Typing
    BY <2>1, TypingInit
  <2> QED
    BY <2>1, <2>2
       DEF TtyInit, ProcLists, Init, Queues, NoStaleInterruptibleHead,
           NoLostSleeper, Asleep
<1>7. NoSleeperForgotten
  BY DEF TtyInit, ProcLists, Init, NoSleeperForgotten, Asleep
<1>8. Counts /\ Sending
  BY EmptyFits DEF TtyInit, Counts, Sending
<1> QED
  BY <1>4, <1>5, <1>6, <1>7, <1>8 DEF TtyInv

(* Every step keeps the invariant.                                         *)
LEMMA TtyInvNext == TtyInv /\ [TtyNext]_vars => TtyInv'
<1> SUFFICES ASSUME TtyInv, [TtyNext]_vars PROVE TtyInv'
  OBVIOUS
<1>1. CASE UNCHANGED vars
  <2>1. UNCHANGED <<current, state, head, tmp, on, lflag, cc, miscounted, read_q,
                    secondary, data, overtaken, chars, stale, tx, cr_flag, at,
                    signal, deferred>>
    BY <1>1 DEF vars, wqvars, termios, inputs, outputs
  <2>2. Stores' /\ Shapes' /\ Positions' /\ Sending'
    BY <2>1 DEF TtyInv, Stores, Shapes, Positions, Sending
  <2>3. Counts'
    <3>1. Lines(secondary)' = Lines(secondary')
      BY <2>1, LinesSame
    <3> QED
      BY <2>1, <3>1 DEF TtyInv, Counts
  <2>4. Queues'
    <3>1. [Next]_wqvars
      BY <2>1 DEF wqvars
    <3> QED
      BY <3>1, QueuesKept DEF TtyInv
  <2>5. NoSleeperForgotten'
    BY <2>1 DEF TtyInv, NoSleeperForgotten, Asleep, Pointed
  <2> QED
    BY <2>2, <2>3, <2>4, <2>5 DEF TtyInv
<1>2. CASE \E c \in Keys : Receive(c)
  BY <1>2, ReceiveKeeps
<1>3. CASE Transmit
  BY <1>3, TransmitKeeps
<1>4. ASSUME NEW t \in Proc,
             \/ SysRead(t) \/ SysWrite(t) \/ Flush(t) \/ SetTermios(t)
             \/ Resume(t) \/ Step(t)
      PROVE  TtyInv'
  BY <1>4, SysReadKeeps, SysWriteKeeps, FlushKeeps, SetTermiosKeeps, ResumeKeeps,
     ReadKeeps, GetchKeeps, SleepIfFullKeeps, FillKeeps, RescheduledKeeps,
     PutchKeeps, IncKeeps, SetCcKeeps DEF Step
<1> QED
  BY <1>1, <1>2, <1>3, <1>4 DEF TtyNext

(* So it always holds.                                                     *)
LEMMA TtyInvariant == TtySpec => []TtyInv
BY TtyInvInit, TtyInvNext, PTL DEF TtySpec

(* secondary.data is the number of lines in the queue for every size of the *)
(* queues, whatever is typed, edited and read and whatever the modes are,  *)
(* until c_cc is set to a value by which other characters end lines.       *)
THEOREM LinesAreCounted == TtySpec => []LinesCounted
<1>1. TtyInv => LinesCounted
  BY TypeFromInv DEF TtyInv, Counts, LinesCounted
<1> QED
  BY <1>1, TtyInvariant, PTL

(* However many tasks read and write, the reader at the head of his queue  *)
(* sleeps only while there is nothing to read and the writer at the head   *)
(* of his only while an interrupt will come, and every sleeper is pointed  *)
(* at that no newer one has sent back to sleep.                            *)
THEOREM SleepersAreTold == TtySpec => []NoSleeperForgotten
<1>1. TtyInv => NoSleeperForgotten
  BY DEF TtyInv
<1> QED
  BY <1>1, TtyInvariant, PTL
=============================================================================
