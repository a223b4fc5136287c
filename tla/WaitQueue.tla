----------------------------- MODULE WaitQueue -----------------------------
(***************************************************************************)
(* The wait queues of kernel/sched.c: sleep_on(), interruptible_sleep_on() *)
(* and wake_up().  A wait queue is nothing but one task pointer; the tasks *)
(* behind its head are remembered by the local variable tmp of the         *)
(* sleep_on() frame of the task in front of them.  The kernel is not       *)
(* preemptive: a task runs from one sleep to the next with no other task   *)
(* in between, so `current' is None exactly when schedule() may choose.    *)
(*                                                                         *)
(* The operators SleepOn, WakeUp and Resume are composed by the modules    *)
(* that have wait queues; Next closes the system with tasks that sleep and *)
(* wake at will.                                                           *)
(***************************************************************************)
EXTENDS Naturals

CONSTANTS
  Proc,           \* tasks, task 0 excluded: it never sleeps
  Queue,          \* the task pointers that are slept on
  Interruptible,  \* those slept on with interruptible_sleep_on()
  None            \* the NULL pointer

ASSUME NoneAssumption == None \notin Proc \cup Queue
ASSUME InterruptibleAssumption == Interruptible \subseteq Queue

VARIABLES
  current,  \* the task that executes kernel code, None between two of them
  state,    \* state[p]: task_struct.state
  head,     \* head[q]: the task pointer itself, *p in sched.c
  tmp,      \* tmp[p]: the local variable of the frame p sleeps in
  on        \* on[p]: the queue whose sleep frame p is in, None outside

wqvars == <<current, state, head, tmp, on>>

State == {"running", "interruptible", "uninterruptible"}

TypeOK ==
  /\ current \in Proc \cup {None}
  /\ state \in [Proc -> State]
  /\ head \in [Queue -> Proc \cup {None}]
  /\ tmp \in [Proc -> Proc \cup {None}]
  /\ on \in [Proc -> Queue \cup {None}]

Init ==
  /\ current = None
  /\ state = [p \in Proc |-> "running"]
  /\ head = [q \in Queue |-> None]
  /\ tmp = [p \in Proc |-> None]
  /\ on = [p \in Proc |-> None]

Asleep(p) == state[p] # "running"

(* schedule() may pick p, which is not in a sleep frame. *)
Runnable(p) == current = None /\ state[p] = "running" /\ on[p] = None

(* The first half of sleep_on() and interruptible_sleep_on(), up to and    *)
(* including the call of schedule().  It is one step where nobody can call *)
(* wake_up() in its middle: the callers have said cli(), or the queue is   *)
(* woken by tasks only.                                                    *)
SleepOn(p, q) ==
  /\ current = p
  /\ tmp' = [tmp EXCEPT ![p] = head[q]]
  /\ head' = [head EXCEPT ![q] = p]
  /\ state' = [state EXCEPT ![p] = IF q \in Interruptible
                                     THEN "interruptible"
                                     ELSE "uninterruptible"]
  /\ on' = [on EXCEPT ![p] = q]
  /\ current' = None

(* The same of sleep_on() with interrupts enabled, as make_request() calls *)
(* it: tmp = *p;  *p = current;  the new state and schedule().             *)
ReadHead(p, q) ==
  /\ tmp' = [tmp EXCEPT ![p] = head[q]]
  /\ UNCHANGED <<current, state, head, on>>

TakeHead(p, q) ==
  /\ head' = [head EXCEPT ![q] = p]
  /\ UNCHANGED <<current, state, tmp, on>>

FallAsleep(p, q) ==
  /\ state' = [state EXCEPT ![p] = "uninterruptible"]
  /\ on' = [on EXCEPT ![p] = q]
  /\ current' = None
  /\ UNCHANGED <<head, tmp>>

(* wake_up() of every queue of a set, by the running task or an interrupt  *)
(* handler: end_request() wakes two of them.                               *)
WakeUp(qs) ==
  /\ state' = [p \in Proc |-> IF \E q \in qs : head[q] = p THEN "running"
                                                           ELSE state[p]]
  /\ head' = [q \in Queue |-> IF q \in qs THEN None ELSE head[q]]
  /\ UNCHANGED <<current, tmp, on>>

(* Mutant: the task behind is not woken. *)
LeaveFrameSilently(p) ==
  /\ tmp' = [tmp EXCEPT ![p] = None]
  /\ on' = [on EXCEPT ![p] = None]
  /\ current' = p
  /\ UNCHANGED state

(* The assignment `if (tmp) tmp->state = 0' and the return of the frame. *)
LeaveFrame(p) ==
  /\ state' = IF tmp[p] = None THEN state
                               ELSE [state EXCEPT ![tmp[p]] = "running"]
  /\ tmp' = [tmp EXCEPT ![p] = None]
  /\ on' = [on EXCEPT ![p] = None]
  /\ current' = p

(* schedule() switches to p, which is inside sleep_on(). *)
ResumeSleepOn(p) ==
  /\ current = None /\ state[p] = "running"
  /\ on[p] \in Queue \ Interruptible
  /\ LeaveFrame(p)
  /\ UNCHANGED head

(* schedule() switches to p inside interruptible_sleep_on() and p finds a  *)
(* newer sleeper at the head: it wakes that one and sleeps again.          *)
ResumeDefer(p) ==
  /\ current = None /\ state[p] = "running"
  /\ on[p] \in Interruptible
  /\ head[on[p]] \notin {None, p}
  /\ state' = [state EXCEPT ![p] = "interruptible", ![head[on[p]]] = "running"]
  /\ UNCHANGED <<current, head, tmp, on>>

(* Mutant: `*p = NULL' is missing. *)
ResumeKeepsHead(p) ==
  /\ current = None /\ state[p] = "running"
  /\ on[p] \in Interruptible
  /\ head[on[p]] \in {None, p}
  /\ LeaveFrame(p)
  /\ UNCHANGED head

(* ... or it finds itself or nobody there, and leaves. *)
ResumeInterruptible(p) ==
  /\ current = None /\ state[p] = "running"
  /\ on[p] \in Interruptible
  /\ head[on[p]] \in {None, p}
  /\ head' = [head EXCEPT ![on[p]] = None]
  /\ LeaveFrame(p)

(* schedule() finds a signal pending for an interruptible sleeper. *)
Signal(p) ==
  /\ state[p] = "interruptible"
  /\ state' = [state EXCEPT ![p] = "running"]
  /\ UNCHANGED <<current, head, tmp, on>>

(* schedule() switches to a task that is outside any sleep frame. *)
Dispatch(p) ==
  /\ Runnable(p)
  /\ current' = p
  /\ UNCHANGED <<state, head, tmp, on>>

(* p goes back to user mode, where it may be preempted. *)
Yield(p) ==
  /\ current = p
  /\ current' = None
  /\ UNCHANGED <<state, head, tmp, on>>

Next ==
  \/ \E p \in Proc : \/ Dispatch(p)
                     \/ Yield(p)
                     \/ \E q \in Queue : SleepOn(p, q)
                     \/ ResumeSleepOn(p)
                     \/ ResumeDefer(p)
                     \/ ResumeInterruptible(p)
                     \/ Signal(p)
  \/ \E qs \in SUBSET Queue : WakeUp(qs)

Spec == Init /\ [][Next]_wqvars

(* A task in kernel mode returns to user mode or sleeps, and schedule()    *)
(* does not pass over a runnable task for ever: module Scheduler shows     *)
(* that the counters guarantee it.                                         *)
Fairness ==
  \A p \in Proc : /\ WF_wqvars(Yield(p))
                  /\ SF_wqvars(ResumeSleepOn(p) \/ ResumeDefer(p)
                                                \/ ResumeInterruptible(p))

FairSpec == Spec /\ Fairness

-----------------------------------------------------------------------------

(* The task pointers a sleeper can be woken through: the head of its queue *)
(* and the tmp of a frame on the same queue.                               *)
Pointed(p) ==
  \/ head[on[p]] = p
  \/ \E r \in Proc : on[r] = on[p] /\ tmp[r] = p

(* No task sleeps on an ordinary queue with nothing in the kernel pointing *)
(* at it, in whatever order tasks enter and leave sleep_on() and even if   *)
(* the stale tmp of an interruptible queue wakes tasks it should not.      *)
NoLostSleeper ==
  \A p \in Proc : Asleep(p) =>
    /\ on[p] \in Queue
    /\ on[p] \notin Interruptible => Pointed(p)

(* With ordinary queues only, the pointers form disjoint chains: whoever   *)
(* is pointed at is asleep on that very queue, and no task is pointed at   *)
(* twice.  So every `tmp->state = 0' of sleep_on() wakes a task that is    *)
(* still asleep in the frame behind, never one that has gone elsewhere.    *)
HeadsExact ==
  \A q \in Queue : head[q] # None => on[head[q]] = q /\ Asleep(head[q])

TmpsExact ==
  \A r \in Proc : tmp[r] # None =>
    /\ on[r] \in Queue /\ on[tmp[r]] = on[r] /\ Asleep(tmp[r])
    /\ head[on[r]] # tmp[r]
    /\ \A s \in Proc : tmp[s] = tmp[r] => s = r

ChainsExact == Interruptible = {} => HeadsExact /\ TmpsExact

(* The pointer that wake_up() follows on an interruptible queue leads to a *)
(* task still inside a frame of that queue, in whatever order tasks come,  *)
(* are woken, signalled, sent back to sleep and leave: one that has left is*)
(* not woken out of another sleep.  Of ordinary queues this holds only     *)
(* while there are no interruptible ones (HeadsExact): the stale tmp of an *)
(* interruptible frame may take a task out of sleep_on() whose queue goes  *)
(* on pointing at it.                                                      *)
NoStaleInterruptibleHead ==
  \A q \in Interruptible : head[q] # None => on[head[q]] = q

(* wake_up() of an ordinary queue wakes, in the end, everybody who slept   *)
(* there when it was called: a sleeper behind a NULL head is always        *)
(* reached through the frames of the tasks already awake.                  *)
WakeUpReachesAll ==
  \A p \in Proc, q \in Queue \ Interruptible :
    (Asleep(p) /\ on[p] = q /\ head[q] = None) ~> ~Asleep(p)
=============================================================================
