------------------------------ MODULE Scheduler ------------------------------
(***************************************************************************)
(* Time slices: schedule() and do_timer() of kernel/sched.c, the           *)
(* reschedule test at the end of system_call.s, sys_nice(), and what       *)
(* fork() and exit() do to the task table.  Task 0 is the idle task: it is *)
(* switched to when no other task can run, and its state is never used.    *)
(***************************************************************************)
EXTENDS Integers

CONSTANTS
  NrTasks,      \* NR_TASKS, task 0 included
  MaxPriority   \* bound on the priority that negative nice() calls reach

ASSUME TasksAssumption == NrTasks \in Nat \ {0, 1}
ASSUME PriorityAssumption == MaxPriority \in Nat \ {0}

VARIABLES
  current,   \* the task that runs, 0 the idle task
  mode,      \* "user" or "kernel": what the current task executes
  state,     \* state[p]: "running", "sleeping", or "none": the slot is empty
  counter,   \* counter[p]: ticks left of the time slice
  priority   \* priority[p]: ticks granted

schedVars == <<current, mode, state, counter, priority>>

Task == 1..(NrTasks - 1)

SchedTypeOK ==
  /\ current \in Task \cup {0}
  /\ mode \in {"user", "kernel"}
  /\ state \in [Task -> {"running", "sleeping", "none"}]
  /\ counter \in [Task -> Int]
  /\ priority \in [Task -> Int]

SchedInit ==
  /\ current = 0
  /\ mode = "kernel"
  /\ state \in [Task -> {"running", "none"}]
  /\ \E pr \in 1..MaxPriority : /\ priority = [p \in Task |-> pr]
                                /\ counter = [p \in Task |-> pr]

(* The tasks the inner loop of schedule() looks at. *)
Running(st) == {p \in Task : st[p] = "running"}

(* Mutant: the priority is added to the whole of what is left. *)
RechargeWhole(st, cnt) ==
  [p \in Task |-> IF st[p] = "none" THEN cnt[p] ELSE cnt[p] + priority[p]]

(* All tasks, those that sleep included, get a new slice, ...              *)
Recharge(st, cnt) ==
  [p \in Task |-> IF st[p] = "none" THEN cnt[p]
                                    ELSE cnt[p] \div 2 + priority[p]]

(* ... when the slices of all tasks that can run are used up.              *)
SlicesUsedUp(st, cnt) ==
  Running(st) # {} /\ \A p \in Running(st) : cnt[p] = 0

(* Mutant: the state is not looked at. *)
NextAnyState(st, cnt) ==
  {p \in Task : \A r \in Task : \/ cnt[r] < cnt[p]
                                \/ cnt[r] = cnt[p] /\ r <= p}

(* `next': of the tasks with the largest counter the last in the table, or *)
(* task 0.                                                                 *)
NextTask(st, cnt) ==
  IF Running(st) = {} THEN {0}
  ELSE {p \in Running(st) :
          \A r \in Running(st) : \/ cnt[r] < cnt[p]
                                 \/ cnt[r] = cnt[p] /\ r <= p}

(* schedule(), from a state and counters the caller has just changed.  One *)
(* recharge is enough: see SchedulePicks below.  The task switched to goes *)
(* on where it called schedule(), in the kernel.                           *)
Schedule(st, cnt) ==
  LET new == IF SlicesUsedUp(st, cnt) THEN Recharge(st, cnt) ELSE cnt
  IN /\ state' = st
     /\ counter' = new
     /\ current' \in NextTask(st, new)
     /\ mode' = "kernel"

(* The idle task calls pause() for ever. *)
Idle ==
  /\ current = 0
  /\ Schedule(state, counter)
  /\ UNCHANGED priority

(* Mutant: a task in kernel mode is charged no tick. *)
TickOnlyUser ==
  /\ current # 0
  /\ LET left == IF counter[current] > 1 THEN counter[current] - 1 ELSE 0
         cnt == [counter EXCEPT ![current] = left]
     IN IF mode = "kernel" THEN UNCHANGED <<current, mode, state, counter>>
        ELSE IF left = 0 THEN Schedule(state, cnt)
        ELSE counter' = cnt /\ UNCHANGED <<current, mode, state>>
  /\ UNCHANGED priority

(* do_timer(): a task in user mode whose slice ends is preempted. *)
Tick ==
  /\ current # 0
  /\ LET left == IF counter[current] > 1 THEN counter[current] - 1 ELSE 0
         cnt == [counter EXCEPT ![current] = left]
     IN IF left = 0 /\ mode = "user"
          THEN Schedule(state, cnt)
          ELSE counter' = cnt /\ UNCHANGED <<current, mode, state>>
  /\ UNCHANGED priority

SystemCall ==
  /\ current # 0 /\ mode = "user"
  /\ mode' = "kernel"
  /\ UNCHANGED <<current, state, counter, priority>>

(* ret_from_sys_call, after the test of counter: reschedule. *)
ReturnToUser ==
  /\ current # 0 /\ mode = "kernel"
  /\ IF counter[current] = 0
       THEN Schedule(state, counter)
       ELSE mode' = "user" /\ UNCHANGED <<current, state, counter>>
  /\ UNCHANGED priority

(* sleep_on(), sys_pause(), ... *)
Sleep ==
  /\ current # 0 /\ mode = "kernel"
  /\ Schedule([state EXCEPT ![current] = "sleeping"], counter)
  /\ UNCHANGED priority

(* wake_up() by the current task or an interrupt: nobody is preempted. *)
WakeUp(p) ==
  /\ state[p] = "sleeping"
  /\ state' = [state EXCEPT ![p] = "running"]
  /\ UNCHANGED <<current, mode, counter, priority>>

NiceAllowed(pr, increment) == pr - increment > 0

(* sys_nice(): anyone may raise its priority, and there is no limit to it: *)
(* calls that would take it beyond MaxPriority are left out, which is thus *)
(* the highest priority that is reached.                                   *)
Nice ==
  /\ current # 0 /\ mode = "kernel"
  /\ \E increment \in (-MaxPriority)..MaxPriority :
       /\ NiceAllowed(priority[current], increment)
       /\ priority[current] - increment <= MaxPriority
       /\ priority' = [priority EXCEPT ![current] = @ - increment]
  /\ UNCHANGED <<current, mode, state, counter>>

(* copy_process(): the child has a slice of its own, the parent keeps its. *)
Fork ==
  /\ current # 0 /\ mode = "kernel"
  /\ \E p \in Task :
       /\ state[p] = "none"
       /\ state' = [state EXCEPT ![p] = "running"]
       /\ priority' = [priority EXCEPT ![p] = priority[current]]
       /\ counter' = [counter EXCEPT ![p] = priority[current]]
  /\ UNCHANGED <<current, mode>>

(* do_exit(); the slot is free once the parent has called release(), which *)
(* is taken to be at once.                                                 *)
Exit ==
  /\ current # 0 /\ mode = "kernel"
  /\ Schedule([state EXCEPT ![current] = "none"], counter)
  /\ UNCHANGED priority

SchedNext ==
  \/ Idle \/ Tick \/ SystemCall \/ ReturnToUser \/ Sleep
  \/ \E p \in Task : WakeUp(p)
  \/ Nice \/ Fork \/ Exit

SchedSpec == SchedInit /\ [][SchedNext]_schedVars

(* The timer ticks, a system call ends or sleeps, the idle task loops.  No *)
(* fairness is assumed of schedule() itself.                               *)
SchedFairness == WF_schedVars(Tick) /\ WF_schedVars(ReturnToUser) /\ WF_schedVars(Idle)

SchedFairSpec == SchedSpec /\ SchedFairness

-----------------------------------------------------------------------------

(* A priority is positive and a counter neither negative nor as large as   *)
(* two full slices of the highest priority reached, however long a task    *)
(* sleeps: the sum c/2 + p of all the recharges it sees converges.  The    *)
(* first makes `while (1)' of schedule() end after one recharge, the second*)
(* bounds how long the others wait when it wakes up.                       *)
CountersBounded ==
  \A p \in Task : /\ priority[p] \in 1..MaxPriority
                  /\ counter[p] \in 0..(2 * MaxPriority - 1)

(* schedule() goes to the idle task only when no task can run, and to any  *)
(* other only when it can run and has ticks left of its slice.             *)
SchedulePicks ==
  [][current' # current =>
       IF current' = 0 THEN Running(state') = {}
       ELSE state'[current'] = "running" /\ counter'[current'] > 0]_schedVars

(* "It should work well in all circumstances", says the comment above     *)
(* schedule(): a task that can run does run in the end, though others      *)
(* sleep and wake all the time with larger counters.  The exception is an  *)
(* endless chain of fork(): each child starts with a full slice that costs *)
(* its parent nothing, so the slices of the tasks that can run need never  *)
(* be used up together.                                                    *)
StarvedOnlyByForks ==
  \/ []<><<Fork>>_schedVars
  \/ \A p \in Task : state[p] = "running" ~> (current = p \/ state[p] # "running")
=============================================================================
