------------------------------- MODULE Process -------------------------------
(***************************************************************************)
(* Processes and their signals: kernel/fork.c, exit.c, signal.c, the part  *)
(* of schedule() and ret_from_sys_call that looks at signals, and process  *)
(* groups of kernel/sys.c.                                                 *)
(*                                                                         *)
(* Every task is the superuser's, to whom the most is allowed. Stopped     *)
(* tasks are left out: nothing sets TASK_STOPPED. The only sleeps are those*)
(* of pause(), waitpid() and do_exit(): see WaitQueue for the others.      *)
(***************************************************************************)
EXTENDS Integers, FiniteSetsExt

CONSTANTS
  NrTasks,    \* NR_TASKS: task 0, which is not modelled, and slots 1..
  MaxPid,     \* the number after which last_pid begins again
  Signal,     \* signals there are
  Handler,    \* sigactions that a task may ask for
  Mask,       \* masks it may ask for
  Number,     \* arguments of kill(), waitpid() and setpgid()
  MaxCalls,   \* bound on fork, kill, setpgid, setsid, sigaction, ssetmask
  None

SIGHUP == 1
SIGKILL == 9
SIGCHLD == 17
SIGSTOP == 19

Slot == 1..(NrTasks - 1)
Pid == 1..MaxPid

(* What a task may set for a signal: the default, to ignore it, or a       *)
(* function of its own, with the signals masked while it runs.             *)
Disposition == [handler : {"default", "ignore", "user"},
                mask : SUBSET Signal, oneshot : BOOLEAN, nomask : BOOLEAN]
Default == [handler |-> "default", mask |-> {}, oneshot |-> FALSE,
            nomask |-> FALSE]

ASSUME TasksAssumption == NrTasks \in Nat /\ NrTasks >= 2
ASSUME PidAssumption == MaxPid \in Nat /\ MaxPid >= NrTasks
ASSUME SignalAssumption == /\ {SIGHUP, SIGKILL, SIGCHLD} \subseteq Signal
                           /\ Signal \subseteq 1..32
ASSUME HandlerAssumption == Handler \subseteq Disposition
ASSUME MaskAssumption == Mask \subseteq SUBSET Signal
ASSUME NumberAssumption == Number \subseteq -MaxPid..MaxPid
ASSUME CallsAssumption == MaxCalls \in Nat

VARIABLES
  task,       \* task[s]: a process or None
  last_pid,   \* the last process number given
  calls       \* how many of the calls that MaxCalls bounds there were

vars == <<task, last_pid, calls>>

(* at: "waitpid" and "pause" are sleeps, in state TASK_INTERRUPTIBLE;      *)
(* "woken" is runnable in waitpid(); "exiting" is anywhere between the     *)
(* first loop of do_exit() and its last lines, where it may sleep. want:   *)
(* the first argument of waitpid().                                        *)
Proc == [at : {"user", "pause", "waitpid", "woken", "exiting", "zombie"},
         pid : Pid, father : Pid \cup {0},
         pgrp : Pid \cup {0}, session : Pid \cup {0}, leader : BOOLEAN,
         signal : SUBSET Signal, blocked : SUBSET Signal,
         sigaction : [Signal -> Disposition],
         want : -MaxPid..MaxPid]

ASSUME NoneAssumption == None \notin Proc

TypeOK ==
  /\ task \in [Slot -> Proc \cup {None}]
  /\ last_pid \in Pid
  /\ calls \in 0..MaxCalls

(* Task 0 has forked process 1, which is init(). *)
init == [at |-> "user", pid |-> 1, father |-> 0, pgrp |-> 0, session |-> 0,
         leader |-> FALSE, signal |-> {}, blocked |-> {},
         sigaction |-> [s \in Signal |-> Default], want |-> 0]

Init ==
  /\ task = [t \in Slot |-> IF t = 1 THEN init ELSE None]
  /\ last_pid = 1
  /\ calls = 0

Used(tab) == {t \in Slot : tab[t] # None}
At(t, place) == task[t] # None /\ task[t].at = place

Call ==
  /\ calls < MaxCalls
  /\ calls' = calls + 1

-----------------------------------------------------------------------------
(* Signals are sent, wake and are delivered.                               *)

(* send_sig() to every task of a set. *)
Sent(tab, to, sig) ==
  [t \in Slot |-> IF t \in to THEN [tab[t] EXCEPT !.signal = @ \cup {sig}]
                  ELSE tab[t]]

(* sys_kill(). A group is that whose number is the caller's pid; -1 is the *)
(* last task and, as the else belongs to the inner if, those before it in  *)
(* group 1; no other negative number is looked at.                         *)
KillTargets(t, pid) ==
  IF pid = 0 THEN {p \in Used(task) : task[p].pgrp = task[t].pid}
  ELSE IF pid > 0 THEN {p \in Used(task) : task[p].pid = pid}
  ELSE IF pid = -1
    THEN LET last == Max(Used(task))
         IN {last} \cup {p \in Used(task) : p < last /\ task[p].pgrp = 1}
  ELSE {}

Kill(t, pid, sig) ==
  /\ At(t, "user") /\ Call
  /\ task' = Sent(task, KillTargets(t, pid), sig)
  /\ UNCHANGED last_pid

(* tty_intr(): to the group of a terminal. *)
TtyIntr(pgrp, sig) ==
  /\ Call
  /\ task' = Sent(task, {p \in Used(task) : task[p].pgrp = pgrp}, sig)
  /\ UNCHANGED last_pid

(* What schedule() takes for a reason to wake a sleeper; the two signals   *)
(* that _BLOCKABLE leaves out always are one.                              *)
Wakes(p) == p.signal \ (p.blocked \ {SIGKILL, SIGSTOP}) # {}

Sleepers == {t \in Used(task) : task[t].at \in {"pause", "waitpid"}}

(* The scan at the top of schedule(). *)
Schedule ==
  LET woken == {t \in Sleepers : Wakes(task[t])} IN
  /\ woken # {}
  /\ task' = [t \in Slot |->
                IF t \in woken
                  THEN [task[t] EXCEPT !.at = IF @ = "pause" THEN "user"
                                              ELSE "woken"]
                  ELSE task[t]]
  /\ UNCHANGED <<last_pid, calls>>

(* sys_pause(), which ends with a signal only. If there is one already, its*)
(* own schedule() wakes the task at once.                                  *)
Pause(t) ==
  /\ At(t, "user") /\ ~Wakes(task[t])
  /\ task' = [task EXCEPT ![t].at = "pause"]
  /\ UNCHANGED <<last_pid, calls>>

(* Mutant: the children are init's, but init is not told of dead ones. *)
ReparentedSilently(tab, t) ==
  [c \in Slot |-> IF tab[c] # None /\ tab[c].father = tab[t].pid
                    THEN [tab[c] EXCEPT !.father = 1] ELSE tab[c]]

(* The loop of do_exit(): children become init's. *)
Reparented(tab, t) ==
  LET mine == {c \in Used(tab) : tab[c].father = tab[t].pid}
      moved == [c \in Slot |-> IF c \in mine
                                 THEN [tab[c] EXCEPT !.father = 1] ELSE tab[c]]
  IN IF \E c \in mine : tab[c].at = "zombie"
       THEN Sent(moved, {1} \cap Used(tab), SIGCHLD) ELSE moved

(* do_exit(), until it sleeps. *)
DoExit(tab, t) ==
  [Reparented(tab, t) EXCEPT ![t].at = "exiting", ![t].want = 0]

Deliverable(p) == p.signal \ p.blocked

(* ret_from_sys_call and do_signal(): one signal, before going back to     *)
(* user mode; at the latest after the next timer interrupt.                *)
Deliver(t) ==
  LET p == task[t]
      sig == Min(Deliverable(p))
      sa == p.sigaction[sig]
      taken == [task EXCEPT ![t].signal = @ \ {sig}]
  IN
  /\ At(t, "user") /\ Deliverable(p) # {}
  /\ \/ /\ sa.handler = "ignore" \/ (sa.handler = "default" /\ sig = SIGCHLD)
        /\ task' = taken
     \/ /\ sa.handler = "default" /\ sig # SIGCHLD
        /\ task' = DoExit(taken, t)
     \/ /\ sa.handler = "user"
        /\ task' = [taken EXCEPT
                      ![t].blocked = @ \cup sa.mask,
                      ![t].sigaction[sig].handler =
                         IF sa.oneshot THEN "default" ELSE @]
  /\ UNCHANGED <<last_pid, calls>>

(* sys_sigaction(), and sys_signal(), which asks for one shot and no mask. *)
Sigaction(t, sig, sa) ==
  /\ At(t, "user") /\ sig # SIGKILL /\ Call
  /\ task' = [task EXCEPT ![t].sigaction[sig] =
                [sa EXCEPT !.mask = IF sa.nomask THEN {} ELSE @ \cup {sig}]]
  /\ UNCHANGED last_pid

(* Mutant: any mask goes. *)
SsetmaskAny(t, mask) ==
  /\ At(t, "user") /\ Call
  /\ task' = [task EXCEPT ![t].blocked = mask]
  /\ UNCHANGED last_pid

(* sys_ssetmask(), also at the end of a handler. *)
Ssetmask(t, mask) ==
  /\ At(t, "user") /\ Call
  /\ task' = [task EXCEPT ![t].blocked = mask \ {SIGKILL}]
  /\ UNCHANGED last_pid

(* do_execve() resets the handlers, though not their masks. *)
Execve(t) ==
  /\ At(t, "user")
  /\ task' = [task EXCEPT ![t].sigaction =
                [s \in Signal |-> [@[s] EXCEPT !.handler = "default"]]]
  /\ UNCHANGED <<last_pid, calls>>

-----------------------------------------------------------------------------
(* fork() and the groups                                                   *)

(* Mutant: the numbers of zombies are taken to be free. *)
NextPidOfLiving(tab) ==
  LET free == Pid \ {tab[t].pid : t \in {u \in Used(tab) : tab[u].at # "zombie"}}
      Distance(p) == (p + MaxPid - last_pid - 1) % MaxPid
  IN CHOOSE p \in free : \A q \in free : Distance(p) <= Distance(q)

(* Mutant: the numbers do not begin again. *)
NextPidUnwrapped(tab) ==
  CHOOSE p \in last_pid + 1 .. last_pid + NrTasks :
    /\ \A t \in Used(tab) : tab[t].pid # p
    /\ \A q \in last_pid + 1 .. p - 1 : \E t \in Used(tab) : tab[t].pid = q

(* find_empty_process(): the next number that no task has. *)
NextPid(tab) ==
  LET free == Pid \ {tab[t].pid : t \in Used(tab)}
      Distance(p) == (p + MaxPid - last_pid - 1) % MaxPid
  IN CHOOSE p \in free : \A q \in free : Distance(p) <= Distance(q)

(* copy_process() *)
Child(p, pid) == [p EXCEPT !.pid = pid, !.father = p.pid, !.signal = {},
                           !.leader = FALSE]

(* No slot, or no memory: the number is used up all the same. *)
Fork(t) ==
  LET empty == Slot \ Used(task)
      pid == NextPid(task)
  IN
  /\ At(t, "user") /\ Call
  /\ \/ /\ empty # {}
        /\ task' = [task EXCEPT ![Min(empty)] = Child(task[t], pid)]
     \/ UNCHANGED task
  /\ last_pid' = pid

Setpgid(t, pid, pgid) ==
  LET p == CHOOSE p \in Used(task) : task[p].pid = pid IN
  /\ At(t, "user") /\ Call
  /\ \E q \in Used(task) : task[q].pid = pid
  /\ ~task[p].leader /\ task[p].session = task[t].session
  /\ task' = [task EXCEPT ![p].pgrp = pgid]
  /\ UNCHANGED last_pid

Setsid(t) ==
  /\ At(t, "user") /\ Call
  /\ task' = [task EXCEPT ![t].leader = TRUE, ![t].session = task[t].pid,
                          ![t].pgrp = task[t].pid]
  /\ UNCHANGED last_pid

-----------------------------------------------------------------------------
(* exit() and waitpid()                                                    *)

Exit(t) ==
  /\ At(t, "user")
  /\ task' = DoExit(task, t)
  /\ UNCHANGED <<last_pid, calls>>

(* tell_father(): without a father, the task releases itself. *)
ToldFather(tab, t) ==
  LET father == {p \in Used(tab) : tab[p].pid = tab[t].father} IN
  IF father # {} THEN Sent(tab, {Min(father)}, SIGCHLD)
  ELSE [tab EXCEPT ![t] = None]

(* The end of do_exit(), where files and directories are closed. *)
ExitDone(t) ==
  LET session == {p \in Used(task) : task[p].session = task[t].session}
      hungup == IF task[t].leader THEN Sent(task, session, SIGHUP) ELSE task
  IN
  /\ At(t, "exiting")
  /\ task' = ToldFather([hungup EXCEPT ![t].at = "zombie"], t)
  /\ UNCHANGED <<last_pid, calls>>

Matches(p, c, want) ==
  \/ want > 0 /\ c.pid = want
  \/ want = 0 /\ c.pgrp = p.pgrp
  \/ want = -1
  \/ want < -1 /\ c.pgrp = -want

Children(t, want) ==
  {c \in Used(task) \ {t} : /\ task[c].father = task[t].pid
                            /\ Matches(task[t], task[c], want)}

(* From repeat on: a zombie is released and reported; without any child    *)
(* this ends; else the task sleeps, unless it has a signal already. sigs   *)
(* are the signals it has.                                                 *)
Scan(t, want, sigs) ==
  LET children == Children(t, want)
      zombies == {c \in children : task[c].at = "zombie"}
      back == [task EXCEPT ![t].at = "user", ![t].want = 0, ![t].signal = sigs]
  IN task' = IF zombies # {} THEN [back EXCEPT ![Max(zombies)] = None]
             ELSE IF children = {} THEN back
             ELSE [back EXCEPT
                     ![t].at = IF Wakes(back[t]) THEN "woken" ELSE "waitpid",
                     ![t].want = want]

(* sys_waitpid(); with WNOHANG it does not sleep, and changes nothing.     *)
Waitpid(t, want) ==
  /\ At(t, "user") /\ Children(t, want) # {}
  /\ Scan(t, want, task[t].signal)
  /\ UNCHANGED <<last_pid, calls>>

(* sys_waitpid() after schedule(): -EINTR if any other signal is there,    *)
(* even a blocked one.                                                     *)
WaitpidResumes(t) ==
  LET sigs == task[t].signal \ {SIGCHLD} IN
  /\ At(t, "woken")
  /\ IF sigs = {} THEN Scan(t, task[t].want, sigs)
     ELSE task' = [task EXCEPT ![t].at = "user", ![t].want = 0,
                               ![t].signal = sigs]
  /\ UNCHANGED <<last_pid, calls>>

-----------------------------------------------------------------------------

(* init() of init/main.c forks and waits for anybody, for ever. *)
InitWaits == At(1, "user") /\ task[1].pid = 1 /\ Waitpid(1, -1)

(* What any other program may do. *)
UserCall(t) ==
  /\ task[t] # None /\ task[t].pid # 1
  /\ \/ Pause(t) \/ Setsid(t) \/ Exit(t) \/ Execve(t)
     \/ \E want \in Number : Waitpid(t, want)
     \/ \E pid \in Number, sig \in Signal : Kill(t, pid, sig)
     \/ \E pid, pgid \in Number \cap Pid : Setpgid(t, pid, pgid)
     \/ \E mask \in Mask : Ssetmask(t, mask)
     \/ \E sig \in Signal, sa \in Handler : Sigaction(t, sig, sa)

Next ==
  \/ Schedule \/ InitWaits
  \/ \E pgrp \in Number \cap Pid, sig \in Signal : TtyIntr(pgrp, sig)
  \/ \E t \in Slot :
       \/ Fork(t) \/ UserCall(t)
       \/ Deliver(t) \/ ExitDone(t) \/ WaitpidResumes(t)

(* schedule() is called again and again and comes back to every task that  *)
(* can run; closing a file ends. A task that is in user mode again and     *)
(* again gets there through ret_from_sys_call, even if it calls pause()    *)
(* at once, hence the strong fairness.                                     *)
Fairness ==
  /\ WF_vars(Schedule) /\ WF_vars(InitWaits)
  /\ \A t \in Slot : /\ WF_vars(ExitDone(t)) /\ WF_vars(WaitpidResumes(t))
                    /\ SF_vars(Deliver(t))

Spec == Init /\ [][Next]_vars /\ Fairness

-----------------------------------------------------------------------------

(* init, which everything rests on, can be killed, and its slot used again. *)
InitLives == /\ task[1] # None /\ task[1].pid = 1
             /\ task[1].at \notin {"exiting", "zombie"}

Living(t) == task[t] # None /\ task[t].at \notin {"exiting", "zombie"}

(* No two tasks, zombies included, have one number, though numbers begin   *)
(* again; and the father of every task is one that can still wait for it:  *)
(* no child is left behind by do_exit() while files are closed.            *)
FamilyIntact ==
  InitLives =>
    \A t \in Used(task) :
      /\ \A u \in Used(task) \ {t} : task[u].pid # task[t].pid
      /\ t # 1 => \E f \in Slot : Living(f) /\ task[f].pid = task[t].father

(* Who sleeps in waitpid() for a process, or for any, and has that zombie, *)
(* has been sent SIGCHLD: between its look at the table, its sleep, and    *)
(* the clearing of the signal after it nothing is missed. (For a group it  *)
(* may be: setpgid() moves zombies, and tells nobody.)                     *)
WaiterIsTold ==
  InitLives =>
    \A t \in Used(task) :
      /\ task[t].at = "waitpid" /\ (task[t].want > 0 \/ task[t].want = -1)
      /\ \E c \in Children(t, task[t].want) : task[c].at = "zombie"
      => SIGCHLD \in task[t].signal


(* SIGKILL ends a task that runs, or sleeps in pause() or waitpid(), what- *)
(* ever it asks ssetmask() to mask. (Not a task in interruptible_sleep_on()*)
(* that another has overtaken, which goes back to sleep with its signal;   *)
(* nor one with SIGKILL in the mask of a sigaction, which no code takes    *)
(* out: Handler must have none.)                                           *)
KillIsFinal ==
  \A t \in Slot :
    (Living(t) /\ SIGKILL \in task[t].signal) ~> ~Living(t)
=============================================================================
