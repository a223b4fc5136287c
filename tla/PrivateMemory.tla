---------------------------- MODULE PrivateMemory ----------------------------
(***************************************************************************)
(* What the memory management promises: every task has a memory of its     *)
(* own, copied as a whole by fork() and replaced as a whole by execve().   *)
(* Only a page of its program, when it is first needed, may come from      *)
(* another task.                                                           *)
(***************************************************************************)
CONSTANTS
  Task, Exe,   \* tasks; programs
  Addr,        \* the pages of a task's address space
  Text,        \* those below end_data, which execve() takes from the file
  Stack,       \* the one that holds the arguments of execve()
  Zero, None,  \* an empty page; a task that does not exist
  Unloaded     \* a page of the program that was not needed yet

VARIABLE mem   \* mem[t][a]: what task t reads at a; what a task writes is
               \* its own name

TextOf(e, a) == [exe |-> e, addr |-> a]

Image(args) == [a \in Addr |-> IF a \in Text THEN Unloaded
                               ELSE IF a = Stack THEN args ELSE Zero]

Write(t, a) ==
  /\ mem[t] # None
  /\ mem' = [mem EXCEPT ![t][a] = t]

Fork(t, c) ==
  /\ mem[t] # None /\ mem[c] = None
  /\ mem' = [mem EXCEPT ![c] = mem[t]]

Exec(t) ==
  /\ mem[t] # None
  /\ mem' = [mem EXCEPT ![t] = Image(t)]

Load(t, a) ==
  /\ mem[t] # None /\ mem[t][a] = Unloaded
  /\ \/ \E e \in Exe : mem' = [mem EXCEPT ![t][a] = TextOf(e, a)]
     \/ mem' = [mem EXCEPT ![t][a] = Zero]
     \/ \E p \in Task \ {t} : /\ mem[p] # None
                               /\ mem' = [mem EXCEPT ![t][a] = mem[p][a]]

Exit(t) ==
  /\ mem[t] # None
  /\ mem' = [mem EXCEPT ![t] = None]

Next ==
  \E t \in Task :
    \/ \E a \in Addr : Write(t, a) \/ Load(t, a)
    \/ \E c \in Task : Fork(t, c)
    \/ Exec(t) \/ Exit(t)

(* At first there is one task, whose memory is whatever it is. *)
Init == \E t \in Task : \E m \in [Addr -> {Zero, Unloaded}] :
          mem = [u \in Task |-> IF u = t THEN m ELSE None]

Spec == Init /\ [][Next]_mem
=============================================================================
