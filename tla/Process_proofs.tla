--------------------------- MODULE Process_proofs ---------------------------
(***************************************************************************)
(* Proofs about processes, for any number of tasks, process numbers and    *)
(* signals.                                                                *)
(***************************************************************************)
EXTENDS Process, Numbers

(* The greatest of a set of slots is one of them.                          *)
LEMMA MaxSlot ==
  ASSUME NEW S \in SUBSET Slot, S # {}
  PROVE  Max(S) \in S
<1>1. S \in SUBSET (0..NrTasks)
  BY TasksAssumption DEF Slot
<1> QED
  BY <1>1, MaxIn, TasksAssumption

-----------------------------------------------------------------------------
(* The table of tasks as a family.                                         *)

Table == [Slot -> Proc \cup {None}]

Alive(tab, t) == tab[t] # None /\ tab[t].at \notin {"exiting", "zombie"}

Distinct(tab) ==
  \A t, u \in Slot :
    tab[t] # None /\ tab[u] # None /\ tab[t].pid = tab[u].pid => t = u

(* Everybody but the first task has a father who lives, or is init's.      *)
Fathered(tab) ==
  \A t \in Slot : tab[t] # None =>
    \/ t = 1 /\ tab[t].father = 0
    \/ tab[t].father = 1
    \/ \E f \in Slot : Alive(tab, f) /\ tab[f].pid = tab[t].father

Family(tab) == tab \in Table /\ Distinct(tab) /\ Fathered(tab)

(* A table whose tasks come from another one, with their numbers, and with *)
(* their fathers unless these are now init.                                *)
Descends(tab, new) ==
  \A t \in Slot : new[t] # None =>
    /\ tab[t] # None /\ new[t].pid = tab[t].pid
    /\ new[t].father \in {tab[t].father, 1}

(* Whoever died left no child but to init.                                 *)
NoneLeft(tab, new) ==
  \A f \in Slot : Alive(tab, f) =>
    \/ Alive(new, f)
    \/ \A t \in Slot : new[t] # None /\ new[t].father = tab[f].pid
                       => new[t].father = 1

(* Such a table is a family again.                                         *)
LEMMA DescendsIsFamily ==
  ASSUME NEW tab, NEW new, Family(tab), new \in Table, Descends(tab, new),
         NoneLeft(tab, new)
  PROVE  Family(new)
<1>1. Distinct(new)
  BY DEF Family, Distinct, Descends
<1>2. ASSUME NEW t \in Slot, new[t] # None
      PROVE  \/ t = 1 /\ new[t].father = 0
             \/ new[t].father = 1
             \/ \E f \in Slot : Alive(new, f) /\ new[f].pid = new[t].father
  <2>1. CASE new[t].father = 1
    BY <2>1
  <2>2. CASE new[t].father # 1 /\ new[t].father = tab[t].father
    <3>1. tab[t] # None
      BY <1>2 DEF Descends
    <3>2. CASE \E f \in Slot : Alive(tab, f) /\ tab[f].pid = tab[t].father
      <4>1. PICK f \in Slot : Alive(tab, f) /\ tab[f].pid = tab[t].father
        BY <3>2
      <4>2. Alive(new, f)
        BY <4>1, <2>2, <1>2 DEF NoneLeft
      <4>3. new[f].pid = tab[f].pid
        BY <4>2 DEF Descends, Alive
      <4> QED
        BY <4>1, <4>2, <4>3, <2>2
    <3> QED
      BY <3>1, <3>2, <2>2 DEF Family, Fathered
  <2> QED
    BY <2>1, <2>2, <1>2 DEF Descends
<1> QED
  BY <1>1, <1>2 DEF Family, Fathered

(* Nobody comes, goes, or changes his relations, and nobody dies.          *)
Quiet(tab, new) ==
  /\ new \in Table
  /\ \A t \in Slot :
       /\ new[t] = None <=> tab[t] = None
       /\ new[t] # None => /\ new[t].pid = tab[t].pid
                           /\ new[t].father = tab[t].father
                           /\ Alive(tab, t) => Alive(new, t)

LEMMA QuietIsFamily ==
  ASSUME NEW tab, NEW new, Family(tab), Quiet(tab, new)
  PROVE  Family(new)
<1>1. Descends(tab, new) /\ NoneLeft(tab, new)
  BY DEF Quiet, Descends, NoneLeft, Alive
<1> QED
  BY <1>1, DescendsIsFamily DEF Quiet

(* One task changes, but in neither of these ways.                         *)
LEMMA OneQuiet ==
  ASSUME NEW tab \in Table, NEW t \in Slot, tab[t] # None, NEW p \in Proc,
         p.pid = tab[t].pid, p.father = tab[t].father,
         p.at \in {"exiting", "zombie"} => ~Alive(tab, t)
  PROVE  Quiet(tab, [tab EXCEPT ![t] = p])
BY NoneAssumption DEF Quiet, Table, Alive

LEMMA SentQuiet ==
  ASSUME NEW tab \in Table, NEW to, NEW sig \in Signal
  PROVE  Quiet(tab, Sent(tab, to \cap Used(tab), sig))
<1> DEFINE new == Sent(tab, to \cap Used(tab), sig)
<1>1. ASSUME NEW t \in Slot, t \notin to \cap Used(tab)
      PROVE  new[t] = tab[t]
  BY <1>1 DEF Sent
<1>2. ASSUME NEW t \in Slot, t \in to \cap Used(tab)
      PROVE  /\ new[t] \in Proc /\ tab[t] # None
             /\ new[t].pid = tab[t].pid /\ new[t].father = tab[t].father
             /\ new[t].at = tab[t].at
  BY <1>2 DEF Sent, Used, Table, Proc
<1>3. new \in Table
  <2>1. new = [t \in Slot |-> new[t]]
    BY DEF Sent
  <2> QED
    BY <1>1, <1>2, <2>1 DEF Table
<1> QED
  BY <1>1, <1>2, <1>3, NoneAssumption DEF Quiet, Alive

-----------------------------------------------------------------------------
(* A free number.                                                          *)

(* There are more numbers than tasks.                                      *)
LEMMA FreePid ==
  ASSUME NEW tab \in Table
  PROVE  \E p \in Pid : \A t \in Slot : tab[t] # None => tab[t].pid # p
<1> SUFFICES ASSUME \A p \in Pid :
                      \E t \in Slot : tab[t] # None /\ tab[t].pid = p
             PROVE  FALSE
  OBVIOUS
<1> DEFINE g == [p \in Pid |-> CHOOSE t \in Slot : tab[t].pid = p]
<1>1. ASSUME NEW p \in Pid
      PROVE  g[p] \in Slot /\ tab[g[p]].pid = p
  OBVIOUS
<1>2. IsFiniteSet(Slot) /\ Cardinality(Slot) = NrTasks - 1
  BY TasksAssumption, FS_Interval DEF Slot
<1>3. IsFiniteSet(Pid) /\ Cardinality(Pid) = MaxPid
  BY TasksAssumption, PidAssumption, FS_Interval DEF Pid
<1>4. Cardinality(Slot) < Cardinality(Pid)
  BY <1>2, <1>3, TasksAssumption, PidAssumption
<1>5. g \in [Pid -> Slot]
  BY <1>1
<1>6. \E p, q \in Pid : p # q /\ g[p] = g[q]
  <2> HIDE DEF g
  <2> QED
    BY <1>2, <1>3, <1>4, <1>5, FS_PigeonHole
<1> QED
  BY <1>1, <1>6

(* find_empty_process() finds such a number.                               *)
LEMMA NextPidIsFree ==
  ASSUME NEW tab \in Table, last_pid \in Pid
  PROVE  /\ NextPid(tab) \in Pid
         /\ \A t \in Slot : tab[t] # None => tab[t].pid # NextPid(tab)
<1> DEFINE free == Pid \ {tab[t].pid : t \in Used(tab)}
           Distance(p) == (p + MaxPid - last_pid - 1) % MaxPid
           D == {Distance(p) : p \in free}
<1>1. free # {}
  BY FreePid DEF Used
<1>2. \A p \in free : Distance(p) \in Nat
  BY TasksAssumption, PidAssumption DEF Pid
<1>3. Min(D) \in D /\ \A d \in D : Min(D) <= d
  <2>1. D \in SUBSET Nat /\ D # {}
    BY <1>1, <1>2
  <2> HIDE DEF D
  <2> QED
    BY <2>1, MinIn
<1>4. \E p \in free : \A q \in free : Distance(p) <= Distance(q)
  <2>1. PICK p \in free : Min(D) = Distance(p)
    BY <1>3
  <2>2. ASSUME NEW q \in free
        PROVE  Distance(p) <= Distance(q)
    <3>1. Distance(q) \in D
      OBVIOUS
    <3> QED
      BY <2>1, <3>1, <1>3
  <2> QED
    BY <2>2
<1>5. NextPid(tab) \in free
  <2>1. NextPid(tab) = CHOOSE p \in free : \A q \in free : Distance(p) <= Distance(q)
    BY DEF NextPid
  <2> HIDE DEF free, Distance
  <2> QED
    BY <2>1, <1>4
<1> QED
  BY <1>5 DEF Used

-----------------------------------------------------------------------------
(* The end of a task.                                                      *)

(* Who changes only in what a family is not about, or dies childless.      *)
LEMMA OneDescends ==
  ASSUME NEW tab, Family(tab), NEW t \in Slot, tab[t] # None,
         NEW p \in Proc \cup {None},
         p # None => p.pid = tab[t].pid /\ p.father = tab[t].father,
         ~Alive(tab, t)
  PROVE  Family([tab EXCEPT ![t] = p])
<1> DEFINE new == [tab EXCEPT ![t] = p]
<1>1. new \in Table
  BY DEF Family, Table
<1>2. \A u \in Slot : new[u] = IF u = t THEN p ELSE tab[u]
  BY DEF Family, Table
<1>3. Descends(tab, new)
  BY <1>2 DEF Descends
<1>4. NoneLeft(tab, new)
  BY <1>2 DEF NoneLeft, Alive
<1> HIDE DEF new
<1> QED
  BY <1>1, <1>3, <1>4, DescendsIsFamily DEF new

(* do_exit() leaves no child behind.                                       *)
LEMMA DoExitIsFamily ==
  ASSUME NEW tab, Family(tab), NEW t \in Slot, Alive(tab, t)
  PROVE  Family(DoExit(tab, t))
<1> DEFINE mine == {c \in Used(tab) : tab[c].father = tab[t].pid}
           moved == [c \in Slot |-> IF c \in mine
                       THEN [tab[c] EXCEPT !.father = 1] ELSE tab[c]]
           re == Reparented(tab, t)
           new == DoExit(tab, t)
<1>0. tab \in Table
  BY DEF Family
<1>1. ASSUME NEW c \in Slot
      PROVE  /\ moved[c] \in Proc \cup {None}
             /\ moved[c] = None <=> tab[c] = None
             /\ moved[c] # None =>
                  /\ moved[c].pid = tab[c].pid /\ moved[c].at = tab[c].at
                  /\ moved[c].father = IF tab[c].father = tab[t].pid THEN 1
                                       ELSE tab[c].father
  <2>1. CASE c \in mine
    <3>1. tab[c] \in Proc
      BY <2>1, <1>0 DEF Used, Table
    <3>2. moved[c] = [tab[c] EXCEPT !.father = 1]
      BY <2>1
    <3>3. 1 \in Pid
      BY TasksAssumption, PidAssumption DEF Pid
    <3>4. moved[c] \in Proc
      BY <3>1, <3>2, <3>3 DEF Proc
    <3> QED
      BY <2>1, <3>1, <3>2, <3>4, NoneAssumption DEF Proc
  <2>2. CASE c \notin mine
    BY <2>2, <1>0 DEF Used, Table
  <2> QED
    BY <2>1, <2>2
<1>2. moved \in Table
  <2>1. moved = [c \in Slot |-> moved[c]]
    OBVIOUS
  <2> QED
    BY <1>1, <2>1 DEF Table
<1>3. Used(moved) = Used(tab)
  BY <1>1 DEF Used
<1>4. re = moved \/ re = Sent(moved, {1} \cap Used(moved), SIGCHLD)
  BY <1>3 DEF Reparented
<1>5. ASSUME NEW c \in Slot
      PROVE  /\ re[c] \in Proc \cup {None}
             /\ re[c] = None <=> moved[c] = None
             /\ re[c] # None => /\ re[c].pid = moved[c].pid
                                /\ re[c].father = moved[c].father
                                /\ Alive(moved, c) => Alive(re, c)
  <2>1. CASE re = moved
    BY <2>1, <1>1
  <2>2. CASE re = Sent(moved, {1} \cap Used(moved), SIGCHLD)
    <3>1. SIGCHLD \in Signal
      BY SignalAssumption
    <3> HIDE DEF moved, re
    <3>2. Quiet(moved, re)
      BY <2>2, <3>1, <1>2, SentQuiet
    <3> QED
      BY <3>2 DEF Quiet, Table
  <2> QED
    BY <1>4, <2>1, <2>2
<1>6. re \in Table
  <2> HIDE DEF mine, moved
  <2>1. re = [c \in Slot |-> re[c]]
    <3>1. moved = [c \in Slot |-> moved[c]]
      BY <1>2 DEF Table
    <3> QED
      BY <3>1, <1>4 DEF Sent
  <2> QED
    BY <1>5, <2>1 DEF Table
<1>7. re[t] \in Proc
  BY <1>5, <1>1, <1>0 DEF Alive
<1> HIDE DEF mine, moved
<1>8. new = [re EXCEPT ![t] = [re[t] EXCEPT !.at = "exiting", !.want = 0]]
  BY <1>6 DEF DoExit, Table
<1> HIDE DEF re, new
<1>9. [re[t] EXCEPT !.at = "exiting", !.want = 0] \in Proc
  <2>1. 0 \in -MaxPid..MaxPid
    BY TasksAssumption, PidAssumption
  <2> QED
    BY <1>7, <2>1 DEF Proc
<1>10. ASSUME NEW c \in Slot
       PROVE  /\ c # t => new[c] = re[c]
              /\ c = t => new[c] \in Proc /\ new[c].pid = re[c].pid
                          /\ new[c].father = re[c].father
  BY <1>6, <1>7, <1>8, <1>9 DEF Table, Proc
<1>11. new \in Table
  BY <1>6, <1>8, <1>9 DEF Table
<1>12. Descends(tab, new)
  BY <1>1, <1>5, <1>7, <1>10, NoneAssumption DEF Descends
<1>13. NoneLeft(tab, new)
  <2> SUFFICES ASSUME NEW f \in Slot, Alive(tab, f)
               PROVE  \/ Alive(new, f)
                      \/ \A c \in Slot :
                           new[c] # None /\ new[c].father = tab[f].pid
                             => new[c].father = 1
    BY DEF NoneLeft
  <2>1. CASE f # t
    BY <2>1, <1>1, <1>5, <1>10 DEF Alive
  <2>2. CASE f = t
    BY <2>2, <1>1, <1>5, <1>7, <1>10, NoneAssumption
  <2> QED
    BY <2>1, <2>2
<1> QED
  BY <1>11, <1>12, <1>13, DescendsIsFamily DEF new

(* tell_father() tells a task there is, or takes the dead one away.        *)
LEMMA ToldFatherIsFamily ==
  ASSUME NEW tab, Family(tab), NEW t \in Slot, tab[t] # None, ~Alive(tab, t)
  PROVE  Family(ToldFather(tab, t))
<1> DEFINE father == {p \in Used(tab) : tab[p].pid = tab[t].father}
<1>1. CASE father = {}
  <2>1. ToldFather(tab, t) = [tab EXCEPT ![t] = None]
    BY <1>1 DEF ToldFather
  <2>2. None \in Proc \cup {None}
    OBVIOUS
  <2>3. Family([tab EXCEPT ![t] = None])
    BY <2>2, OneDescends
  <2> QED
    BY <2>1, <2>3
<1>2. CASE father # {}
  <2>1. ToldFather(tab, t) = Sent(tab, {Min(father)}, SIGCHLD)
    BY <1>2 DEF ToldFather
  <2>2. father \in SUBSET Nat
    BY DEF Used, Slot
  <2>3. Min(father) \in father
    <3> HIDE DEF father
    <3> QED
      BY <1>2, <2>2, MinIn
  <2>4. {Min(father)} = {Min(father)} \cap Used(tab)
    BY <2>3
  <2>5. SIGCHLD \in Signal
    BY SignalAssumption
  <2> HIDE DEF father
  <2>6. Quiet(tab, ToldFather(tab, t))
    BY <2>1, <2>4, <2>5, SentQuiet DEF Family
  <2> QED
    BY <2>6, QuietIsFamily
<1> QED
  BY <1>1, <1>2

-----------------------------------------------------------------------------
(* Steps of one task.                                                      *)

LEMMA OneIsFamily ==
  ASSUME Family(task), NEW t \in Slot, task[t] # None, NEW p \in Proc,
         p.pid = task[t].pid, p.father = task[t].father,
         p.at \in {"exiting", "zombie"} => ~Alive(task, t)
  PROVE  Family([task EXCEPT ![t] = p])
BY OneQuiet, QuietIsFamily DEF Family

LEMMA SentIsFamily ==
  ASSUME Family(task), NEW to \in SUBSET Used(task), NEW sig \in Signal
  PROVE  Family(Sent(task, to, sig))
<1>1. to = to \cap Used(task)
  OBVIOUS
<1>2. Quiet(task, Sent(task, to, sig))
  BY <1>1, SentQuiet DEF Family
<1> QED
  BY <1>2, QuietIsFamily

(* Everybody's step to another place, with other signals.                  *)
LEMMA MoveIsFamily ==
  ASSUME Family(task), NEW t \in Slot, Alive(task, t),
         NEW place \in {"user", "pause", "waitpid", "woken"},
         NEW want \in -MaxPid..MaxPid, NEW sigs \in SUBSET Signal
  PROVE  /\ Family([task EXCEPT ![t].at = place])
         /\ Family([task EXCEPT ![t].at = place, ![t].want = want,
                                ![t].signal = sigs])
<1>1. task[t] \in Proc
  BY DEF Family, Table, Alive
<1>2. [task[t] EXCEPT !.at = place] \in Proc
  BY <1>1 DEF Proc
<1>3. [task[t] EXCEPT !.at = place, !.want = want, !.signal = sigs] \in Proc
  BY <1>1 DEF Proc
<1>4. Family([task EXCEPT ![t] = [task[t] EXCEPT !.at = place]])
  BY <1>1, <1>2, OneIsFamily DEF Proc, Alive
<1>5. Family([task EXCEPT ![t] = [task[t] EXCEPT !.at = place, !.want = want,
                                                 !.signal = sigs]])
  BY <1>1, <1>3, OneIsFamily DEF Proc, Alive
<1> QED
  BY <1>4, <1>5 DEF Family, Table

(* A look of waitpid() at its children.                                    *)
LEMMA ScanIsFamily ==
  ASSUME Family(task), NEW t \in Slot, Alive(task, t),
         NEW want \in -MaxPid..MaxPid, NEW sigs \in SUBSET Signal,
         Scan(t, want, sigs)
  PROVE  Family(task')
<1> DEFINE children == Children(t, want)
           zombies == {c \in children : task[c].at = "zombie"}
           back == [task EXCEPT ![t].at = "user", ![t].want = 0,
                                ![t].signal = sigs]
<1>0. 0 \in -MaxPid..MaxPid /\ want \in -MaxPid..MaxPid
  BY TasksAssumption, PidAssumption
<1>1. Family(back)
  BY <1>0, MoveIsFamily
<1>2. task \in Table
  BY DEF Family
<1>3. CASE zombies # {}
  <2>1. zombies \in SUBSET Slot
    BY DEF Children, Used
  <2>2. Max(zombies) \in zombies
    <3> HIDE DEF zombies
    <3> QED
      BY <1>3, <2>1, MaxSlot
  <2> DEFINE z == Max(zombies)
  <2>3. z \in Slot /\ z # t /\ task[z] # None /\ task[z].at = "zombie"
    BY <2>2 DEF Children, Used
  <2>4. task' = [back EXCEPT ![z] = None]
    BY <1>3 DEF Scan
  <2> HIDE DEF z
  <2>5. back[z] = task[z]
    BY <1>2, <2>3 DEF Table
  <2> HIDE DEF back
  <2> QED
    BY <1>1, <2>3, <2>4, <2>5, OneDescends DEF Alive
<1>4. CASE zombies = {} /\ children = {}
  <2>1. task' = back
    BY <1>4 DEF Scan
  <2> QED
    BY <1>1, <2>1
<1>5. CASE zombies = {} /\ children # {}
  <2> DEFINE place == IF Wakes(back[t]) THEN "woken" ELSE "waitpid"
  <2>1. task' = [back EXCEPT ![t].at = place, ![t].want = want]
    BY <1>5 DEF Scan
  <2>2. place \in {"user", "pause", "waitpid", "woken"}
    OBVIOUS
  <2>3. task' = [task EXCEPT ![t].at = place, ![t].want = want,
                             ![t].signal = sigs]
    <3> HIDE DEF place
    <3>1. back[t] = [task[t] EXCEPT !.at = "user", !.want = 0, !.signal = sigs]
      BY <1>2 DEF Table
    <3>2. task[t] \in Proc
      BY <1>2 DEF Table, Alive
    <3>3. [back[t] EXCEPT !.at = place, !.want = want]
          = [task[t] EXCEPT !.at = place, !.want = want, !.signal = sigs]
      BY <3>1, <3>2 DEF Proc
    <3>4. task' = [back EXCEPT ![t] = [back[t] EXCEPT !.at = place,
                                                      !.want = want]]
      BY <2>1, <1>2 DEF Table
    <3>5. back = [task EXCEPT ![t] = back[t]]
      BY <1>2, <3>1 DEF Table
    <3> HIDE DEF back
    <3> QED
      BY <3>3, <3>4, <3>5, <1>2 DEF Table
  <2> HIDE DEF place
  <2> QED
    BY <2>2, <2>3, <1>0, MoveIsFamily
<1> QED
  BY <1>3, <1>4, <1>5

(* A new child has a number of its own, and its father is at work.         *)
LEMMA ForkIsFamily ==
  ASSUME Family(task), last_pid \in Pid, NEW t \in Slot, Fork(t)
  PROVE  Family(task') /\ last_pid' \in Pid
<1> DEFINE empty == Slot \ Used(task)
           pid == NextPid(task)
           c == Min(empty)
           child == Child(task[t], pid)
<1>0. task \in Table
  BY DEF Family
<1>1. pid \in Pid /\ \A u \in Slot : task[u] # None => task[u].pid # pid
  BY <1>0, NextPidIsFree
<1>2. last_pid' \in Pid
  BY <1>1 DEF Fork
<1>3. CASE UNCHANGED task
  BY <1>2, <1>3
<1>4. CASE empty # {} /\ task' = [task EXCEPT ![c] = child]
  <2>1. c \in Slot /\ task[c] = None
    <3>1. empty \in SUBSET Nat
      BY DEF Slot
    <3>2. c \in empty
      <4> HIDE DEF empty
      <4> QED
        BY <1>4, <3>1, MinIn
    <3> QED
      BY <3>2 DEF Used
  <2>2. Alive(task, t) /\ task[t] \in Proc
    BY <1>0 DEF Fork, At, Alive, Table
  <2>3. c # t
    BY <2>1, <2>2 DEF Alive
  <2> HIDE DEF pid
  <2>4. child \in Proc /\ child.pid = pid /\ child.father = task[t].pid
    BY <1>1, <2>2 DEF Child, Proc
  <2> HIDE DEF empty, c, child
  <2>5. \A u \in Slot : task'[u] = IF u = c THEN child ELSE task[u]
    BY <1>0, <1>4, <2>1 DEF Table
  <2>6. task' \in Table
    BY <1>0, <1>4, <2>1, <2>4 DEF Table
  <2>7. Distinct(task')
    BY <1>1, <2>4, <2>5 DEF Family, Distinct
  <2>8. \A u \in Slot : Alive(task, u) => Alive(task', u) /\ task'[u] = task[u]
    BY <2>1, <2>5 DEF Alive
  <2>9. ASSUME NEW u \in Slot, task'[u] # None
        PROVE  \/ u = 1 /\ task'[u].father = 0
               \/ task'[u].father = 1
               \/ \E f \in Slot : Alive(task', f) /\ task'[f].pid = task'[u].father
    <3>1. CASE u = c
      <4>1. task'[u].father = task[t].pid
        BY <3>1, <2>4, <2>5
      <4> QED
        BY <4>1, <2>2, <2>8
    <3>2. CASE u # c
      <4>1. task'[u] = task[u]
        BY <3>2, <2>5
      <4> QED
        BY <4>1, <2>8, <2>9 DEF Family, Fathered
    <3> QED
      BY <3>1, <3>2
  <2>10. Fathered(task')
    BY <2>9 DEF Fathered
  <2> QED
    BY <1>2, <2>6, <2>7, <2>10 DEF Family
<1> QED
  BY <1>3, <1>4 DEF Fork

(* Whatever a signal does, a family is left.                               *)
LEMMA DeliverIsFamily ==
  ASSUME Family(task), NEW t \in Slot, Deliver(t)
  PROVE  Family(task')
<1> DEFINE p == task[t]
           sig == Min(Deliverable(p))
           sa == p.sigaction[sig]
           taken == [task EXCEPT ![t].signal = @ \ {sig}]
           less == [p EXCEPT !.signal = @ \ {sig}]
<1>0. task \in Table /\ Alive(task, t) /\ p \in Proc
  BY DEF Family, Table, Deliver, At, Alive
<1>1. sig \in Signal
  <2>1. Deliverable(p) \in SUBSET Signal /\ Deliverable(p) # {}
    BY <1>0 DEF Deliver, Deliverable, Proc
  <2>2. Signal \subseteq Nat
    <3>1. Signal \subseteq 1..32
      BY SignalAssumption
    <3> QED
      BY <3>1
  <2> HIDE DEF p
  <2>3. sig \in Deliverable(p)
    <3>1. Deliverable(p) \in SUBSET Nat
      BY <2>1, <2>2
    <3> QED
      BY <2>1, <3>1, MinIn
  <2> QED
    BY <2>1, <2>3
<1>2. taken = [task EXCEPT ![t] = less]
  BY <1>0 DEF Table
<1> HIDE DEF sig, taken
<1>3. less \in Proc /\ less.pid = p.pid /\ less.father = p.father
      /\ less.at = p.at /\ less.sigaction = p.sigaction
  BY <1>0 DEF Proc
<1> HIDE DEF less
<1>4. Family(taken) /\ Alive(taken, t) /\ taken[t] = less
  <2>1. Family(taken)
    BY <1>0, <1>2, <1>3, OneIsFamily DEF Alive
  <2>2. taken[t] = less
    BY <1>0, <1>2 DEF Table
  <2> QED
    BY <2>1, <2>2, <1>0, <1>3, NoneAssumption DEF Alive
<1>5. CASE task' = taken
  BY <1>4, <1>5
<1>6. CASE task' = DoExit(taken, t)
  BY <1>4, <1>6, DoExitIsFamily
<1>7. CASE task' = [taken EXCEPT
                     ![t].blocked = @ \cup sa.mask,
                     ![t].sigaction[sig].handler =
                        IF sa.oneshot THEN "default" ELSE @]
  <2> DEFINE q == [less EXCEPT
                     !.blocked = @ \cup sa.mask,
                     !.sigaction[sig].handler =
                        IF sa.oneshot THEN "default" ELSE @]
  <2>1. sa \in Disposition
    BY <1>0, <1>1 DEF Proc
  <2>2. [sa EXCEPT !.handler = IF sa.oneshot THEN "default" ELSE @] \in Disposition
    BY <2>1 DEF Disposition
  <2>3. less.sigaction[sig] = sa
    BY <1>3
  <2>4. sa.mask \subseteq Signal
    BY <2>1 DEF Disposition
  <2> DEFINE sb == [sa EXCEPT !.handler = IF sa.oneshot THEN "default" ELSE @]
  <2>5. q = [less EXCEPT !.blocked = @ \cup sa.mask,
                         !.sigaction = [@ EXCEPT ![sig] = sb]]
    BY <1>1, <1>3, <2>3 DEF Proc
  <2>6. [less.sigaction EXCEPT ![sig] = sb] \in [Signal -> Disposition]
    BY <1>1, <1>3, <2>2 DEF Proc
  <2> HIDE DEF sb, sa
  <2>7. [less EXCEPT !.blocked = @ \cup sa.mask,
                     !.sigaction = [@ EXCEPT ![sig] = sb]] \in Proc
    BY <1>3, <2>4, <2>6 DEF Proc
  <2>8. q \in Proc /\ q.pid = p.pid /\ q.father = p.father /\ q.at = p.at
    BY <2>5, <2>7, <1>3 DEF Proc
  <2>9. task' = [taken EXCEPT ![t] = q]
    BY <1>7, <1>4 DEF Family, Table
  <2> HIDE DEF q
  <2>10. task' = [task EXCEPT ![t] = q]
    BY <2>9, <1>0, <1>2 DEF Table
  <2> QED
    BY <2>8, <2>10, <1>0, OneIsFamily DEF Alive
<1> QED
  BY <1>5, <1>6, <1>7 DEF Deliver, sig, taken

(* A task's step that is not about its family.                             *)
LEMMA OwnStep ==
  ASSUME Family(task), NEW t \in Slot, At(t, "user"), NEW q \in Proc,
         q.pid = task[t].pid, q.father = task[t].father, q.at = "user"
  PROVE  Family([task EXCEPT ![t] = q])
BY OneIsFamily DEF At

LEMMA UserCallIsFamily ==
  ASSUME Family(task), NEW t \in Slot, UserCall(t)
  PROVE  Family(task')
<1>0. task \in Table
  BY DEF Family
<1>proc. ASSUME NEW u \in Slot, task[u] # None
      PROVE  task[u] \in Proc
  BY <1>0, <1>proc DEF Table
<1>alive. ASSUME At(t, "user")
      PROVE  Alive(task, t) /\ t \in Used(task)
  BY <1>alive DEF At, Alive, Used
<1>zero. 0 \in -MaxPid..MaxPid
  BY TasksAssumption, PidAssumption
<1>1. CASE Pause(t)
  <2>1. At(t, "user") /\ task' = [task EXCEPT ![t].at = "pause"]
    BY <1>1 DEF Pause
  <2>2. Family([task EXCEPT ![t].at = "pause"])
    BY <2>1, <1>alive, <1>zero, MoveIsFamily
  <2> QED
    BY <2>1, <2>2
<1>2. CASE Setsid(t)
  <2> DEFINE q == [task[t] EXCEPT !.leader = TRUE, !.session = task[t].pid,
                                  !.pgrp = task[t].pid]
  <2>1. At(t, "user") /\ task' = [task EXCEPT ![t] = q]
    BY <1>2, <1>0 DEF Setsid, Table
  <2>2. q \in Proc /\ q.pid = task[t].pid /\ q.father = task[t].father
        /\ q.at = "user"
    BY <2>1, <1>proc DEF Proc, At
  <2> HIDE DEF q
  <2> QED
    BY <2>1, <2>2, OwnStep
<1>3. CASE Exit(t)
  BY <1>3, <1>alive, DoExitIsFamily DEF Exit
<1>4. CASE Execve(t)
  <2> DEFINE h == [s \in Signal |->
                     [task[t].sigaction[s] EXCEPT !.handler = "default"]]
             q == [task[t] EXCEPT !.sigaction = h]
  <2>1. At(t, "user") /\ task' = [task EXCEPT ![t] = q]
    BY <1>4, <1>0 DEF Execve, Table
  <2>2. task[t] \in Proc /\ task[t].at = "user"
    BY <2>1, <1>proc DEF At
  <2>3. ASSUME NEW s \in Signal
        PROVE  [task[t].sigaction[s] EXCEPT !.handler = "default"] \in Disposition
    <3>1. task[t].sigaction[s] \in Disposition
      BY <2>2 DEF Proc
    <3> QED
      BY <3>1 DEF Disposition
  <2>4. h \in [Signal -> Disposition]
    BY <2>3
  <2> HIDE DEF h
  <2>5. q \in Proc /\ q.pid = task[t].pid /\ q.father = task[t].father
        /\ q.at = "user"
    BY <2>2, <2>4 DEF Proc
  <2> HIDE DEF q
  <2> QED
    BY <2>1, <2>5, OwnStep
<1>5. CASE \E want \in Number : Waitpid(t, want)
  <2>1. PICK want \in Number : Waitpid(t, want)
    BY <1>5
  <2>2. At(t, "user") /\ Scan(t, want, task[t].signal)
    BY <2>1 DEF Waitpid
  <2>3. task[t].signal \in SUBSET Signal
    BY <2>2, <1>proc DEF At, Proc
  <2>4. want \in -MaxPid..MaxPid
    BY NumberAssumption
  <2> QED
    BY <2>2, <2>3, <2>4, <1>alive, ScanIsFamily
<1>6. CASE \E pid \in Number, sig \in Signal : Kill(t, pid, sig)
  <2>1. PICK pid \in Number, sig \in Signal : Kill(t, pid, sig)
    BY <1>6
  <2>2. At(t, "user") /\ task' = Sent(task, KillTargets(t, pid), sig)
    BY <2>1 DEF Kill
  <2>3. Used(task) \in SUBSET Slot /\ Used(task) # {}
    BY <2>2, <1>alive DEF Used
  <2>4. Max(Used(task)) \in Used(task)
    BY <2>3, MaxSlot
  <2>5. KillTargets(t, pid) \in SUBSET Used(task)
    BY <2>4 DEF KillTargets
  <2> QED
    BY <2>2, <2>5, SentIsFamily
<1>7. CASE \E pid, pgid \in Number \cap Pid : Setpgid(t, pid, pgid)
  <2>1. PICK pid \in Number \cap Pid, pgid \in Number \cap Pid :
          Setpgid(t, pid, pgid)
    BY <1>7
  <2> DEFINE u == CHOOSE p \in Used(task) : task[p].pid = pid
             q == [task[u] EXCEPT !.pgrp = pgid]
  <2>2. u \in Slot /\ task[u] # None /\ task' = [task EXCEPT ![u].pgrp = pgid]
    BY <2>1 DEF Setpgid, Used
  <2> HIDE DEF u
  <2>3. task[u] \in Proc
    BY <2>2, <1>proc
  <2>4. q \in Proc /\ q.pid = task[u].pid /\ q.father = task[u].father
        /\ q.at = task[u].at
    BY <2>3 DEF Proc
  <2>5. task' = [task EXCEPT ![u] = q]
    BY <2>2, <1>0 DEF Table
  <2> HIDE DEF q
  <2> QED
    BY <2>2, <2>4, <2>5, OneIsFamily DEF Alive
<1>8. CASE \E mask \in Mask : Ssetmask(t, mask)
  <2>1. PICK mask \in Mask : Ssetmask(t, mask)
    BY <1>8
  <2> DEFINE q == [task[t] EXCEPT !.blocked = mask \ {SIGKILL}]
  <2>2. At(t, "user") /\ task' = [task EXCEPT ![t] = q]
    BY <2>1, <1>0 DEF Ssetmask, Table
  <2>3. mask \subseteq Signal
    BY MaskAssumption
  <2>4. q \in Proc /\ q.pid = task[t].pid /\ q.father = task[t].father
        /\ q.at = "user"
    BY <2>2, <2>3, <1>proc DEF Proc, At
  <2> HIDE DEF q
  <2> QED
    BY <2>2, <2>4, OwnStep
<1>9. CASE \E sig \in Signal, sa \in Handler : Sigaction(t, sig, sa)
  <2>1. PICK sig \in Signal, sa \in Handler : Sigaction(t, sig, sa)
    BY <1>9
  <2> DEFINE sb == [sa EXCEPT !.mask = IF sa.nomask THEN {} ELSE @ \cup {sig}]
             h == [task[t].sigaction EXCEPT ![sig] = sb]
             q == [task[t] EXCEPT !.sigaction = h]
  <2>2. sb \in Disposition
    BY HandlerAssumption DEF Disposition
  <2>3. At(t, "user") /\ task' = [task EXCEPT ![t].sigaction[sig] = sb]
    BY <2>1 DEF Sigaction
  <2> HIDE DEF sb
  <2>4. task' = [task EXCEPT ![t] = q]
    BY <2>3, <1>0 DEF Table
  <2>5. task[t] \in Proc /\ task[t].at = "user"
    BY <2>3, <1>proc DEF At
  <2>6. h \in [Signal -> Disposition]
    BY <2>2, <2>5 DEF Proc
  <2> HIDE DEF h
  <2>7. q \in Proc /\ q.pid = task[t].pid /\ q.father = task[t].father
        /\ q.at = "user"
    BY <2>5, <2>6 DEF Proc
  <2> HIDE DEF q
  <2> QED
    BY <2>3, <2>4, <2>7, OwnStep
<1> QED
  BY <1>1, <1>2, <1>3, <1>4, <1>5, <1>6, <1>7, <1>8, <1>9 DEF UserCall

-----------------------------------------------------------------------------
(* Steps that are not of a program.                                        *)

LEMMA ScheduleIsFamily ==
  ASSUME Family(task), Schedule
  PROVE  Family(task')
<1> DEFINE woken == {t \in Sleepers : Wakes(task[t])}
           place(t) == IF task[t].at = "pause" THEN "user" ELSE "woken"
<1>1. task \in Table
  BY DEF Family
<1>2. task' = [t \in Slot |-> IF t \in woken
                                THEN [task[t] EXCEPT !.at = place(t)]
                                ELSE task[t]]
  BY DEF Schedule
<1>3. ASSUME NEW t \in Slot
      PROVE  /\ task'[t] \in Proc \cup {None}
             /\ task'[t] = None <=> task[t] = None
             /\ task'[t] # None => /\ task'[t].pid = task[t].pid
                                   /\ task'[t].father = task[t].father
                                   /\ Alive(task, t) => Alive(task', t)
  <2>1. CASE t \in woken
    <3>1. task[t] \in Proc
      BY <2>1, <1>1 DEF Sleepers, Used, Table
    <3>2. task'[t] = [task[t] EXCEPT !.at = place(t)]
      BY <2>1, <1>2
    <3>3. place(t) \in {"user", "woken"}
      OBVIOUS
    <3> HIDE DEF place
    <3>4. task'[t] \in Proc
      BY <3>1, <3>2, <3>3 DEF Proc
    <3> QED
      BY <3>1, <3>2, <3>3, <3>4, NoneAssumption DEF Alive, Proc
  <2>2. CASE t \notin woken
    BY <2>2, <1>1, <1>2 DEF Table, Alive
  <2> QED
    BY <2>1, <2>2
<1>4. task' \in Table
  <2>1. task' = [t \in Slot |-> task'[t]]
    BY <1>2
  <2> QED
    BY <1>3, <2>1 DEF Table
<1>5. Quiet(task, task')
  BY <1>3, <1>4 DEF Quiet
<1> QED
  BY <1>5, QuietIsFamily

LEMMA ExitDoneIsFamily ==
  ASSUME Family(task), NEW t \in Slot, ExitDone(t)
  PROVE  Family(task')
<1> DEFINE session == {p \in Used(task) : task[p].session = task[t].session}
           hungup == IF task[t].leader THEN Sent(task, session, SIGHUP) ELSE task
           q == [hungup[t] EXCEPT !.at = "zombie"]
           dead == [hungup EXCEPT ![t].at = "zombie"]
<1>1. task[t] # None /\ task[t].at = "exiting"
      /\ task' = ToldFather(dead, t)
  BY DEF ExitDone, At
<1>2. Family(hungup)
  <2>1. SIGHUP \in Signal
    BY SignalAssumption
  <2>2. session \in SUBSET Used(task)
    OBVIOUS
  <2>3. Family(Sent(task, session, SIGHUP))
    BY <2>1, <2>2, SentIsFamily
  <2> QED
    BY <2>3
<1>3. task[t] \in Proc /\ hungup \in Table
  BY <1>1, <1>2 DEF Family, Table
<1>4. hungup[t] \in Proc /\ hungup[t].at = "exiting"
  <2>1. hungup[t] \in {task[t], [task[t] EXCEPT !.signal = @ \cup {SIGHUP}]}
    BY DEF Sent
  <2>2. [task[t] EXCEPT !.signal = @ \cup {SIGHUP}] \in Proc
    BY <1>3, SignalAssumption DEF Proc
  <2> QED
    BY <1>1, <1>3, <2>1, <2>2 DEF Proc
<1> HIDE DEF hungup
<1>5. q \in Proc /\ q.pid = hungup[t].pid /\ q.father = hungup[t].father
      /\ q.at = "zombie"
  BY <1>4 DEF Proc
<1>6. dead = [hungup EXCEPT ![t] = q]
  BY <1>3 DEF Table
<1> HIDE DEF q, dead
<1>7. Family(dead)
  BY <1>2, <1>4, <1>5, <1>6, NoneAssumption, OneDescends DEF Alive
<1>8. dead[t] = q
  BY <1>3, <1>6 DEF Table
<1> QED
  BY <1>1, <1>5, <1>7, <1>8, NoneAssumption, ToldFatherIsFamily DEF Alive

LEMMA WaitpidResumesIsFamily ==
  ASSUME Family(task), NEW t \in Slot, WaitpidResumes(t)
  PROVE  Family(task')
<1> DEFINE sigs == task[t].signal \ {SIGCHLD}
<1>1. task[t] \in Proc /\ Alive(task, t)
  BY DEF Family, Table, WaitpidResumes, At, Alive
<1>2. sigs \in SUBSET Signal /\ task[t].want \in -MaxPid..MaxPid
  BY <1>1 DEF Proc
<1>3. 0 \in -MaxPid..MaxPid
  BY TasksAssumption, PidAssumption
<1>4. CASE Scan(t, task[t].want, sigs)
  BY <1>1, <1>2, <1>4, ScanIsFamily
<1>5. CASE task' = [task EXCEPT ![t].at = "user", ![t].want = 0,
                               ![t].signal = sigs]
  <2> HIDE DEF sigs
  <2>1. Family([task EXCEPT ![t].at = "user", ![t].want = 0,
                            ![t].signal = sigs])
    BY <1>1, <1>2, <1>3, MoveIsFamily
  <2> QED
    BY <2>1, <1>5
<1> QED
  BY <1>4, <1>5 DEF WaitpidResumes

-----------------------------------------------------------------------------
(* Who waits is told.                                                      *)

(* t sleeps in waitpid() for any process or for c, and c is a zombie of    *)
(* his. A task that has the number of an init long gone is left out, as    *)
(* do_exit() tells the first slot of the table.                            *)
Missed(tab, t, c) ==
  /\ tab[t] # None /\ tab[c] # None /\ c # t
  /\ tab[t].at = "waitpid" /\ tab[c].at = "zombie"
  /\ tab[c].father = tab[t].pid
  /\ tab[t].want = -1 \/ (tab[t].want > 0 /\ tab[c].pid = tab[t].want)
  /\ t = 1 \/ tab[t].pid # 1

Told(tab) ==
  \A t, c \in Slot : Missed(tab, t, c) => SIGCHLD \in tab[t].signal

(* Nobody goes to sleep in waitpid() or loses a signal there, and nobody   *)
(* becomes a zombie or another one's zombie.                               *)
StillAsleep(tab, new, t) ==
  new[t] # None /\ new[t].at = "waitpid" =>
    /\ tab[t] # None /\ tab[t].at = "waitpid"
    /\ new[t].pid = tab[t].pid /\ new[t].want = tab[t].want
    /\ tab[t].signal \subseteq new[t].signal

StillDead(tab, new, t) ==
  new[t] # None /\ new[t].at = "zombie" =>
    /\ tab[t] # None /\ tab[t].at = "zombie"
    /\ new[t].pid = tab[t].pid /\ new[t].father = tab[t].father

Calm(tab, new) ==
  \A t \in Slot : StillAsleep(tab, new, t) /\ StillDead(tab, new, t)

LEMMA CalmIsTold ==
  ASSUME NEW tab, NEW new, Told(tab), Calm(tab, new)
  PROVE  Told(new)
<1> SUFFICES ASSUME NEW t \in Slot, NEW c \in Slot, Missed(new, t, c)
             PROVE  SIGCHLD \in new[t].signal
  BY DEF Told
<1>1. StillAsleep(tab, new, t) /\ StillDead(tab, new, c)
  BY DEF Calm
<1>2. Missed(tab, t, c)
  BY <1>1 DEF Missed, StillAsleep, StillDead
<1>3. SIGCHLD \in tab[t].signal
  BY <1>2 DEF Told
<1> QED
  BY <1>1, <1>3 DEF StillAsleep, Missed

(* Only one task changes, and it ends neither asleep in waitpid() nor dead. *)
LEMMA OneCalm ==
  ASSUME NEW tab, NEW new, NEW t \in Slot,
         \A u \in Slot \ {t} : new[u] = tab[u],
         new[t] # None => new[t].at \notin {"waitpid", "zombie"}
  PROVE  Calm(tab, new)
BY DEF Calm, StillAsleep, StillDead

(* Signals only wake.                                                      *)
LEMMA SentCalm ==
  ASSUME NEW tab \in Table, NEW to \in SUBSET Used(tab), NEW sig \in Signal
  PROVE  Calm(tab, Sent(tab, to, sig))
<1> DEFINE new == Sent(tab, to, sig)
<1>1. ASSUME NEW t \in Slot
      PROVE  StillAsleep(tab, new, t) /\ StillDead(tab, new, t)
  <2>1. CASE t \notin to
    BY <2>1 DEF Sent, StillAsleep, StillDead
  <2>2. CASE t \in to
    <3>1. tab[t] \in Proc /\ tab[t] # None
      BY <2>2 DEF Used, Table
    <3>2. new[t] = [tab[t] EXCEPT !.signal = @ \cup {sig}]
      BY <2>2 DEF Sent
    <3> HIDE DEF new
    <3> QED
      BY <3>1, <3>2 DEF StillAsleep, StillDead, Proc
  <2> QED
    BY <2>1, <2>2
<1> QED
  BY <1>1 DEF Calm

(* What do_exit() makes of the children: only init's zombies are new to    *)
(* somebody, and init is told.                                             *)
LEMMA ReparentedIs ==
  ASSUME NEW tab \in Table, NEW t \in Slot, tab[t] # None, NEW c \in Slot
  PROVE  LET re == Reparented(tab, t)
             mine == {d \in Used(tab) : tab[d].father = tab[t].pid}
         IN /\ re[c] = None <=> tab[c] = None
            /\ re[c] # None =>
                 /\ re[c].pid = tab[c].pid /\ re[c].at = tab[c].at
                 /\ re[c].want = tab[c].want
                 /\ tab[c].signal \subseteq re[c].signal
                 /\ re[c].father = IF c \in mine THEN 1 ELSE tab[c].father
                 /\ c = 1 /\ (\E d \in mine : tab[d].at = "zombie")
                      => SIGCHLD \in re[c].signal
<1> DEFINE re == Reparented(tab, t)
           mine == {d \in Used(tab) : tab[d].father = tab[t].pid}
           moved == [d \in Slot |-> IF d \in mine
                       THEN [tab[d] EXCEPT !.father = 1] ELSE tab[d]]
           dead == \E d \in mine : tab[d].at = "zombie"
<1>1. tab[c] \in Proc \cup {None}
  BY DEF Table
<1>2. /\ moved[c] = None <=> tab[c] = None
      /\ moved[c] # None =>
           /\ moved[c] \in Proc
           /\ moved[c].pid = tab[c].pid /\ moved[c].at = tab[c].at
           /\ moved[c].want = tab[c].want
           /\ moved[c].signal = tab[c].signal
           /\ moved[c].father = IF c \in mine THEN 1 ELSE tab[c].father
  <2>1. CASE c \notin mine
    BY <1>1, <2>1
  <2>2. CASE c \in mine
    <3>1. tab[c] \in Proc /\ tab[c] # None
      BY <1>1, <2>2 DEF Used
    <3>2. moved[c] = [tab[c] EXCEPT !.father = 1]
      BY <2>2
    <3>3. 1 \in Pid
      BY TasksAssumption, PidAssumption DEF Pid
    <3> HIDE DEF moved
    <3>4. moved[c] \in Proc
      BY <3>1, <3>2, <3>3 DEF Proc
    <3> QED
      BY <2>2, <3>1, <3>2, <3>4, NoneAssumption DEF Proc
  <2> QED
    BY <2>1, <2>2
<1>3. CASE ~dead
  <2>1. re = moved
    BY <1>3 DEF Reparented
  <2> HIDE DEF moved, mine, dead, re
  <2> QED
    BY <1>2, <1>3, <2>1 DEF mine, dead, re
<1>4. CASE dead
  <2>1. re = Sent(moved, {1} \cap Used(tab), SIGCHLD)
    BY <1>4 DEF Reparented
  <2> HIDE DEF moved, re
  <2>2. CASE c # 1 \/ tab[c] = None
    <3>1. re[c] = moved[c]
      BY <2>1, <2>2 DEF Sent, Used
    <3> QED
      BY <1>2, <2>2, <3>1 DEF re
  <2>3. CASE c = 1 /\ tab[c] # None
    <3>1. re[c] = [moved[c] EXCEPT !.signal = @ \cup {SIGCHLD}]
      BY <2>1, <2>3 DEF Sent, Used
    <3>2. moved[c] \in Proc
      BY <1>2, <2>3
    <3>3. re[c] \in Proc
      BY <3>1, <3>2, SignalAssumption DEF Proc
    <3>4. /\ re[c].pid = moved[c].pid /\ re[c].at = moved[c].at
          /\ re[c].want = moved[c].want /\ re[c].father = moved[c].father
          /\ re[c].signal = moved[c].signal \cup {SIGCHLD}
      BY <3>1, <3>2 DEF Proc
    <3> HIDE DEF mine
    <3> QED
      BY <1>2, <2>3, <3>3, <3>4, NoneAssumption DEF re, mine
  <2> QED
    BY <2>2, <2>3
<1> QED
  BY <1>3, <1>4

(* do_exit() leaves nobody's zombie but to init, who is told.              *)
LEMMA DoExitIsTold ==
  ASSUME NEW tab \in Table, Told(tab), NEW t \in Slot, tab[t] # None
  PROVE  Told(DoExit(tab, t))
<1> DEFINE re == Reparented(tab, t)
           new == DoExit(tab, t)
           mine == {d \in Used(tab) : tab[d].father = tab[t].pid}
<1>1. ASSUME NEW c \in Slot
      PROVE  /\ c # t => new[c] = re[c]
             /\ new[t].at = "exiting"
  <2>1. re[t] # None
    BY ReparentedIs
  <2>2. DOMAIN re = Slot
    BY DEF Reparented, Sent
  <2>3. new = [re EXCEPT ![t].at = "exiting", ![t].want = 0]
    BY DEF DoExit
  <2>4. DOMAIN re[t] = DOMAIN tab[t]
    BY DEF Reparented, Sent, Used
  <2>5. tab[t] \in Proc
    BY DEF Table
  <2> HIDE DEF re, new
  <2>6. \A d \in Slot \ {t} : new[d] = re[d]
    BY <2>2, <2>3
  <2>7. new[t].at = "exiting"
    BY <2>2, <2>3, <2>4, <2>5 DEF Proc
  <2> QED
    BY <2>6, <2>7
<1> SUFFICES ASSUME NEW w \in Slot, NEW c \in Slot, Missed(new, w, c)
             PROVE  SIGCHLD \in new[w].signal
  BY DEF Told
<1> HIDE DEF new
<1>2. w # t /\ c # t
  BY <1>1 DEF Missed
<1>3. new[w] = re[w] /\ new[c] = re[c]
  BY <1>1, <1>2
<1>4. /\ re[w] # None /\ tab[w] # None
      /\ re[w].pid = tab[w].pid /\ re[w].at = tab[w].at
      /\ re[w].want = tab[w].want
      /\ tab[w].signal \subseteq re[w].signal
      /\ w = 1 /\ (\E d \in mine : tab[d].at = "zombie")
           => SIGCHLD \in re[w].signal
  BY <1>3, ReparentedIs DEF Missed
<1>5. /\ re[c] # None /\ tab[c] # None
      /\ re[c].pid = tab[c].pid /\ re[c].at = tab[c].at
      /\ re[c].father = IF c \in mine THEN 1 ELSE tab[c].father
  BY <1>3, ReparentedIs DEF Missed
<1> HIDE DEF re
<1>6. CASE c \notin mine
  <2>1. Missed(tab, w, c)
    BY <1>3, <1>4, <1>5, <1>6 DEF Missed
  <2> QED
    BY <2>1, <1>3, <1>4 DEF Told
<1>7. CASE c \in mine
  <2>1. w = 1 /\ tab[c].at = "zombie"
    BY <1>3, <1>4, <1>5, <1>7 DEF Missed
  <2> QED
    BY <2>1, <1>3, <1>4, <1>7
<1> QED
  BY <1>6, <1>7

(* Before it sleeps, waitpid() sees that there is no zombie.               *)
LEMMA ScanIsTold ==
  ASSUME task \in Table, Told(task), NEW t \in Slot, task[t] # None,
         NEW want, NEW sigs, Scan(t, want, sigs)
  PROVE  Told(task')
<1> DEFINE children == Children(t, want)
           zombies == {c \in children : task[c].at = "zombie"}
           back == [task EXCEPT ![t].at = "user", ![t].want = 0,
                                ![t].signal = sigs]
           place == IF Wakes(back[t]) THEN "woken" ELSE "waitpid"
<1>1. task[t] \in Proc /\ DOMAIN task = Slot
  BY DEF Table
<1>2. \A u \in Slot \ {t} : back[u] = task[u]
  BY <1>1
<1>3. back[t] = [task[t] EXCEPT !.at = "user", !.want = 0, !.signal = sigs]
  BY <1>1
<1>4. /\ back[t].at = "user" /\ back[t].pid = task[t].pid
      /\ DOMAIN back[t] = DOMAIN task[t]
  BY <1>1, <1>3 DEF Proc
<1>5. DOMAIN back = Slot
  BY <1>1
<1>6. CASE zombies # {}
  <2>1. task' = [back EXCEPT ![Max(zombies)] = None]
    BY <1>6 DEF Scan
  <2>2. \A u \in Slot : task'[u] \in {back[u], None}
    <3> HIDE DEF back, zombies
    <3> QED
      BY <1>5, <2>1
  <2> HIDE DEF back
  <2>3. Calm(task, task')
    BY <1>2, <1>4, <2>2 DEF Calm, StillAsleep, StillDead
  <2> QED
    BY <2>3, CalmIsTold
<1>7. CASE zombies = {} /\ children = {}
  <2>1. task' = back
    BY <1>7 DEF Scan
  <2> HIDE DEF back
  <2> QED
    BY <1>2, <1>4, <2>1, OneCalm, CalmIsTold
<1>8. CASE zombies = {} /\ children # {}
  <2>1. task' = [back EXCEPT ![t].at = place, ![t].want = want]
    BY <1>8 DEF Scan
  <2> HIDE DEF back, place
  <2>2. \A u \in Slot \ {t} : task'[u] = task[u]
    BY <1>2, <1>5, <2>1
  <2>3. task'[t] = [back[t] EXCEPT !.at = place, !.want = want]
    BY <1>5, <2>1
  <2>4. /\ task'[t].at = place /\ task'[t].want = want
        /\ task'[t].pid = task[t].pid
    BY <1>1, <1>4, <2>3 DEF Proc
  <2>5. place # "zombie"
    BY DEF place
  <2> SUFFICES ASSUME NEW w \in Slot, NEW c \in Slot, Missed(task', w, c)
               PROVE  SIGCHLD \in task'[w].signal
    BY DEF Told
  <2>6. c # t
    BY <2>4, <2>5 DEF Missed
  <2>7. task'[c] = task[c]
    BY <2>2, <2>6
  <2>8. CASE w = t
    <3>1. /\ task[c] # None /\ task[c].at = "zombie"
          /\ task[c].father = task[t].pid
          /\ want = -1 \/ (want > 0 /\ task[c].pid = want)
      BY <2>4, <2>7, <2>8 DEF Missed
    <3>2. c \in zombies
      BY <3>1, <2>6 DEF Children, Matches, Used
    <3> QED
      BY <3>2, <1>8
  <2>9. CASE w # t
    <3>1. task'[w] = task[w]
      BY <2>2, <2>9
    <3>2. Missed(task, w, c)
      BY <3>1, <2>7 DEF Missed
    <3> QED
      BY <3>1, <3>2 DEF Told
  <2> QED
    BY <2>8, <2>9
<1> QED
  BY <1>6, <1>7, <1>8

(* The one new zombie's father is told.                                    *)
LEMMA ToldFatherIsTold ==
  ASSUME NEW tab \in Table, Distinct(tab), NEW t \in Slot,
         tab[t] # None, tab[t].at = "zombie",
         \A w, c \in Slot : Missed(tab, w, c) /\ c # t
                            => SIGCHLD \in tab[w].signal
  PROVE  Told(ToldFather(tab, t))
<1> DEFINE father == {p \in Used(tab) : tab[p].pid = tab[t].father}
           new == ToldFather(tab, t)
<1> SUFFICES ASSUME NEW w \in Slot, NEW c \in Slot, Missed(new, w, c)
             PROVE  SIGCHLD \in new[w].signal
  BY DEF Told
<1>1. CASE father = {}
  <2>1. new = [tab EXCEPT ![t] = None]
    BY <1>1 DEF ToldFather
  <2> HIDE DEF new
  <2>2. new[t] = None /\ \A u \in Slot \ {t} : new[u] = tab[u]
    BY <2>1 DEF Table
  <2>3. w # t /\ c # t
    BY <2>2 DEF Missed
  <2>4. new[w] = tab[w] /\ new[c] = tab[c]
    BY <2>2, <2>3
  <2>5. Missed(tab, w, c)
    BY <2>4 DEF Missed
  <2> QED
    BY <2>3, <2>4, <2>5
<1>2. CASE father # {}
  <2> DEFINE f == Min(father)
  <2>1. new = Sent(tab, {f}, SIGCHLD)
    BY <1>2 DEF ToldFather
  <2>2. f \in father
    <3>1. father \in SUBSET Nat
      BY DEF Used, Slot
    <3> HIDE DEF father
    <3> QED
      BY <1>2, <3>1, MinIn
  <2>3. f \in Slot /\ tab[f] # None /\ tab[f].pid = tab[t].father
    BY <2>2 DEF Used
  <2> HIDE DEF f, father
  <2>4. {f} \in SUBSET Used(tab) /\ SIGCHLD \in Signal
    BY <2>3, SignalAssumption DEF Used
  <2>5. Calm(tab, new)
    BY <2>1, <2>4, SentCalm
  <2>6. StillAsleep(tab, new, w) /\ StillDead(tab, new, c)
    BY <2>5 DEF Calm
  <2>7. new[f] = [tab[f] EXCEPT !.signal = @ \cup {SIGCHLD}]
    BY <2>1, <2>3 DEF Sent
  <2>8. SIGCHLD \in new[f].signal
    BY <2>3, <2>7 DEF Table, Proc
  <2> HIDE DEF new
  <2>9. Missed(tab, w, c)
    BY <2>6 DEF Missed, StillAsleep, StillDead
  <2>10. CASE c = t
    <3>1. w = f
      BY <2>3, <2>9, <2>10 DEF Missed, Distinct
    <3> QED
      BY <3>1, <2>8
  <2>11. CASE c # t
    <3>1. SIGCHLD \in tab[w].signal
      BY <2>9, <2>11
    <3> QED
      BY <3>1, <2>6 DEF StillAsleep, Missed
  <2> QED
    BY <2>10, <2>11
<1> QED
  BY <1>1, <1>2

(* SIGHUP for a session changes nothing about this.                       *)
LEMMA ExitDoneIsTold ==
  ASSUME Family(task), Told(task), NEW t \in Slot, ExitDone(t)
  PROVE  Told(task')
<1> DEFINE session == {p \in Used(task) : task[p].session = task[t].session}
           hungup == IF task[t].leader THEN Sent(task, session, SIGHUP) ELSE task
           q == [hungup[t] EXCEPT !.at = "zombie"]
           dead == [hungup EXCEPT ![t].at = "zombie"]
<1>1. task[t] # None /\ task[t].at = "exiting"
      /\ task' = ToldFather(dead, t)
  BY DEF ExitDone, At
<1>2. Family(hungup) /\ Told(hungup)
  <2>1. SIGHUP \in Signal
    BY SignalAssumption
  <2>2. session \in SUBSET Used(task) /\ task \in Table
    BY DEF Family
  <2>3. Family(Sent(task, session, SIGHUP))
    BY <2>1, <2>2, SentIsFamily
  <2>4. Calm(task, Sent(task, session, SIGHUP))
    BY <2>1, <2>2, SentCalm
  <2>5. Told(Sent(task, session, SIGHUP))
    BY <2>4, CalmIsTold
  <2> HIDE DEF session
  <2> QED
    BY <2>3, <2>5
<1>3. task[t] \in Proc /\ hungup \in Table
  BY <1>1, <1>2 DEF Family, Table
<1>4. hungup[t] \in Proc /\ hungup[t].at = "exiting"
  <2>1. hungup[t] \in {task[t], [task[t] EXCEPT !.signal = @ \cup {SIGHUP}]}
    BY DEF Sent
  <2>2. [task[t] EXCEPT !.signal = @ \cup {SIGHUP}] \in Proc
    BY <1>3, SignalAssumption DEF Proc
  <2> QED
    BY <1>1, <1>3, <2>1, <2>2 DEF Proc
<1> HIDE DEF hungup
<1>5. q \in Proc /\ q.pid = hungup[t].pid /\ q.father = hungup[t].father
      /\ q.at = "zombie"
  BY <1>4 DEF Proc
<1>6. dead = [hungup EXCEPT ![t] = q]
  BY <1>3 DEF Table
<1> HIDE DEF q, dead
<1>7. Family(dead)
  BY <1>2, <1>4, <1>5, <1>6, NoneAssumption, OneDescends DEF Alive
<1>8. dead[t] = q /\ \A u \in Slot \ {t} : dead[u] = hungup[u]
  BY <1>3, <1>6 DEF Table
<1>9. ASSUME NEW w \in Slot, NEW c \in Slot, Missed(dead, w, c), c # t
      PROVE  SIGCHLD \in dead[w].signal
  <2>1. w # t
    BY <1>5, <1>8, <1>9 DEF Missed
  <2>2. dead[w] = hungup[w] /\ dead[c] = hungup[c]
    BY <1>8, <1>9, <2>1
  <2>3. Missed(hungup, w, c)
    BY <1>9, <2>2 DEF Missed
  <2> QED
    BY <1>2, <2>2, <2>3 DEF Told
<1>10. dead \in Table /\ Distinct(dead)
  BY <1>7 DEF Family
<1>11. dead[t] # None /\ dead[t].at = "zombie"
  BY <1>5, <1>8, NoneAssumption
<1>12. Told(ToldFather(dead, t))
  BY <1>9, <1>10, <1>11, ToldFatherIsTold
<1> QED
  BY <1>1, <1>12

(* A child is neither asleep nor dead.                                     *)
LEMMA ForkIsTold ==
  ASSUME task \in Table, Told(task), NEW t \in Slot, Fork(t)
  PROVE  Told(task')
<1> DEFINE empty == Slot \ Used(task)
           c == Min(empty)
           child == Child(task[t], NextPid(task))
<1>1. task[t] \in Proc /\ task[t].at = "user"
  BY DEF Fork, At, Table
<1>2. child.at = "user"
  BY <1>1 DEF Child, Proc
<1>3. CASE UNCHANGED task
  BY <1>3 DEF Told, Missed
<1>4. CASE empty # {} /\ task' = [task EXCEPT ![c] = child]
  <2>1. c \in Slot
    <3>1. empty \in SUBSET Nat
      BY DEF Slot
    <3>2. c \in empty
      <4> HIDE DEF empty
      <4> QED
        BY <1>4, <3>1, MinIn
    <3> QED
      BY <3>2
  <2> HIDE DEF c, child
  <2>2. task'[c].at = "user" /\ \A u \in Slot \ {c} : task'[u] = task[u]
    BY <1>2, <1>4, <2>1 DEF Table
  <2> QED
    BY <2>1, <2>2, OneCalm, CalmIsTold
<1> QED
  BY <1>3, <1>4 DEF Fork

(* Signals are taken only by those who are awake.                          *)
LEMMA DeliverIsTold ==
  ASSUME task \in Table, Told(task), NEW t \in Slot, Deliver(t)
  PROVE  Told(task')
<1> DEFINE p == task[t]
           sig == Min(Deliverable(p))
           sa == p.sigaction[sig]
           taken == [task EXCEPT ![t].signal = @ \ {sig}]
           less == [p EXCEPT !.signal = @ \ {sig}]
<1>1. p \in Proc /\ p # None /\ p.at = "user"
  BY DEF Table, Deliver, At
<1>2. taken = [task EXCEPT ![t] = less]
  BY DEF Table
<1>3. less \in Proc /\ less.at = "user"
  BY <1>1 DEF Proc
<1>4. (\/ task' = taken
       \/ task' = DoExit(taken, t)
       \/ task' = [taken EXCEPT
                     ![t].blocked = @ \cup sa.mask,
                     ![t].sigaction[sig].handler =
                        IF sa.oneshot THEN "default" ELSE @])
  BY DEF Deliver
<1> HIDE DEF sa, sig, less, taken
<1>5. taken \in Table /\ taken[t] = less
      /\ \A u \in Slot \ {t} : taken[u] = task[u]
  BY <1>2, <1>3 DEF Table
<1>6. Told(taken)
  BY <1>3, <1>5, OneCalm, CalmIsTold
<1>7. CASE task' = taken
  BY <1>6, <1>7
<1>8. CASE task' = DoExit(taken, t)
  BY <1>3, <1>5, <1>6, <1>8, NoneAssumption, DoExitIsTold
<1>9. CASE task' = [taken EXCEPT
                      ![t].blocked = @ \cup sa.mask,
                      ![t].sigaction[sig].handler =
                         IF sa.oneshot THEN "default" ELSE @]
  <2>1. task'[t].at = "user" /\ \A u \in Slot \ {t} : task'[u] = taken[u]
    BY <1>3, <1>5, <1>9 DEF Table, Proc
  <2> QED
    BY <1>6, <2>1, OneCalm, CalmIsTold
<1> QED
  BY <1>4, <1>7, <1>8, <1>9

(* Calls change who makes them, or, setpgid(), only the group of another.  *)
LEMMA UserCallIsTold ==
  ASSUME task \in Table, Told(task), NEW t \in Slot, UserCall(t)
  PROVE  Told(task')
<1>own. ASSUME \A u \in Slot \ {t} : task'[u] = task[u],
               task'[t].at \in {"user", "pause"}
        PROVE  Told(task')
  BY <1>own, OneCalm, CalmIsTold
<1>proc. ASSUME NEW u \in Slot, task[u] # None
         PROVE  task[u] \in Proc
  BY <1>proc DEF Table
<1>user. ASSUME At(t, "user")
         PROVE  task[t] \in Proc /\ task[t] # None /\ task[t].at = "user"
  BY <1>user, <1>proc DEF At
<1>1. CASE Pause(t)
  <2>1. At(t, "user") /\ task' = [task EXCEPT ![t].at = "pause"]
    BY <1>1 DEF Pause
  <2>2. task'[t].at = "pause" /\ \A u \in Slot \ {t} : task'[u] = task[u]
    BY <1>user, <2>1 DEF Table, Proc
  <2> QED
    BY <1>own, <2>2
<1>2. CASE Setsid(t)
  <2>1. At(t, "user")
        /\ task' = [task EXCEPT ![t].leader = TRUE,
                                ![t].session = task[t].pid,
                                ![t].pgrp = task[t].pid]
    BY <1>2 DEF Setsid
  <2>2. task'[t].at = "user" /\ \A u \in Slot \ {t} : task'[u] = task[u]
    BY <1>user, <2>1 DEF Table, Proc
  <2> QED
    BY <1>own, <2>2
<1>3. CASE Exit(t)
  BY <1>3, <1>user, DoExitIsTold DEF Exit
<1>4. CASE Execve(t)
  <2>1. PICK h : At(t, "user") /\ task' = [task EXCEPT ![t].sigaction = h]
    <3>1. At(t, "user")
          /\ task' = [task EXCEPT ![t].sigaction =
               [s \in Signal |-> [task[t].sigaction[s] EXCEPT !.handler = "default"]]]
      BY <1>4 DEF Execve, Table
    <3> QED
      BY <3>1
  <2>2. task'[t].at = "user" /\ \A u \in Slot \ {t} : task'[u] = task[u]
    BY <1>user, <2>1 DEF Table, Proc
  <2> QED
    BY <1>own, <2>2
<1>5. CASE \E want \in Number : Waitpid(t, want)
  <2>1. PICK want \in Number : Waitpid(t, want)
    BY <1>5
  <2>2. At(t, "user") /\ Scan(t, want, task[t].signal)
    BY <2>1 DEF Waitpid
  <2> QED
    BY <1>user, <2>2, ScanIsTold
<1>6. CASE \E pid \in Number, sig \in Signal : Kill(t, pid, sig)
  <2>1. PICK pid \in Number, sig \in Signal : Kill(t, pid, sig)
    BY <1>6
  <2>2. At(t, "user") /\ task' = Sent(task, KillTargets(t, pid), sig)
    BY <2>1 DEF Kill
  <2>3. Used(task) \in SUBSET Slot /\ Used(task) # {}
    BY <2>2, <1>user DEF Used
  <2>4. Max(Used(task)) \in Used(task)
    BY <2>3, MaxSlot
  <2>5. KillTargets(t, pid) \in SUBSET Used(task)
    BY <2>4 DEF KillTargets
  <2>6. Calm(task, task')
    BY <2>2, <2>5, SentCalm
  <2> QED
    BY <2>6, CalmIsTold
<1>7. CASE \E pid, pgid \in Number \cap Pid : Setpgid(t, pid, pgid)
  <2>1. PICK pid \in Number \cap Pid, pgid \in Number \cap Pid :
          Setpgid(t, pid, pgid)
    BY <1>7
  <2> DEFINE u == CHOOSE p \in Used(task) : task[p].pid = pid
             q == [task[u] EXCEPT !.pgrp = pgid]
  <2>2. u \in Slot /\ task[u] # None /\ task' = [task EXCEPT ![u].pgrp = pgid]
    BY <2>1 DEF Setpgid, Used
  <2> HIDE DEF u
  <2>3. task[u] \in Proc
    BY <2>2, <1>proc
  <2>4. /\ q.at = task[u].at /\ q.pid = task[u].pid /\ q.want = task[u].want
        /\ q.father = task[u].father /\ q.signal = task[u].signal
    BY <2>3 DEF Proc
  <2>5. task'[u] = q /\ \A v \in Slot \ {u} : task'[v] = task[v]
    BY <2>2 DEF Table
  <2> HIDE DEF q
  <2>6. Calm(task, task')
    BY <2>2, <2>4, <2>5 DEF Calm, StillAsleep, StillDead
  <2> QED
    BY <2>6, CalmIsTold
<1>8. CASE \E mask \in Mask : Ssetmask(t, mask)
  <2>1. PICK mask \in Mask : Ssetmask(t, mask)
    BY <1>8
  <2>2. At(t, "user") /\ task' = [task EXCEPT ![t].blocked = mask \ {SIGKILL}]
    BY <2>1 DEF Ssetmask
  <2>3. task'[t].at = "user" /\ \A u \in Slot \ {t} : task'[u] = task[u]
    BY <1>user, <2>2 DEF Table, Proc
  <2> QED
    BY <1>own, <2>3
<1>9. CASE \E sig \in Signal, sa \in Handler : Sigaction(t, sig, sa)
  <2>1. PICK sig \in Signal, sa \in Handler : Sigaction(t, sig, sa)
    BY <1>9
  <2> DEFINE sb == [sa EXCEPT !.mask = IF sa.nomask THEN {} ELSE @ \cup {sig}]
  <2>2. At(t, "user") /\ task' = [task EXCEPT ![t].sigaction[sig] = sb]
    BY <2>1 DEF Sigaction
  <2> HIDE DEF sb
  <2>3. task'[t].at = "user" /\ \A u \in Slot \ {t} : task'[u] = task[u]
    BY <1>user, <2>2 DEF Table, Proc
  <2> QED
    BY <1>own, <2>3
<1> QED
  BY <1>1, <1>2, <1>3, <1>4, <1>5, <1>6, <1>7, <1>8, <1>9 DEF UserCall

(* Who is woken does not sleep any more.                                   *)
LEMMA ScheduleIsTold ==
  ASSUME task \in Table, Told(task), Schedule
  PROVE  Told(task')
<1> DEFINE woken == {t \in Sleepers : Wakes(task[t])}
           place(t) == IF task[t].at = "pause" THEN "user" ELSE "woken"
<1>1. task' = [t \in Slot |-> IF t \in woken
                                THEN [task[t] EXCEPT !.at = place(t)]
                                ELSE task[t]]
  BY DEF Schedule
<1>2. ASSUME NEW t \in Slot
      PROVE  StillAsleep(task, task', t) /\ StillDead(task, task', t)
  <2>1. CASE t \in woken
    <3>1. task[t] \in Proc
      BY <2>1 DEF Sleepers, Used, Table
    <3>2. task'[t] = [task[t] EXCEPT !.at = place(t)]
      BY <2>1, <1>1
    <3>3. task'[t].at \in {"user", "woken"}
      BY <3>1, <3>2 DEF Proc
    <3> QED
      BY <3>3 DEF StillAsleep, StillDead
  <2>2. CASE t \notin woken
    <3>1. task'[t] = task[t]
      BY <2>2, <1>1
    <3> QED
      BY <3>1 DEF StillAsleep, StillDead
  <2> QED
    BY <2>1, <2>2
<1>3. Calm(task, task')
  BY <1>2 DEF Calm
<1> QED
  BY <1>3, CalmIsTold

-----------------------------------------------------------------------------
(* The theorems.                                                           *)

IInv ==
  /\ Family(task)
  /\ last_pid \in Pid
  /\ calls \in 0..MaxCalls

LEMMA InitIInv ==
  ASSUME Init
  PROVE  IInv
<1>1. 1 \in Slot /\ 1 \in Pid /\ 0 \in -MaxPid..MaxPid
  BY TasksAssumption, PidAssumption DEF Slot, Pid
<1>2. init \in Proc
  <2>1. [s \in Signal |-> Default] \in [Signal -> Disposition]
    BY DEF Default, Disposition
  <2> QED
    BY <1>1, <2>1 DEF init, Proc
<1>3. task = [t \in Slot |-> IF t = 1 THEN init ELSE None]
  BY DEF Init
<1>4. task \in Table
  BY <1>2, <1>3 DEF Table
<1>5. Distinct(task) /\ Fathered(task)
  BY <1>3 DEF Distinct, Fathered, init
<1> QED
  BY <1>1, <1>4, <1>5, CallsAssumption DEF Init, IInv, Family

LEMMA NextIInv ==
  ASSUME IInv, [Next]_vars
  PROVE  IInv'
<1> USE DEF IInv
<1>c. ASSUME Call
      PROVE  calls' \in 0..MaxCalls
  BY <1>c, CallsAssumption DEF Call
<1>1. CASE UNCHANGED vars
  BY <1>1 DEF vars, Family, Distinct, Fathered, Alive
<1>2. CASE Schedule
  BY <1>2, ScheduleIsFamily DEF Schedule
<1>3. CASE InitWaits
  <2>1. 1 \in Slot /\ -1 \in -MaxPid..MaxPid
    BY TasksAssumption, PidAssumption DEF Slot
  <2>2. Alive(task, 1) /\ Scan(1, -1, task[1].signal)
    BY <1>3 DEF InitWaits, Waitpid, At, Alive
  <2>3. task[1].signal \in SUBSET Signal
    BY <2>1, <2>2 DEF Alive, Family, Table, Proc
  <2>4. Family(task')
    BY <2>1, <2>2, <2>3, ScanIsFamily
  <2> QED
    BY <1>3, <2>4 DEF InitWaits, Waitpid
<1>4. ASSUME NEW pgrp \in Number \cap Pid, NEW sig \in Signal, TtyIntr(pgrp, sig)
      PROVE  IInv'
  <2>1. Family(task')
    BY <1>4, SentIsFamily DEF TtyIntr
  <2> QED
    BY <1>4, <1>c, <2>1 DEF TtyIntr
<1>5. ASSUME NEW t \in Slot, Fork(t)
      PROVE  IInv'
  BY <1>5, <1>c, ForkIsFamily DEF Fork
<1>6. ASSUME NEW t \in Slot, UserCall(t)
      PROVE  IInv'
  <2>1. Family(task')
    BY <1>6, UserCallIsFamily
  <2>2. UNCHANGED last_pid /\ (UNCHANGED calls \/ Call)
    BY <1>6 DEF UserCall, Pause, Setsid, Exit, Execve, Waitpid, Kill, Setpgid,
                Ssetmask, Sigaction
  <2> QED
    BY <1>c, <2>1, <2>2
<1>7. ASSUME NEW t \in Slot, Deliver(t)
      PROVE  IInv'
  BY <1>7, DeliverIsFamily DEF Deliver
<1>8. ASSUME NEW t \in Slot, ExitDone(t)
      PROVE  IInv'
  BY <1>8, ExitDoneIsFamily DEF ExitDone
<1>9. ASSUME NEW t \in Slot, WaitpidResumes(t)
       PROVE  IInv'
  BY <1>9, WaitpidResumesIsFamily DEF WaitpidResumes
<1> QED
  BY <1>1, <1>2, <1>3, <1>4, <1>5, <1>6, <1>7, <1>8, <1>9 DEF Next

LEMMA Inductive == Spec => []IInv
<1>1. Init => IInv
  BY InitIInv
<1>2. IInv /\ [Next]_vars => IInv'
  BY NextIInv
<1> QED
  BY <1>1, <1>2, PTL DEF Spec

(* The table of tasks and the numbers stay what they are.                  *)
THEOREM TypeCorrect == Spec => []TypeOK
<1>1. IInv => TypeOK
  BY DEF IInv, TypeOK, Family, Table
<1> QED
  BY <1>1, Inductive, PTL

(* While init lives, and however numbers are used again, every task has a  *)
(* number of its own and a father who can still wait for it.               *)
THEOREM FamilyIsIntact == Spec => []FamilyIntact
<1>1. IInv => FamilyIntact
  <2> SUFFICES ASSUME IInv, InitLives, NEW t \in Used(task)
               PROVE  /\ \A u \in Used(task) \ {t} : task[u].pid # task[t].pid
                      /\ t # 1 => \E f \in Slot : Living(f)
                                        /\ task[f].pid = task[t].father
    BY DEF FamilyIntact
  <2>1. \A u \in Used(task) \ {t} : task[u].pid # task[t].pid
    BY DEF IInv, Family, Distinct, Used
  <2>2. Living(1) /\ task[1].pid = 1 /\ 1 \in Slot
    BY TasksAssumption DEF InitLives, Living, Slot
  <2>3. t # 1 => \E f \in Slot : Living(f) /\ task[f].pid = task[t].father
    BY <2>2 DEF IInv, Family, Fathered, Used, Alive, Living
  <2> QED
    BY <2>1, <2>3
<1> QED
  BY <1>1, Inductive, PTL

(* Every step keeps what waiters know.                                     *)
LEMMA NextTold ==
  ASSUME IInv, Told(task), [Next]_vars
  PROVE  Told(task')
<1>0. Family(task) /\ task \in Table
  BY DEF IInv, Family
<1>1. CASE UNCHANGED vars
  BY <1>1 DEF vars, Told, Missed
<1>2. CASE Schedule
  BY <1>0, <1>2, ScheduleIsTold
<1>3. CASE InitWaits
  <2>1. 1 \in Slot
    BY TasksAssumption DEF Slot
  <2>2. task[1] # None /\ Scan(1, -1, task[1].signal)
    BY <1>3 DEF InitWaits, Waitpid, At
  <2> QED
    BY <1>0, <2>1, <2>2, ScanIsTold
<1>4. ASSUME NEW pgrp \in Number \cap Pid, NEW sig \in Signal, TtyIntr(pgrp, sig)
      PROVE  Told(task')
  <2> DEFINE group == {p \in Used(task) : task[p].pgrp = pgrp}
  <2>1. task' = Sent(task, group, sig) /\ group \in SUBSET Used(task)
    BY <1>4 DEF TtyIntr
  <2> HIDE DEF group
  <2>2. Calm(task, task')
    BY <1>0, <2>1, SentCalm
  <2> QED
    BY <2>2, CalmIsTold
<1>5. ASSUME NEW t \in Slot, Fork(t)
      PROVE  Told(task')
  BY <1>0, <1>5, ForkIsTold
<1>6. ASSUME NEW t \in Slot, UserCall(t)
      PROVE  Told(task')
  BY <1>0, <1>6, UserCallIsTold
<1>7. ASSUME NEW t \in Slot, Deliver(t)
      PROVE  Told(task')
  BY <1>0, <1>7, DeliverIsTold
<1>8. ASSUME NEW t \in Slot, ExitDone(t)
      PROVE  Told(task')
  BY <1>0, <1>8, ExitDoneIsTold
<1>9. ASSUME NEW t \in Slot, WaitpidResumes(t)
       PROVE  Told(task')
  <2> DEFINE sigs == task[t].signal \ {SIGCHLD}
  <2>1. task[t] \in Proc /\ task[t] # None
    BY <1>0, <1>9 DEF WaitpidResumes, At, Table
  <2>2. CASE Scan(t, task[t].want, sigs)
    BY <1>0, <2>1, <2>2, ScanIsTold
  <2>3. CASE task' = [task EXCEPT ![t].at = "user", ![t].want = 0,
                                  ![t].signal = sigs]
    <3> HIDE DEF sigs
    <3>1. task'[t].at = "user" /\ \A u \in Slot \ {t} : task'[u] = task[u]
      BY <1>0, <2>1, <2>3 DEF Table, Proc
    <3> QED
      BY <3>1, OneCalm, CalmIsTold
  <2> QED
    BY <1>9, <2>2, <2>3 DEF WaitpidResumes
<1> QED
  BY <1>1, <1>2, <1>3, <1>4, <1>5, <1>6, <1>7, <1>8, <1>9 DEF Next

(* While init lives, nobody sleeps in waitpid() beside a zombie he waits   *)
(* for without having been sent SIGCHLD: the look at the table and the     *)
(* sleep are one step, and every zombie that comes later, by exit() or     *)
(* from a father who exits, comes with the signal.                         *)
THEOREM WaitersAreTold == Spec => []WaiterIsTold
<1>1. Init => Told(task)
  BY DEF Init, init, Told, Missed
<1>2. IInv /\ Told(task) /\ [Next]_vars => Told(task)'
  BY NextTold
<1>3. IInv /\ Told(task) => WaiterIsTold
  <2> SUFFICES ASSUME IInv, Told(task), InitLives, NEW t \in Used(task),
                      task[t].at = "waitpid",
                      task[t].want > 0 \/ task[t].want = -1,
                      NEW c \in Children(t, task[t].want),
                      task[c].at = "zombie"
               PROVE  SIGCHLD \in task[t].signal
    BY DEF WaiterIsTold
  <2>1. t \in Slot /\ task[t] # None /\ c \in Slot /\ task[c] # None /\ c # t
    BY DEF Used, Children
  <2>2. task[c].father = task[t].pid /\ Matches(task[t], task[c], task[t].want)
    BY DEF Children
  <2>3. task[t].want \in Int
    <3>1. task[t] \in Proc
      BY <2>1 DEF IInv, Family, Table
    <3> QED
      BY <3>1, TasksAssumption, PidAssumption DEF Proc
  <2>4. task[t].want = -1 \/ (task[t].want > 0 /\ task[c].pid = task[t].want)
    BY <2>2, <2>3 DEF Matches
  <2>5. t = 1 \/ task[t].pid # 1
    <3>1. 1 \in Slot
      BY TasksAssumption DEF Slot
    <3> QED
      BY <2>1, <3>1 DEF IInv, Family, Distinct, InitLives
  <2>6. Missed(task, t, c)
    BY <2>1, <2>2, <2>4, <2>5 DEF Missed
  <2> QED
    BY <2>1, <2>6 DEF Told
<1> QED
  BY <1>1, <1>2, <1>3, Inductive, PTL DEF Spec
=============================================================================
