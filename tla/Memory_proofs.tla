---------------------------- MODULE Memory_proofs ----------------------------
(***************************************************************************)
(* Proofs about page tables, counts of pages and copy on write, for any    *)
(* number of tasks, programs, addresses and pages.                         *)
(***************************************************************************)
EXTENDS Memory, Numbers

(* The page a page table entry refers to; 0 is none, or one of the kernel. *)
PageOf(e) == IF e = None THEN 0 ELSE e.page

Mapped(t) == [a \in Addr |-> PageOf(pte[t][a])]

(* How often task t refers to page g.                                      *)
Uses(t, g) == Occurs(Mapped(t), g) + Occurs(pg_dir[t], g)
                + One(proc[t].page, g) + One(proc[t].held, g)

(* A task refers to the same pages after a step.                           *)
SamePages(t) ==
  /\ Mapped(t)' = Mapped(t)
  /\ pg_dir'[t] = pg_dir[t]
  /\ proc'[t].page = proc[t].page /\ proc'[t].held = proc[t].held

(* A single place holds a page or does not.                                *)
LEMMA OneNumber == \A x, v : One(x, v) \in {0, 1}
BY DEF One

(* How often a task refers to a page is a number, as its tables are        *)
(* finite.                                                                 *)
LEMMA UsesNumber ==
  ASSUME TypeOK, NEW t \in Task, NEW g
  PROVE  /\ Occurs(Mapped(t), g) \in Nat /\ Occurs(pg_dir[t], g) \in Nat
         /\ Uses(t, g) \in Nat
<1>1. IsFiniteSet(Table)
  BY PagesAssumption, FS_Interval DEF Table
<1>2. DOMAIN Mapped(t) = Addr /\ DOMAIN pg_dir[t] = Table
  BY DEF Mapped, TypeOK
<1>3. Occurs(Mapped(t), g) \in Nat /\ Occurs(pg_dir[t], g) \in Nat
  BY <1>1, <1>2, AddrAssumption, OccursNumber
<1> QED
  BY <1>3, OneNumber DEF Uses

(* The same after a step.                                                  *)
LEMMA UsesNumberNext ==
  ASSUME TypeOK', NEW t \in Task, NEW g
  PROVE  Uses(t, g)' \in Nat
<1>1. IsFiniteSet(Table)
  BY PagesAssumption, FS_Interval DEF Table
<1>2. DOMAIN Mapped(t)' = Addr /\ DOMAIN pg_dir'[t] = Table
  BY DEF Mapped, TypeOK
<1>3. Occurs(Mapped(t), g)' \in Nat /\ Occurs(pg_dir[t], g)' \in Nat
  BY <1>1, <1>2, AddrAssumption, OccursNumber
<1> QED
  BY <1>3, OneNumber DEF Uses

(* What is counted in Refs, as places in tables.                           *)
RefsIn(m, d, s, h, g) ==
  Cardinality(Places(m, Task, Addr, g)) + Cardinality(Places(d, Task, Table, g))
    + Occurs(s, g) + Occurs(h, g)

(* When the tables of one task change, the references from all tasks       *)
(* change by as much as those of that task.                                *)
LEMMA RefsInChange ==
  ASSUME NEW m, NEW d, NEW s, NEW h, NEW m2, NEW d2, NEW s2, NEW h2,
         NEW t \in Task, NEW g,
         DOMAIN m[t] = Addr, DOMAIN m2[t] = Addr,
         DOMAIN d[t] = Table, DOMAIN d2[t] = Table,
         DOMAIN s = Task, DOMAIN s2 = Task, DOMAIN h = Task, DOMAIN h2 = Task,
         SameBut(t, Task, m, m2), SameBut(t, Task, d, d2),
         SameBut(t, Task, s, s2), SameBut(t, Task, h, h2)
  PROVE  RefsIn(m2, d2, s2, h2, g) = RefsIn(m, d, s, h, g)
           - (Occurs(m[t], g) + Occurs(d[t], g) + One(s[t], g) + One(h[t], g))
           + (Occurs(m2[t], g) + Occurs(d2[t], g) + One(s2[t], g) + One(h2[t], g))
<1> DEFINE M == Cardinality(Places(m, Task, Addr, g))
           D == Cardinality(Places(d, Task, Table, g))
           S == Occurs(s, g)
           H == Occurs(h, g)
           M2 == Cardinality(Places(m2, Task, Addr, g))
           D2 == Cardinality(Places(d2, Task, Table, g))
           S2 == Occurs(s2, g)
           H2 == Occurs(h2, g)
<1>1. IsFiniteSet(Table)
  BY PagesAssumption, FS_Interval DEF Table
<1>2. /\ M \in Nat /\ D \in Nat /\ S \in Nat /\ H \in Nat
      /\ Occurs(m[t], g) \in Nat /\ Occurs(d[t], g) \in Nat
      /\ Occurs(m2[t], g) \in Nat /\ Occurs(d2[t], g) \in Nat
  BY <1>1, TaskAssumption, AddrAssumption, PlacesRow, OccursNumber,
     FS_CardinalityType
<1>3. M2 = M - Occurs(m[t], g) + Occurs(m2[t], g)
  <2>1. /\ Occurs(m[t], g) = Cardinality(InRow(m[t], Addr, g))
        /\ Occurs(m2[t], g) = Cardinality(InRow(m2[t], Addr, g))
    BY DEF Occurs, InRow
  <2>2. IsFiniteSet(Task) /\ IsFiniteSet(Addr)
    BY AddrAssumption, TaskAssumption
  <2>3. Cardinality(Places(m2, Task, Addr, g)) =
          Cardinality(Places(m, Task, Addr, g))
            - Cardinality(InRow(m[t], Addr, g))
            + Cardinality(InRow(m2[t], Addr, g))
    BY <2>2, PlacesChange
  <2> QED
    BY <2>1, <2>3
<1>4. D2 = D - Occurs(d[t], g) + Occurs(d2[t], g)
  <2>1. /\ Occurs(d[t], g) = Cardinality(InRow(d[t], Table, g))
        /\ Occurs(d2[t], g) = Cardinality(InRow(d2[t], Table, g))
    BY DEF Occurs, InRow
  <2>2. IsFiniteSet(Task) /\ IsFiniteSet(Table)
    BY <1>1, TaskAssumption
  <2>3. Cardinality(Places(d2, Task, Table, g)) =
          Cardinality(Places(d, Task, Table, g))
            - Cardinality(InRow(d[t], Table, g))
            + Cardinality(InRow(d2[t], Table, g))
    BY <2>2, PlacesChange
  <2> QED
    BY <2>1, <2>3
<1>5. S2 = S - One(s[t], g) + One(s2[t], g)
  BY TaskAssumption, OccursChange DEF SameBut
<1>6. H2 = H - One(h[t], g) + One(h2[t], g)
  BY TaskAssumption, OccursChange DEF SameBut
<1>7. One(s[t], g) \in Int /\ One(s2[t], g) \in Int
      /\ One(h[t], g) \in Int /\ One(h2[t], g) \in Int
  BY OneNumber
<1>8. RefsIn(m, d, s, h, g) = M + D + S + H
      /\ RefsIn(m2, d2, s2, h2, g) = M2 + D2 + S2 + H2
  BY DEF RefsIn
<1> HIDE DEF M, D, S, H, M2, D2, S2, H2
<1>9. M2 + D2 + S2 + H2 = M + D + S + H
           - (Occurs(m[t], g) + Occurs(d[t], g) + One(s[t], g) + One(h[t], g))
           + (Occurs(m2[t], g) + Occurs(d2[t], g) + One(s2[t], g) + One(h2[t], g))
  BY <1>2, <1>3, <1>4, <1>5, <1>6, <1>7
<1> QED
  BY <1>2, <1>7, <1>8, <1>9

(* Refs counts places in tables.                                           *)
LEMMA RefsAre ==
  ASSUME NEW g \in Page
  PROVE  /\ Refs(g) = RefsIn([t \in Task |-> Mapped(t)], pg_dir,
                             [t \in Task |-> proc[t].page],
                             [t \in Task |-> proc[t].held], g)
         /\ Refs(g)' = RefsIn([t \in Task |-> Mapped(t)'], pg_dir',
                              [t \in Task |-> proc'[t].page],
                              [t \in Task |-> proc'[t].held], g)
<1>1. g # 0
  BY DEF Page
<1>2. {x \in Task \X Addr : pte[x[1]][x[2]] # None /\ pte[x[1]][x[2]].page = g}
        = Places([t \in Task |-> Mapped(t)], Task, Addr, g)
  BY <1>1 DEF Places, Mapped, PageOf
<1>3. {x \in Task \X Addr : /\ pte'[x[1]][x[2]] # None
                            /\ pte'[x[1]][x[2]].page = g}
        = Places([t \in Task |-> Mapped(t)'], Task, Addr, g)
  BY <1>1 DEF Places, Mapped, PageOf
<1> QED
  BY <1>2, <1>3 DEF Refs, RefsIn, Occurs, Places

(* When a step changes the pages of one task only, the references change   *)
(* by those that this task gives up and takes.                             *)
LEMMA RefsChange ==
  ASSUME TypeOK, TypeOK', NEW t \in Task, NEW g \in Page,
         \A u \in Task \ {t} : SamePages(u)
  PROVE  Refs(g)' = Refs(g) - Uses(t, g) + Uses(t, g)'
<1> DEFINE m == [u \in Task |-> Mapped(u)]
           s == [u \in Task |-> proc[u].page]
           h == [u \in Task |-> proc[u].held]
           m2 == [u \in Task |-> Mapped(u)']
           s2 == [u \in Task |-> proc'[u].page]
           h2 == [u \in Task |-> proc'[u].held]
<1>1. DOMAIN m[t] = Addr /\ DOMAIN m2[t] = Addr
  BY DEF Mapped
<1>2. DOMAIN pg_dir[t] = Table /\ DOMAIN pg_dir'[t] = Table
  BY DEF TypeOK
<1>3. /\ SameBut(t, Task, m, m2) /\ SameBut(t, Task, pg_dir, pg_dir')
      /\ SameBut(t, Task, s, s2) /\ SameBut(t, Task, h, h2)
  BY DEF SamePages, SameBut
<1>4. RefsIn(m2, pg_dir', s2, h2, g) = RefsIn(m, pg_dir, s, h, g)
        - (Occurs(m[t], g) + Occurs(pg_dir[t], g) + One(s[t], g) + One(h[t], g))
        + (Occurs(m2[t], g) + Occurs(pg_dir'[t], g) + One(s2[t], g) + One(h2[t], g))
  BY <1>1, <1>2, <1>3, RefsInChange
<1>5. /\ m[t] = Mapped(t) /\ s[t] = proc[t].page /\ h[t] = proc[t].held
      /\ m2[t] = Mapped(t)' /\ s2[t] = proc'[t].page /\ h2[t] = proc'[t].held
  OBVIOUS
<1> QED
  BY <1>4, <1>5, RefsAre DEF Uses

-----------------------------------------------------------------------------
(* Who refers to a page.                                                   *)

(* References are a number.                                                *)
LEMMA RefsInNumber ==
  ASSUME NEW m, NEW d, NEW s, NEW h, NEW g,
         DOMAIN s = Task, DOMAIN h = Task
  PROVE  RefsIn(m, d, s, h, g) \in Nat
<1>1. IsFiniteSet(Table) /\ IsFiniteSet(Task) /\ IsFiniteSet(Addr)
  BY PagesAssumption, FS_Interval, TaskAssumption, AddrAssumption DEF Table
<1>2. IsFiniteSet(Task \X Addr) /\ IsFiniteSet(Task \X Table)
  BY <1>1, FS_Product
<1>3. IsFiniteSet(Places(m, Task, Addr, g)) /\ IsFiniteSet(Places(d, Task, Table, g))
  BY <1>2, FS_Subset DEF Places
<1>4. /\ Cardinality(Places(m, Task, Addr, g)) \in Nat
      /\ Cardinality(Places(d, Task, Table, g)) \in Nat
  BY <1>3, FS_CardinalityType
<1>5. Occurs(s, g) \in Nat /\ Occurs(h, g) \in Nat
  BY <1>1, OccursNumber
<1> QED
  BY <1>4, <1>5 DEF RefsIn

(* References of one task and of another are different ones.               *)
LEMMA UsesCounted ==
  ASSUME TypeOK, NEW t \in Task, NEW g \in Page
  PROVE  /\ Refs(g) \in Nat
         /\ Uses(t, g) <= Refs(g)
         /\ \A u \in Task \ {t} : Uses(t, g) + Uses(u, g) <= Refs(g)
<1> DEFINE m == [u \in Task |-> Mapped(u)]
           s == [u \in Task |-> proc[u].page]
           h == [u \in Task |-> proc[u].held]
           d == pg_dir
           none == [a \in Addr |-> 0]
           m2 == [u \in Task |-> IF u = t THEN none ELSE m[u]]
           d2 == [u \in Task |-> IF u = t THEN NoDir ELSE d[u]]
           s2 == [u \in Task |-> IF u = t THEN 0 ELSE s[u]]
           h2 == [u \in Task |-> IF u = t THEN 0 ELSE h[u]]
<1>1. g # 0
  BY DEF Page
<1>2. Occurs(none, g) = 0 /\ Occurs(NoDir, g) = 0 /\ One(0, g) = 0
  <2>1. {x \in DOMAIN none : none[x] = g} = {}
    BY <1>1
  <2>2. {x \in DOMAIN NoDir : NoDir[x] = g} = {}
    BY <1>1 DEF NoDir
  <2> QED
    BY <1>1, <2>1, <2>2, FS_EmptySet DEF Occurs, One
<1>3. /\ \A u \in Task : DOMAIN m[u] = Addr /\ DOMAIN m2[u] = Addr
      /\ \A u \in Task : DOMAIN d[u] = Table /\ DOMAIN d2[u] = Table
      /\ DOMAIN s = Task /\ DOMAIN h = Task /\ DOMAIN s2 = Task /\ DOMAIN h2 = Task
  BY DEF Mapped, TypeOK, NoDir
<1>4. /\ SameBut(t, Task, m, m2) /\ SameBut(t, Task, d, d2)
      /\ SameBut(t, Task, s, s2) /\ SameBut(t, Task, h, h2)
  BY DEF SameBut
<1>5. \A u \in Task : /\ m[u] = Mapped(u) /\ s[u] = proc[u].page
                      /\ h[u] = proc[u].held
  OBVIOUS
<1>6. m2[t] = none /\ d2[t] = NoDir /\ s2[t] = 0 /\ h2[t] = 0
  OBVIOUS
<1>7. Refs(g) = RefsIn(m, d, s, h, g)
  BY RefsAre
<1>20. \A u \in Task \ {t} :
         m2[u] = Mapped(u) /\ d2[u] = d[u] /\ s2[u] = proc[u].page /\ h2[u] = proc[u].held
  OBVIOUS
<1> HIDE DEF m, s, h, m2, d2, s2, h2, none
<1>8. RefsIn(m2, d2, s2, h2, g) = Refs(g) - Uses(t, g)
  <2>1. RefsIn(m2, d2, s2, h2, g) = RefsIn(m, d, s, h, g)
      - (Occurs(m[t], g) + Occurs(d[t], g) + One(s[t], g) + One(h[t], g))
      + (Occurs(m2[t], g) + Occurs(d2[t], g) + One(s2[t], g) + One(h2[t], g))
    BY <1>3, <1>4, RefsInChange
  <2>2. Occurs(m[t], g) + Occurs(d[t], g) + One(s[t], g) + One(h[t], g) = Uses(t, g)
    BY <1>5 DEF Uses
  <2>3. Occurs(m2[t], g) + Occurs(d2[t], g) + One(s2[t], g) + One(h2[t], g) = 0
    BY <1>2, <1>6
  <2> QED
    BY <2>1, <2>2, <2>3, <1>3, <1>7, RefsInNumber, UsesNumber
<1>9. RefsIn(m2, d2, s2, h2, g) \in Nat /\ Refs(g) \in Nat /\ Uses(t, g) \in Nat
  BY <1>3, <1>7, RefsInNumber, UsesNumber
<1>10. ASSUME NEW u \in Task \ {t}
       PROVE  Uses(t, g) + Uses(u, g) <= Refs(g)
  <2> DEFINE m3 == [v \in Task |-> IF v = u THEN none ELSE m2[v]]
             d3 == [v \in Task |-> IF v = u THEN NoDir ELSE d2[v]]
             s3 == [v \in Task |-> IF v = u THEN 0 ELSE s2[v]]
             h3 == [v \in Task |-> IF v = u THEN 0 ELSE h2[v]]
  <2>1. /\ DOMAIN m3[u] = Addr /\ DOMAIN d3[u] = Table
        /\ DOMAIN s3 = Task /\ DOMAIN h3 = Task
    BY DEF none, NoDir
  <2>2. /\ SameBut(u, Task, m2, m3) /\ SameBut(u, Task, d2, d3)
        /\ SameBut(u, Task, s2, s3) /\ SameBut(u, Task, h2, h3)
    BY DEF SameBut
  <2>3. m3[u] = none /\ d3[u] = NoDir /\ s3[u] = 0 /\ h3[u] = 0
    OBVIOUS
  <2> HIDE DEF m3, d3, s3, h3
  <2>4. RefsIn(m3, d3, s3, h3, g) = RefsIn(m2, d2, s2, h2, g)
      - (Occurs(m2[u], g) + Occurs(d2[u], g) + One(s2[u], g) + One(h2[u], g))
      + (Occurs(m3[u], g) + Occurs(d3[u], g) + One(s3[u], g) + One(h3[u], g))
    BY <1>3, <2>1, <2>2, RefsInChange
  <2>5. Occurs(m2[u], g) + Occurs(d2[u], g) + One(s2[u], g) + One(h2[u], g) = Uses(u, g)
    BY <1>20 DEF Uses
  <2>6. Occurs(m3[u], g) + Occurs(d3[u], g) + One(s3[u], g) + One(h3[u], g) = 0
    BY <1>2, <2>3
  <2>7. RefsIn(m3, d3, s3, h3, g) \in Nat /\ Uses(u, g) \in Nat
    BY <2>1, RefsInNumber, UsesNumber
  <2> QED
    BY <2>4, <2>5, <2>6, <2>7, <1>8, <1>9
<1> QED
  BY <1>8, <1>9, <1>10

(* A task maps page g at a.                                                *)
Maps(t, a, g) == pte[t][a] # None /\ pte[t][a].page = g

(* What a task has, it has alone: its page tables, its task_struct, the    *)
(* page its kernel code holds, and the pages it may write to.              *)
Own(t, g) ==
  \/ \E d \in Table : pg_dir[t][d] = g
  \/ proc[t].page = g
  \/ proc[t].held = g
  \/ \E a \in Addr : Maps(t, a, g) /\ pte[t][a].rw

(* Pages a task refers to, and those that it refers to only once.          *)
LEMMA UsesAre ==
  ASSUME TypeOK, NEW t \in Task, NEW g \in Page
  PROVE  /\ Uses(t, g) = 0 <=> /\ \A a \in Addr : ~Maps(t, a, g)
                               /\ \A d \in Table : pg_dir[t][d] # g
                               /\ proc[t].page # g /\ proc[t].held # g
         /\ Own(t, g) => Uses(t, g) # 0
         /\ Uses(t, g) <= 1 =>
              /\ \A a, b \in Addr : Maps(t, a, g) /\ Maps(t, b, g) => a = b
              /\ \A d, e \in Table : pg_dir[t][d] = g /\ pg_dir[t][e] = g => d = e
              /\ \A a \in Addr : Maps(t, a, g) =>
                   /\ \A d \in Table : pg_dir[t][d] # g
                   /\ proc[t].page # g /\ proc[t].held # g
              /\ \A d \in Table : pg_dir[t][d] = g =>
                   proc[t].page # g /\ proc[t].held # g
              /\ ~(proc[t].page = g /\ proc[t].held = g)
<1>1. IsFiniteSet(Table) /\ IsFiniteSet(Addr)
  BY PagesAssumption, FS_Interval, AddrAssumption DEF Table
<1>2. DOMAIN Mapped(t) = Addr /\ DOMAIN pg_dir[t] = Table
  BY DEF Mapped, TypeOK
<1>3. \A a \in Addr : Maps(t, a, g) <=> Mapped(t)[a] = g
  BY DEF Maps, Mapped, PageOf, Page
<1> DEFINE M == Occurs(Mapped(t), g)
           D == Occurs(pg_dir[t], g)
           P == One(proc[t].page, g)
           H == One(proc[t].held, g)
<1>4. /\ M = 0 <=> \A a \in Addr : ~Maps(t, a, g)
      /\ M = 1 => \A a, b \in Addr : Maps(t, a, g) /\ Maps(t, b, g) => a = b
      /\ M \in Nat
  BY <1>1, <1>2, <1>3, OccursNumber
<1>5. /\ D = 0 <=> \A d \in Table : pg_dir[t][d] # g
      /\ D = 1 => \A d, e \in Table : pg_dir[t][d] = g /\ pg_dir[t][e] = g => d = e
      /\ D \in Nat
  BY <1>1, <1>2, OccursNumber
<1>6. /\ P = 0 <=> proc[t].page # g
      /\ H = 0 <=> proc[t].held # g
      /\ P \in Nat /\ H \in Nat
  BY DEF One
<1>7. Uses(t, g) = M + D + P + H
  BY DEF Uses
<1> HIDE DEF M, D, P, H
<1>8. Uses(t, g) = 0 <=> M = 0 /\ D = 0 /\ P = 0 /\ H = 0
  BY <1>4, <1>5, <1>6, <1>7
<1>9. Uses(t, g) <= 1 => /\ M = 0 \/ M = 1
                         /\ D = 0 \/ D = 1
                         /\ M # 0 => D = 0 /\ P = 0 /\ H = 0
                         /\ D # 0 => P = 0 /\ H = 0
                         /\ P = 0 \/ H = 0
  BY <1>4, <1>5, <1>6, <1>7
<1>10. Own(t, g) => Uses(t, g) # 0
  BY <1>4, <1>5, <1>6, <1>8 DEF Own
<1> QED
  BY <1>4, <1>5, <1>6, <1>8, <1>9, <1>10

-----------------------------------------------------------------------------
(* The inductive invariant: the counts are exact; a task's fields fit its  *)
(* state; what a task has it has alone; pages that are free or hold a      *)
(* task_struct are clear, and the one held in execve() has the arguments.  *)

Live(t) == proc[t].st \notin {"free", "zombie"}

Formed(t) ==
  /\ proc[t].st = "free" => proc[t] = NoProc
  /\ proc[t].st # "free" => proc[t].page # 0
  /\ ~Live(t) => pte[t] = NoEntries /\ pg_dir[t] = NoDir
  /\ Live(t) => \E d \in Table : pg_dir[t][d] # 0
  /\ proc[t].st \in {"free", "zombie", "user"} <=> proc[t].held = 0
  /\ proc[t].st = "no_page" => /\ proc[t].at \in Text /\ proc[t].exe # None
                               /\ pte[t][proc[t].at] = None
  /\ \A a \in Addr : pte[t][a] # None => pg_dir[t][TableOf[a]] # 0
  /\ \A a \in Addr : pte[t][a] # None /\ pte[t][a].rw => pte[t][a].page # Low

Alone(t) == \A g \in Page : Own(t, g) => mem_map[g] = 1

Filled(t) ==
  /\ proc[t].page # 0 => content[proc[t].page] = Zero
  /\ proc[t].st \in {"args", "close"} => content[proc[t].held] = t

FreeIsClear == \A g \in Page : mem_map[g] = 0 => content[g] = Zero

Inv == /\ CountsExact /\ FreeIsClear
       /\ \A t \in Task : Formed(t) /\ Alone(t) /\ Filled(t)

-----------------------------------------------------------------------------
(* A step is one task's: others lose at most the right to write to pages.  *)
Undisturbed(u) ==
  /\ pg_dir'[u] = pg_dir[u] /\ proc'[u] = proc[u]
  /\ \A a \in Addr : \/ pte'[u][a] = pte[u][a]
                     \/ /\ pte[u][a] # None
                        /\ pte'[u][a] = WriteProtect(pte[u][a])

(* Pages that are new to the task were free, or nobody else has them as    *)
(* its own any more.                                                       *)
GotRightly(t, g) ==
  Uses(t, g)' # 0 => \/ Uses(t, g) # 0 \/ mem_map[g] = 0
                     \/ \A u \in Task \ {t} : ~Own(u, g)'

(* Only pages that nobody else uses, were free or are freed get other      *)
(* contents.                                                               *)
WroteRightly(t, g) ==
  \/ content'[g] = content[g]
  \/ /\ g # Low
     /\ \/ Uses(t, g) # 0 /\ mem_map[g] = 1
        \/ mem_map[g] = 0
        \/ mem_map'[g] = 0

StepOf(t) ==
  /\ \A u \in Task \ {t} : Undisturbed(u)
  /\ \A g \in Page : mem_map'[g] = mem_map[g] - Uses(t, g) + Uses(t, g)'
  /\ \A g \in Page : GotRightly(t, g)
  /\ \A g \in Page \cup {Low} : WroteRightly(t, g)
  /\ Formed(t)' /\ Alone(t)' /\ Filled(t)' /\ FreeIsClear'

(* A task that only lost the right to write refers to the same pages, and  *)
(* its own fields fit as before.                                           *)
LEMMA UndisturbedKeeps ==
  ASSUME TypeOK, TypeOK', NEW u \in Task, Undisturbed(u)
  PROVE  /\ SamePages(u)
         /\ \A a \in Addr : /\ pte'[u][a] = None <=> pte[u][a] = None
                            /\ pte'[u][a] # None => pte'[u][a].page = pte[u][a].page
         /\ \A g : Own(u, g)' => Own(u, g)
         /\ Formed(u) => Formed(u)'
<1>1. \A a \in Addr : pte[u][a] \in Entry \cup {None}
  BY DEF TypeOK
<1>2. \A e \in Entry : /\ WriteProtect(e).page = e.page /\ ~WriteProtect(e).rw
                       /\ WriteProtect(e) \in Entry
  BY DEF Entry, WriteProtect
<1>3. None \notin Entry
  BY NoneAssumption
<1>4. \A a \in Addr : /\ pte'[u][a] = None <=> pte[u][a] = None
                      /\ pte'[u][a] # None => pte'[u][a].page = pte[u][a].page
                      /\ pte'[u][a] # None /\ pte'[u][a].rw => pte[u][a].rw
  BY <1>1, <1>2, <1>3 DEF Undisturbed
<1>5. Mapped(u)' = Mapped(u)
  BY <1>4 DEF Mapped, PageOf
<1>6. pg_dir'[u] = pg_dir[u] /\ proc'[u] = proc[u]
  BY DEF Undisturbed
<1>7. \A g : Own(u, g)' => Own(u, g)
  BY <1>4, <1>6 DEF Own, Maps
<1>8. Formed(u) => Formed(u)'
  <2> SUFFICES ASSUME Formed(u) PROVE Formed(u)'
    OBVIOUS
  <2>1. Live(u)' <=> Live(u)
    BY <1>6 DEF Live
  <2>2. pte[u] = NoEntries => pte'[u] = NoEntries
    <3>1. pte'[u] = [a \in Addr |-> pte'[u][a]]
      BY DEF TypeOK
    <3> QED
      BY <3>1, <1>4 DEF NoEntries
  <2>3. Text \subseteq Addr
    BY AddrAssumption
  <2> QED
    BY <1>4, <1>6, <2>1, <2>2, <2>3 DEF Formed
<1> QED
  BY <1>4, <1>5, <1>6, <1>7, <1>8 DEF SamePages

(* What a step of a task must do is enough: the invariant is kept, and     *)
(* nobody else notices it.                                                 *)
LEMMA StepKeeps ==
  ASSUME Inv, TypeOK', NEW t \in Task, StepOf(t)
  PROVE  /\ Inv'
         /\ \A u \in Task \ {t} : \A a \in Addr : Reads(u, a)' = Reads(u, a)
<1>1. TypeOK /\ \A g \in Page : mem_map[g] = Refs(g)
  BY DEF Inv, CountsExact
<1>2. \A u \in Task \ {t} : Undisturbed(u)
  BY DEF StepOf
<1>3. \A u \in Task \ {t} : SamePages(u)
  BY <1>1, <1>2, UndisturbedKeeps
<1>4. CountsExact'
  <2> SUFFICES ASSUME NEW g \in Page PROVE mem_map'[g] = Refs(g)'
    BY DEF CountsExact
  <2>1. Refs(g)' = Refs(g) - Uses(t, g) + Uses(t, g)'
    BY <1>1, <1>3, RefsChange
  <2> QED
    BY <1>1, <2>1 DEF StepOf
<1>5. \A g \in Page : Uses(t, g) \in Nat /\ Uses(t, g)' \in Nat
  BY <1>1, UsesNumber, UsesNumberNext
<1>6. ASSUME NEW u \in Task \ {t}, NEW g \in Page, Uses(u, g) # 0
      PROVE  mem_map'[g] # 0 /\ (mem_map[g] = 1 => Uses(t, g) = 0) /\ mem_map[g] # 0
  <2>1. Uses(t, g) + Uses(u, g) <= mem_map[g] /\ mem_map[g] \in Nat
    BY <1>1, UsesCounted DEF TypeOK
  <2>2. Uses(u, g) \in Nat
    BY <1>1, UsesNumber
  <2>3. mem_map'[g] = mem_map[g] - Uses(t, g) + Uses(t, g)'
    BY DEF StepOf
  <2> QED
    BY <1>5, <1>6, <2>1, <2>2, <2>3
<1>7. ASSUME NEW u \in Task \ {t}, NEW g \in Page, Own(u, g)'
      PROVE  Own(u, g) /\ Uses(u, g) # 0 /\ mem_map[g] = 1 /\ mem_map'[g] = 1
  <2>1. Own(u, g)
    BY <1>1, <1>2, <1>7, UndisturbedKeeps
  <2>2. Uses(u, g) # 0 /\ mem_map[g] = 1
    BY <1>1, <2>1, UsesAre DEF Inv, Alone
  <2>3. Uses(t, g) = 0
    BY <1>6, <2>2
  <2>4. Uses(t, g)' = 0
    BY <1>7, <2>2, <2>3 DEF StepOf, GotRightly
  <2> QED
    BY <2>1, <2>2, <2>3, <2>4 DEF StepOf
<1>8. ASSUME NEW u \in Task \ {t}, NEW g \in Page \cup {Low},
             g = Low \/ Uses(u, g) # 0
      PROVE  content'[g] = content[g]
  <2>1. WroteRightly(t, g)
    BY DEF StepOf
  <2>2. CASE g = Low
    BY <2>1, <2>2 DEF WroteRightly
  <2>3. CASE g # Low
    <3>1. g \in Page /\ Uses(u, g) # 0
      BY <1>8, <2>3 DEF Low
    <3> QED
      BY <1>6, <2>1, <3>1 DEF WroteRightly
  <2> QED
    BY <2>2, <2>3
<1>9. ASSUME NEW u \in Task \ {t}
      PROVE  Formed(u)' /\ Alone(u)' /\ Filled(u)'
  <2>1. Formed(u)'
    BY <1>1, <1>2, UndisturbedKeeps DEF Inv
  <2>2. Alone(u)'
    BY <1>7 DEF Alone
  <2>3. proc'[u] = proc[u] /\ proc[u] \in Proc
    BY <1>1, <1>2 DEF Undisturbed, TypeOK
  <2>4. proc[u].page # 0 =>
          /\ proc[u].page \in Page /\ Uses(u, proc[u].page) # 0
    BY <1>1, <2>3, UsesAre DEF Own, Proc
  <2>5. proc[u].held # 0 =>
          /\ proc[u].held \in Page /\ Uses(u, proc[u].held) # 0
    BY <1>1, <2>3, UsesAre DEF Own, Proc
  <2>6. proc[u].st \in {"args", "close"} => proc[u].held # 0
    BY DEF Inv, Formed
  <2>7. Filled(u)'
    BY <1>8, <2>3, <2>4, <2>5, <2>6 DEF Filled, Inv
  <2> QED
    BY <2>1, <2>2, <2>7
<1>10. ASSUME NEW u \in Task \ {t}, NEW a \in Addr
       PROVE  Reads(u, a)' = Reads(u, a)
  <2>1. /\ pte'[u][a] = None <=> pte[u][a] = None
        /\ pte'[u][a] # None => pte'[u][a].page = pte[u][a].page
    BY <1>1, <1>2, UndisturbedKeeps
  <2>2. ASSUME pte[u][a] # None
        PROVE  content'[pte[u][a].page] = content[pte[u][a].page]
    <3>1. pte[u][a] \in Entry
      BY <1>1, <2>2 DEF TypeOK
    <3>2. pte[u][a].page \in Page \cup {Low}
      BY <3>1 DEF Entry
    <3>3. pte[u][a].page \in Page => Uses(u, pte[u][a].page) # 0
      BY <1>1, <2>2, UsesAre DEF Maps
    <3> QED
      BY <1>8, <3>2, <3>3
  <2> QED
    BY <2>1, <2>2 DEF Reads
<1>11. Formed(t)' /\ Alone(t)' /\ Filled(t)' /\ FreeIsClear'
  BY DEF StepOf
<1> QED
  BY <1>4, <1>9, <1>10, <1>11 DEF Inv

-----------------------------------------------------------------------------
(* Operators of the model.                                                 *)

(* get_free_page() finds a free page.                                      *)
LEMMA LastFreeIs ==
  ASSUME NEW map, FreePages(map) # {}
  PROVE  LastFree(map) \in Page /\ map[LastFree(map)] = 0
<1>1. FreePages(map) \in SUBSET (0..NrPages)
  BY PagesAssumption DEF FreePages, Page
<1>2. Max(FreePages(map)) \in FreePages(map)
  <2> HIDE DEF FreePages
  <2> QED
    BY <1>1, PagesAssumption, MaxIn
<1> QED
  BY <1>2 DEF LastFree, FreePages

(* get_free_page() counts one more use of that page.                       *)
LEMMA TakenIs ==
  ASSUME NEW map \in [Page -> Nat], NEW n \in Page, map[n] = 0
  PROVE  /\ Taken(map, n) \in [Page -> Nat]
         /\ \A g \in Page : /\ Taken(map, n)[g] = map[g] + One(n, g)
                            /\ g # n => Taken(map, n)[g] = map[g]
         /\ Taken(map, n)[n] = 1
BY DEF Taken, One

(* What put_page() does to counts and directory of a task.                 *)
PutIs(r, map, dir, a) ==
  /\ r.map \in [Page -> Nat] /\ r.dir \in [Table -> Page \cup {0}]
  /\ r.dir[TableOf[a]] # 0
  /\ \A d \in Table :
       \/ r.dir[d] = dir[d]
       \/ /\ dir[d] = 0 /\ r.dir[d] \in Page
          /\ map[r.dir[d]] = 0 /\ r.map[r.dir[d]] = 1
  /\ \A g \in Page : r.map[g] = map[g] - Occurs(dir, g) + Occurs(r.dir, g)
  /\ \A g \in Page : r.map[g] = map[g] \/ (map[g] = 0 /\ r.map[g] = 1)

(* put_page() takes a free page for the page table where there is none.    *)
LEMMA PutPageIs ==
  ASSUME NEW map \in [Page -> Nat], NEW dir \in [Table -> Page \cup {0}],
         NEW entries, NEW a \in Addr, NEW entry, HasRoom(map, dir, a)
  PROVE  /\ PutIs(PutPage(map, dir, entries, a, entry), map, dir, a)
         /\ PutPage(map, dir, entries, a, entry).entries =
              [entries EXCEPT ![a] = entry]
<1> DEFINE d == TableOf[a]
           n == LastFree(map)
           r == PutPage(map, dir, entries, a, entry)
           after == [dir EXCEPT ![d] = n]
<1>1. d \in Table
  BY AddrAssumption
<1>2. IsFiniteSet(Table)
  BY PagesAssumption, FS_Interval DEF Table
<1>3. \A g \in Page : Occurs(dir, g) \in Nat
  BY <1>2, OccursNumber
<1>4. CASE dir[d] # 0
  <2>1. r.map = map /\ r.dir = dir /\ r.entries = [entries EXCEPT ![a] = entry]
    BY <1>4 DEF PutPage
  <2> HIDE DEF r
  <2> QED
    BY <1>3, <1>4, <2>1 DEF PutIs, r
<1>5. CASE dir[d] = 0
  <2>1. FreePages(map) # {}
    BY <1>5 DEF HasRoom
  <2>2. n \in Page /\ map[n] = 0
    BY <2>1, LastFreeIs
  <2>3. /\ r.map = Taken(map, n) /\ r.dir = after
        /\ r.entries = [entries EXCEPT ![a] = entry]
    BY <1>5 DEF PutPage
  <2> HIDE DEF r, n
  <2>4. after \in [Table -> Page \cup {0}] /\ after[d] = n
        /\ \A e \in Table \ {d} : after[e] = dir[e]
    BY <1>1, <2>2
  <2> HIDE DEF after
  <2>5. n # 0
    BY <2>2 DEF Page
  <2>6. ASSUME NEW g \in Page
        PROVE  Occurs(after, g) = Occurs(dir, g) + One(n, g)
    <3>1. DOMAIN dir = Table /\ DOMAIN after = Table
      BY <2>4
    <3>2. Occurs(after, g) = Occurs(dir, g) - One(dir[d], g) + One(after[d], g)
      BY <1>1, <1>2, <2>4, <3>1, OccursChange
    <3>3. One(dir[d], g) = 0
      BY <1>5 DEF One, Page
    <3> QED
      BY <1>3, <2>4, <3>2, <3>3, OneNumber
  <2>7. ASSUME NEW g \in Page
        PROVE  /\ r.map[g] = map[g] - Occurs(dir, g) + Occurs(r.dir, g)
               /\ r.map[g] = map[g] \/ (map[g] = 0 /\ r.map[g] = 1)
    BY <1>3, <2>2, <2>3, <2>6, TakenIs, OneNumber
  <2>8. r.map \in [Page -> Nat] /\ r.map[n] = 1
    BY <2>2, <2>3, TakenIs
  <2>9. \A e \in Table : \/ r.dir[e] = dir[e]
                         \/ /\ dir[e] = 0 /\ r.dir[e] \in Page
                            /\ map[r.dir[e]] = 0 /\ r.map[r.dir[e]] = 1
    BY <1>5, <2>2, <2>3, <2>4, <2>8
  <2> QED
    BY <2>3, <2>4, <2>5, <2>7, <2>8, <2>9 DEF PutIs, r, d
<1> QED
  BY <1>4, <1>5

(* free_page_tables() takes away every use that is in tables.              *)
LEMMA FreedIs ==
  ASSUME TypeOK, NEW map \in [Page -> Nat], NEW t \in Task
  PROVE  /\ \A g \in Page : Freed(map, t)[g] =
              map[g] - Occurs(Mapped(t), g) - Occurs(pg_dir[t], g)
         /\ Freed(map, t) = [g \in Page |-> Freed(map, t)[g]]
<1>1. ASSUME NEW g \in Page
      PROVE  /\ Cardinality(Mapping(pte[t], g)) = Occurs(Mapped(t), g)
             /\ Cardinality({d \in Table : pg_dir[t][d] = g}) = Occurs(pg_dir[t], g)
  <2>1. Mapping(pte[t], g) = {a \in DOMAIN Mapped(t) : Mapped(t)[a] = g}
    BY DEF Mapping, Mapped, PageOf, Page
  <2>2. DOMAIN pg_dir[t] = Table
    BY DEF TypeOK
  <2> QED
    BY <2>1, <2>2 DEF Occurs
<1> QED
  BY <1>1 DEF Freed

(* An address space of which one entry changes, and an empty one.          *)
LEMMA MappedChange ==
  ASSUME TypeOK, NEW t \in Task, NEW a \in Addr,
         \A b \in Addr \ {a} : PageOf(pte'[t][b]) = PageOf(pte[t][b]),
         NEW g
  PROVE  Occurs(Mapped(t), g)' = Occurs(Mapped(t), g)
           - One(PageOf(pte[t][a]), g) + One(PageOf(pte'[t][a]), g)
<1> DEFINE f == Mapped(t)
           h == Mapped(t)'
<1>1. DOMAIN f = Addr /\ DOMAIN h = Addr
  BY DEF Mapped
<1>2. \A b \in Addr \ {a} : h[b] = f[b]
  BY DEF Mapped
<1>3. f[a] = PageOf(pte[t][a]) /\ h[a] = PageOf(pte'[t][a])
  BY DEF Mapped
<1> HIDE DEF f, h
<1>4. Occurs(h, g) = Occurs(f, g) - One(f[a], g) + One(h[a], g)
  BY <1>1, <1>2, AddrAssumption, OccursChange
<1> QED
  BY <1>3, <1>4 DEF f, h

(* An empty address space and an empty directory refer to no page.         *)
LEMMA NothingUsed ==
  ASSUME NEW t \in Task, NEW g \in Page
  PROVE  /\ pte'[t] = NoEntries => Occurs(Mapped(t), g)' = 0
         /\ Occurs(NoDir, g) = 0 /\ One(0, g) = 0
<1>1. g # 0
  BY DEF Page
<1>2. Occurs(NoDir, g) = 0
  <2>1. {x \in DOMAIN NoDir : NoDir[x] = g} = {}
    BY <1>1 DEF NoDir
  <2> QED
    BY <2>1, FS_EmptySet DEF Occurs
<1>3. pte'[t] = NoEntries => Occurs(Mapped(t), g)' = 0
  <2> SUFFICES ASSUME pte'[t] = NoEntries PROVE Occurs(Mapped(t), g)' = 0
    OBVIOUS
  <2>1. Mapped(t)' = [a \in Addr |-> 0]
    BY DEF Mapped, PageOf, NoEntries
  <2>2. {x \in DOMAIN Mapped(t)' : Mapped(t)'[x] = g} = {}
    BY <1>1, <2>1
  <2> QED
    BY <2>2, FS_EmptySet DEF Occurs
<1> QED
  BY <1>1, <1>2, <1>3 DEF One

(* What a task has, it refers to once.                                     *)
LEMMA OwnOnce ==
  ASSUME Inv, NEW t \in Task, NEW g \in Page
  PROVE  /\ Uses(t, g) \in Nat /\ mem_map[g] \in Nat
         /\ Uses(t, g) <= mem_map[g]
         /\ Own(t, g) => mem_map[g] = 1 /\ Uses(t, g) = 1
<1>1. TypeOK /\ mem_map[g] = Refs(g)
  BY DEF Inv, CountsExact
<1>2. Uses(t, g) \in Nat /\ mem_map[g] \in Nat /\ Uses(t, g) <= mem_map[g]
  BY <1>1, UsesNumber, UsesCounted
<1>3. Own(t, g) => mem_map[g] = 1 /\ Uses(t, g) # 0
  BY <1>1, UsesAre DEF Inv, Alone
<1> QED
  BY <1>2, <1>3

(* A task that refers to the same pages refers to each as often.           *)
LEMMA SameUses ==
  ASSUME NEW t \in Task, SamePages(t), NEW g
  PROVE  Uses(t, g)' = Uses(t, g)
BY DEF SamePages, Uses

-----------------------------------------------------------------------------
(* Every action is a step of one task.                                     *)

(* do_exit(), also where memory ran out; before it, what the kernel code   *)
(* of the task held was freed.                                             *)
LEMMA ExitedStep ==
  ASSUME Inv, NEW t \in Task, Live(t), NEW map \in [Page -> Nat],
         \A g \in Page : map[g] = mem_map[g] - One(proc[t].held, g),
         Exited(t, map)
  PROVE  TypeOK' /\ StepOf(t)
<1>1. TypeOK /\ Formed(t) /\ Filled(t)
  BY DEF Inv, CountsExact
<1>2. \A g \in Page : /\ Uses(t, g) \in Nat /\ mem_map[g] \in Nat
                      /\ Uses(t, g) <= mem_map[g]
  BY OwnOnce
<1>3. /\ pg_dir' = [pg_dir EXCEPT ![t] = NoDir]
      /\ pte' = [pte EXCEPT ![t] = NoEntries]
      /\ proc'[t] = [NoProc EXCEPT !.st = "zombie", !.page = proc[t].page]
      /\ \A u \in Task \ {t} : proc'[u] = proc[u]
  BY <1>1 DEF Exited, TypeOK
<1>4. /\ proc[t] \in Proc /\ proc[t].page \in Page
      /\ proc'[t].page = proc[t].page /\ proc'[t].held = 0
      /\ proc'[t].st = "zombie"
  BY <1>1, <1>3 DEF TypeOK, Proc, Formed, Live, NoProc
<1>5. /\ pg_dir' \in [Task -> [Table -> Page \cup {0}]] /\ pg_dir'[t] = NoDir
      /\ pte' \in [Task -> [Addr -> Entry \cup {None}]] /\ pte'[t] = NoEntries
      /\ \A u \in Task \ {t} : pte'[u] = pte[u] /\ pg_dir'[u] = pg_dir[u]
  BY <1>1, <1>3 DEF TypeOK, NoDir, NoEntries
<1>6. \A g \in Page : Uses(t, g)' = One(proc[t].page, g)
  <2> SUFFICES ASSUME NEW g \in Page PROVE Uses(t, g)' = One(proc[t].page, g)
    OBVIOUS
  <2>1. Occurs(Mapped(t), g)' = 0 /\ Occurs(NoDir, g) = 0 /\ One(0, g) = 0
    BY <1>5, NothingUsed
  <2>2. Uses(t, g)' = Occurs(Mapped(t), g)' + Occurs(pg_dir'[t], g)
                        + One(proc'[t].page, g) + One(proc'[t].held, g)
    BY DEF Uses
  <2> QED
    BY <1>4, <1>5, <2>1, <2>2, OneNumber
<1>7. \A g \in Page : mem_map'[g] = mem_map[g] - Uses(t, g) + Uses(t, g)'
  <2> SUFFICES ASSUME NEW g \in Page
               PROVE  mem_map'[g] = mem_map[g] - Uses(t, g) + Uses(t, g)'
    OBVIOUS
  <2>1. mem_map'[g] = map[g] - Occurs(Mapped(t), g) - Occurs(pg_dir[t], g)
    BY <1>1, FreedIs DEF Exited
  <2>2. Occurs(Mapped(t), g) \in Nat /\ Occurs(pg_dir[t], g) \in Nat
    BY <1>1, UsesNumber
  <2> QED
    BY <1>2, <1>6, <2>1, <2>2, OneNumber DEF Uses
<1>8. mem_map' \in [Page -> Nat]
  <2>1. mem_map' = [g \in Page |-> mem_map'[g]]
    BY <1>1, FreedIs DEF Exited
  <2>2. \A g \in Page : mem_map'[g] \in Nat
    BY <1>2, <1>6, <1>7, OneNumber
  <2> QED
    BY <2>1, <2>2
<1>9. content' = Kept(content, mem_map')
  BY DEF Exited
<1>10. TypeOK'
  <2>1. proc' \in [Task -> Proc]
    BY <1>1, <1>4 DEF Exited, TypeOK, NoProc, Proc
  <2>2. content' \in [Page \cup {Low} -> Content]
    BY <1>1, <1>9 DEF Kept, TypeOK, Content
  <2> QED
    BY <1>5, <1>8, <2>1, <2>2 DEF TypeOK
<1>11. mem_map'[proc[t].page] = 1
  <2>1. Own(t, proc[t].page)
    BY DEF Own
  <2>2. mem_map[proc[t].page] = 1 /\ Uses(t, proc[t].page) = 1
    BY <1>4, <2>1, OwnOnce
  <2> QED
    BY <1>4, <1>6, <1>7, <2>2 DEF One
<1>12. \A g \in Page : Own(t, g)' => g = proc[t].page
  BY <1>4, <1>5 DEF Own, Maps, NoDir, NoEntries, Page
<1>13. \A g \in Page : GotRightly(t, g)
  BY <1>1, <1>4, <1>6, UsesAre DEF GotRightly, One
<1>14. \A g \in Page \cup {Low} : WroteRightly(t, g)
  BY <1>9 DEF WroteRightly, Kept
<1>15. Alone(t)'
  BY <1>11, <1>12 DEF Alone
<1>16. Formed(t)'
  BY <1>4, <1>5 DEF Formed, Live, NoEntries, Page
<1>17. Filled(t)'
  <2>1. content'[proc[t].page] = content[proc[t].page]
    BY <1>4, <1>9, <1>11 DEF Kept
  <2> QED
    BY <1>1, <1>4, <2>1 DEF Filled
<1>18. FreeIsClear'
  BY <1>9 DEF FreeIsClear, Kept, Low, Page
<1>19. \A u \in Task \ {t} : Undisturbed(u)
  BY <1>3, <1>5 DEF Undisturbed
<1> QED
  BY <1>7, <1>10, <1>13, <1>14, <1>15, <1>16, <1>17, <1>18, <1>19 DEF StepOf

(* A task in user mode holds nothing.                                      *)
LEMMA UserExitedStep ==
  ASSUME Inv, NEW t \in Task, proc[t].st = "user", Exited(t, mem_map)
  PROVE  TypeOK' /\ StepOf(t)
<1>1. TypeOK /\ proc[t].held = 0
  BY DEF Inv, CountsExact, Formed
<1>2. mem_map \in [Page -> Nat] /\ \A g \in Page : One(0, g) = 0
  BY <1>1, NothingUsed DEF TypeOK
<1>3. \A g \in Page : mem_map[g] = mem_map[g] - One(proc[t].held, g)
  BY <1>1, <1>2
<1>4. Live(t)
  BY DEF Live
<1> QED
  BY <1>2, <1>3, <1>4, ExitedStep

(* release(): the task_struct of a zombie.                                 *)
LEMMA ReleaseStep ==
  ASSUME Inv, NEW t \in Task, Release(t)
  PROVE  TypeOK' /\ StepOf(t)
<1> DEFINE p == proc[t].page
<1>1. TypeOK /\ Formed(t) /\ Filled(t) /\ FreeIsClear
  BY DEF Inv, CountsExact
<1>2. /\ proc[t] \in Proc /\ p \in Page /\ proc[t].held = 0 /\ p # 0
      /\ pte[t] = NoEntries /\ pg_dir[t] = NoDir /\ content[p] = Zero
  BY <1>1 DEF Release, TypeOK, Proc, Formed, Live, Filled
<1>3. Own(t, p) /\ \A g \in Page : Own(t, g) => g = p
  BY <1>2 DEF Own, Maps, NoEntries, NoDir, Page
<1>4. mem_map[p] = 1 /\ Uses(t, p) = 1
  BY <1>2, <1>3, OwnOnce
<1>5. NoProc \in Proc /\ NoProc.page = 0 /\ NoProc.held = 0 /\ NoProc.st = "free"
  BY DEF NoProc, Proc
<1>6. /\ mem_map' = [mem_map EXCEPT ![p] = 0] /\ content' = content
      /\ pg_dir' = pg_dir /\ pte' = pte /\ proc'[t] = NoProc
      /\ \A u \in Task \ {t} : proc'[u] = proc[u]
      /\ proc' \in [Task -> Proc]
  BY <1>1, <1>2, <1>4, <1>5 DEF Release, TypeOK
<1> HIDE DEF p
<1>7. TypeOK'
  BY <1>1, <1>6 DEF TypeOK
<1>8. \A g \in Page : Uses(t, g)' = 0
  <2> SUFFICES ASSUME NEW g \in Page PROVE Uses(t, g)' = 0
    OBVIOUS
  <2>1. Occurs(Mapped(t), g)' = 0 /\ Occurs(NoDir, g) = 0 /\ One(0, g) = 0
    BY <1>2, <1>6, NothingUsed
  <2>2. Uses(t, g)' = Occurs(Mapped(t), g)' + Occurs(pg_dir'[t], g)
                        + One(proc'[t].page, g) + One(proc'[t].held, g)
    BY DEF Uses
  <2> QED
    BY <1>2, <1>5, <1>6, <2>1, <2>2
<1>9. \A g \in Page : g # p => Uses(t, g) = 0
  BY <1>1, <1>2, UsesAre DEF Maps, NoEntries, NoDir, Page, p
<1>10. \A g \in Page : /\ mem_map'[g] = mem_map[g] - Uses(t, g) + Uses(t, g)'
                       /\ g # p => mem_map'[g] = mem_map[g]
  BY <1>1, <1>4, <1>6, <1>8, <1>9 DEF TypeOK
<1>11. \A u \in Task \ {t} : Undisturbed(u)
  BY <1>6 DEF Undisturbed
<1>12. \A g \in Page : GotRightly(t, g)
  BY <1>8 DEF GotRightly
<1>13. \A g \in Page \cup {Low} : WroteRightly(t, g)
  BY <1>6 DEF WroteRightly
<1>14. Formed(t)' /\ Filled(t)'
  BY <1>2, <1>5, <1>6 DEF Formed, Filled, Live, NoEntries
<1>15. Alone(t)'
  BY <1>2, <1>5, <1>6 DEF Alone, Own, Maps, NoEntries, NoDir, Page
<1>16. FreeIsClear'
  BY <1>1, <1>2, <1>6, <1>10 DEF FreeIsClear
<1> QED
  BY <1>7, <1>10, <1>11, <1>12, <1>13, <1>14, <1>15, <1>16 DEF StepOf

-----------------------------------------------------------------------------
(* The kernel code of a task gets a page and holds it, or lets it go.      *)

(* Only the page that kernel code holds is another one.                    *)
LEMMA HeldChange ==
  ASSUME TypeOK, NEW t \in Task, NEW g,
         pte'[t] = pte[t], pg_dir'[t] = pg_dir[t],
         proc'[t].page = proc[t].page
  PROVE  Uses(t, g)' = Uses(t, g) - One(proc[t].held, g) + One(proc'[t].held, g)
<1>1. Mapped(t)' = Mapped(t)
  BY DEF Mapped
<1>2. Occurs(Mapped(t), g)' = Occurs(Mapped(t), g)
  BY <1>1 DEF Occurs
<1>3. /\ Occurs(Mapped(t), g) \in Nat /\ Occurs(pg_dir[t], g) \in Nat
      /\ One(proc[t].page, g) \in Nat /\ One(proc[t].held, g) \in Nat
      /\ One(proc'[t].held, g) \in Nat
  BY UsesNumber, OneNumber
<1>4. /\ Uses(t, g) = Occurs(Mapped(t), g) + Occurs(pg_dir[t], g)
                        + One(proc[t].page, g) + One(proc[t].held, g)
      /\ Uses(t, g)' = Occurs(Mapped(t), g) + Occurs(pg_dir[t], g)
                        + One(proc[t].page, g) + One(proc'[t].held, g)
  BY <1>2 DEF Uses
<1> QED
  BY <1>3, <1>4

(* Gotten: by do_no_page() for a page of the program, and by copy_strings()*)
(* for the arguments.                                                      *)
LEMMA HoldStep ==
  ASSUME Inv, NEW t \in Task, proc[t].st = "user", FreePages(mem_map) # {},
         NEW n, n = LastFree(mem_map),
         mem_map' = Taken(mem_map, n),
         proc' \in [Task -> Proc],
         \A u \in Task \ {t} : proc'[u] = proc[u],
         proc'[t].page = proc[t].page, proc'[t].held = n,
         proc'[t].exe = proc[t].exe,
         \/ /\ proc'[t].st = "no_page" /\ proc'[t].at \in Text
            /\ proc[t].exe # None /\ pte[t][proc'[t].at] = None
            /\ content' = content
         \/ /\ proc'[t].st = "args"
            /\ content' = [content EXCEPT ![n] = t],
         pg_dir' = pg_dir, pte' = pte
  PROVE  TypeOK' /\ StepOf(t)
<1>1. TypeOK /\ Formed(t) /\ Filled(t) /\ FreeIsClear /\ Alone(t)
  BY DEF Inv, CountsExact
<1>2. n \in Page /\ mem_map[n] = 0 /\ n # 0 /\ n # Low
  BY LastFreeIs DEF Page, Low
<1>3. /\ mem_map' \in [Page -> Nat] /\ mem_map'[n] = 1
      /\ \A g \in Page : /\ mem_map'[g] = mem_map[g] + One(n, g)
                         /\ g # n => mem_map'[g] = mem_map[g]
  BY <1>1, <1>2, TakenIs DEF TypeOK
<1>4. /\ content' \in [Page \cup {Low} -> Content]
      /\ \A g \in Page \cup {Low} : g # n => content'[g] = content[g]
  BY <1>1, <1>2 DEF TypeOK, Content
<1>5. TypeOK'
  BY <1>1, <1>3, <1>4 DEF TypeOK
<1>6. proc[t].held = 0 /\ \A g \in Page : One(0, g) = 0
  BY <1>1, NothingUsed DEF Formed
<1>7. \A g \in Page : Uses(t, g)' = Uses(t, g) + One(n, g)
  <2> SUFFICES ASSUME NEW g \in Page PROVE Uses(t, g)' = Uses(t, g) + One(n, g)
    OBVIOUS
  <2>1. Uses(t, g)' = Uses(t, g) - One(proc[t].held, g) + One(proc'[t].held, g)
    BY <1>1, HeldChange
  <2> QED
    BY <1>6, <2>1, OwnOnce, OneNumber
<1>8. \A g \in Page : mem_map'[g] = mem_map[g] - Uses(t, g) + Uses(t, g)'
  BY <1>3, <1>7, OwnOnce, OneNumber
<1>9. \A u \in Task \ {t} : Undisturbed(u)
  BY DEF Undisturbed
<1>10. \A g \in Page : GotRightly(t, g)
  BY <1>2, <1>7, OwnOnce DEF GotRightly, One
<1>11. \A g \in Page \cup {Low} : WroteRightly(t, g)
  BY <1>2, <1>4 DEF WroteRightly
<1>12. \A g \in Page : Own(t, g)' => g = n \/ Own(t, g)
  BY DEF Own, Maps
<1>13. Alone(t)'
  BY <1>1, <1>2, <1>3, <1>12 DEF Alone
<1>14. Formed(t)'
  BY <1>1, <1>2 DEF Formed, Live
<1>15. Own(t, proc[t].page)
  BY DEF Own
<1>16. proc[t] \in Proc /\ (proc[t].page # 0 => proc[t].page \in Page)
  BY <1>1 DEF TypeOK, Proc
<1>17. proc[t].page # 0 => proc[t].page # n /\ content[proc[t].page] = Zero
  BY <1>1, <1>2, <1>15, <1>16 DEF Alone, Filled
<1>18. Filled(t)'
  BY <1>1, <1>2, <1>4, <1>16, <1>17 DEF Filled, TypeOK
<1>19. FreeIsClear'
  BY <1>1, <1>2, <1>3, <1>4 DEF FreeIsClear
<1> QED
  BY <1>5, <1>8, <1>9, <1>10, <1>11, <1>13, <1>14, <1>18, <1>19 DEF StepOf

(* The entry of a task changes.                                            *)
LEMMA ProcChange ==
  ASSUME proc \in [Task -> Proc], NEW t \in Task, NEW q \in Proc,
         proc' = [proc EXCEPT ![t] = q]
  PROVE  /\ proc' \in [Task -> Proc] /\ proc'[t] = q
         /\ \A u \in Task \ {t} : proc'[u] = proc[u]
OBVIOUS

(* do_no_page() up to the sleep: the page it gets is held.                 *)
LEMMA NoPageStep ==
  ASSUME Inv, NEW t \in Task, NEW a \in Addr, NoPage(t, a)
  PROVE  TypeOK' /\ StepOf(t)
<1> DEFINE n == LastFree(mem_map)
<1>1. TypeOK
  BY DEF Inv, CountsExact
<1>2. /\ proc[t].st = "user" /\ pte[t][a] = None
      /\ proc[t].exe # None /\ a \in Text
  BY DEF NoPage, NeedsFile
<1>3. CASE FreePages(mem_map) = {}
  BY <1>2, <1>3, UserExitedStep DEF NoPage
<1>4. CASE FreePages(mem_map) # {}
  <2>1. /\ mem_map' = Taken(mem_map, n)
        /\ proc' = [proc EXCEPT ![t] = [@ EXCEPT
                     !.st = "no_page", !.at = a, !.held = n]]
        /\ pg_dir' = pg_dir /\ pte' = pte /\ content' = content
    BY <1>4 DEF NoPage
  <2>2. n \in Page
    BY <1>4, LastFreeIs
  <2> HIDE DEF n
  <2>3. /\ proc'[t].page = proc[t].page /\ proc'[t].held = n
        /\ proc'[t].exe = proc[t].exe /\ proc'[t].st = "no_page"
        /\ proc'[t].at = a /\ proc' \in [Task -> Proc]
        /\ \A u \in Task \ {t} : proc'[u] = proc[u]
    <3> DEFINE p == proc[t]
               q == [p EXCEPT !.st = "no_page", !.at = a, !.held = n]
    <3>1. proc \in [Task -> Proc] /\ p \in Proc
      BY <1>1 DEF TypeOK
    <3>2. q \in Proc
      BY <2>2, <3>1 DEF Proc
    <3>3. /\ q.st = "no_page" /\ q.at = a /\ q.held = n
          /\ q.page = p.page /\ q.exe = p.exe
      BY <3>1 DEF Proc
    <3>4. proc' = [proc EXCEPT ![t] = q]
      BY <2>1
    <3> HIDE DEF q
    <3> QED
      BY <3>1, <3>2, <3>3, <3>4, ProcChange
  <2>4. n = LastFree(mem_map)
    BY DEF n
  <2> QED
    BY <1>2, <1>4, <2>1, <2>3, <2>4, HoldStep
<1> QED
  BY <1>3, <1>4

(* copy_strings(): the page of the arguments is held.                      *)
LEMMA CopyStringsStep ==
  ASSUME Inv, NEW t \in Task, NEW e \in Exe, CopyStrings(t, e)
  PROVE  TypeOK' /\ StepOf(t)
<1> DEFINE n == LastFree(mem_map)
<1>1. TypeOK
  BY DEF Inv, CountsExact
<1>2. proc[t].st = "user" /\ FreePages(mem_map) # {}
  BY DEF CopyStrings
<1>3. /\ mem_map' = Taken(mem_map, n)
      /\ content' = [content EXCEPT ![n] = t]
      /\ proc' = [proc EXCEPT ![t] = [@ EXCEPT
                   !.st = "args", !.next = e, !.held = n]]
      /\ pg_dir' = pg_dir /\ pte' = pte
  BY DEF CopyStrings
<1>4. n \in Page
  BY <1>2, LastFreeIs
<1>5. n = LastFree(mem_map)
  OBVIOUS
<1> HIDE DEF n
<1>6. /\ proc'[t].page = proc[t].page /\ proc'[t].held = n
      /\ proc'[t].exe = proc[t].exe /\ proc'[t].st = "args"
      /\ proc' \in [Task -> Proc]
      /\ \A u \in Task \ {t} : proc'[u] = proc[u]
  <2> DEFINE p == proc[t]
             q == [p EXCEPT !.st = "args", !.next = e, !.held = n]
  <2>1. proc \in [Task -> Proc] /\ p \in Proc
    BY <1>1 DEF TypeOK
  <2>2. q \in Proc
    BY <1>4, <2>1 DEF Proc
  <2>3. /\ q.st = "args" /\ q.held = n
        /\ q.page = p.page /\ q.exe = p.exe
    BY <2>1 DEF Proc
  <2>4. proc' = [proc EXCEPT ![t] = q]
    BY <1>3
  <2> HIDE DEF q
  <2> QED
    BY <2>1, <2>2, <2>3, <2>4, ProcChange
<1> QED
  BY <1>2, <1>3, <1>5, <1>6, HoldStep

(* What do_execve() leaves in the task when it ends.                       *)
LEMMA BackFromExec ==
  ASSUME proc \in [Task -> Proc], NEW t \in Task,
         proc' = [proc EXCEPT ![t] = [@ EXCEPT
                    !.st = "user", !.next = None, !.held = 0]]
  PROVE  /\ proc' \in [Task -> Proc]
         /\ proc'[t].st = "user" /\ proc'[t].held = 0
         /\ proc'[t].page = proc[t].page /\ proc'[t].exe = proc[t].exe
         /\ \A u \in Task \ {t} : proc'[u] = proc[u]
<1> DEFINE p == proc[t]
           q == [p EXCEPT !.st = "user", !.next = None, !.held = 0]
<1>1. p \in Proc
  OBVIOUS
<1>2. q \in Proc
  BY <1>1 DEF Proc
<1>3. /\ q.st = "user" /\ q.held = 0
      /\ q.page = p.page /\ q.exe = p.exe
  BY <1>1 DEF Proc
<1> QED
  BY <1>2, <1>3

(* Let go: when execve() fails the page of the arguments is freed.         *)
LEMMA ExecErrorStep ==
  ASSUME Inv, NEW t \in Task, ExecError(t)
  PROVE  TypeOK' /\ StepOf(t)
<1> DEFINE h == proc[t].held
<1>1. TypeOK /\ Formed(t) /\ Filled(t) /\ FreeIsClear /\ Alone(t)
  BY DEF Inv, CountsExact
<1>2. h \in Page /\ h # 0 /\ Own(t, h) /\ proc[t].st = "args"
  BY <1>1 DEF ExecError, TypeOK, Proc, Formed, Own
<1>3. mem_map[h] = 1 /\ Uses(t, h) = 1
  BY <1>2, OwnOnce
<1>4. \A a \in Addr : ~Maps(t, a, h)
  BY <1>1, <1>2, <1>3, UsesAre
<1>5. proc[t].page # h /\ \A d \in Table : pg_dir[t][d] # h
  BY <1>1, <1>2, <1>3, UsesAre
<1>6. /\ mem_map' = [mem_map EXCEPT ![h] = 0]
      /\ content' = Kept(content, mem_map')
      /\ proc' = [proc EXCEPT ![t] = [@ EXCEPT
                   !.st = "user", !.next = None, !.held = 0]]
      /\ pg_dir' = pg_dir /\ pte' = pte
  BY DEF ExecError
<1>7. /\ proc'[t].page = proc[t].page /\ proc'[t].held = 0
      /\ proc'[t].st = "user" /\ proc' \in [Task -> Proc]
      /\ \A u \in Task \ {t} : proc'[u] = proc[u]
  BY <1>1, <1>6, BackFromExec DEF TypeOK
<1>8. mem_map' \in [Page -> Nat] /\ mem_map'[h] = 0
      /\ \A g \in Page : g # h => mem_map'[g] = mem_map[g]
  BY <1>1, <1>2, <1>6 DEF TypeOK
<1>9. content' \in [Page \cup {Low} -> Content]
  BY <1>1, <1>6 DEF Kept, TypeOK, Content
<1>10. TypeOK'
  BY <1>1, <1>6, <1>7, <1>8, <1>9 DEF TypeOK
<1>11. \A g \in Page : Uses(t, g)' = Uses(t, g) - One(h, g)
  <2> SUFFICES ASSUME NEW g \in Page PROVE Uses(t, g)' = Uses(t, g) - One(h, g)
    OBVIOUS
  <2>1. Uses(t, g)' = Uses(t, g) - One(h, g) + One(0, g)
    BY <1>1, <1>6, <1>7, HeldChange
  <2> QED
    BY <2>1, NothingUsed, OwnOnce, OneNumber
<1>12. \A g \in Page : mem_map'[g] = mem_map[g] - Uses(t, g) + Uses(t, g)'
  BY <1>3, <1>8, <1>11, OwnOnce DEF One
<1>13. \A u \in Task \ {t} : Undisturbed(u)
  BY <1>6, <1>7 DEF Undisturbed
<1>14. \A g \in Page : GotRightly(t, g)
  BY <1>3, <1>11, OwnOnce DEF GotRightly, One
<1>15. \A g \in Page \cup {Low} : WroteRightly(t, g)
  BY <1>6 DEF WroteRightly, Kept
<1>16. \A g \in Page : Own(t, g)' => Own(t, g) /\ g # h
  <2> SUFFICES ASSUME NEW g \in Page, Own(t, g)' PROVE Own(t, g) /\ g # h
    OBVIOUS
  <2>1. g # 0
    BY DEF Page
  <2> QED
    BY <1>4, <1>5, <1>6, <1>7, <2>1 DEF Own, Maps
<1>17. Alone(t)'
  BY <1>1, <1>8, <1>16 DEF Alone
<1>18. Formed(t)'
  BY <1>1, <1>2, <1>6, <1>7 DEF Formed, Live
<1>19. Filled(t)'
  <2>1. proc[t] \in Proc /\ proc[t].page \in Page
    BY <1>1, <1>2 DEF TypeOK, Proc, Formed
  <2>2. mem_map'[proc[t].page] = 1
    BY <1>1, <1>5, <1>8, <2>1 DEF Alone, Own
  <2>3. content'[proc[t].page] = content[proc[t].page]
    BY <1>6, <2>1, <2>2 DEF Kept
  <2> QED
    BY <1>1, <1>7, <2>3 DEF Filled
<1>20. FreeIsClear'
  BY <1>6 DEF FreeIsClear, Kept, Low, Page
<1> QED
  BY <1>10, <1>12, <1>13, <1>14, <1>15, <1>17, <1>18, <1>19, <1>20 DEF StepOf

(* "This is the point of no return" touches no page.                       *)
LEMMA NewExecutableStep ==
  ASSUME Inv, NEW t \in Task, NewExecutable(t)
  PROVE  TypeOK' /\ StepOf(t)
<1>1. TypeOK /\ Formed(t) /\ Filled(t) /\ FreeIsClear /\ Alone(t)
  BY DEF Inv, CountsExact
<1>2. /\ mem_map' = mem_map /\ content' = content
      /\ pg_dir' = pg_dir /\ pte' = pte
      /\ proc' = [proc EXCEPT ![t].st = "close", ![t].exe = proc[t].next]
      /\ proc[t].st = "args"
  BY DEF NewExecutable
<1>3. /\ proc'[t].page = proc[t].page /\ proc'[t].held = proc[t].held
      /\ proc'[t].st = "close" /\ proc' \in [Task -> Proc]
      /\ \A u \in Task \ {t} : proc'[u] = proc[u]
  BY <1>1, <1>2 DEF TypeOK, Proc
<1>4. TypeOK'
  BY <1>1, <1>2, <1>3 DEF TypeOK
<1>5. SamePages(t)
  BY <1>2, <1>3 DEF SamePages, Mapped
<1>6. \A g \in Page : Uses(t, g)' = Uses(t, g)
  BY <1>5, SameUses
<1>7. \A g \in Page : mem_map'[g] = mem_map[g] - Uses(t, g) + Uses(t, g)'
  BY <1>2, <1>6, OwnOnce
<1>8. \A u \in Task \ {t} : Undisturbed(u)
  BY <1>2, <1>3 DEF Undisturbed
<1>9. \A g \in Page : GotRightly(t, g)
  BY <1>6 DEF GotRightly
<1>10. \A g \in Page \cup {Low} : WroteRightly(t, g)
  BY <1>2 DEF WroteRightly
<1>11. \A g \in Page : Own(t, g)' => Own(t, g)
  BY <1>2, <1>3 DEF Own, Maps
<1>12. Alone(t)' /\ FreeIsClear'
  BY <1>1, <1>2, <1>11 DEF Alone, FreeIsClear
<1>13. Formed(t)'
  BY <1>1, <1>2, <1>3 DEF Formed, Live
<1>14. Filled(t)'
  BY <1>1, <1>2, <1>3 DEF Filled
<1> QED
  BY <1>4, <1>7, <1>8, <1>9, <1>10, <1>12, <1>13, <1>14 DEF StepOf

-----------------------------------------------------------------------------
(* A task writes, or makes a page its own to write to it.                  *)

(* One page table entry changes.                                           *)
LEMMA EntryChange ==
  ASSUME pte \in [Task -> [Addr -> Entry \cup {None}]],
         NEW t \in Task, NEW a \in Addr, NEW e \in Entry,
         pte' = [pte EXCEPT ![t][a] = e]
  PROVE  /\ pte' \in [Task -> [Addr -> Entry \cup {None}]]
         /\ pte'[t][a] = e
         /\ \A b \in Addr \ {a} : pte'[t][b] = pte[t][b]
         /\ \A u \in Task \ {t} : pte'[u] = pte[u]
OBVIOUS

(* To a page nobody else uses.                                             *)
LEMMA SoleUserStep ==
  ASSUME Inv, NEW t \in Task, NEW a \in Addr, proc[t].st = "user",
         NEW p \in Page, Maps(t, a, p), mem_map[p] = 1,
         NEW e \in Entry, e.page = p, pte' = [pte EXCEPT ![t][a] = e],
         content' \in [Page \cup {Low} -> Content],
         \A g \in Page \cup {Low} : g # p => content'[g] = content[g],
         mem_map' = mem_map, pg_dir' = pg_dir, proc' = proc
  PROVE  TypeOK' /\ StepOf(t)
<1>1. TypeOK /\ Formed(t) /\ Filled(t) /\ FreeIsClear /\ Alone(t)
  BY DEF Inv, CountsExact
<1>2. /\ pte' \in [Task -> [Addr -> Entry \cup {None}]] /\ pte'[t][a] = e
      /\ \A b \in Addr \ {a} : pte'[t][b] = pte[t][b]
      /\ \A u \in Task \ {t} : pte'[u] = pte[u]
  BY <1>1, EntryChange DEF TypeOK
<1>3. TypeOK'
  BY <1>1, <1>2 DEF TypeOK
<1>4. e # None /\ pte[t][a] # None /\ pte[t][a].page = p /\ p # Low
  BY NoneAssumption DEF Maps, Page, Low
<1>5. SamePages(t)
  <2>1. \A b \in Addr : PageOf(pte'[t][b]) = PageOf(pte[t][b])
    BY <1>2, <1>4 DEF PageOf
  <2>2. Mapped(t)' = Mapped(t)
    BY <2>1 DEF Mapped
  <2> QED
    BY <2>2 DEF SamePages
<1>6. \A g \in Page : Uses(t, g)' = Uses(t, g)
  BY <1>5, SameUses
<1>7. \A g \in Page : mem_map'[g] = mem_map[g] - Uses(t, g) + Uses(t, g)'
  BY <1>6, OwnOnce
<1>8. Uses(t, p) = 1
  <2>1. Uses(t, p) # 0
    BY <1>1, UsesAre
  <2> QED
    BY <2>1, OwnOnce
<1>9. \A u \in Task \ {t} : Undisturbed(u)
  BY <1>2 DEF Undisturbed
<1>10. \A g \in Page : GotRightly(t, g)
  BY <1>6 DEF GotRightly
<1>11. \A g \in Page \cup {Low} : WroteRightly(t, g)
  BY <1>4, <1>8 DEF WroteRightly
<1>12. \A g \in Page : Own(t, g)' => g = p \/ Own(t, g)
  BY <1>2 DEF Own, Maps
<1>13. Alone(t)'
  BY <1>1, <1>12 DEF Alone
<1>14. Formed(t)'
  BY <1>1, <1>2, <1>4 DEF Formed, Live
<1>15. proc[t].page # p
  BY <1>1, <1>8, UsesAre
<1>16. Filled(t)'
  BY <1>1, <1>15 DEF Filled, TypeOK, Proc
<1>17. FreeIsClear'
  BY <1>1 DEF FreeIsClear
<1> QED
  BY <1>3, <1>7, <1>9, <1>10, <1>11, <1>13, <1>14, <1>16, <1>17 DEF StepOf

(* A write in user mode goes to a page of one's own.                       *)
LEMMA WriteStep ==
  ASSUME Inv, NEW t \in Task, NEW a \in Addr, Write(t, a)
  PROVE  TypeOK' /\ StepOf(t)
<1> DEFINE p == pte[t][a].page
           e == [pte[t][a] EXCEPT !.dirty = TRUE]
<1>1. TypeOK /\ Formed(t) /\ Alone(t)
  BY DEF Inv, CountsExact
<1>2. proc[t].st = "user" /\ pte[t][a] # None /\ pte[t][a].rw
  BY DEF Write
<1>3. pte[t][a] \in Entry /\ p \in Page
  BY <1>1, <1>2 DEF TypeOK, Formed, Entry
<1>4. e \in Entry /\ e.page = p
  BY <1>3 DEF Entry
<1>5. pte' = [pte EXCEPT ![t][a] = e]
  BY DEF Write
<1>6. Maps(t, a, p) /\ mem_map[p] = 1
  BY <1>1, <1>2, <1>3 DEF Maps, Own, Alone
<1>7. content' = [content EXCEPT ![p] = t]
  BY DEF Write
<1>8. mem_map' = mem_map /\ pg_dir' = pg_dir /\ proc' = proc
  BY DEF Write
<1> HIDE DEF p, e
<1>9. /\ content' \in [Page \cup {Low} -> Content]
      /\ \A g \in Page \cup {Low} : g # p => content'[g] = content[g]
  BY <1>1, <1>3, <1>7 DEF TypeOK, Content
<1> QED
  BY <1>2, <1>3, <1>4, <1>5, <1>6, <1>8, <1>9, SoleUserStep

(* To a page that was copied, and that loses one use.                      *)
LEMMA CopiedPageStep ==
  ASSUME Inv, NEW t \in Task, NEW a \in Addr, proc[t].st = "user",
         pte[t][a] # None, ~OnlyUser(pte[t][a].page),
         NEW n \in Page, mem_map[n] = 0,
         mem_map' = [g \in Page |-> IF g = n THEN 1
                                    ELSE IF g = pte[t][a].page THEN mem_map[g] - 1
                                    ELSE mem_map[g]],
         NEW e \in Entry, e.page = n, pte' = [pte EXCEPT ![t][a] = e],
         NEW c \in Content, content' = [content EXCEPT ![n] = c],
         pg_dir' = pg_dir, proc' = proc
  PROVE  TypeOK' /\ StepOf(t)
<1> DEFINE old == pte[t][a].page
<1>1. TypeOK /\ Formed(t) /\ Filled(t) /\ FreeIsClear /\ Alone(t)
  BY DEF Inv, CountsExact
<1>2. /\ pte' \in [Task -> [Addr -> Entry \cup {None}]] /\ pte'[t][a] = e
      /\ \A b \in Addr \ {a} : pte'[t][b] = pte[t][b]
      /\ \A u \in Task \ {t} : pte'[u] = pte[u]
  BY <1>1, EntryChange DEF TypeOK
<1>3. e # None /\ n # Low /\ n # 0 /\ PageOf(e) = n
  BY NoneAssumption DEF Page, Low, PageOf
<1>4. old \in Page \cup {Low} /\ PageOf(pte[t][a]) = old
  BY <1>1 DEF TypeOK, Entry, PageOf
<1>5. old \in Page => Uses(t, old) # 0 /\ mem_map[old] # 1
  BY <1>1, UsesAre DEF Maps, OnlyUser, Page, Low
<1>6. old \in Page => mem_map[old] - 1 \in Nat /\ mem_map[old] >= 2 /\ old # n
  BY <1>5, OwnOnce
<1>7. \A g \in Page : /\ mem_map'[g] = mem_map[g] - One(old, g) + One(n, g)
                      /\ mem_map'[g] \in Nat
                      /\ g # n => mem_map'[g] # 0 \/ mem_map[g] = 0
  BY <1>1, <1>6 DEF One, TypeOK
<1>8. \A g \in Page : Uses(t, g)' = Uses(t, g) - One(old, g) + One(n, g)
  <2> SUFFICES ASSUME NEW g \in Page
               PROVE  Uses(t, g)' = Uses(t, g) - One(old, g) + One(n, g)
    OBVIOUS
  <2>1. \A b \in Addr \ {a} : PageOf(pte'[t][b]) = PageOf(pte[t][b])
    BY <1>2
  <2>2. Occurs(Mapped(t), g)' =
          Occurs(Mapped(t), g) - One(old, g) + One(n, g)
    BY <1>1, <1>2, <1>3, <1>4, <2>1, MappedChange
  <2>3. /\ Uses(t, g) = Occurs(Mapped(t), g) + Occurs(pg_dir[t], g)
                          + One(proc[t].page, g) + One(proc[t].held, g)
        /\ Uses(t, g)' = Occurs(Mapped(t), g)' + Occurs(pg_dir[t], g)
                          + One(proc[t].page, g) + One(proc[t].held, g)
    BY DEF Uses
  <2>4. /\ Occurs(Mapped(t), g) \in Nat /\ Occurs(pg_dir[t], g) \in Nat
        /\ One(proc[t].page, g) \in Nat /\ One(proc[t].held, g) \in Nat
        /\ One(old, g) \in Nat /\ One(n, g) \in Nat
    BY <1>1, UsesNumber, OneNumber
  <2> HIDE DEF old
  <2> QED
    BY <2>2, <2>3, <2>4
<1> HIDE DEF old
<1>9. \A g \in Page : mem_map'[g] = mem_map[g] - Uses(t, g) + Uses(t, g)'
  BY <1>7, <1>8, OwnOnce, OneNumber
<1>10. /\ content' \in [Page \cup {Low} -> Content]
       /\ \A g \in Page \cup {Low} : g # n => content'[g] = content[g]
  BY <1>1 DEF TypeOK
<1>11. TypeOK'
  BY <1>1, <1>2, <1>7, <1>10 DEF TypeOK
<1>12. \A u \in Task \ {t} : Undisturbed(u)
  BY <1>2 DEF Undisturbed
<1>13. \A g \in Page : GotRightly(t, g)
  <2> SUFFICES ASSUME NEW g \in Page, Uses(t, g)' # 0, g # n PROVE Uses(t, g) # 0
    BY DEF GotRightly
  <2>1. Uses(t, g)' = Uses(t, g) - One(old, g) /\ Uses(t, g)' \in Nat
    BY <1>8, <1>11, OwnOnce, OneNumber, UsesNumberNext DEF One
  <2> QED
    BY <2>1, OneNumber
<1>14. \A g \in Page \cup {Low} : WroteRightly(t, g)
  BY <1>3, <1>10 DEF WroteRightly
<1>15. \A g \in Page : Own(t, g)' => g = n \/ Own(t, g)
  BY <1>2 DEF Own, Maps
<1>16. \A g \in Page : Own(t, g) => g # old /\ g # n /\ mem_map'[g] = 1
  BY <1>1, <1>5, <1>7 DEF Alone, One
<1>17. Alone(t)'
  BY <1>7, <1>15, <1>16 DEF Alone
<1>18. Formed(t)'
  BY <1>1, <1>2, <1>3 DEF Formed, Live
<1>19. proc[t].page # n
  BY <1>16 DEF Own
<1>20. Filled(t)'
  BY <1>1, <1>10, <1>19 DEF Filled, TypeOK, Proc
<1>21. FreeIsClear'
  BY <1>1, <1>7, <1>10, OwnOnce DEF FreeIsClear
<1> QED
  BY <1>9, <1>11, <1>12, <1>13, <1>14, <1>17, <1>18, <1>20, <1>21 DEF StepOf

(* un_wp_page()                                                            *)
LEMMA UnWpPageStep ==
  ASSUME Inv, NEW t \in Task, NEW a \in Addr, NEW writes \in BOOLEAN,
         UnWpPage(t, a, writes)
  PROVE  TypeOK' /\ StepOf(t)
<1> DEFINE old == pte[t][a].page
           n == LastFree(mem_map)
<1>1. TypeOK
  BY DEF Inv, CountsExact
<1>2. proc[t].st = "user" /\ pte[t][a] # None
  BY DEF UnWpPage
<1>3. pte[t][a] \in Entry /\ old \in Page \cup {Low}
  BY <1>1, <1>2 DEF TypeOK, Entry
<1>4. CASE /\ OnlyUser(old)
           /\ pte' = [pte EXCEPT ![t][a] = Unprotect(pte[t][a], writes)]
           /\ content' = [content EXCEPT ![old] = IF writes THEN t ELSE @]
           /\ UNCHANGED <<mem_map, pg_dir, proc>>
  <2> DEFINE e == Unprotect(pte[t][a], writes)
  <2>1. e \in Entry /\ e.page = old
    BY <1>3 DEF Entry, Unprotect
  <2>2. pte' = [pte EXCEPT ![t][a] = e]
    BY <1>4
  <2>3. old \in Page /\ mem_map[old] = 1 /\ Maps(t, a, old)
    BY <1>2, <1>3, <1>4 DEF OnlyUser, Maps
  <2>4. mem_map' = mem_map /\ pg_dir' = pg_dir /\ proc' = proc
    BY <1>4
  <2>5. content' = [content EXCEPT ![old] = IF writes THEN t ELSE content[old]]
    BY <1>4
  <2> HIDE DEF e, old
  <2>6. /\ content' \in [Page \cup {Low} -> Content]
        /\ \A g \in Page \cup {Low} : g # old => content'[g] = content[g]
    BY <1>1, <2>3, <2>5 DEF TypeOK, Content
  <2> QED
    BY <1>2, <2>1, <2>2, <2>3, <2>4, <2>6, SoleUserStep
<1>5. CASE /\ ~OnlyUser(old) /\ FreePages(mem_map) # {}
           /\ mem_map' = [g \in Page |-> IF g = n THEN 1
                                         ELSE IF g = old THEN mem_map[g] - 1
                                         ELSE mem_map[g]]
           /\ pte' = [pte EXCEPT ![t][a] = [Writable(n) EXCEPT !.dirty = writes]]
           /\ content' = [content EXCEPT ![n] = IF writes THEN t ELSE content[old]]
           /\ UNCHANGED <<pg_dir, proc>>
  <2> DEFINE e == [Writable(n) EXCEPT !.dirty = writes]
             c == IF writes THEN t ELSE content[old]
  <2>1. n \in Page /\ mem_map[n] = 0
    BY <1>5, LastFreeIs
  <2>2. e \in Entry /\ e.page = n
    BY <2>1 DEF Entry, Writable
  <2>3. c \in Content
    BY <1>1, <1>3 DEF TypeOK, Content
  <2>4. pte' = [pte EXCEPT ![t][a] = e] /\ content' = [content EXCEPT ![n] = c]
    BY <1>5
  <2>5. /\ ~OnlyUser(pte[t][a].page) /\ pg_dir' = pg_dir /\ proc' = proc
        /\ mem_map' = [g \in Page |-> IF g = n THEN 1
                                      ELSE IF g = pte[t][a].page THEN mem_map[g] - 1
                                      ELSE mem_map[g]]
    BY <1>5
  <2> HIDE DEF e, c, n
  <2> QED
    BY <1>2, <2>1, <2>2, <2>3, <2>4, <2>5, CopiedPageStep
<1>6. CASE Exited(t, mem_map)
  BY <1>2, <1>6, UserExitedStep
<1> QED
  BY <1>4, <1>5, <1>6 DEF UnWpPage

-----------------------------------------------------------------------------
(* put_page() for a task: where its kernel code got the page (a free one,  *)
(* the one it holds, that of another task) is left to the caller.          *)

Puts(t, a, map, r, n, e) ==
  /\ Live(t) /\ a \in Addr /\ pte[t][a] = None
  /\ map \in [Page -> Nat] /\ PutIs(r, map, pg_dir[t], a)
  /\ n \in Page /\ e \in Entry /\ e.page = n
  /\ proc[t].held \in {0, n} /\ proc[t].page # n
  /\ \A g \in Page : map[g] = 0 => mem_map[g] = 0 /\ g # n
  /\ mem_map' \in [Page -> Nat]
  /\ \A g \in Page : mem_map'[g] = mem_map[g] + (r.map[g] - map[g])
                                    + One(n, g) - One(proc[t].held, g)
  /\ mem_map'[n] # 0
  /\ (e.rw => mem_map'[n] = 1) /\ (~e.rw => ~Own(t, n))
  /\ GotRightly(t, n) /\ WroteRightly(t, n)
  /\ content' \in [Page \cup {Low} -> Content]
  /\ \A g \in Page \cup {Low} : g # n => content'[g] = content[g]
  /\ pg_dir' = [pg_dir EXCEPT ![t] = r.dir]
  /\ pte' \in [Task -> [Addr -> Entry \cup {None}]]
  /\ pte'[t] = [pte[t] EXCEPT ![a] = e]
  /\ proc' \in [Task -> Proc] /\ proc'[t].st = "user"
  /\ proc'[t].held = 0 /\ proc'[t].page = proc[t].page
  /\ \A u \in Task \ {t} : Undisturbed(u)

(* A step that puts a page is a step of the task.                          *)
LEMMA PutStep ==
  ASSUME Inv, NEW t \in Task, NEW a, NEW map, NEW r, NEW n, NEW e,
         Puts(t, a, map, r, n, e)
  PROVE  TypeOK' /\ StepOf(t)
<1> DEFINE h == proc[t].held
<1> USE DEF Puts
<1>1. TypeOK /\ Formed(t) /\ Filled(t) /\ FreeIsClear /\ Alone(t)
  BY DEF Inv, CountsExact
<1>2. /\ r.map \in [Page -> Nat] /\ r.dir \in [Table -> Page \cup {0}]
      /\ r.dir[TableOf[a]] # 0
      /\ \A d \in Table :
           \/ r.dir[d] = pg_dir[t][d]
           \/ /\ pg_dir[t][d] = 0 /\ r.dir[d] \in Page
              /\ map[r.dir[d]] = 0 /\ r.map[r.dir[d]] = 1
      /\ \A g \in Page : r.map[g] = map[g] - Occurs(pg_dir[t], g) + Occurs(r.dir, g)
      /\ \A g \in Page : r.map[g] = map[g] \/ (map[g] = 0 /\ r.map[g] = 1)
  BY DEF PutIs
<1>3. /\ pg_dir' \in [Task -> [Table -> Page \cup {0}]] /\ pg_dir'[t] = r.dir
  BY <1>1, <1>2 DEF TypeOK
<1>4. /\ pte'[t][a] = e /\ \A b \in Addr \ {a} : pte'[t][b] = pte[t][b]
      /\ e # None /\ n # 0 /\ n # Low
  BY <1>1, NoneAssumption DEF TypeOK, Page, Low
<1>5. TypeOK'
  BY <1>1, <1>3 DEF TypeOK
<1>21. \A g \in Page : Occurs(r.dir, g) \in Nat
  <2>1. IsFiniteSet(Table)
    BY PagesAssumption, FS_Interval DEF Table
  <2>2. DOMAIN r.dir = Table
    BY <1>2
  <2> QED
    BY <2>1, <2>2, OccursNumber
<1>6. \A g \in Page : Uses(t, g)' = Uses(t, g) - Occurs(pg_dir[t], g)
                        + Occurs(r.dir, g) + One(n, g) - One(h, g)
  <2> SUFFICES ASSUME NEW g \in Page
               PROVE  Uses(t, g)' = Uses(t, g) - Occurs(pg_dir[t], g)
                        + Occurs(r.dir, g) + One(n, g) - One(h, g)
    OBVIOUS
  <2>1. \A b \in Addr \ {a} : PageOf(pte'[t][b]) = PageOf(pte[t][b])
    BY <1>4
  <2>2. PageOf(pte[t][a]) = 0 /\ PageOf(pte'[t][a]) = n /\ One(0, g) = 0
    BY <1>4, NothingUsed DEF PageOf
  <2>3. Occurs(Mapped(t), g)' =
          Occurs(Mapped(t), g) - One(0, g) + One(n, g)
    BY <1>1, <2>1, <2>2, MappedChange
  <2>4. /\ Uses(t, g) = Occurs(Mapped(t), g) + Occurs(pg_dir[t], g)
                          + One(proc[t].page, g) + One(h, g)
        /\ Uses(t, g)' = Occurs(Mapped(t), g)' + Occurs(r.dir, g)
                          + One(proc[t].page, g) + One(0, g)
    BY <1>3 DEF Uses
  <2>5. Occurs(Mapped(t), g) \in Nat /\ Occurs(pg_dir[t], g) \in Nat
    BY <1>1, UsesNumber
  <2>6. /\ One(proc[t].page, g) \in Nat /\ One(h, g) \in Nat
        /\ One(n, g) \in Nat
    BY DEF One
  <2>7. Occurs(r.dir, g) \in Nat
    BY <1>21
  <2> HIDE DEF h
  <2> QED
    BY <2>2, <2>3, <2>4, <2>5, <2>6, <2>7
<1>7. \A g \in Page : Occurs(pg_dir[t], g) \in Nat /\ Occurs(r.dir, g) \in Nat
  BY <1>1, <1>21, UsesNumber
<1>8. \A g \in Page : mem_map'[g] = mem_map[g] - Uses(t, g) + Uses(t, g)'
  <2> SUFFICES ASSUME NEW g \in Page
               PROVE  mem_map'[g] = mem_map[g] - Uses(t, g) + Uses(t, g)'
    OBVIOUS
  <2>1. map[g] \in Nat
    OBVIOUS
  <2> HIDE DEF h
  <2>2. mem_map'[g] = mem_map[g] + (r.map[g] - map[g]) + One(n, g) - One(h, g)
    BY DEF h
  <2>3. /\ Uses(t, g) \in Nat /\ mem_map[g] \in Nat
        /\ One(n, g) \in Nat /\ One(h, g) \in Nat
    BY OwnOnce, OneNumber
  <2>4. r.map[g] = map[g] - Occurs(pg_dir[t], g) + Occurs(r.dir, g)
    BY <1>2
  <2>5. Uses(t, g)' = Uses(t, g) - Occurs(pg_dir[t], g)
                        + Occurs(r.dir, g) + One(n, g) - One(h, g)
    BY <1>6
  <2>6. Occurs(pg_dir[t], g) \in Nat /\ Occurs(r.dir, g) \in Nat
    BY <1>7
  <2> QED
    BY <2>1, <2>2, <2>3, <2>4, <2>5, <2>6
<1>9. h # 0 => h = n
  OBVIOUS
<1>10. \A g \in Page : g # n => One(n, g) = 0 /\ One(h, g) = 0
  BY <1>9 DEF One, Page
<1>11. \A g \in Page : g # n => mem_map'[g] = mem_map[g] + (r.map[g] - map[g])
  BY <1>1, <1>2, <1>10 DEF TypeOK
<1>12. \A g \in Page : g # n /\ mem_map[g] # 0 => mem_map'[g] = mem_map[g]
  BY <1>1, <1>2, <1>11 DEF TypeOK
<1>13. \A g \in Page : g # n => GotRightly(t, g)
  <2> SUFFICES ASSUME NEW g \in Page, g # n, Uses(t, g)' # 0, Uses(t, g) = 0
               PROVE  mem_map[g] = 0
    BY DEF GotRightly
  <2>1. Occurs(pg_dir[t], g) = 0
    <3>1. Uses(t, g) = Occurs(Mapped(t), g) + Occurs(pg_dir[t], g)
                         + One(proc[t].page, g) + One(h, g)
      BY DEF Uses
    <3> HIDE DEF h
    <3> QED
      BY <1>1, <3>1, UsesNumber, OneNumber
  <2>2. Occurs(r.dir, g) # 0
    BY <1>6, <1>7, <1>10, <2>1
  <2>3. r.map[g] # map[g]
    BY <1>2, <1>7, <2>1, <2>2
  <2> QED
    BY <1>2, <2>3
<1>14. \A g \in Page \cup {Low} : WroteRightly(t, g)
  BY DEF WroteRightly
<1>15. ASSUME NEW g \in Page, Own(t, g)'
       PROVE  mem_map'[g] = 1
  <2>1. ASSUME Own(t, g)
        PROVE  mem_map'[g] = 1
    BY <1>1, <1>12, <2>1 DEF Alone
  <2>2. CASE \E d \in Table : r.dir[d] = g
    <3>1. PICK d \in Table : r.dir[d] = g
      BY <2>2
    <3>2. CASE pg_dir[t][d] = g
      BY <2>1, <3>2 DEF Own
    <3>3. CASE pg_dir[t][d] # g
      <4>1. map[g] = 0 /\ r.map[g] = 1
        BY <1>2, <3>1, <3>3
      <4>2. g # n /\ mem_map[g] = 0
        BY <4>1
      <4> QED
        BY <1>11, <4>1, <4>2
    <3> QED
      BY <3>2, <3>3
  <2>3. CASE proc[t].page = g
    BY <2>1, <2>3 DEF Own
  <2>4. CASE \E b \in Addr : Maps(t, b, g)' /\ pte'[t][b].rw
    <3>1. PICK b \in Addr : Maps(t, b, g)' /\ pte'[t][b].rw
      BY <2>4
    <3>2. CASE b = a
      BY <1>4, <3>1, <3>2 DEF Maps
    <3>3. CASE b # a
      BY <1>4, <2>1, <3>1, <3>3 DEF Maps, Own
    <3> QED
      BY <3>2, <3>3
  <2>5. g # 0
    BY DEF Page
  <2> QED
    BY <1>3, <1>15, <2>2, <2>3, <2>4, <2>5 DEF Own
<1>16. Alone(t)'
  BY <1>15 DEF Alone
<1>17. Formed(t)'
  <2>1. \A d \in Table : pg_dir[t][d] # 0 => r.dir[d] # 0
    BY <1>2
  <2>2. \A b \in Addr : pte'[t][b] # None => r.dir[TableOf[b]] # 0
    BY <1>1, <1>2, <1>4, <2>1, AddrAssumption DEF Formed
  <2>3. \A b \in Addr : pte'[t][b] # None /\ pte'[t][b].rw => pte'[t][b].page # Low
    BY <1>1, <1>4 DEF Formed
  <2>4. \E d \in Table : r.dir[d] # 0
    BY <1>1, <2>1 DEF Formed
  <2>5. proc[t].page # 0
    BY <1>1 DEF Formed, Live
  <2> QED
    BY <1>3, <2>2, <2>3, <2>4, <2>5 DEF Formed, Live
<1>18. Filled(t)'
  BY <1>1 DEF Filled, TypeOK, Proc
<1>19. FreeIsClear'
  <2> SUFFICES ASSUME NEW g \in Page, mem_map'[g] = 0 PROVE content'[g] = Zero
    BY DEF FreeIsClear
  <2>1. g # n /\ mem_map[g] = 0
    BY <1>12
  <2> QED
    BY <1>1, <2>1 DEF FreeIsClear
<1>20. \A g \in Page : GotRightly(t, g)
  BY <1>13
<1> QED
  BY <1>5, <1>8, <1>14, <1>16, <1>17, <1>18, <1>19, <1>20 DEF StepOf

(* get_empty_page(): a page gotten and put.                                *)
LEMMA GetEmptyPageStep ==
  ASSUME Inv, NEW t \in Task, NEW a \in Addr, GetEmptyPage(t, a)
  PROVE  TypeOK' /\ StepOf(t)
<1> PICK n : n = LastFree(mem_map)
  OBVIOUS
<1> PICK map : map = Taken(mem_map, n)
  OBVIOUS
<1> DEFINE e == Writable(n)
<1> PICK r : r = PutPage(map, pg_dir[t], pte[t], a, e)
  OBVIOUS
<1>1. TypeOK /\ Formed(t) /\ Alone(t)
  BY DEF Inv, CountsExact
<1>2. proc[t].st = "user" /\ pte[t][a] = None
  BY DEF GetEmptyPage
<1>3. CASE Exited(t, mem_map)
  BY <1>2, <1>3, UserExitedStep
<1>4. CASE /\ FreePages(mem_map) # {} /\ HasRoom(map, pg_dir[t], a)
           /\ mem_map' = r.map
           /\ pg_dir' = [pg_dir EXCEPT ![t] = r.dir]
           /\ pte' = [pte EXCEPT ![t] = r.entries]
           /\ UNCHANGED <<content, proc>>
  <2>1. n \in Page /\ mem_map[n] = 0
    BY <1>4, LastFreeIs
  <2>2. mem_map \in [Page -> Nat] /\ pg_dir[t] \in [Table -> Page \cup {0}]
    BY <1>1 DEF TypeOK
  <2>3. /\ map \in [Page -> Nat] /\ map[n] = 1
        /\ \A g \in Page : /\ map[g] = mem_map[g] + One(n, g)
                           /\ g # n => map[g] = mem_map[g]
    BY <2>1, <2>2, TakenIs
  <2>4. e \in Entry /\ e.page = n /\ e.rw
    BY <2>1 DEF Writable, Entry
  <2> HIDE DEF e
  <2>5. PutIs(r, map, pg_dir[t], a) /\ r.entries = [pte[t] EXCEPT ![a] = e]
    BY <1>4, <2>2, <2>3, PutPageIs
  <2>6. /\ r.map \in [Page -> Nat]
        /\ \A g \in Page : r.map[g] = map[g] \/ (map[g] = 0 /\ r.map[g] = 1)
    BY <2>5 DEF PutIs
  <2>7. /\ mem_map' \in [Page -> Nat] /\ mem_map'[n] = 1
        /\ \A g \in Page : map[g] = 0 => mem_map[g] = 0 /\ g # n
    BY <1>4, <2>1, <2>3, <2>6
  <2>8. proc[t].held = 0 /\ proc[t].page # n
    <3>1. proc[t].page # n
      BY <1>1, <2>1 DEF Alone, Own
    <3> QED
      BY <1>1, <1>2, <3>1 DEF Formed
  <2>9. \A g \in Page : mem_map'[g] = mem_map[g] + (r.map[g] - map[g])
                          + One(n, g) - One(proc[t].held, g)
    <3> SUFFICES ASSUME NEW g \in Page
                 PROVE  mem_map'[g] = mem_map[g] + (r.map[g] - map[g])
                          + One(n, g) - One(proc[t].held, g)
      OBVIOUS
    <3>1. One(proc[t].held, g) = 0 /\ One(n, g) \in Nat
      BY <2>8, NothingUsed, OneNumber
    <3> QED
      BY <1>4, <2>2, <2>3, <2>6, <3>1
  <2>10. GotRightly(t, n) /\ WroteRightly(t, n)
    BY <1>4, <2>1 DEF GotRightly, WroteRightly
  <2>11. /\ pte' \in [Task -> [Addr -> Entry \cup {None}]]
         /\ pte'[t] = [pte[t] EXCEPT ![a] = e]
         /\ \A u \in Task \ {t} : pte'[u] = pte[u]
    BY <1>1, <1>4, <2>4, <2>5 DEF TypeOK
  <2>12. \A u \in Task \ {t} : Undisturbed(u)
    BY <1>4, <2>11 DEF Undisturbed
  <2>13. Live(t)
    BY <1>2 DEF Live
  <2>14. /\ content' \in [Page \cup {Low} -> Content]
         /\ \A g \in Page \cup {Low} : g # n => content'[g] = content[g]
         /\ proc' \in [Task -> Proc] /\ proc' = proc
         /\ pg_dir' = [pg_dir EXCEPT ![t] = r.dir]
    BY <1>1, <1>4 DEF TypeOK
  <2>15. proc[t].held \in {0, n}
    BY <2>8
  <2>16. mem_map'[n] # 0
    BY <2>7
  <2>17. Puts(t, a, map, r, n, e)
    BY <1>2, <2>1, <2>3, <2>4, <2>5, <2>7, <2>8, <2>9, <2>10, <2>11, <2>12,
       <2>13, <2>14, <2>15, <2>16 DEF Puts
  <2> QED
    BY <2>17, PutStep
<1> QED
  BY <1>3, <1>4 DEF GetEmptyPage

(* The second half of do_no_page(), after the page was read.               *)
LEMMA BreadPageStep ==
  ASSUME Inv, NEW t \in Task, BreadPage(t)
  PROVE  TypeOK' /\ StepOf(t)
<1> PICK n, a : n = proc[t].held /\ a = proc[t].at
  OBVIOUS
<1> DEFINE e == Writable(n)
           c == TextOf(proc[t].exe, a)
<1> PICK r, map : r = PutPage(mem_map, pg_dir[t], pte[t], a, e) /\ map = mem_map
  OBVIOUS
<1>1. TypeOK /\ Formed(t) /\ Alone(t)
  BY DEF Inv, CountsExact
<1>2. /\ proc[t].st = "no_page" /\ Live(t) /\ pte[t][a] = None
      /\ a \in Text /\ a \in Addr /\ proc[t].exe \in Exe /\ n \in Page
  BY <1>1, AddrAssumption DEF BreadPage, Formed, Live, TypeOK, Proc
<1>3. Own(t, n)
  BY DEF Own
<1>4. mem_map[n] = 1 /\ Uses(t, n) = 1
  BY <1>2, <1>3, OwnOnce
<1>5. mem_map \in [Page -> Nat] /\ pg_dir[t] \in [Table -> Page \cup {0}]
  BY <1>1 DEF TypeOK
<1>6. CASE Exited(t, [mem_map EXCEPT ![n] = 0])
  <2> DEFINE left == [mem_map EXCEPT ![n] = 0]
  <2>1. left \in [Page -> Nat]
    BY <1>5
  <2>2. \A g \in Page : left[g] = mem_map[g] - One(n, g)
    BY <1>4, <1>5 DEF One
  <2>3. Exited(t, left)
    BY <1>6
  <2> HIDE DEF left
  <2> QED
    BY <1>2, <2>1, <2>2, <2>3, ExitedStep
<1>7. CASE /\ HasRoom(mem_map, pg_dir[t], a)
           /\ mem_map' = r.map
           /\ pg_dir' = [pg_dir EXCEPT ![t] = r.dir]
           /\ pte' = [pte EXCEPT ![t] = r.entries]
           /\ content' = [content EXCEPT ![n] = c]
           /\ proc' = [proc EXCEPT ![t] = [@ EXCEPT
                         !.st = "user", !.at = None, !.held = 0]]
  <2>1. /\ proc' \in [Task -> Proc] /\ proc'[t].st = "user"
        /\ proc'[t].held = 0 /\ proc'[t].page = proc[t].page
        /\ \A u \in Task \ {t} : proc'[u] = proc[u]
    <3> DEFINE q == [proc[t] EXCEPT !.st = "user", !.at = None, !.held = 0]
    <3>1. proc \in [Task -> Proc] /\ proc[t] \in Proc
      BY <1>1 DEF TypeOK
    <3>2. q \in Proc
      BY <3>1 DEF Proc
    <3>3. q.st = "user" /\ q.held = 0 /\ q.page = proc[t].page
      BY <3>1 DEF Proc
    <3>4. proc' = [proc EXCEPT ![t] = q]
      BY <1>7
    <3> HIDE DEF q
    <3> QED
      BY <3>1, <3>2, <3>3, <3>4, ProcChange
  <2>2. e \in Entry /\ e.page = n /\ e.rw
    BY <1>2 DEF Writable, Entry
  <2>3. c \in Content
    BY <1>2 DEF Content
  <2>4. n = proc[t].held
    OBVIOUS
  <2> HIDE DEF e, c
  <2>5. PutIs(r, mem_map, pg_dir[t], a) /\ r.entries = [pte[t] EXCEPT ![a] = e]
    BY <1>2, <1>5, <1>7, PutPageIs
  <2>6. /\ r.map \in [Page -> Nat]
        /\ \A g \in Page : r.map[g] = mem_map[g] \/ (mem_map[g] = 0 /\ r.map[g] = 1)
    BY <2>5 DEF PutIs
  <2>7. /\ mem_map' \in [Page -> Nat] /\ mem_map'[n] = 1 /\ mem_map'[n] # 0
        /\ \A g \in Page : mem_map[g] = 0 => mem_map[g] = 0 /\ g # n
    BY <1>2, <1>4, <1>7, <2>6
  <2>8. proc[t].page # n
    BY <1>1, <1>2, <1>4, <2>4, UsesAre
  <2>9. \A g \in Page : mem_map'[g] = mem_map[g] + (r.map[g] - mem_map[g])
                          + One(n, g) - One(proc[t].held, g)
    BY <1>5, <1>7, <2>4, <2>6, OneNumber
  <2>10. /\ content' \in [Page \cup {Low} -> Content]
         /\ \A g \in Page \cup {Low} : g # n => content'[g] = content[g]
    BY <1>1, <1>2, <1>7, <2>3 DEF TypeOK
  <2>11. GotRightly(t, n) /\ WroteRightly(t, n)
    BY <1>2, <1>4 DEF GotRightly, WroteRightly, Page, Low
  <2>12. /\ pte' \in [Task -> [Addr -> Entry \cup {None}]]
         /\ pte'[t] = [pte[t] EXCEPT ![a] = e]
         /\ \A u \in Task \ {t} : pte'[u] = pte[u]
    BY <1>1, <1>2, <1>7, <2>2, <2>5 DEF TypeOK
  <2>13. \A u \in Task \ {t} : Undisturbed(u)
    BY <1>7, <2>1, <2>12 DEF Undisturbed
  <2>14. proc[t].held \in {0, n} /\ pg_dir' = [pg_dir EXCEPT ![t] = r.dir]
    BY <1>7, <2>4
  <2>15. Puts(t, a, map, r, n, e)
    BY <1>2, <1>5, <2>1, <2>2, <2>5, <2>7, <2>8, <2>9, <2>10, <2>11, <2>12,
       <2>13, <2>14 DEF Puts
  <2> QED
    BY <2>15, PutStep
<1> QED
  BY <1>6, <1>7 DEF BreadPage

(* No page that another task uses is a task's own.                         *)
LEMMA UsedByOther ==
  ASSUME Inv, NEW t \in Task, NEW u \in Task \ {t}, NEW g \in Page,
         Uses(u, g) # 0
  PROVE  ~Own(t, g) /\ mem_map[g] # 0
<1>1. TypeOK /\ mem_map[g] = Refs(g)
  BY DEF Inv, CountsExact
<1>2. Uses(t, g) + Uses(u, g) <= mem_map[g] /\ Uses(u, g) \in Nat
  BY <1>1, UsesCounted, OwnOnce
<1> QED
  BY <1>2, OwnOnce

(* A page mapped by somebody who then loses the right to write to it is    *)
(* nobody's own.                                                           *)
LosesWrite(p, a) ==
  /\ pg_dir'[p] = pg_dir[p] /\ proc'[p] = proc[p]
  /\ \A b \in Addr : pte'[p][b] # None /\ pte'[p][b].rw =>
                      b # a /\ pte'[p][b] = pte[p][b]

(* A page that another task maps, and may no longer write to, may be       *)
(* mapped by a second one.                                                 *)
LEMMA SharedIsNobodys ==
  ASSUME Inv, NEW p \in Task, NEW a \in Addr, NEW n \in Page, Maps(p, a, n),
         LosesWrite(p, a)
  PROVE  /\ ~Own(p, n)'
         /\ \A t \in Task \ {p} : ~Own(t, n)
         /\ mem_map[n] # 0 /\ Uses(p, n) # 0
<1>1. TypeOK
  BY DEF Inv, CountsExact
<1>2. Uses(p, n) # 0
  BY <1>1, UsesAre
<1>3. mem_map[n] # 0
  BY <1>2, OwnOnce
<1>4. \A t \in Task \ {p} : ~Own(t, n)
  BY <1>2, UsedByOther
<1>5. ASSUME Own(p, n)'
      PROVE  FALSE
  <2>1. Own(p, n)
    BY <1>5 DEF Own, Maps, LosesWrite
  <2>2. Uses(p, n) <= 1
    BY <2>1, OwnOnce
  <2>3. /\ \A d \in Table : pg_dir[p][d] # n
        /\ proc[p].page # n /\ proc[p].held # n
        /\ \A b \in Addr : Maps(p, b, n) => b = a
    BY <1>1, <2>2, UsesAre
  <2> QED
    BY <1>5, <2>3 DEF Own, Maps, LosesWrite
<1> QED
  BY <1>2, <1>3, <1>4, <1>5

(* share_page(): the page of another task, which loses the right to write  *)
(* to it.                                                                  *)
LEMMA SharePageStep ==
  ASSUME Inv, NEW t \in Task, NEW a \in Addr, SharePage(t, a)
  PROVE  TypeOK' /\ StepOf(t)
<1> PICK p \in Sharers(t, a) :
       LET entry == WriteProtect(pte[p][a])
           put == PutPage(mem_map, pg_dir[t], pte[t], a, entry)
       IN IF HasRoom(mem_map, pg_dir[t], a)
            THEN /\ mem_map' = [put.map EXCEPT ![entry.page] = @ + 1]
                 /\ pg_dir' = [pg_dir EXCEPT ![t] = put.dir]
                 /\ pte' = [pte EXCEPT ![t] = put.entries, ![p][a] = entry]
                 /\ UNCHANGED <<content, proc>>
            ELSE Exited(t, mem_map)
  BY DEF SharePage
<1> PICK e, n : e = WriteProtect(pte[p][a]) /\ n = pte[p][a].page
  OBVIOUS
<1> PICK r, map : r = PutPage(mem_map, pg_dir[t], pte[t], a, e) /\ map = mem_map
  OBVIOUS
<1>1. TypeOK /\ Formed(t)
  BY DEF Inv, CountsExact
<1>2. /\ proc[t].st = "user" /\ pte[t][a] = None
      /\ p \in Task \ {t} /\ pte[p][a] # None /\ n # Low
  BY DEF SharePage, NeedsFile, Sharers, Shareable
<1>3. pte[p][a] \in Entry /\ n \in Page
  BY <1>1, <1>2 DEF TypeOK, Entry
<1>4. CASE Exited(t, mem_map)
  BY <1>2, <1>4, UserExitedStep
<1>5. CASE /\ HasRoom(mem_map, pg_dir[t], a)
           /\ mem_map' = [r.map EXCEPT ![e.page] = @ + 1]
           /\ pg_dir' = [pg_dir EXCEPT ![t] = r.dir]
           /\ pte' = [pte EXCEPT ![t] = r.entries, ![p][a] = e]
           /\ UNCHANGED <<content, proc>>
  <2>1. e \in Entry /\ e.page = n /\ ~e.rw
    BY <1>3 DEF WriteProtect, Entry
  <2>2. mem_map \in [Page -> Nat] /\ pg_dir[t] \in [Table -> Page \cup {0}]
    BY <1>1 DEF TypeOK
  <2>3. e = WriteProtect(pte[p][a]) /\ Maps(p, a, n)
    BY <1>2 DEF Maps
  <2>4. PutIs(r, mem_map, pg_dir[t], a) /\ r.entries = [pte[t] EXCEPT ![a] = e]
    BY <1>5, <2>2, PutPageIs
  <2>5. /\ r.map \in [Page -> Nat]
        /\ \A g \in Page : r.map[g] = mem_map[g] \/ (mem_map[g] = 0 /\ r.map[g] = 1)
    BY <2>4 DEF PutIs
  <2>6. /\ pte' \in [Task -> [Addr -> Entry \cup {None}]]
        /\ pte'[t] = [pte[t] EXCEPT ![a] = e]
        /\ pte'[p] = [pte[p] EXCEPT ![a] = e]
        /\ \A u \in Task \ {t, p} : pte'[u] = pte[u]
    <3>1. /\ pte \in [Task -> [Addr -> Entry \cup {None}]]
          /\ r.entries \in [Addr -> Entry \cup {None}]
      BY <1>1, <2>1, <2>4 DEF TypeOK
    <3>2. pte' = [u \in Task |-> IF u = p THEN [pte[p] EXCEPT ![a] = e]
                                 ELSE IF u = t THEN r.entries
                                 ELSE pte[u]]
      BY <1>2, <1>5, <3>1
    <3> QED
      BY <1>2, <2>1, <2>4, <3>1, <3>2
  <2>7. /\ pte'[p][a] = e
        /\ \A b \in Addr \ {a} : pte'[p][b] = pte[p][b]
    BY <1>1, <1>2, <2>6 DEF TypeOK
  <2>8. /\ proc' = proc /\ content' = content
        /\ pg_dir' = [pg_dir EXCEPT ![t] = r.dir]
        /\ \A u \in Task \ {t} : pg_dir'[u] = pg_dir[u]
    BY <1>1, <1>5 DEF TypeOK
  <2>9. /\ ~Own(p, n)' /\ mem_map[n] # 0
        /\ \A u \in Task \ {p} : ~Own(u, n)
    <3>1. LosesWrite(p, a)
      BY <1>2, <2>1, <2>7, <2>8 DEF LosesWrite
    <3> QED
      BY <1>2, <1>3, <2>3, <3>1, SharedIsNobodys
  <2>10. \A u \in Task \ {t} : Undisturbed(u)
    BY <1>2, <2>3, <2>6, <2>7, <2>8 DEF Undisturbed
  <2>11. ASSUME NEW u \in Task \ {t}
         PROVE  ~Own(u, n)'
    <3>1. CASE u = p
      BY <2>9, <3>1
    <3>2. CASE u # p
      <4>1. /\ pte'[u] = pte[u] /\ pg_dir'[u] = pg_dir[u]
            /\ proc'[u] = proc[u] /\ ~Own(u, n)
        BY <2>6, <2>8, <2>9, <3>2
      <4> QED
        BY <4>1 DEF Own, Maps
    <3> QED
      BY <3>1, <3>2
  <2>12. GotRightly(t, n) /\ WroteRightly(t, n)
    BY <2>8, <2>11 DEF GotRightly, WroteRightly
  <2>13. proc[t].held = 0 /\ proc[t].page # n /\ ~Own(t, n)
    BY <1>1, <1>2, <2>9 DEF Formed, Own
  <2>14. mem_map' = [g \in Page |-> r.map[g] + One(n, g)]
    BY <1>3, <1>5, <2>1, <2>5 DEF One
  <2>15. /\ mem_map' \in [Page -> Nat] /\ mem_map'[n] # 0
    BY <1>3, <2>5, <2>14, OneNumber DEF One
  <2>16. \A g \in Page : mem_map'[g] = mem_map[g] + (r.map[g] - mem_map[g])
                          + One(n, g) - One(proc[t].held, g)
    <3> SUFFICES ASSUME NEW g \in Page
                 PROVE  mem_map'[g] = mem_map[g] + (r.map[g] - mem_map[g])
                          + One(n, g) - One(proc[t].held, g)
      OBVIOUS
    <3>1. One(proc[t].held, g) = 0 /\ One(n, g) \in Nat
      BY <2>13, NothingUsed, OneNumber
    <3> QED
      BY <2>2, <2>5, <2>14, <3>1
  <2>17. Live(t) /\ proc[t].held \in {0, n}
    BY <1>2, <2>13 DEF Live
  <2>18. /\ content' \in [Page \cup {Low} -> Content]
         /\ \A g \in Page \cup {Low} : g # n => content'[g] = content[g]
         /\ proc' \in [Task -> Proc]
         /\ proc'[t].held = 0 /\ proc'[t].page = proc[t].page
         /\ proc'[t].st = "user"
    BY <1>1, <1>2, <2>8, <2>13 DEF TypeOK
  <2>19. \A g \in Page : mem_map[g] = 0 => g # n
    BY <2>9
  <2>20. Puts(t, a, map, r, n, e)
    BY <1>2, <1>3, <2>1, <2>2, <2>4, <2>6, <2>8, <2>10, <2>12, <2>13, <2>15,
       <2>16, <2>17, <2>18, <2>19 DEF Puts
  <2> QED
    BY <2>20, PutStep
<1> QED
  BY <1>4, <1>5

-----------------------------------------------------------------------------
(* fork()                                                                  *)

(* What copy_page_tables() has after d tables.                             *)
Copied(t, map, s, d) ==
  /\ s.map \in [Page -> Nat] /\ s.dir \in [Table -> Page \cup {0}]
  /\ s.ok \in BOOLEAN
  /\ \A g \in Page : /\ s.map[g] = map[g] + Occurs(s.dir, g)
                     /\ map[g] # 0 => s.map[g] = map[g]
  /\ \A k \in Table : s.dir[k] # 0 =>
       /\ k <= d /\ pg_dir[t][k] # 0
       /\ map[s.dir[k]] = 0 /\ s.map[s.dir[k]] = 1
  /\ s.ok => \A k \in Table : k <= d /\ pg_dir[t][k] # 0 => s.dir[k] # 0

CopyStates == [map : [Page -> Nat], dir : [Table -> Page \cup {0}], ok : BOOLEAN]

(* copy_page_tables() for one more page table.                             *)
LEMMA CopiedTableIs ==
  ASSUME TypeOK, NEW t \in Task, NEW map \in [Page -> Nat],
         NEW d \in Table, NEW s \in CopyStates, Copied(t, map, s, d - 1)
  PROVE  /\ CopiedTable(t, s, d) \in CopyStates
         /\ Copied(t, map, CopiedTable(t, s, d), d)
<1> DEFINE r == CopiedTable(t, s, d)
           n == LastFree(s.map)
<1>1. d \in Nat /\ d # 0 /\ \A k \in Table : k \in Nat /\ (k <= d <=> k <= d - 1 \/ k = d)
  BY DEF Table
<1>2. CASE ~s.ok \/ pg_dir[t][d] = 0
  <2>1. r = s
    BY <1>2 DEF CopiedTable
  <2> HIDE DEF r
  <2>2. Copied(t, map, r, d)
    BY <1>1, <1>2, <2>1 DEF Copied
  <2> QED
    BY <2>1, <2>2 DEF r
<1>3. CASE s.ok /\ pg_dir[t][d] # 0 /\ FreePages(s.map) = {}
  <2>1. r = [s EXCEPT !.ok = FALSE]
    BY <1>3 DEF CopiedTable
  <2>2. r.map = s.map /\ r.dir = s.dir /\ r.ok = FALSE /\ r \in CopyStates
    BY <2>1 DEF CopyStates
  <2> HIDE DEF r
  <2>3. Copied(t, map, r, d)
    BY <1>1, <2>2 DEF Copied
  <2> QED
    BY <2>2, <2>3 DEF r
<1>4. CASE s.ok /\ pg_dir[t][d] # 0 /\ FreePages(s.map) # {}
  <2>1. r = [map |-> Taken(s.map, n), dir |-> [s.dir EXCEPT ![d] = n], ok |-> TRUE]
    BY <1>4 DEF CopiedTable
  <2>2. n \in Page /\ s.map[n] = 0
    BY <1>4, LastFreeIs
  <2> HIDE DEF n
  <2>3. /\ s.map \in [Page -> Nat] /\ s.dir \in [Table -> Page \cup {0}]
        /\ s.dir[d] = 0
    BY <1>1 DEF Copied
  <2>4. /\ r.map = Taken(s.map, n) /\ r.dir = [s.dir EXCEPT ![d] = n] /\ r.ok = TRUE
    BY <2>1
  <2>5. /\ r.map \in [Page -> Nat] /\ r.map[n] = 1
        /\ \A g \in Page : /\ r.map[g] = s.map[g] + One(n, g)
                           /\ g # n => r.map[g] = s.map[g]
    BY <2>2, <2>3, <2>4, TakenIs
  <2>6. /\ r.dir \in [Table -> Page \cup {0}] /\ r.dir[d] = n
        /\ \A k \in Table \ {d} : r.dir[k] = s.dir[k]
    BY <2>2, <2>3, <2>4
  <2>7. r \in CopyStates
    BY <2>1, <2>4, <2>5, <2>6 DEF CopyStates
  <2> HIDE DEF r
  <2>8. map[n] = 0
    BY <2>2 DEF Copied
  <2>9. \A g \in Page : /\ r.map[g] = map[g] + Occurs(r.dir, g)
                        /\ map[g] # 0 => r.map[g] = map[g]
    <3> SUFFICES ASSUME NEW g \in Page
                 PROVE  /\ r.map[g] = map[g] + Occurs(r.dir, g)
                        /\ map[g] # 0 => r.map[g] = map[g]
      OBVIOUS
    <3>1. IsFiniteSet(Table)
      BY PagesAssumption, FS_Interval DEF Table
    <3>2. DOMAIN s.dir = Table /\ DOMAIN r.dir = Table
      BY <2>3, <2>6
    <3>3. Occurs(r.dir, g) = Occurs(s.dir, g) - One(s.dir[d], g) + One(r.dir[d], g)
      BY <2>6, <3>1, <3>2, OccursChange
    <3>4. Occurs(s.dir, g) \in Nat /\ One(s.dir[d], g) = 0 /\ One(n, g) \in Nat
      BY <2>3, <3>1, <3>2, OccursNumber, OneNumber, NothingUsed
    <3>5. s.map[g] = map[g] + Occurs(s.dir, g) /\ (map[g] # 0 => s.map[g] = map[g])
      BY DEF Copied
    <3>6. g = n => map[g] = 0
      BY <2>8
    <3> QED
      BY <2>5, <2>6, <3>3, <3>4, <3>5, <3>6
  <2>10. \A k \in Table : r.dir[k] # 0 =>
           /\ k <= d /\ pg_dir[t][k] # 0
           /\ map[r.dir[k]] = 0 /\ r.map[r.dir[k]] = 1
    <3> SUFFICES ASSUME NEW k \in Table, r.dir[k] # 0
                 PROVE  /\ k <= d /\ pg_dir[t][k] # 0
                        /\ map[r.dir[k]] = 0 /\ r.map[r.dir[k]] = 1
      OBVIOUS
    <3>1. CASE k = d
      BY <1>1, <1>4, <2>5, <2>6, <2>8, <3>1
    <3>2. CASE k # d
      <4>1. /\ r.dir[k] = s.dir[k] /\ k <= d - 1 /\ pg_dir[t][k] # 0
            /\ map[s.dir[k]] = 0 /\ s.map[s.dir[k]] = 1
            /\ s.dir[k] \in Page /\ s.dir[k] # n
        BY <2>2, <2>3, <2>6, <3>2 DEF Copied
      <4> QED
        BY <1>1, <2>5, <4>1
    <3> QED
      BY <3>1, <3>2
  <2>11. \A k \in Table : k <= d /\ pg_dir[t][k] # 0 => r.dir[k] # 0
    <3>1. \A k \in Table : k <= d - 1 /\ pg_dir[t][k] # 0 => s.dir[k] # 0
      BY <1>4 DEF Copied
    <3>2. n # 0
      BY <2>2 DEF Page
    <3> QED
      BY <1>1, <2>6, <3>1, <3>2
  <2>12. Copied(t, map, r, d)
    BY <2>4, <2>5, <2>6, <2>9, <2>10, <2>11 DEF Copied
  <2> QED
    BY <2>7, <2>12 DEF r
<1> QED
  BY <1>2, <1>3, <1>4 DEF CopyStates

(* copy_page_tables() as a whole, by induction on the tables.              *)
LEMMA CopiedTablesAre ==
  ASSUME TypeOK, NEW t \in Task, NEW map \in [Page -> Nat]
  PROVE  Copied(t, map, CopiedTables(t, map), NrTables)
<1> DEFINE a == [map |-> map, dir |-> NoDir, ok |-> TRUE]
           step == [x \in CopyStates \X (1..NrTables) |->
                      IF CopiedTable(t, x[1], x[2]) \in CopyStates
                        THEN CopiedTable(t, x[1], x[2]) ELSE a]
           Is(f) == f = [d \in 0..NrTables |->
                           IF d = 0 THEN a ELSE CopiedTable(t, f[d - 1], d)]
<1>1. NrTables \in Nat /\ Table = 1..NrTables
  BY PagesAssumption DEF Table
<1>2. a \in CopyStates /\ Copied(t, map, a, 0)
  <2>1. NoDir \in [Table -> Page \cup {0}] /\ \A k \in Table : NoDir[k] = 0
    BY DEF NoDir
  <2>2. \A g \in Page : Occurs(NoDir, g) = 0
    BY NothingUsed
  <2>3. \A k \in Table : ~(k <= 0)
    BY <1>1
  <2> QED
    BY <2>1, <2>2, <2>3 DEF CopyStates, Copied
<1> HIDE DEF a
<1>3. IsStep(step, CopyStates, NrTables)
  BY <1>2 DEF IsStep
<1>4. PICK f : IsComputed(f, step, CopyStates, NrTables, a)
  <2> HIDE DEF step
  <2> QED
    BY <1>1, <1>2, <1>3, StepsExist
<1>6. /\ f \in [0..NrTables -> CopyStates] /\ f[0] = a
      /\ \A d \in 1..NrTables : f[d] = step[<<f[d - 1], d>>]
  <2> HIDE DEF step
  <2> QED
    BY <1>4 DEF IsComputed
<1> DEFINE S == {k \in 0..NrTables : Copied(t, map, f[k], k) /\ f[k] \in CopyStates}
<1>7. 0 \in S
  BY <1>1, <1>2, <1>6
<1>8. ASSUME NEW d \in 1..NrTables, d - 1 \in S
      PROVE  d \in S /\ f[d] = CopiedTable(t, f[d - 1], d)
  <2>1. /\ f[d - 1] \in CopyStates /\ Copied(t, map, f[d - 1], d - 1)
        /\ d \in Table /\ d \in 0..NrTables
    BY <1>1, <1>8
  <2>2. /\ CopiedTable(t, f[d - 1], d) \in CopyStates
        /\ Copied(t, map, CopiedTable(t, f[d - 1], d), d)
    BY <2>1, CopiedTableIs
  <2>3. f[d] = CopiedTable(t, f[d - 1], d)
    BY <1>6, <2>1, <2>2
  <2> QED
    BY <2>1, <2>2, <2>3
<1>9. \A d \in 0..NrTables : d \in S
  <2> HIDE DEF S
  <2> QED
    BY <1>1, <1>7, <1>8, UpTo
<1>10. Is(f)
  <2> SUFFICES ASSUME NEW d \in 0..NrTables
               PROVE  f[d] = IF d = 0 THEN a ELSE CopiedTable(t, f[d - 1], d)
    BY <1>6
  <2>1. CASE d = 0
    BY <1>6, <2>1
  <2>2. CASE d # 0
    <3>1. d \in 1..NrTables /\ d - 1 \in 0..NrTables
      BY <1>1, <2>2
    <3> HIDE DEF S
    <3> QED
      BY <1>8, <1>9, <2>2, <3>1
  <2> QED
    BY <2>1, <2>2
<1> DEFINE upto == CHOOSE h : Is(h)
<1>11. Is(upto)
  BY <1>10
<1>12. \A d \in 0..NrTables : d \in {k \in 0..NrTables : upto[k] = f[k]}
  <2> DEFINE E == {k \in 0..NrTables : upto[k] = f[k]}
  <2> HIDE DEF upto
  <2>1. 0 \in E
    BY <1>1, <1>10, <1>11
  <2>2. ASSUME NEW d \in 1..NrTables, d - 1 \in E
        PROVE  d \in E
    <3>1. d \in 0..NrTables /\ d # 0 /\ upto[d - 1] = f[d - 1]
      BY <1>1, <2>2
    <3>2. /\ upto[d] = CopiedTable(t, upto[d - 1], d)
          /\ f[d] = CopiedTable(t, f[d - 1], d)
      BY <1>10, <1>11, <3>1
    <3> QED
      BY <3>1, <3>2
  <2> HIDE DEF E
  <2>3. \A d \in 0..NrTables : d \in E
    BY <1>1, <2>1, <2>2, UpTo
  <2> QED
    BY <2>3 DEF E
<1>13. CopiedTables(t, map) = upto[NrTables]
  BY Zenon DEF CopiedTables, a
<1>14. NrTables \in 0..NrTables
  BY <1>1
<1>15. upto[NrTables] = f[NrTables] /\ Copied(t, map, f[NrTables], NrTables)
  <2> HIDE DEF upto
  <2> QED
    BY <1>9, <1>12, <1>14
<1> QED
  BY <1>13, <1>15

(* The step is the child's; the parent is only write-protected.            *)
Forks(t, c, page, tables, copied, parent, child) ==
  /\ tables.ok
  /\ mem_map' = [g \in Page |->
       tables.map[g] + Cardinality(Mapping(pte[t], g) \cap copied)]
  /\ pg_dir' = [pg_dir EXCEPT ![c] = tables.dir]
  /\ pte' = [pte EXCEPT ![t] = parent, ![c] = child]
  /\ proc' = [proc EXCEPT ![c] = [proc[t] EXCEPT !.page = page]]
  /\ content' = content

(* The two ways fork() can end, with its local variables named.            *)
LEMMA ForkIs ==
  ASSUME NEW t, NEW c, Fork(t, c)
  PROVE  /\ proc[t].st = "user" /\ proc[c].st = "free" /\ FreePages(mem_map) # {}
         /\ \E page, tables, copied, parent, child :
              /\ page = LastFree(mem_map)
              /\ tables = CopiedTables(t, Taken(mem_map, page))
              /\ copied = {a \in Addr : tables.dir[TableOf[a]] # 0 /\ pte[t][a] # None}
              /\ parent = [a \in Addr |-> IF a \in copied THEN ParentEntry(pte[t][a])
                                          ELSE pte[t][a]]
              /\ child = [a \in Addr |-> IF a \in copied THEN WriteProtect(pte[t][a])
                                         ELSE None]
              /\ \/ Forks(t, c, page, tables, copied, parent, child)
                 \/ /\ ~tables.ok /\ pte' = [pte EXCEPT ![t] = parent]
                    /\ UNCHANGED <<mem_map, pg_dir, proc, content>>
<1> DEFINE page == LastFree(mem_map)
           tables == CopiedTables(t, Taken(mem_map, page))
           copied == {a \in Addr : tables.dir[TableOf[a]] # 0 /\ pte[t][a] # None}
           parent == [a \in Addr |-> IF a \in copied THEN ParentEntry(pte[t][a])
                                     ELSE pte[t][a]]
           child == [a \in Addr |-> IF a \in copied THEN WriteProtect(pte[t][a])
                                    ELSE None]
<1>1. proc[t].st = "user" /\ proc[c].st = "free" /\ FreePages(mem_map) # {}
  BY DEF Fork
<1>2. \/ /\ tables.ok
         /\ mem_map' = [g \in Page |->
              tables.map[g] + Cardinality(Mapping(pte[t], g) \cap copied)]
         /\ pg_dir' = [pg_dir EXCEPT ![c] = tables.dir]
         /\ pte' = [pte EXCEPT ![t] = parent, ![c] = child]
         /\ proc' = [proc EXCEPT ![c] = [proc[t] EXCEPT !.page = page]]
         /\ content' = content
      \/ /\ ~tables.ok /\ pte' = [pte EXCEPT ![t] = parent]
         /\ UNCHANGED <<mem_map, pg_dir, proc, content>>
  BY Zenon DEF Fork
<1>3. /\ page = LastFree(mem_map)
      /\ tables = CopiedTables(t, Taken(mem_map, page))
      /\ copied = {a \in Addr : tables.dir[TableOf[a]] # 0 /\ pte[t][a] # None}
      /\ parent = [a \in Addr |-> IF a \in copied THEN ParentEntry(pte[t][a])
                                  ELSE pte[t][a]]
      /\ child = [a \in Addr |-> IF a \in copied THEN WriteProtect(pte[t][a])
                                 ELSE None]
  OBVIOUS
<1> HIDE DEF page, tables, copied, parent, child
<1>4. \/ Forks(t, c, page, tables, copied, parent, child)
      \/ /\ ~tables.ok /\ pte' = [pte EXCEPT ![t] = parent]
         /\ UNCHANGED <<mem_map, pg_dir, proc, content>>
  BY <1>2 DEF Forks
<1> QED
  BY <1>1, <1>3, <1>4

(* fork(): a child with the task_struct, the page tables and the pages     *)
(* counted for it, or none.                                                *)
LEMMA ForkStep ==
  ASSUME Inv, NEW t \in Task, NEW c \in Task, Fork(t, c)
  PROVE  TypeOK' /\ StepOf(c)
<1>1. TypeOK /\ Formed(t) /\ Formed(c) /\ FreeIsClear
  BY DEF Inv, CountsExact
<1>2. PICK page, tables, copied, parent, child :
        /\ page = LastFree(mem_map)
        /\ tables = CopiedTables(t, Taken(mem_map, page))
        /\ copied = {a \in Addr : tables.dir[TableOf[a]] # 0 /\ pte[t][a] # None}
        /\ parent = [a \in Addr |-> IF a \in copied THEN ParentEntry(pte[t][a])
                                    ELSE pte[t][a]]
        /\ child = [a \in Addr |-> IF a \in copied THEN WriteProtect(pte[t][a])
                                   ELSE None]
        /\ \/ Forks(t, c, page, tables, copied, parent, child)
           \/ /\ ~tables.ok /\ pte' = [pte EXCEPT ![t] = parent]
              /\ UNCHANGED <<mem_map, pg_dir, proc, content>>
  BY ForkIs
<1>3. /\ proc[t].st = "user" /\ proc[c].st = "free" /\ t # c
      /\ FreePages(mem_map) # {}
  BY ForkIs
<1>4. /\ page \in Page /\ mem_map[page] = 0 /\ page # 0
  BY <1>2, <1>3, LastFreeIs DEF Page
<1>5. pte[t] \in [Addr -> Entry \cup {None}] /\ pte[c] = NoEntries /\ pg_dir[c] = NoDir
  BY <1>1, <1>3 DEF TypeOK, Formed, Live
<1>6. \A e \in Entry : /\ WriteProtect(e) \in Entry /\ WriteProtect(e).page = e.page
                       /\ ~WriteProtect(e).rw
                       /\ ParentEntry(e) \in {e, WriteProtect(e)}
                       /\ e.page # Low => ParentEntry(e) = WriteProtect(e)
  BY DEF Entry, WriteProtect, ParentEntry
<1>7. \A a \in Addr : a \in copied => pte[t][a] \in Entry
  BY <1>2, <1>5
<1>8. /\ parent \in [Addr -> Entry \cup {None}]
      /\ \A a \in Addr : \/ parent[a] = pte[t][a]
                         \/ /\ pte[t][a] # None
                            /\ parent[a] = WriteProtect(pte[t][a])
  BY <1>2, <1>5, <1>6, <1>7
<1>9. CASE ~tables.ok /\ pte' = [pte EXCEPT ![t] = parent]
           /\ UNCHANGED <<mem_map, pg_dir, proc, content>>
  <2>1. /\ pte' \in [Task -> [Addr -> Entry \cup {None}]] /\ pte'[t] = parent
        /\ \A u \in Task \ {t} : pte'[u] = pte[u]
    BY <1>1, <1>8, <1>9 DEF TypeOK
  <2>2. TypeOK'
    BY <1>1, <1>9, <2>1 DEF TypeOK
  <2>3. \A u \in Task : Undisturbed(u)
    BY <1>8, <1>9, <2>1 DEF Undisturbed
  <2>4. SamePages(c) /\ Formed(c)' /\ \A g : Own(c, g)' => Own(c, g)
    BY <1>1, <2>2, <2>3, UndisturbedKeeps
  <2>5. \A g \in Page : Uses(c, g)' = Uses(c, g)
    BY <2>4, SameUses
  <2>6. \A g \in Page : mem_map'[g] = mem_map[g] - Uses(c, g) + Uses(c, g)'
    BY <1>9, <2>5, OwnOnce
  <2>7. \A g \in Page : GotRightly(c, g)
    BY <2>5 DEF GotRightly
  <2>8. \A g \in Page \cup {Low} : WroteRightly(c, g)
    BY <1>9 DEF WroteRightly
  <2>9. Alone(c)' /\ Filled(c)' /\ FreeIsClear'
    BY <1>9, <2>4 DEF Alone, Filled, FreeIsClear, Inv
  <2> QED
    BY <2>2, <2>3, <2>4, <2>6, <2>7, <2>8, <2>9 DEF StepOf
<1>10. CASE Forks(t, c, page, tables, copied, parent, child)
  <2>1. PICK map : map = Taken(mem_map, page)
    OBVIOUS
  <2>2. mem_map \in [Page -> Nat]
    BY <1>1 DEF TypeOK
  <2>3. /\ map \in [Page -> Nat] /\ map[page] = 1
        /\ \A g \in Page : /\ map[g] = mem_map[g] + One(page, g)
                           /\ g # page => map[g] = mem_map[g]
    BY <1>4, <2>1, <2>2, TakenIs
  <2>4. Copied(t, map, tables, NrTables)
    BY <1>1, <1>2, <2>1, <2>3, CopiedTablesAre
  <2>5. /\ tables.ok /\ content' = content
        /\ mem_map' = [g \in Page |->
             tables.map[g] + Cardinality(Mapping(pte[t], g) \cap copied)]
        /\ pg_dir' = [pg_dir EXCEPT ![c] = tables.dir]
        /\ pte' = [pte EXCEPT ![t] = parent, ![c] = child]
        /\ proc' = [proc EXCEPT ![c] = [proc[t] EXCEPT !.page = page]]
    BY <1>10 DEF Forks
  <2>6. /\ tables.map \in [Page -> Nat] /\ tables.dir \in [Table -> Page \cup {0}]
        /\ \A g \in Page : /\ tables.map[g] = map[g] + Occurs(tables.dir, g)
                           /\ map[g] # 0 => tables.map[g] = map[g]
        /\ \A k \in Table : tables.dir[k] # 0 =>
             map[tables.dir[k]] = 0 /\ tables.map[tables.dir[k]] = 1
    BY <2>4 DEF Copied
  <2>7. \A k \in Table : pg_dir[t][k] # 0 => tables.dir[k] # 0
    <3>1. \A k \in Table : k <= NrTables
      BY PagesAssumption DEF Table
    <3> QED
      BY <2>4, <2>5, <3>1 DEF Copied
  <2>8. /\ child \in [Addr -> Entry \cup {None}]
        /\ \A a \in Addr : /\ child[a] # None <=> a \in copied
                           /\ child[a] # None => /\ child[a].page = pte[t][a].page
                                                 /\ ~child[a].rw
    BY <1>2, <1>6, <1>7, NoneAssumption
  <2>9. /\ pte' \in [Task -> [Addr -> Entry \cup {None}]]
        /\ pte'[t] = parent /\ pte'[c] = child
        /\ \A u \in Task \ {t, c} : pte'[u] = pte[u]
    <3>1. pte' = [u \in Task |-> IF u = c THEN child ELSE IF u = t THEN parent
                                 ELSE pte[u]]
      BY <1>1, <1>3, <2>5 DEF TypeOK
    <3> QED
      BY <1>1, <1>3, <1>8, <2>8, <3>1 DEF TypeOK
  <2>10. /\ proc' \in [Task -> Proc] /\ proc'[c].st = "user"
         /\ proc'[c].page = page /\ proc'[c].held = 0
         /\ \A u \in Task \ {c} : proc'[u] = proc[u]
    <3> DEFINE q == [proc[t] EXCEPT !.page = page]
    <3>1. proc \in [Task -> Proc] /\ proc[t] \in Proc /\ proc[t].held = 0
      BY <1>1, <1>3 DEF TypeOK, Formed
    <3>2. q \in Proc
      BY <1>4, <3>1 DEF Proc
    <3>3. q.st = "user" /\ q.held = 0 /\ q.page = page
      BY <1>3, <3>1 DEF Proc
    <3>4. proc' = [proc EXCEPT ![c] = q]
      BY <2>5
    <3> HIDE DEF q
    <3> QED
      BY <3>1, <3>2, <3>3, <3>4, ProcChange
  <2>11. /\ pg_dir' \in [Task -> [Table -> Page \cup {0}]] /\ pg_dir'[c] = tables.dir
         /\ \A u \in Task \ {c} : pg_dir'[u] = pg_dir[u]
    BY <1>1, <2>5, <2>6 DEF TypeOK
  <2>12. \A u \in Task \ {c} : Undisturbed(u)
    BY <1>8, <2>9, <2>10, <2>11 DEF Undisturbed
  <2>13. \A g \in Page : Cardinality(Mapping(pte[t], g) \cap copied) = Occurs(Mapped(c), g)'
    <3> SUFFICES ASSUME NEW g \in Page
                 PROVE  Mapping(pte[t], g) \cap copied
                          = {a \in DOMAIN Mapped(c)' : Mapped(c)'[a] = g}
      BY DEF Occurs
    <3>1. \A a \in Addr : Mapped(c)'[a] = IF a \in copied THEN pte[t][a].page ELSE 0
      BY <2>8, <2>9 DEF Mapped, PageOf
    <3>2. g # 0 /\ DOMAIN Mapped(c)' = Addr /\ copied \subseteq Addr
      BY <1>2 DEF Page, Mapped
    <3>3. \A a \in copied : pte[t][a] # None
      BY <1>2
    <3> QED
      BY <3>1, <3>2, <3>3 DEF Mapping
  <2>14. \A g \in Page : Occurs(Mapped(c), g)' \in Nat /\ Occurs(tables.dir, g) \in Nat
    <3>1. IsFiniteSet(Table)
      BY PagesAssumption, FS_Interval DEF Table
    <3>2. DOMAIN Mapped(c)' = Addr /\ DOMAIN tables.dir = Table
      BY <2>6 DEF Mapped
    <3>3. \A g \in Page : Occurs(Mapped(c)', g) \in Nat /\ Occurs(tables.dir, g) \in Nat
      BY <3>1, <3>2, AddrAssumption, OccursNumber
    <3> QED
      BY <3>3
  <2>15. \A g \in Page : Uses(c, g) = 0
    <3>1. /\ \A a \in Addr : pte[c][a] = None
          /\ \A d \in Table : pg_dir[c][d] = 0
          /\ proc[c].page = 0 /\ proc[c].held = 0
      BY <1>1, <1>3, <1>5 DEF NoEntries, NoDir, Formed, NoProc
    <3> QED
      BY <1>1, <3>1, UsesAre DEF Maps, Page
  <2>16. \A g \in Page : Uses(c, g)' = Occurs(Mapped(c), g)' + Occurs(tables.dir, g)
                                         + One(page, g)
    <3> SUFFICES ASSUME NEW g \in Page
                 PROVE  Uses(c, g)' = Occurs(Mapped(c), g)' + Occurs(tables.dir, g)
                                        + One(page, g)
      OBVIOUS
    <3>1. Uses(c, g)' = Occurs(Mapped(c), g)' + Occurs(tables.dir, g)
                          + One(page, g) + One(0, g)
      BY <2>10, <2>11 DEF Uses
    <3>2. One(0, g) = 0 /\ One(page, g) \in Nat
      BY NothingUsed, OneNumber
    <3> QED
      BY <2>14, <3>1, <3>2
  <2>17. \A g \in Page : mem_map'[g] = mem_map[g] + Uses(c, g)'
    <3> SUFFICES ASSUME NEW g \in Page PROVE mem_map'[g] = mem_map[g] + Uses(c, g)'
      OBVIOUS
    <3>1. mem_map'[g] = mem_map[g] + One(page, g) + Occurs(tables.dir, g)
                          + Occurs(Mapped(c), g)'
      BY <2>3, <2>5, <2>6, <2>13
    <3>2. One(page, g) \in Nat /\ mem_map[g] \in Nat
      BY <2>2, OneNumber
    <3> QED
      BY <2>14, <2>16, <3>1, <3>2
  <2>18. mem_map' \in [Page -> Nat]
    <3>1. \A g \in Page : mem_map'[g] \in Nat
      BY <2>2, <2>14, <2>16, <2>17, OneNumber
    <3> QED
      BY <2>5, <3>1
  <2>19. TypeOK'
    BY <1>1, <2>5, <2>9, <2>10, <2>11, <2>18 DEF TypeOK
  <2>20. \A g \in Page : mem_map'[g] = mem_map[g] - Uses(c, g) + Uses(c, g)'
    <3> SUFFICES ASSUME NEW g \in Page
                 PROVE  mem_map'[g] = mem_map[g] - Uses(c, g) + Uses(c, g)'
      OBVIOUS
    <3>1. mem_map[g] \in Nat /\ Uses(c, g)' \in Nat
      BY <2>2, <2>19, UsesNumberNext
    <3> QED
      BY <2>15, <2>17, <3>1
  <2>21. ASSUME NEW a \in Addr, a \in copied, NEW g \in Page, pte[t][a].page = g
         PROVE  /\ \A u \in Task \ {c} : ~Own(u, g)'
                /\ mem_map[g] # 0
    <3>1. Maps(t, a, g)
      BY <1>2, <2>21 DEF Maps
    <3>2. pte'[t][a] = WriteProtect(pte[t][a]) /\ ~pte'[t][a].rw
      BY <1>2, <1>6, <1>7, <2>9, <2>21 DEF Page, Low
    <3>3. \A b \in Addr : pte'[t][b] # None /\ pte'[t][b].rw => pte'[t][b] = pte[t][b]
      BY <1>5, <1>6, <1>8, <2>9
    <3>4. LosesWrite(t, a)
      BY <1>3, <2>10, <2>11, <3>2, <3>3 DEF LosesWrite
    <3>5. /\ ~Own(t, g)' /\ mem_map[g] # 0
          /\ \A u \in Task \ {t} : ~Own(u, g)
      BY <3>1, <3>4, SharedIsNobodys
    <3>6. ASSUME NEW u \in Task \ {c}
          PROVE  ~Own(u, g)'
      <4>1. Own(u, g)' => Own(u, g)
        BY <1>1, <2>12, <2>19, UndisturbedKeeps
      <4> QED
        BY <3>5, <4>1
    <3> QED
      BY <3>5, <3>6
  <2>22. ASSUME NEW g \in Page, mem_map[g] = 0
         PROVE  Occurs(Mapped(c), g)' = 0
    <3>1. Mapping(pte[t], g) \cap copied = {}
      BY <2>21, <2>22 DEF Mapping
    <3> QED
      BY <2>13, <3>1, FS_EmptySet
  <2>23. ASSUME NEW g \in Page
         PROVE  GotRightly(c, g)
    <3>1. CASE mem_map[g] = 0
      BY <3>1 DEF GotRightly
    <3>2. CASE mem_map[g] # 0
      <4>1. One(page, g) = 0 /\ map[g] # 0
        BY <1>4, <2>2, <2>3, <3>2 DEF One
      <4>2. Occurs(tables.dir, g) = 0
        BY <2>3, <2>6, <2>14, <4>1
      <4>3. Uses(c, g)' # 0 => Mapping(pte[t], g) \cap copied # {}
        BY <2>13, <2>16, <4>1, <4>2, FS_EmptySet
      <4>4. Uses(c, g)' # 0 => \A u \in Task \ {c} : ~Own(u, g)'
        BY <2>21, <4>3 DEF Mapping
      <4> QED
        BY <4>4 DEF GotRightly
    <3> QED
      BY <3>1, <3>2
  <2>24. \A g \in Page \cup {Low} : WroteRightly(c, g)
    BY <2>5 DEF WroteRightly
  <2>25. ASSUME NEW g \in Page, Own(c, g)'
         PROVE  mem_map'[g] = 1
    <3>1. g # 0
      BY DEF Page
    <3>2. g = page \/ \E k \in Table : tables.dir[k] = g
      BY <2>8, <2>9, <2>10, <2>11, <2>25, <3>1 DEF Own, Maps
    <3>3. mem_map[g] = 0 /\ tables.map[g] = 1
      BY <1>4, <2>3, <2>6, <3>1, <3>2
    <3>4. Occurs(Mapped(c), g)' = 0
      BY <2>22, <3>3
    <3> QED
      BY <2>5, <2>13, <3>3, <3>4
  <2>26. Alone(c)'
    BY <2>25 DEF Alone
  <2>27. Filled(c)'
    BY <1>1, <1>4, <2>5, <2>10 DEF Filled, FreeIsClear
  <2>28. FreeIsClear'
    <3>1. \A g \in Page : mem_map'[g] = 0 => mem_map[g] = 0
      <4> SUFFICES ASSUME NEW g \in Page, mem_map'[g] = 0 PROVE mem_map[g] = 0
        OBVIOUS
      <4>1. mem_map[g] \in Nat /\ Uses(c, g)' \in Nat
        BY <2>2, <2>19, UsesNumberNext
      <4> QED
        BY <2>17, <4>1
    <3> QED
      BY <1>1, <2>5, <3>1 DEF FreeIsClear
  <2>29. Formed(c)'
    <3>1. \E d \in Table : tables.dir[d] # 0
      BY <1>1, <1>3, <2>7 DEF Formed, Live
    <3>2. \A a \in Addr : child[a] # None => tables.dir[TableOf[a]] # 0
      BY <1>2, <2>8
    <3>3. \A a \in Addr : child[a] # None => ~child[a].rw
      BY <2>8
    <3> QED
      BY <1>4, <2>9, <2>10, <2>11, <3>1, <3>2, <3>3 DEF Formed, Live
  <2> QED
    BY <2>12, <2>19, <2>20, <2>23, <2>24, <2>26, <2>27, <2>28, <2>29 DEF StepOf
<1> QED
  BY <1>2, <1>9, <1>10

-----------------------------------------------------------------------------
(* execve() lets go of the old memory. A task that runs has a page table,  *)
(* so that there is room for the new one.                                  *)
LEMMA LoadExecutableIs ==
  ASSUME Inv, NEW t \in Task, LoadExecutable(t)
  PROVE  LET h == proc[t].held
             map == Freed(mem_map, t)
             put == PutPage(map, NoDir, NoEntries, Stack, Writable(h))
         IN /\ map \in [Page -> Nat] /\ HasRoom(map, NoDir, Stack)
            /\ h \in Page /\ h # proc[t].page /\ map[h] = 1
            /\ proc[t].page \in Page /\ map[proc[t].page] = 1
            /\ mem_map' = put.map
            /\ pg_dir' = [pg_dir EXCEPT ![t] = put.dir]
            /\ pte' = [pte EXCEPT ![t] = put.entries]
            /\ proc' = [proc EXCEPT ![t] = [@ EXCEPT
                          !.st = "user", !.next = None, !.held = 0]]
            /\ content' = Kept(content, mem_map')
<1> DEFINE h == proc[t].held
           map == Freed(mem_map, t)
           put == PutPage(map, NoDir, NoEntries, Stack, Writable(h))
<1>1. TypeOK /\ Formed(t) /\ Alone(t)
  BY DEF Inv, CountsExact
<1>2. proc[t].st = "close" /\ Live(t) /\ mem_map \in [Page -> Nat]
  BY <1>1 DEF LoadExecutable, Live, TypeOK
<1>3. \A g \in Page : /\ map[g] = mem_map[g] - Occurs(Mapped(t), g) - Occurs(pg_dir[t], g)
                      /\ Uses(t, g) = Occurs(Mapped(t), g) + Occurs(pg_dir[t], g)
                                        + One(proc[t].page, g) + One(h, g)
  BY <1>1, <1>2, FreedIs DEF Uses
<1>4. \A g \in Page : /\ Occurs(Mapped(t), g) \in Nat /\ Occurs(pg_dir[t], g) \in Nat
                      /\ One(proc[t].page, g) \in Nat /\ One(h, g) \in Nat
  BY <1>1, UsesNumber, OneNumber
<1>5. map \in [Page -> Nat]
  <2>1. map = [g \in Page |-> map[g]]
    BY <1>1, <1>2, FreedIs
  <2> HIDE DEF map, h
  <2>2. \A g \in Page : map[g] \in Nat
    BY <1>3, <1>4, OwnOnce
  <2> QED
    BY <2>1, <2>2
<1>6. h \in Page /\ proc[t].page \in Page
  BY <1>1, <1>2 DEF TypeOK, Proc, Formed
<1>7. Own(t, h) /\ Own(t, proc[t].page)
  BY DEF Own
<1>8. h # proc[t].page
  BY <1>1, <1>6, <1>7, OwnOnce, UsesAre
<1>9. map[h] = 1 /\ map[proc[t].page] = 1
  <2>1. mem_map[h] = 1 /\ Uses(t, h) = 1 /\ One(h, h) = 1
    BY <1>6, <1>7, OwnOnce DEF One
  <2>2. /\ mem_map[proc[t].page] = 1 /\ Uses(t, proc[t].page) = 1
        /\ One(proc[t].page, proc[t].page) = 1
    BY <1>6, <1>7, OwnOnce DEF One
  <2> HIDE DEF h, map
  <2>3. map[h] = 1
    BY <1>3, <1>4, <1>6, <2>1
  <2>4. map[proc[t].page] = 1
    BY <1>3, <1>4, <1>6, <2>2
  <2> QED
    BY <2>3, <2>4
<1>10. HasRoom(map, NoDir, Stack)
  <2>1. PICK d \in Table : pg_dir[t][d] # 0
    BY <1>1, <1>2 DEF Formed
  <2>2. PICK q : q = pg_dir[t][d]
    OBVIOUS
  <2>3. q \in Page /\ Own(t, q)
    BY <1>1, <2>1, <2>2 DEF TypeOK, Own
  <2>4. mem_map[q] = 1 /\ Uses(t, q) = 1
    BY <2>3, OwnOnce
  <2>5. Occurs(pg_dir[t], q) # 0
    <3>1. IsFiniteSet(Table) /\ DOMAIN pg_dir[t] = Table
      BY <1>1, PagesAssumption, FS_Interval DEF Table, TypeOK
    <3> QED
      BY <2>2, <3>1, OccursNumber
  <2> HIDE DEF map, h
  <2>6. map[q] = 0
    BY <1>3, <1>4, <2>3, <2>4, <2>5
  <2> QED
    BY <2>3, <2>6 DEF HasRoom, FreePages
<1>11. /\ IF HasRoom(map, NoDir, Stack)
            THEN /\ mem_map' = put.map
                 /\ pg_dir' = [pg_dir EXCEPT ![t] = put.dir]
                 /\ pte' = [pte EXCEPT ![t] = put.entries]
            ELSE TRUE
       /\ proc' = [proc EXCEPT ![t] = [@ EXCEPT
                     !.st = "user", !.next = None, !.held = 0]]
       /\ content' = Kept(content, mem_map')
  BY DEF LoadExecutable
<1> HIDE DEF put, map, h
<1> QED
  BY <1>5, <1>6, <1>8, <1>9, <1>10, <1>11 DEF put, map, h

(* The rest of do_execve(): what was freed may be used for the new page    *)
(* table.                                                                  *)
LEMMA LoadExecutableStep ==
  ASSUME Inv, NEW t \in Task, LoadExecutable(t)
  PROVE  TypeOK' /\ StepOf(t)
<1> PICK h, map, page : /\ h = proc[t].held /\ map = Freed(mem_map, t)
                        /\ page = proc[t].page
  OBVIOUS
<1> DEFINE e == Writable(h)
<1> PICK r : r = PutPage(map, NoDir, NoEntries, Stack, e)
  OBVIOUS
<1>1. TypeOK /\ Formed(t) /\ Filled(t)
  BY DEF Inv, CountsExact
<1>2. /\ map \in [Page -> Nat] /\ HasRoom(map, NoDir, Stack)
      /\ h \in Page /\ h # page /\ map[h] = 1
      /\ page \in Page /\ map[page] = 1
      /\ mem_map' = r.map
      /\ pg_dir' = [pg_dir EXCEPT ![t] = r.dir]
      /\ pte' = [pte EXCEPT ![t] = r.entries]
      /\ proc' = [proc EXCEPT ![t] = [@ EXCEPT
                    !.st = "user", !.next = None, !.held = 0]]
      /\ content' = Kept(content, mem_map')
  BY LoadExecutableIs
<1>3. Stack \in Addr /\ NoDir \in [Table -> Page \cup {0}]
  BY AddrAssumption DEF NoDir
<1>4. e \in Entry /\ e.page = h /\ e # None /\ h # Low /\ h # 0 /\ page # 0
  <2>1. e \in Entry /\ e.page = h
    BY <1>2 DEF Writable, Entry
  <2>2. h # Low /\ h # 0 /\ page # 0
    BY <1>2 DEF Page, Low
  <2> HIDE DEF e
  <2> QED
    BY <2>1, <2>2, NoneAssumption
<1> HIDE DEF e
<1>5. PutIs(r, map, NoDir, Stack) /\ r.entries = [NoEntries EXCEPT ![Stack] = e]
  BY <1>2, <1>3, PutPageIs
<1>6. /\ r.map \in [Page -> Nat] /\ r.dir \in [Table -> Page \cup {0}]
      /\ r.dir[TableOf[Stack]] # 0
      /\ \A d \in Table : r.dir[d] # 0 => map[r.dir[d]] = 0 /\ r.map[r.dir[d]] = 1
      /\ \A g \in Page : r.map[g] = map[g] - Occurs(NoDir, g) + Occurs(r.dir, g)
      /\ \A g \in Page : r.map[g] = map[g] \/ (map[g] = 0 /\ r.map[g] = 1)
  BY <1>5 DEF PutIs, NoDir
<1>7. /\ proc' \in [Task -> Proc] /\ proc'[t].st = "user" /\ proc'[t].held = 0
      /\ proc'[t].page = page /\ \A u \in Task \ {t} : proc'[u] = proc[u]
  BY <1>1, <1>2, BackFromExec DEF TypeOK
<1>8. r.entries \in [Addr -> Entry \cup {None}] /\ r.entries[Stack] = e
      /\ \A a \in Addr \ {Stack} : r.entries[a] = None
  BY <1>3, <1>4, <1>5 DEF NoEntries
<1>9. /\ pte' \in [Task -> [Addr -> Entry \cup {None}]] /\ pte'[t] = r.entries
      /\ pg_dir' \in [Task -> [Table -> Page \cup {0}]] /\ pg_dir'[t] = r.dir
      /\ \A u \in Task \ {t} : pte'[u] = pte[u] /\ pg_dir'[u] = pg_dir[u]
  BY <1>1, <1>2, <1>6, <1>8 DEF TypeOK
<1>10. content' \in [Page \cup {Low} -> Content]
  BY <1>1, <1>2 DEF Kept, TypeOK, Content
<1>11. TypeOK'
  BY <1>1, <1>2, <1>6, <1>7, <1>9, <1>10 DEF TypeOK
<1>12. \A g \in Page : Occurs(NoDir, g) = 0 /\ Occurs(r.dir, g) \in Nat
  <2>1. IsFiniteSet(Table)
    BY PagesAssumption, FS_Interval DEF Table
  <2>2. DOMAIN r.dir = Table
    BY <1>6
  <2> QED
    BY <2>1, <2>2, OccursNumber, NothingUsed
<1>13. \A g \in Page : Occurs(Mapped(t), g)' = One(h, g)
  <2> SUFFICES ASSUME NEW g \in Page PROVE Occurs(Mapped(t), g)' = One(h, g)
    OBVIOUS
  <2> DEFINE none == [a \in Addr |-> 0]
             m == Mapped(t)'
  <2>1. DOMAIN none = Addr /\ DOMAIN m = Addr
    BY DEF Mapped
  <2>2. m[Stack] = h /\ none[Stack] = 0 /\ \A a \in Addr \ {Stack} : m[a] = none[a]
    BY <1>3, <1>4, <1>8, <1>9 DEF Mapped, PageOf
  <2>3. Occurs(none, g) = 0 /\ One(0, g) = 0
    <3>1. {x \in DOMAIN none : none[x] = g} = {}
      BY DEF Page
    <3> QED
      BY <3>1, FS_EmptySet, NothingUsed DEF Occurs
  <2> HIDE DEF none, m
  <2>4. Occurs(m, g) = Occurs(none, g) - One(none[Stack], g) + One(m[Stack], g)
    BY <1>3, <2>1, <2>2, AddrAssumption, OccursChange
  <2>5. Occurs(m, g) = One(h, g)
    BY <2>2, <2>3, <2>4, OneNumber
  <2> QED
    BY <2>5 DEF m
<1>14. \A g \in Page : Uses(t, g)' = One(h, g) + Occurs(r.dir, g) + One(page, g)
  <2> SUFFICES ASSUME NEW g \in Page
               PROVE  Uses(t, g)' = One(h, g) + Occurs(r.dir, g) + One(page, g)
    OBVIOUS
  <2>1. Uses(t, g)' = Occurs(Mapped(t), g)' + Occurs(r.dir, g) + One(page, g) + One(0, g)
    BY <1>7, <1>9 DEF Uses
  <2> QED
    BY <1>12, <1>13, <2>1, NothingUsed, OneNumber
<1>15. \A g \in Page :
         /\ map[g] = mem_map[g] - Occurs(Mapped(t), g) - Occurs(pg_dir[t], g)
         /\ Uses(t, g) = Occurs(Mapped(t), g) + Occurs(pg_dir[t], g)
                           + One(page, g) + One(h, g)
         /\ Occurs(Mapped(t), g) \in Nat /\ Occurs(pg_dir[t], g) \in Nat
  BY <1>1, FreedIs, UsesNumber DEF Uses, TypeOK
<1>16. \A g \in Page : mem_map'[g] = mem_map[g] - Uses(t, g) + Uses(t, g)'
  <2> SUFFICES ASSUME NEW g \in Page
               PROVE  mem_map'[g] = mem_map[g] - Uses(t, g) + Uses(t, g)'
    OBVIOUS
  <2>1. mem_map'[g] = map[g] + Occurs(r.dir, g) /\ map[g] \in Nat
    BY <1>2, <1>6, <1>12
  <2>2. One(h, g) \in Nat /\ One(page, g) \in Nat /\ mem_map[g] \in Nat
    BY OneNumber, OwnOnce
  <2> QED
    BY <1>12, <1>14, <1>15, <2>1, <2>2
<1>17. \A u \in Task \ {t} : Undisturbed(u)
  BY <1>7, <1>9 DEF Undisturbed
<1>18. ASSUME NEW g \in Page
       PROVE  GotRightly(t, g)
  <2>1. g = h \/ g = page => Uses(t, g) # 0
    BY <1>1, UsesAre
  <2>2. CASE g # h /\ g # page /\ Occurs(r.dir, g) = 0
    BY <1>14, <2>2 DEF GotRightly, One
  <2>3. CASE Occurs(r.dir, g) # 0
    <3>1. map[g] = 0
      BY <1>2, <1>6, <1>12, <2>3
    <3>2. Uses(t, g) = 0 => mem_map[g] = 0
      BY <1>15, <3>1, OneNumber, OwnOnce
    <3> QED
      BY <3>2 DEF GotRightly
  <2> QED
    BY <2>1, <2>2, <2>3 DEF GotRightly
<1>19. \A g \in Page \cup {Low} : WroteRightly(t, g)
  BY <1>2 DEF WroteRightly, Kept
<1>20. mem_map'[h] = 1 /\ mem_map'[page] = 1
  BY <1>2, <1>6
<1>21. ASSUME NEW g \in Page, Own(t, g)'
       PROVE  mem_map'[g] = 1
  <2>1. g # 0
    BY DEF Page
  <2>2. g = page \/ g = h \/ \E d \in Table : r.dir[d] = g
    BY <1>4, <1>7, <1>8, <1>9, <1>21, <2>1 DEF Own, Maps
  <2> QED
    BY <1>2, <1>6, <1>20, <2>1, <2>2
<1>22. Alone(t)'
  BY <1>21 DEF Alone
<1>23. Formed(t)'
  <2>1. TableOf[Stack] \in Table
    BY <1>3, AddrAssumption
  <2>2. \A a \in Addr : pte'[t][a] # None => a = Stack /\ pte'[t][a].page = h
    BY <1>4, <1>8, <1>9
  <2> QED
    BY <1>4, <1>6, <1>7, <1>9, <2>1, <2>2 DEF Formed, Live
<1>24. Filled(t)'
  <2>1. content'[page] = content[page]
    BY <1>2, <1>4, <1>20 DEF Kept
  <2> QED
    BY <1>1, <1>4, <1>7, <2>1 DEF Filled
<1>25. FreeIsClear'
  BY <1>2 DEF FreeIsClear, Kept, Low, Page
<1> QED
  BY <1>11, <1>16, <1>17, <1>18, <1>19, <1>22, <1>23, <1>24, <1>25 DEF StepOf

-----------------------------------------------------------------------------
(* At first init has its task_struct and one page table, and maps pages of *)
(* the kernel only.                                                        *)
LEMMA InitInv ==
  ASSUME Init
  PROVE  Inv
<1> DEFINE dir == [NoDir EXCEPT ![1] = NrPages - 1]
           none == [a \in Addr |-> 0]
           noMap == [t \in Task |-> none]
           noDir == [t \in Task |-> NoDir]
           nothing == [t \in Task |-> 0]
           m == [t \in Task |-> Mapped(t)]
           s == [t \in Task |-> proc[t].page]
           h == [t \in Task |-> proc[t].held]
<1>1. /\ NrPages \in Nat /\ NrPages >= 2
      /\ NrPages \in Page /\ NrPages - 1 \in Page
      /\ NrPages # 0 /\ NrPages - 1 # 0 /\ NrPages # NrPages - 1
  BY PagesAssumption DEF Init, Page
<1>2. 1 \in Table
  BY AddrAssumption, PagesAssumption DEF Table
<1>3. First \in Task
  BY TaskAssumption
<1>4. NoProc \in Proc /\ NoProc.page = 0 /\ NoProc.held = 0 /\ NoProc.st = "free"
  BY DEF NoProc, Proc
<1>5. /\ proc \in [Task -> Proc]
      /\ proc[First].st = "user" /\ proc[First].page = NrPages /\ proc[First].held = 0
      /\ \A t \in Task \ {First} : proc[t] = NoProc
  BY <1>1, <1>3 DEF Init, NoProc, Proc
<1>6. /\ dir \in [Table -> Page \cup {0}] /\ dir[1] = NrPages - 1
      /\ \A d \in Table \ {1} : dir[d] = 0
  BY <1>1, <1>2 DEF NoDir
<1>7. /\ pg_dir \in [Task -> [Table -> Page \cup {0}]]
      /\ pg_dir[First] = dir /\ \A t \in Task \ {First} : pg_dir[t] = NoDir
  BY <1>3, <1>6 DEF Init, NoDir
<1> HIDE DEF dir
<1>8. /\ pte \in [Task -> [Addr -> Entry \cup {None}]]
      /\ \A a \in Addr : pte[First][a] # None =>
           pte[First][a].page = Low /\ ~pte[First][a].rw /\ TableOf[a] = 1
      /\ \A t \in Task \ {First} : pte[t] = NoEntries
  <2> DEFINE e == [page |-> Low, rw |-> FALSE, dirty |-> FALSE]
  <2>1. e \in Entry /\ e.page = Low /\ ~e.rw
    BY DEF Entry
  <2>2. pte = [t \in Task |-> [a \in Addr |->
                 IF t = First /\ TableOf[a] = 1 THEN e ELSE None]]
    BY DEF Init
  <2> HIDE DEF e
  <2> QED
    BY <1>3, <2>1, <2>2 DEF NoEntries
<1>9. mem_map = [g \in Page |-> IF g >= NrPages - 1 THEN 1 ELSE 0]
      /\ content = [g \in Page \cup {Low} |-> Zero]
  BY DEF Init
<1>10. TypeOK
  <2>1. content \in [Page \cup {Low} -> Content]
    BY <1>9 DEF Content
  <2>2. mem_map \in [Page -> Nat]
    BY <1>9
  <2> QED
    BY <1>5, <1>7, <1>8, <2>1, <2>2 DEF TypeOK
<1>11. ASSUME NEW g \in Page
       PROVE  mem_map[g] = Refs(g)
  <2>1. g # 0 /\ g \in Nat /\ g <= NrPages
    BY <1>1 DEF Page
  <2>2. RefsIn(noMap, noDir, nothing, nothing, g) = 0
    <3>1. Places(noMap, Task, Addr, g) = {} /\ Places(noDir, Task, Table, g) = {}
      BY <2>1 DEF Places, NoDir
    <3>2. {x \in DOMAIN nothing : nothing[x] = g} = {}
      BY <2>1
    <3>3. Occurs(nothing, g) = 0
      BY <3>2, FS_EmptySet DEF Occurs
    <3> HIDE DEF noMap, noDir, nothing
    <3> QED
      BY <3>1, <3>3, FS_EmptySet DEF RefsIn
  <2>3. /\ DOMAIN noMap[First] = Addr /\ DOMAIN m[First] = Addr
        /\ DOMAIN noDir[First] = Table /\ DOMAIN pg_dir[First] = Table
        /\ DOMAIN nothing = Task /\ DOMAIN s = Task /\ DOMAIN h = Task
    BY <1>3, <1>7 DEF Mapped, NoDir
  <2>4. Mapped(First) = none /\ \A t \in Task \ {First} : Mapped(t) = none
    BY <1>8 DEF Mapped, PageOf, NoEntries, Low
  <2>5. /\ SameBut(First, Task, noMap, m) /\ SameBut(First, Task, noDir, pg_dir)
        /\ SameBut(First, Task, nothing, s) /\ SameBut(First, Task, nothing, h)
    BY <1>4, <1>5, <1>7, <2>4 DEF SameBut
  <2>6. Refs(g) = RefsIn(m, pg_dir, s, h, g)
    BY RefsAre
  <2>7. /\ noMap[First] = none /\ noDir[First] = NoDir /\ nothing[First] = 0
        /\ m[First] = none /\ pg_dir[First] = dir
        /\ s[First] = NrPages /\ h[First] = 0
    BY <1>3, <1>5, <1>7, <2>4
  <2>8. Occurs(none, g) = 0
    <3>1. {x \in DOMAIN none : none[x] = g} = {}
      BY <2>1
    <3> QED
      BY <3>1, FS_EmptySet DEF Occurs
  <2>9. Occurs(NoDir, g) = 0 /\ One(0, g) = 0
    BY <1>3, NothingUsed
  <2>10. Occurs(dir, g) = One(NrPages - 1, g)
    <3>1. IsFiniteSet(Table)
      BY PagesAssumption, FS_Interval DEF Table
    <3>2. /\ DOMAIN NoDir = Table /\ DOMAIN dir = Table
          /\ NoDir[1] = 0 /\ \A d \in Table \ {1} : dir[d] = NoDir[d]
      BY <1>2, <1>6 DEF NoDir
    <3>3. Occurs(dir, g) = Occurs(NoDir, g) - One(NoDir[1], g) + One(dir[1], g)
      BY <1>2, <3>1, <3>2, OccursChange
    <3> QED
      BY <1>6, <2>9, <3>2, <3>3, OneNumber
  <2> HIDE DEF noMap, noDir, nothing, m, s, h, none
  <2>11. RefsIn(m, pg_dir, s, h, g) = RefsIn(noMap, noDir, nothing, nothing, g)
      - (Occurs(noMap[First], g) + Occurs(noDir[First], g)
           + One(nothing[First], g) + One(nothing[First], g))
      + (Occurs(m[First], g) + Occurs(pg_dir[First], g)
           + One(s[First], g) + One(h[First], g))
    BY <1>3, <2>3, <2>5, RefsInChange
  <2>12. Refs(g) = One(NrPages - 1, g) + One(NrPages, g)
    BY <2>2, <2>6, <2>7, <2>8, <2>9, <2>10, <2>11, OneNumber
  <2> QED
    BY <1>1, <1>9, <2>1, <2>12 DEF One
<1>12. ASSUME NEW t \in Task
       PROVE  Formed(t) /\ Alone(t) /\ Filled(t)
  <2>1. CASE t = First
    <3>1. Formed(t)
      BY <1>1, <1>2, <1>5, <1>6, <1>7, <1>8, <2>1 DEF Formed, Live
    <3>2. \A g \in Page : Own(t, g) => g = NrPages \/ g = NrPages - 1
      BY <1>5, <1>6, <1>7, <1>8, <2>1 DEF Own, Maps, Page
    <3>3. Alone(t)
      BY <1>1, <1>9, <3>2 DEF Alone
    <3>4. Filled(t)
      BY <1>1, <1>5, <1>9, <2>1 DEF Filled
    <3> QED
      BY <3>1, <3>3, <3>4
  <2>2. CASE t # First
    <3>1. proc[t] = NoProc /\ pg_dir[t] = NoDir /\ pte[t] = NoEntries
      BY <1>5, <1>7, <1>8, <2>2
    <3>2. Formed(t)
      BY <1>4, <3>1 DEF Formed, Live, NoEntries
    <3>3. Alone(t)
      BY <1>4, <3>1 DEF Alone, Own, Maps, NoEntries, NoDir, Page
    <3>4. Filled(t)
      BY <1>4, <3>1 DEF Filled
    <3> QED
      BY <3>2, <3>3, <3>4
  <2> QED
    BY <2>1, <2>2
<1>13. FreeIsClear
  BY <1>9 DEF FreeIsClear
<1> QED
  BY <1>10, <1>11, <1>12, <1>13 DEF Inv, CountsExact

-----------------------------------------------------------------------------
(* Every step of the system is a step of one task, and keeps the           *)
(* invariant.                                                              *)
LEMMA NextKeeps ==
  ASSUME Inv, [Next]_vars
  PROVE  Inv'
<1>1. CASE UNCHANGED vars
  <2>1. /\ mem_map' = mem_map /\ pg_dir' = pg_dir /\ pte' = pte
        /\ content' = content /\ proc' = proc
    BY <1>1 DEF vars
  <2> QED
    BY <2>1 DEF Inv, CountsExact, TypeOK, Refs, Formed, Alone, Filled, Live,
                FreeIsClear, Own, Maps
<1>2. ASSUME NEW t \in Task, TypeOK' /\ StepOf(t)
      PROVE  Inv'
  BY <1>2, StepKeeps
<1>3. ASSUME NEW t \in Task, NEW a \in Addr,
             \/ Write(t, a) \/ DoWpPage(t, a) \/ WriteVerify(t, a)
             \/ GetEmptyPage(t, a) \/ SharePage(t, a) \/ NoPage(t, a)
      PROVE  Inv'
  <2>1. CASE Write(t, a)
    BY <1>2, <2>1, WriteStep
  <2>2. CASE DoWpPage(t, a)
    BY <1>2, <2>2, UnWpPageStep DEF DoWpPage
  <2>3. CASE WriteVerify(t, a)
    BY <1>2, <2>3, UnWpPageStep DEF WriteVerify
  <2>4. CASE GetEmptyPage(t, a)
    BY <1>2, <2>4, GetEmptyPageStep
  <2>5. CASE SharePage(t, a)
    BY <1>2, <2>5, SharePageStep
  <2>6. CASE NoPage(t, a)
    BY <1>2, <2>6, NoPageStep
  <2> QED
    BY <1>3, <2>1, <2>2, <2>3, <2>4, <2>5, <2>6
<1>4. ASSUME NEW t \in Task, BreadPage(t)
      PROVE  Inv'
  BY <1>2, <1>4, BreadPageStep
<1>5. ASSUME NEW t \in Task, NEW c \in Task, Fork(t, c)
      PROVE  Inv'
  BY <1>2, <1>5, ForkStep
<1>6. ASSUME NEW t \in Task, NEW e \in Exe, CopyStrings(t, e)
      PROVE  Inv'
  BY <1>2, <1>6, CopyStringsStep
<1>7. ASSUME NEW t \in Task, ExecError(t) \/ NewExecutable(t) \/ LoadExecutable(t)
      PROVE  Inv'
  BY <1>2, <1>7, ExecErrorStep, NewExecutableStep, LoadExecutableStep
<1>8. ASSUME NEW t \in Task, Exit(t) \/ Release(t)
      PROVE  Inv'
  BY <1>2, <1>8, UserExitedStep, ReleaseStep DEF Exit
<1> QED
  BY <1>1, <1>3, <1>4, <1>5, <1>6, <1>7, <1>8 DEF Next

(* mem_map counts the references to every page exactly, however many tasks *)
(* fork, share, run and exit, and wherever memory runs out half way.       *)
THEOREM CountsAreExact == Spec => []CountsExact
<1>1. Init => Inv
  BY InitInv
<1>2. Inv /\ [Next]_vars => Inv'
  BY NextKeeps
<1>3. Inv => CountsExact
  BY DEF Inv
<1> QED
  BY <1>1, <1>2, <1>3, PTL DEF Spec

(* Whoever may write to a page has it alone: no fork(), no sharing of      *)
(* programs and no un_wp_page() leaves two tasks with a page that one of   *)
(* them may write to.                                                      *)
THEOREM WritersAreAlone == Spec => []WritableIsPrivate
<1>1. Init => Inv
  BY InitInv
<1>2. Inv /\ [Next]_vars => Inv'
  BY NextKeeps
<1>3. Inv => WritableIsPrivate
  <2> SUFFICES ASSUME Inv, NEW t \in Task, NEW a \in Addr,
                      pte[t][a] # None, pte[t][a].rw
               PROVE  pte[t][a].page # Low /\ mem_map[pte[t][a].page] = 1
    BY DEF WritableIsPrivate
  <2>1. TypeOK /\ Formed(t) /\ Alone(t)
    BY DEF Inv, CountsExact
  <2>2. pte[t][a] \in Entry /\ pte[t][a].page # Low
    BY <2>1 DEF TypeOK, Formed
  <2>3. pte[t][a].page \in Page /\ Own(t, pte[t][a].page)
    BY <2>2 DEF Entry, Own, Maps
  <2> QED
    BY <2>1, <2>2, <2>3 DEF Alone
<1> QED
  BY <1>1, <1>2, <1>3, PTL DEF Spec

-----------------------------------------------------------------------------
(* Every step is a step of private memories, or none at all.               *)

(* What the mapped memory of a task is.                                    *)
LEMMA MemIs ==
  ASSUME TypeOK
  PROVE  /\ Mem \in [Task -> [Addr -> Content \cup {Unloaded}] \cup {None}]
         /\ \A u \in Task : /\ Live(u) <=> Mem[u] # None
                            /\ Live(u) => Mem[u] = [a \in Addr |-> Reads(u, a)]
         /\ \A u \in Task : \A a \in Addr : Reads(u, a) \in Content \cup {Unloaded}
<1>1. ASSUME NEW u \in Task, NEW a \in Addr
      PROVE  Reads(u, a) \in Content \cup {Unloaded}
  <2>1. pte[u][a] # None => pte[u][a].page \in Page \cup {Low}
    BY DEF TypeOK, Entry
  <2>2. Zero \in Content
    BY DEF Content
  <2> QED
    BY <2>1, <2>2 DEF Reads, TypeOK
<1>2. \A u \in Task : /\ Live(u) => Mem[u] = [a \in Addr |-> Reads(u, a)]
                      /\ ~Live(u) => Mem[u] = None
  BY DEF Mem, Live
<1>3. \A u \in Task : Live(u) => Mem[u] \in [Addr -> Content \cup {Unloaded}]
  BY <1>1, <1>2
<1>4. Mem = [u \in Task |-> Mem[u]]
  BY DEF Mem
<1> QED
  BY <1>1, <1>2, <1>3, <1>4, NoneAssumption

(* After a step of t: only its own memory may be another one.              *)
MemStep(t) ==
  /\ Mem \in [Task -> [Addr -> Content \cup {Unloaded}] \cup {None}]
  /\ Mem' = [Mem EXCEPT ![t] = Mem'[t]]
  /\ \A u \in Task : /\ Live(u) <=> Mem[u] # None
                     /\ Live(u) => Mem[u] = [a \in Addr |-> Reads(u, a)]
  /\ Live(t)' => Mem'[t] = [a \in Addr |-> Reads(t, a)']
  /\ ~Live(t)' => Mem'[t] = None

(* A step of one task leaves the memories of the others as they were.      *)
LEMMA StepMem ==
  ASSUME Inv, NEW t \in Task, TypeOK', StepOf(t)
  PROVE  MemStep(t)
<1>1. TypeOK
  BY DEF Inv, CountsExact
<1>2. /\ Mem \in [Task -> [Addr -> Content \cup {Unloaded}] \cup {None}]
      /\ \A u \in Task : /\ Live(u) <=> Mem[u] # None
                         /\ Live(u) => Mem[u] = [a \in Addr |-> Reads(u, a)]
  BY <1>1, MemIs
<1>3. /\ Live(t)' => Mem'[t] = [a \in Addr |-> Reads(t, a)']
      /\ ~Live(t)' => Mem'[t] = None
  BY DEF Mem, Live
<1>4. ASSUME NEW u \in Task \ {t}
      PROVE  Mem'[u] = Mem[u]
  <2>1. proc'[u] = proc[u]
    BY DEF StepOf, Undisturbed
  <2>2. \A a \in Addr : Reads(u, a)' = Reads(u, a)
    BY StepKeeps
  <2>3. Mem'[u] = IF proc'[u].st \in {"free", "zombie"} THEN None
                  ELSE [a \in Addr |-> Reads(u, a)']
    BY DEF Mem
  <2>4. Mem[u] = IF proc[u].st \in {"free", "zombie"} THEN None
                 ELSE [a \in Addr |-> Reads(u, a)]
    BY DEF Mem
  <2> QED
    BY <2>1, <2>2, <2>3, <2>4
<1>5. Mem' = [u \in Task |-> Mem'[u]] /\ Mem = [u \in Task |-> Mem[u]]
  BY DEF Mem
<1>6. Mem' = [Mem EXCEPT ![t] = Mem'[t]]
  BY <1>4, <1>5
<1> QED
  BY <1>2, <1>3, <1>6 DEF MemStep

(* Steps that leave a task what it reads.                                  *)
LEMMA SameReads ==
  ASSUME NEW t \in Task, MemStep(t), Live(t) <=> Live(t)',
         Live(t) => \A a \in Addr : Reads(t, a)' = Reads(t, a)
  PROVE  Mem' = Mem
<1>1. Mem'[t] = Mem[t]
  BY DEF MemStep
<1> QED
  BY <1>1 DEF MemStep

(* do_exit() is the end of a memory.                                       *)
LEMMA ExitedMem ==
  ASSUME Inv, NEW t \in Task, Live(t), MemStep(t), NEW map, Exited(t, map)
  PROVE  PM!Next
<1>1. proc'[t].st = "zombie"
  BY DEF Inv, CountsExact, TypeOK, Exited, NoProc
<1>2. Mem'[t] = None /\ Mem[t] # None
  BY <1>1 DEF MemStep, Live
<1>3. PM!Exit(t)
  BY <1>2 DEF MemStep, PM!Exit
<1> QED
  BY <1>3 DEF PM!Next

(* One address of a task that goes on reads otherwise.                     *)
LEMMA OneRead ==
  ASSUME NEW t \in Task, MemStep(t), Live(t), Live(t)', NEW a \in Addr,
         \A b \in Addr \ {a} : Reads(t, b)' = Reads(t, b)
  PROVE  /\ Mem' = [Mem EXCEPT ![t][a] = Reads(t, a)'] /\ Mem[t] # None
         /\ Mem[t][a] = Reads(t, a)
<1>1. /\ Mem[t] = [b \in Addr |-> Reads(t, b)] /\ Mem[t] # None
      /\ Mem'[t] = [b \in Addr |-> Reads(t, b)']
      /\ Mem' = [Mem EXCEPT ![t] = Mem'[t]]
  BY DEF MemStep
<1>2. Mem'[t] = [Mem[t] EXCEPT ![a] = Reads(t, a)']
  BY <1>1
<1> QED
  BY <1>1, <1>2

(* A step after which one address reads the task's own name is a write.    *)
LEMMA WriteMem ==
  ASSUME NEW t \in Task, MemStep(t), Live(t), Live(t)', NEW a \in Addr,
         \A b \in Addr \ {a} : Reads(t, b)' = Reads(t, b), Reads(t, a)' = t
  PROVE  PM!Next
<1>1. Mem' = [Mem EXCEPT ![t][a] = t] /\ Mem[t] # None
  BY OneRead
<1>2. PM!Write(t, a)
  BY <1>1 DEF PM!Write
<1> QED
  BY <1>2 DEF PM!Next

(* An entry for the same contents reads the same.                          *)
LEMMA SameRead ==
  ASSUME NEW t \in Task, NEW a \in Addr, pte'[t][a] = None <=> pte[t][a] = None,
         pte[t][a] # None =>
           content'[pte'[t][a].page] = content[pte[t][a].page]
  PROVE  Reads(t, a)' = Reads(t, a)
BY DEF Reads

(* A page that is used once is mapped at no other address, and a free one  *)
(* at none.                                                                *)
LEMMA MappedOnce ==
  ASSUME Inv, NEW t \in Task, NEW g \in Page
  PROVE  /\ mem_map[g] = 0 => \A a \in Addr : ~Maps(t, a, g)
         /\ mem_map[g] = 1 => \A a, b \in Addr : Maps(t, a, g) /\ Maps(t, b, g) => a = b
         /\ Own(t, g) => \A a \in Addr : Maps(t, a, g) =>
              proc[t].held # g /\ proc[t].page # g
<1>1. TypeOK
  BY DEF Inv, CountsExact
<1>2. Uses(t, g) \in Nat /\ mem_map[g] \in Nat /\ Uses(t, g) <= mem_map[g]
  BY OwnOnce
<1>3. mem_map[g] = 0 => Uses(t, g) = 0
  BY <1>2
<1>4. mem_map[g] = 1 => Uses(t, g) <= 1
  BY <1>2
<1>5. Own(t, g) => Uses(t, g) <= 1
  BY OwnOnce
<1> QED
  BY <1>1, <1>3, <1>4, <1>5, UsesAre

(* The processor's write changes what the writer reads, and nothing else.  *)
LEMMA WriteIsWrite ==
  ASSUME Inv, NEW t \in Task, NEW a \in Addr, Write(t, a)
  PROVE  PM!Next
<1> DEFINE p == pte[t][a].page
           e == [pte[t][a] EXCEPT !.dirty = TRUE]
<1>1. TypeOK /\ Formed(t) /\ Alone(t)
  BY DEF Inv, CountsExact
<1>2. MemStep(t)
  BY WriteStep, StepMem
<1>3. /\ Live(t) /\ Live(t)' /\ pte[t][a] # None /\ pte[t][a].rw
      /\ pte' = [pte EXCEPT ![t][a] = e] /\ content' = [content EXCEPT ![p] = t]
  BY DEF Write, Live
<1>4. p \in Page /\ e \in Entry /\ e.page = p
  <2>1. pte[t][a] \in Entry /\ p \in Page
    BY <1>1, <1>3 DEF TypeOK, Formed, Entry
  <2> QED
    BY <2>1 DEF Entry
<1>5. Maps(t, a, p) /\ mem_map[p] = 1
  BY <1>1, <1>3, <1>4 DEF Maps, Own, Alone
<1> HIDE DEF e
<1>6. /\ pte'[t][a] = e /\ \A b \in Addr \ {a} : pte'[t][b] = pte[t][b]
      /\ content'[p] = t /\ \A g \in Page \cup {Low} : g # p => content'[g] = content[g]
  BY <1>1, <1>3, <1>4, EntryChange DEF TypeOK
<1> HIDE DEF p
<1>7. \A b \in Addr \ {a} : Reads(t, b)' = Reads(t, b)
  <2> SUFFICES ASSUME NEW b \in Addr \ {a} PROVE Reads(t, b)' = Reads(t, b)
    OBVIOUS
  <2>1. pte[t][b] # None => pte[t][b].page # p
    BY <1>4, <1>5, MappedOnce DEF Maps
  <2>2. pte[t][b] # None => pte[t][b].page \in Page \cup {Low}
    BY <1>1 DEF TypeOK, Entry
  <2> QED
    BY <1>6, <2>1, <2>2, SameRead
<1>8. Reads(t, a)' = t
  BY <1>4, <1>6, NoneAssumption DEF Reads
<1> QED
  BY <1>2, <1>3, <1>7, <1>8, WriteMem

(* un_wp_page() copies, or finds that it need not; what is read stays what *)
(* it was, until the write.                                                *)
LEMMA UnWpPageIsWrite ==
  ASSUME Inv, NEW t \in Task, NEW a \in Addr, NEW writes \in BOOLEAN,
         UnWpPage(t, a, writes)
  PROVE  PM!Next \/ Mem' = Mem
<1> DEFINE old == pte[t][a].page
           n == LastFree(mem_map)
<1>1. TypeOK
  BY DEF Inv, CountsExact
<1>2. MemStep(t) /\ Live(t) /\ pte[t][a] # None
  BY UnWpPageStep, StepMem DEF UnWpPage, Live
<1>3. pte[t][a] \in Entry /\ old \in Page \cup {Low} /\ None \notin Entry
  BY <1>1, <1>2, NoneAssumption DEF TypeOK, Entry
(* It is enough that the entry gets a page with the right contents that    *)
(* is mapped nowhere else.                                                 *)
<1>4. ASSUME NEW p \in Page, NEW e \in Entry, e.page = p,
             pte' = [pte EXCEPT ![t][a] = e], proc' = proc,
             \A b \in Addr \ {a} : ~Maps(t, b, p),
             content' = [content EXCEPT ![p] = IF writes THEN t ELSE content[old]]
      PROVE  PM!Next \/ Mem' = Mem
  <2>1. pte'[t][a] = e /\ \A b \in Addr \ {a} : pte'[t][b] = pte[t][b]
    BY <1>1, <1>4, EntryChange DEF TypeOK
  <2>2. /\ content'[p] = IF writes THEN t ELSE content[old]
        /\ \A g \in Page \cup {Low} : g # p => content'[g] = content[g]
    BY <1>1, <1>4 DEF TypeOK
  <2>3. \A b \in Addr \ {a} : Reads(t, b)' = Reads(t, b)
    <3> SUFFICES ASSUME NEW b \in Addr \ {a} PROVE Reads(t, b)' = Reads(t, b)
      OBVIOUS
    <3>1. pte[t][b] # None => pte[t][b].page # p
      BY <1>4 DEF Maps
    <3>2. pte[t][b] # None => pte[t][b].page \in Page \cup {Low}
      BY <1>1 DEF TypeOK, Entry
    <3> QED
      BY <2>1, <2>2, <3>1, <3>2, SameRead
  <2>4. Reads(t, a)' = IF writes THEN t ELSE content[old]
    BY <1>3, <1>4, <2>1, <2>2 DEF Reads
  <2>5. Reads(t, a) = content[old]
    BY <1>2 DEF Reads
  <2>6. Live(t)'
    BY <1>2, <1>4 DEF Live
  <2>7. CASE writes
    BY <1>2, <2>3, <2>4, <2>6, <2>7, WriteMem
  <2>8. CASE ~writes
    BY <1>2, <2>3, <2>4, <2>5, <2>6, <2>8, SameReads
  <2> QED
    BY <2>7, <2>8
<1>5. CASE /\ OnlyUser(old)
           /\ pte' = [pte EXCEPT ![t][a] = Unprotect(pte[t][a], writes)]
           /\ content' = [content EXCEPT ![old] = IF writes THEN t ELSE @]
           /\ UNCHANGED <<mem_map, pg_dir, proc>>
  <2> DEFINE e == Unprotect(pte[t][a], writes)
  <2>1. e \in Entry /\ e.page = old
    BY <1>3 DEF Entry, Unprotect
  <2>2. old \in Page /\ mem_map[old] = 1 /\ Maps(t, a, old)
    BY <1>2, <1>3, <1>5 DEF OnlyUser, Maps
  <2>3. \A b \in Addr \ {a} : ~Maps(t, b, old)
    BY <2>2, MappedOnce
  <2>4. /\ pte' = [pte EXCEPT ![t][a] = e] /\ proc' = proc
        /\ content' = [content EXCEPT ![old] = IF writes THEN t ELSE content[old]]
    BY <1>5
  <2> HIDE DEF e
  <2> QED
    BY <1>4, <2>1, <2>2, <2>3, <2>4
<1>6. CASE /\ ~OnlyUser(old) /\ FreePages(mem_map) # {}
           /\ mem_map' = [g \in Page |-> IF g = n THEN 1
                                         ELSE IF g = old THEN mem_map[g] - 1
                                         ELSE mem_map[g]]
           /\ pte' = [pte EXCEPT ![t][a] = [Writable(n) EXCEPT !.dirty = writes]]
           /\ content' = [content EXCEPT ![n] = IF writes THEN t ELSE content[old]]
           /\ UNCHANGED <<pg_dir, proc>>
  <2> DEFINE e == [Writable(n) EXCEPT !.dirty = writes]
  <2>1. n \in Page /\ mem_map[n] = 0
    BY <1>6, LastFreeIs
  <2>2. e \in Entry /\ e.page = n
    BY <2>1 DEF Entry, Writable
  <2>3. \A b \in Addr \ {a} : ~Maps(t, b, n)
    BY <2>1, MappedOnce
  <2>4. /\ pte' = [pte EXCEPT ![t][a] = e] /\ proc' = proc
        /\ content' = [content EXCEPT ![n] = IF writes THEN t ELSE content[old]]
    BY <1>6
  <2> HIDE DEF e, n
  <2> QED
    BY <1>4, <2>1, <2>2, <2>3, <2>4
<1>7. CASE Exited(t, mem_map)
  BY <1>2, <1>7, ExitedMem
<1> QED
  BY <1>5, <1>6, <1>7 DEF UnWpPage

-----------------------------------------------------------------------------
(* A page is put where there was none: all else reads as before.           *)
LEMMA PutReads ==
  ASSUME Inv, NEW t \in Task, NEW a \in Addr, MemStep(t), Live(t), Live(t)',
         pte[t][a] = None, NEW n \in Page, NEW e \in Entry, e.page = n,
         pte'[t] = [pte[t] EXCEPT ![a] = e],
         \A g \in Page \cup {Low} : g # n => content'[g] = content[g],
         content'[n] = content[n] \/ \A b \in Addr : ~Maps(t, b, n)
  PROVE  /\ \A b \in Addr \ {a} : Reads(t, b)' = Reads(t, b)
         /\ Mem' = [Mem EXCEPT ![t][a] = content'[n]] /\ Mem[t] # None
         /\ Mem[t][a] = IF a \in Text THEN Unloaded ELSE Zero
         /\ a \notin Text /\ content'[n] = Zero => Mem' = Mem
<1>1. TypeOK
  BY DEF Inv, CountsExact
<1>2. pte'[t][a] = e /\ e # None /\ \A b \in Addr \ {a} : pte'[t][b] = pte[t][b]
  BY <1>1, NoneAssumption DEF TypeOK
<1>3. \A b \in Addr \ {a} : Reads(t, b)' = Reads(t, b)
  <2> SUFFICES ASSUME NEW b \in Addr \ {a} PROVE Reads(t, b)' = Reads(t, b)
    OBVIOUS
  <2>1. pte[t][b] # None => content'[pte[t][b].page] = content[pte[t][b].page]
    <3>1. pte[t][b] # None => pte[t][b].page \in Page \cup {Low}
      BY <1>1 DEF TypeOK, Entry
    <3> QED
      BY <3>1 DEF Maps
  <2>2. pte'[t][b] = pte[t][b]
    BY <1>2
  <2> QED
    BY <2>1, <2>2 DEF Reads
<1>4. Reads(t, a)' = content'[n] /\ Reads(t, a) = IF a \in Text THEN Unloaded ELSE Zero
  BY <1>2 DEF Reads
<1>5. /\ Mem' = [Mem EXCEPT ![t][a] = Reads(t, a)'] /\ Mem[t] # None
      /\ Mem[t][a] = Reads(t, a)
  BY <1>3, OneRead
<1>6. a \notin Text /\ content'[n] = Zero => Mem' = Mem
  BY <1>3, <1>4, SameReads
<1> QED
  BY <1>3, <1>4, <1>5, <1>6

(* get_empty_page(): an empty page, where there should be one, is nothing  *)
(* new.                                                                    *)
LEMMA GetEmptyPageIsLoad ==
  ASSUME Inv, NEW t \in Task, NEW a \in Addr, GetEmptyPage(t, a)
  PROVE  PM!Next \/ Mem' = Mem
<1> PICK n : n = LastFree(mem_map)
  OBVIOUS
<1> PICK map : map = Taken(mem_map, n)
  OBVIOUS
<1> PICK e : e = Writable(n)
  OBVIOUS
<1> PICK r : r = PutPage(map, pg_dir[t], pte[t], a, e)
  OBVIOUS
<1>1. TypeOK /\ FreeIsClear
  BY DEF Inv, CountsExact
<1>2. MemStep(t) /\ Live(t) /\ pte[t][a] = None
  BY GetEmptyPageStep, StepMem DEF GetEmptyPage, Live
<1>3. CASE Exited(t, mem_map)
  BY <1>2, <1>3, ExitedMem
<1>4. CASE /\ FreePages(mem_map) # {} /\ HasRoom(map, pg_dir[t], a)
           /\ mem_map' = r.map
           /\ pg_dir' = [pg_dir EXCEPT ![t] = r.dir]
           /\ pte' = [pte EXCEPT ![t] = r.entries]
           /\ UNCHANGED <<content, proc>>
  <2>1. n \in Page /\ mem_map[n] = 0 /\ content'[n] = Zero
    BY <1>1, <1>4, LastFreeIs DEF FreeIsClear
  <2>2. e \in Entry /\ e.page = n
    BY <2>1 DEF Writable, Entry
  <2>3. r.entries = [pte[t] EXCEPT ![a] = e]
    BY DEF PutPage
  <2>4. pte'[t] = [pte[t] EXCEPT ![a] = e] /\ Live(t)' /\ content' = content
    BY <1>1, <1>2, <1>4, <2>3 DEF TypeOK, Live
  <2>5. /\ Mem' = [Mem EXCEPT ![t][a] = Zero] /\ Mem[t] # None
        /\ Mem[t][a] = IF a \in Text THEN Unloaded ELSE Zero
        /\ a \notin Text => Mem' = Mem
    BY <1>2, <2>1, <2>2, <2>4, PutReads
  <2>6. CASE a \in Text
    <3>1. PM!Load(t, a)
      BY <2>5, <2>6 DEF PM!Load
    <3> QED
      BY <3>1 DEF PM!Next
  <2> QED
    BY <2>5, <2>6
<1> QED
  BY <1>3, <1>4 DEF GetEmptyPage

(* share_page(): what the other task reads there.                          *)
LEMMA SharePageIsLoad ==
  ASSUME Inv, NEW t \in Task, NEW a \in Addr, SharePage(t, a)
  PROVE  PM!Next
<1> PICK p \in Sharers(t, a) :
       LET entry == WriteProtect(pte[p][a])
           put == PutPage(mem_map, pg_dir[t], pte[t], a, entry)
       IN IF HasRoom(mem_map, pg_dir[t], a)
            THEN /\ mem_map' = [put.map EXCEPT ![entry.page] = @ + 1]
                 /\ pg_dir' = [pg_dir EXCEPT ![t] = put.dir]
                 /\ pte' = [pte EXCEPT ![t] = put.entries, ![p][a] = entry]
                 /\ UNCHANGED <<content, proc>>
            ELSE Exited(t, mem_map)
  BY DEF SharePage
<1> PICK e, n : e = WriteProtect(pte[p][a]) /\ n = pte[p][a].page
  OBVIOUS
<1> PICK r : r = PutPage(mem_map, pg_dir[t], pte[t], a, e)
  OBVIOUS
<1>1. TypeOK /\ Formed(p)
  BY DEF Inv, CountsExact, Sharers
<1>2. MemStep(t) /\ Live(t)
  BY SharePageStep, StepMem DEF SharePage, NeedsFile, Live
<1>3. /\ pte[t][a] = None /\ a \in Text
      /\ p \in Task \ {t} /\ pte[p][a] # None /\ n # Low
  BY DEF SharePage, NeedsFile, Sharers, Shareable
<1>4. pte[p][a] \in Entry /\ n \in Page /\ e \in Entry /\ e.page = n
  <2>1. pte[p][a] \in Entry /\ n \in Page
    BY <1>1, <1>3 DEF TypeOK, Entry
  <2> QED
    BY <2>1 DEF Entry, WriteProtect
<1>5. CASE Exited(t, mem_map)
  BY <1>2, <1>5, ExitedMem
<1>6. CASE /\ pte' = [pte EXCEPT ![t] = r.entries, ![p][a] = e]
           /\ UNCHANGED <<content, proc>>
  <2>1. r.entries = [pte[t] EXCEPT ![a] = e]
    BY DEF PutPage
  <2>2. pte'[t] = [pte[t] EXCEPT ![a] = e] /\ Live(t)' /\ content' = content
    BY <1>1, <1>2, <1>3, <1>6, <2>1 DEF TypeOK, Live
  <2>3. /\ Mem' = [Mem EXCEPT ![t][a] = content[n]] /\ Mem[t] # None
        /\ Mem[t][a] = Unloaded
    BY <1>2, <1>3, <1>4, <2>2, PutReads
  <2>4. Live(p)
    <3>1. pte[p] # NoEntries
      BY <1>3 DEF NoEntries
    <3> QED
      BY <1>1, <3>1 DEF Formed
  <2>5. Reads(p, a) = content[n]
    BY <1>3 DEF Reads
  <2>6. Mem[p] # None /\ Mem[p][a] = content[n]
    BY <1>2, <1>3, <2>4, <2>5 DEF MemStep
  <2>7. PM!Load(t, a)
    BY <1>3, <2>3, <2>6 DEF PM!Load
  <2> QED
    BY <2>7 DEF PM!Next
<1> QED
  BY <1>5, <1>6

(* bread_page(): what the file says.                                       *)
LEMMA BreadPageIsLoad ==
  ASSUME Inv, NEW t \in Task, BreadPage(t)
  PROVE  PM!Next
<1> PICK n, a : n = proc[t].held /\ a = proc[t].at
  OBVIOUS
<1> PICK e, c : e = Writable(n) /\ c = TextOf(proc[t].exe, a)
  OBVIOUS
<1> PICK r : r = PutPage(mem_map, pg_dir[t], pte[t], a, e)
  OBVIOUS
<1>1. TypeOK /\ Formed(t)
  BY DEF Inv, CountsExact
<1>2. MemStep(t)
  BY BreadPageStep, StepMem
<1>3. /\ proc[t].st = "no_page" /\ Live(t) /\ pte[t][a] = None
      /\ a \in Text /\ a \in Addr /\ proc[t].exe \in Exe /\ n \in Page
  BY <1>1, AddrAssumption DEF BreadPage, Formed, Live, TypeOK, Proc
<1>4. CASE Exited(t, [mem_map EXCEPT ![n] = 0])
  BY <1>2, <1>3, <1>4, ExitedMem
<1>5. CASE /\ pte' = [pte EXCEPT ![t] = r.entries]
           /\ content' = [content EXCEPT ![n] = c]
           /\ proc' = [proc EXCEPT ![t] = [@ EXCEPT
                         !.st = "user", !.at = None, !.held = 0]]
  <2>1. e \in Entry /\ e.page = n
    BY <1>3 DEF Writable, Entry
  <2>2. r.entries = [pte[t] EXCEPT ![a] = e]
    BY DEF PutPage
  <2>3. pte'[t] = [pte[t] EXCEPT ![a] = e]
    BY <1>1, <1>5, <2>2 DEF TypeOK
  <2>4. content'[n] = c /\ \A g \in Page \cup {Low} : g # n => content'[g] = content[g]
    BY <1>1, <1>3, <1>5 DEF TypeOK
  <2>5. proc'[t].st = "user"
    BY <1>1, <1>5 DEF TypeOK, Proc
  <2>6. \A b \in Addr : ~Maps(t, b, n)
    BY <1>3, MappedOnce DEF Own
  <2>7. Live(t)'
    BY <2>5 DEF Live
  <2>8. /\ Mem' = [Mem EXCEPT ![t][a] = c] /\ Mem[t] # None
        /\ Mem[t][a] = Unloaded
    BY <1>2, <1>3, <2>1, <2>3, <2>4, <2>6, <2>7, PutReads
  <2>9. c = PM!TextOf(proc[t].exe, a)
    BY DEF TextOf, PM!TextOf
  <2>10. PM!Load(t, a)
    BY <1>3, <2>8, <2>9 DEF PM!Load
  <2> QED
    BY <1>3, <2>10 DEF PM!Next
<1> QED
  BY <1>4, <1>5 DEF BreadPage

-----------------------------------------------------------------------------
(* The other steps of a task's kernel code.                                *)

(* do_no_page() gets a page and sleeps.                                    *)
LEMMA NoPageIsNothing ==
  ASSUME Inv, NEW t \in Task, NEW a \in Addr, NoPage(t, a)
  PROVE  PM!Next \/ Mem' = Mem
<1>1. TypeOK /\ proc[t].st = "user" /\ Live(t)
  BY DEF Inv, CountsExact, NoPage, NeedsFile, Live
<1>2. MemStep(t)
  BY NoPageStep, StepMem
<1>3. CASE Exited(t, mem_map)
  BY <1>1, <1>2, <1>3, ExitedMem
<1>4. CASE /\ proc' = [proc EXCEPT ![t] = [@ EXCEPT
                         !.st = "no_page", !.at = a, !.held = LastFree(mem_map)]]
           /\ UNCHANGED <<pg_dir, pte, content>>
  <2>1. proc'[t].st = "no_page"
    BY <1>1, <1>4 DEF TypeOK, Proc
  <2>2. Live(t)' /\ \A b \in Addr : Reads(t, b)' = Reads(t, b)
    BY <1>4, <2>1 DEF Live, Reads
  <2> QED
    BY <1>1, <1>2, <2>2, SameReads
<1> QED
  BY <1>3, <1>4 DEF NoPage

(* copy_strings() writes into a page that nobody has.                      *)
LEMMA CopyStringsIsNothing ==
  ASSUME Inv, NEW t \in Task, NEW e \in Exe, CopyStrings(t, e)
  PROVE  Mem' = Mem
<1> PICK n : n = LastFree(mem_map)
  OBVIOUS
<1>1. TypeOK /\ Live(t)
  BY DEF Inv, CountsExact, CopyStrings, Live
<1>2. MemStep(t)
  BY CopyStringsStep, StepMem
<1>3. n \in Page /\ mem_map[n] = 0
  BY LastFreeIs DEF CopyStrings
<1>4. /\ content' = [content EXCEPT ![n] = t] /\ pte' = pte
      /\ proc'[t].st = "args"
  BY <1>1 DEF CopyStrings, TypeOK, Proc
<1>5. Live(t)'
  BY <1>4 DEF Live
<1>6. ASSUME NEW a \in Addr
      PROVE  Reads(t, a)' = Reads(t, a)
  <2>1. pte[t][a] # None => /\ pte[t][a].page \in Page \cup {Low}
                            /\ pte[t][a].page # n
    BY <1>1, <1>3, MappedOnce DEF TypeOK, Entry, Maps
  <2> QED
    BY <1>1, <1>4, <2>1 DEF Reads, TypeOK
<1> QED
  BY <1>1, <1>2, <1>5, <1>6, SameReads

(* exec_error1: the page that is freed is one the task does not map.       *)
LEMMA ExecErrorIsNothing ==
  ASSUME Inv, NEW t \in Task, ExecError(t)
  PROVE  Mem' = Mem
<1> PICK h : h = proc[t].held
  OBVIOUS
<1>1. TypeOK /\ Live(t) /\ Formed(t) /\ proc[t].st = "args"
  BY DEF Inv, CountsExact, ExecError, Live
<1>2. MemStep(t)
  BY ExecErrorStep, StepMem
<1>3. h \in Page /\ Own(t, h)
  BY <1>1 DEF TypeOK, Proc, Formed, Own
<1>4. /\ mem_map' = [mem_map EXCEPT ![h] = 0] /\ pte' = pte
      /\ content' = Kept(content, mem_map') /\ proc'[t].st = "user"
  BY <1>1 DEF ExecError, TypeOK, Proc
<1>5. Live(t)'
  BY <1>4 DEF Live
<1>6. ASSUME NEW a \in Addr
      PROVE  Reads(t, a)' = Reads(t, a)
  <2>1. ASSUME NEW g \in Page, Maps(t, a, g)
        PROVE  content'[g] = content[g]
    <3>1. mem_map[g] # 0 /\ g # h
      BY <1>3, <2>1, MappedOnce
    <3>2. mem_map'[g] # 0
      BY <1>1, <1>4, <3>1 DEF TypeOK
    <3> QED
      BY <1>4, <3>2 DEF Kept
  <2>2. content'[Low] = content[Low]
    BY <1>4 DEF Kept
  <2>3. pte[t][a] # None => pte[t][a].page \in Page \cup {Low}
    BY <1>1 DEF TypeOK, Entry
  <2> QED
    BY <1>4, <2>1, <2>2, <2>3 DEF Reads, Maps
<1> QED
  BY <1>1, <1>2, <1>5, <1>6, SameReads

(* The point of no return changes no memory.                               *)
LEMMA NewExecutableIsNothing ==
  ASSUME Inv, NEW t \in Task, NewExecutable(t)
  PROVE  Mem' = Mem
<1>1. TypeOK /\ Live(t)
  BY DEF Inv, CountsExact, NewExecutable, Live
<1>2. MemStep(t)
  BY NewExecutableStep, StepMem
<1>3. pte' = pte /\ content' = content /\ proc'[t].st = "close"
  BY <1>1 DEF NewExecutable, TypeOK, Proc
<1>4. Live(t)' /\ \A a \in Addr : Reads(t, a)' = Reads(t, a)
  BY <1>3 DEF Live, Reads
<1> QED
  BY <1>1, <1>2, <1>4, SameReads

(* release() of a zombie, which has no memory.                             *)
LEMMA ReleaseIsNothing ==
  ASSUME Inv, NEW t \in Task, Release(t)
  PROVE  Mem' = Mem
<1>1. TypeOK /\ ~Live(t)
  BY DEF Inv, CountsExact, Release, Live
<1>2. MemStep(t)
  BY ReleaseStep, StepMem
<1>3. ~Live(t)'
  BY <1>1 DEF Release, TypeOK, NoProc, Live
<1> QED
  BY <1>1, <1>2, <1>3, SameReads

-----------------------------------------------------------------------------
(* execve() replaces the memory: the arguments, which the task held, and   *)
(* nothing else.                                                           *)
LEMMA LoadExecutableIsExec ==
  ASSUME Inv, NEW t \in Task, LoadExecutable(t)
  PROVE  PM!Next
<1> PICK h, map : h = proc[t].held /\ map = Freed(mem_map, t)
  OBVIOUS
<1> PICK e : e = Writable(h)
  OBVIOUS
<1> PICK r : r = PutPage(map, NoDir, NoEntries, Stack, e)
  OBVIOUS
<1>1. TypeOK /\ Filled(t) /\ proc[t].st = "close" /\ Live(t)
  BY DEF Inv, CountsExact, LoadExecutable, Live
<1>2. MemStep(t)
  BY LoadExecutableStep, StepMem
<1>3. /\ map \in [Page -> Nat] /\ HasRoom(map, NoDir, Stack)
      /\ h \in Page /\ map[h] = 1 /\ mem_map' = r.map
      /\ pte' = [pte EXCEPT ![t] = r.entries]
      /\ proc' = [proc EXCEPT ![t] = [@ EXCEPT
                    !.st = "user", !.next = None, !.held = 0]]
      /\ content' = Kept(content, mem_map')
  BY LoadExecutableIs
<1>4. Stack \in Addr \ Text /\ NoDir \in [Table -> Page \cup {0}]
  BY AddrAssumption DEF NoDir
<1>5. e.page = h /\ e # None
  <2>1. e \in Entry /\ e.page = h
    BY <1>3 DEF Writable, Entry
  <2> QED
    BY <2>1, NoneAssumption
<1>6. PutIs(r, map, NoDir, Stack) /\ r.entries = [NoEntries EXCEPT ![Stack] = e]
  BY <1>3, <1>4, PutPageIs
<1>7. mem_map'[h] = 1
  BY <1>3, <1>6 DEF PutIs
<1>8. content'[h] = t
  BY <1>1, <1>3, <1>7 DEF Kept, Filled
<1>9. pte'[t] = [NoEntries EXCEPT ![Stack] = e]
  BY <1>1, <1>3, <1>6 DEF TypeOK
<1>10. pte'[t][Stack] = e /\ \A a \in Addr \ {Stack} : pte'[t][a] = None
  BY <1>4, <1>9 DEF NoEntries
<1>11. Live(t)'
  <2>1. proc'[t].st = "user"
    BY <1>1, <1>3, BackFromExec DEF TypeOK
  <2> QED
    BY <2>1 DEF Live
<1>12. \A a \in Addr : Reads(t, a)' = IF a \in Text THEN Unloaded
                                      ELSE IF a = Stack THEN t ELSE Zero
  BY <1>4, <1>5, <1>8, <1>10 DEF Reads
<1>13. Mem'[t] = PM!Image(t)
  BY <1>2, <1>11, <1>12 DEF MemStep, PM!Image
<1>14. PM!Exec(t)
  BY <1>1, <1>2, <1>13 DEF MemStep, PM!Exec
<1> QED
  BY <1>14 DEF PM!Next

(* fork(): the child reads what the parent reads, or is none.              *)
LEMMA ForkIsFork ==
  ASSUME Inv, NEW t \in Task, NEW c \in Task, Fork(t, c)
  PROVE  PM!Next \/ Mem' = Mem
<1>1. TypeOK /\ Formed(t) /\ FreePages(mem_map) # {}
  BY ForkIs DEF Inv, CountsExact
<1>2. PICK page, tables, copied, parent, child :
        /\ page = LastFree(mem_map)
        /\ tables = CopiedTables(t, Taken(mem_map, page))
        /\ copied = {a \in Addr : tables.dir[TableOf[a]] # 0 /\ pte[t][a] # None}
        /\ parent = [a \in Addr |-> IF a \in copied THEN ParentEntry(pte[t][a])
                                    ELSE pte[t][a]]
        /\ child = [a \in Addr |-> IF a \in copied THEN WriteProtect(pte[t][a])
                                   ELSE None]
        /\ \/ Forks(t, c, page, tables, copied, parent, child)
           \/ /\ ~tables.ok /\ pte' = [pte EXCEPT ![t] = parent]
              /\ UNCHANGED <<mem_map, pg_dir, proc, content>>
  BY ForkIs
<1>3. t # c /\ Live(t) /\ ~Live(c)
  BY ForkIs DEF Live
<1>4. MemStep(c)
  BY ForkStep, StepMem
<1>5. CASE UNCHANGED <<mem_map, pg_dir, proc, content>>
  <2>1. ~Live(c)'
    BY <1>3, <1>5 DEF Live
  <2> QED
    BY <1>3, <1>4, <2>1, SameReads
<1>6. CASE Forks(t, c, page, tables, copied, parent, child)
  <2>1. /\ tables.ok /\ content' = content
        /\ pte' = [pte EXCEPT ![t] = parent, ![c] = child]
        /\ proc' = [proc EXCEPT ![c] = [proc[t] EXCEPT !.page = page]]
    BY <1>6 DEF Forks
  <2>2. proc'[c].st = proc[t].st /\ pte'[c] = child
    BY <1>1, <1>3, <2>1 DEF TypeOK, Proc
  <2>3. Live(c)'
    BY <1>3, <2>2 DEF Live
  <2>4. \A d \in Table : pg_dir[t][d] # 0 => tables.dir[d] # 0
    <3>1. page \in Page /\ mem_map[page] = 0 /\ mem_map \in [Page -> Nat]
      BY <1>1, <1>2, LastFreeIs DEF TypeOK
    <3>2. PICK map : map = Taken(mem_map, page)
      OBVIOUS
    <3>3. map \in [Page -> Nat]
      BY <3>1, <3>2, TakenIs
    <3>4. Copied(t, map, tables, NrTables)
      BY <1>1, <1>2, <3>2, <3>3, CopiedTablesAre
    <3>5. \A d \in Table : d <= NrTables
      BY PagesAssumption DEF Table
    <3> QED
      BY <2>1, <3>4, <3>5 DEF Copied
  <2>5. \A a \in Addr : a \in copied <=> pte[t][a] # None
    <3>1. \A a \in Addr : TableOf[a] \in Table
      BY AddrAssumption
    <3> QED
      BY <1>1, <1>2, <2>4, <3>1 DEF Formed
  <2>6. ASSUME NEW a \in Addr
        PROVE  Reads(c, a)' = Reads(t, a)
    <3>1. CASE pte[t][a] = None
      <4>1. pte'[c][a] = None
        BY <1>2, <2>2, <2>5, <3>1
      <4> QED
        BY <3>1, <4>1 DEF Reads
    <3>2. CASE pte[t][a] # None
      <4>1. pte'[c][a] = WriteProtect(pte[t][a]) /\ pte[t][a] \in Entry
        BY <1>1, <1>2, <2>2, <2>5, <3>2 DEF TypeOK
      <4>2. WriteProtect(pte[t][a]) \in Entry
            /\ WriteProtect(pte[t][a]).page = pte[t][a].page
        BY <4>1 DEF WriteProtect, Entry
      <4>3. pte'[c][a] # None /\ pte'[c][a].page = pte[t][a].page
        BY <4>1, <4>2, NoneAssumption
      <4> QED
        BY <2>1, <3>2, <4>3 DEF Reads
    <3> QED
      BY <3>1, <3>2
  <2>7. Mem'[c] = Mem[t] /\ Mem[c] = None /\ Mem[t] # None
    BY <1>3, <1>4, <2>3, <2>6 DEF MemStep
  <2>8. PM!Fork(t, c)
    BY <1>4, <2>7 DEF MemStep, PM!Fork
  <2> QED
    BY <2>8 DEF PM!Next
<1> QED
  BY <1>2, <1>5, <1>6

(* exit() ends the memory.                                                 *)
LEMMA ExitIsExit ==
  ASSUME Inv, NEW t \in Task, Exit(t)
  PROVE  PM!Next
<1>1. Live(t) /\ Exited(t, mem_map)
  BY DEF Exit, Live
<1>2. MemStep(t)
  BY UserExitedStep, StepMem DEF Exit
<1> QED
  BY <1>1, <1>2, ExitedMem

-----------------------------------------------------------------------------
(* Init's memory is the kernel, and a program that is still to be loaded.  *)
LEMMA InitIsInit ==
  ASSUME Init
  PROVE  PM!Init
<1> DEFINE m == [a \in Addr |-> Reads(First, a)]
<1>1. First \in Task
  BY TaskAssumption
<1>2. \A a \in Addr : pte[First][a] # None => content[pte[First][a].page] = Zero
  <2> SUFFICES ASSUME NEW a \in Addr, pte[First][a] # None
               PROVE  content[pte[First][a].page] = Zero
    OBVIOUS
  <2>1. pte[First][a] = [page |-> Low, rw |-> FALSE, dirty |-> FALSE]
    BY <1>1 DEF Init
  <2>2. pte[First][a].page = Low
    BY <2>1
  <2> QED
    BY <2>2 DEF Init
<1>3. m \in [Addr -> {Zero, Unloaded}]
  BY <1>2 DEF Reads
<1>4. \A t \in Task : proc[t].st = IF t = First THEN "user" ELSE "free"
  BY DEF Init, NoProc
<1>5. Mem = [u \in Task |-> IF u = First THEN m ELSE None]
  BY <1>4 DEF Mem
<1> QED
  BY <1>1, <1>3, <1>5 DEF PM!Init

(* Every step is one of PrivateMemory or none.                             *)
LEMMA NextIsNext ==
  ASSUME Inv, [Next]_vars
  PROVE  PM!Next \/ Mem' = Mem
<1>1. CASE UNCHANGED vars
  <2>1. pte' = pte /\ content' = content /\ proc' = proc
    BY <1>1 DEF vars
  <2> QED
    BY <2>1 DEF Mem, Reads
<1>2. ASSUME NEW t \in Task, NEW a \in Addr,
             \/ Write(t, a) \/ DoWpPage(t, a) \/ WriteVerify(t, a)
             \/ GetEmptyPage(t, a) \/ SharePage(t, a) \/ NoPage(t, a)
      PROVE  PM!Next \/ Mem' = Mem
  <2>1. CASE Write(t, a)
    BY <2>1, WriteIsWrite
  <2>2. CASE DoWpPage(t, a)
    BY <2>2, UnWpPageIsWrite DEF DoWpPage
  <2>3. CASE WriteVerify(t, a)
    BY <2>3, UnWpPageIsWrite DEF WriteVerify
  <2>4. CASE GetEmptyPage(t, a)
    BY <2>4, GetEmptyPageIsLoad
  <2>5. CASE SharePage(t, a)
    BY <2>5, SharePageIsLoad
  <2>6. CASE NoPage(t, a)
    BY <2>6, NoPageIsNothing
  <2> QED
    BY <1>2, <2>1, <2>2, <2>3, <2>4, <2>5, <2>6
<1>3. ASSUME NEW t \in Task, BreadPage(t)
      PROVE  PM!Next
  BY <1>3, BreadPageIsLoad
<1>4. ASSUME NEW t \in Task, NEW c \in Task, Fork(t, c)
      PROVE  PM!Next \/ Mem' = Mem
  BY <1>4, ForkIsFork
<1>5. ASSUME NEW t \in Task, NEW e \in Exe, CopyStrings(t, e)
      PROVE  Mem' = Mem
  BY <1>5, CopyStringsIsNothing
<1>6. ASSUME NEW t \in Task, ExecError(t) \/ NewExecutable(t) \/ LoadExecutable(t)
      PROVE  PM!Next \/ Mem' = Mem
  BY <1>6, ExecErrorIsNothing, NewExecutableIsNothing, LoadExecutableIsExec
<1>7. ASSUME NEW t \in Task, Exit(t) \/ Release(t)
      PROVE  PM!Next \/ Mem' = Mem
  BY <1>7, ExitIsExit, ReleaseIsNothing
<1> QED
  BY <1>1, <1>2, <1>3, <1>4, <1>5, <1>6, <1>7 DEF Next

(* Copy on write, the sharing of programs and demand loading cannot be     *)
(* told from every task having a memory of its own, that fork() copies as  *)
(* a whole and execve() replaces as a whole: mm/memory.c, with what        *)
(* fork.c, exec.c and exit.c do to it, implements PrivateMemory.           *)
THEOREM MemoryIsPrivate == Spec => ImplementsPrivateMemory
<1>1. Init => Inv /\ PM!Init
  BY InitInv, InitIsInit
<1>2. Inv /\ [Next]_vars => Inv'
  BY NextKeeps
<1>3. Inv /\ [Next]_vars => [PM!Next]_Mem
  BY NextIsNext
<1>4. Spec => PM!Spec
  BY <1>1, <1>2, <1>3, PTL DEF Spec, PM!Spec
<1> QED
  BY <1>4 DEF ImplementsPrivateMemory
=============================================================================
