------------------------------ MODULE MCMemory ------------------------------
(***************************************************************************)
(* An instance of the memory management: init and two more tasks, a        *)
(* program of one page and a stack page, in two page tables.               *)
(***************************************************************************)
EXTENDS Memory, TLC

CONSTANTS
  init, t2, t3,   \* tasks
  sh              \* a program

ThreeTasks == {init, t2, t3}
OneProgram == {sh}
TwoAddr == 1..2
FirstAddr == {1}
Tables == <<1, 2>>
Symmetric == Permutations({t2, t3})

(* Which page is used for what makes no difference: a state is told by     *)
(* what refers to the same page, and by the page's count and contents.     *)
PageView(g) == <<mem_map[g], content[g]>>

EntryView(t, a) ==
  IF pte[t][a] = None THEN None
  ELSE IF pte[t][a].page = Low THEN [pte[t][a] EXCEPT !.page = content[Low]]
  ELSE [pte[t][a] EXCEPT !.page = <<PageView(@),
          {x \in Task \X Addr : /\ pte[x[1]][x[2]] # None
                               /\ pte[x[1]][x[2]].page = pte[t][a].page}>>]

OneView(g) == IF g = 0 THEN None ELSE PageView(g)

View == <<[t \in Task |-> [a \in Addr |-> EntryView(t, a)]],
          [t \in Task |-> [d \in Table |-> OneView(pg_dir[t][d])]],
          [t \in Task |-> [proc[t] EXCEPT !.page = OneView(@),
                                         !.held = OneView(@)]],
          Cardinality(FreePages(mem_map))>>
=============================================================================
