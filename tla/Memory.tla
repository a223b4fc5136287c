------------------------------- MODULE Memory -------------------------------
(***************************************************************************)
(* Page tables and the counts of mem_map, mm/memory.c, under fork(),       *)
(* execve(), exit() and the page faults of tasks.                          *)
(*                                                                         *)
(* A task is an entry of task[]; nothing here sleeps but the reading of a  *)
(* page by do_no_page() and what lies between the parts of do_execve().    *)
(***************************************************************************)
EXTENDS Naturals, FiniteSets, FiniteSetsExt

CONSTANTS
  Task, First,   \* tasks; the one that runs at first, init
  Exe,           \* programs
  Addr,          \* the pages of an address space
  Text,          \* those below end_data
  Stack,         \* where change_ldt() puts the arguments
  NrTables,      \* directory entries of a task
  TableOf,       \* TableOf[a]: the one of address a
  NrPages,       \* pages of main memory
  Zero,          \* contents of a page just gotten
  None,          \* no program, no page table entry
  Unloaded       \* what a task reads at a page of its program not yet there

Page == 1..NrPages
Low == 0               \* any page below LOW_MEM, which is not counted
Table == 1..NrTables

ASSUME TaskAssumption == IsFiniteSet(Task) /\ First \in Task
ASSUME AddrAssumption == /\ IsFiniteSet(Addr)
                         /\ Text \subseteq Addr /\ Stack \in Addr \ Text
                         /\ TableOf \in [Addr -> Table]
ASSUME PagesAssumption == NrTables \in Nat /\ NrPages \in Nat

VARIABLES
  mem_map,   \* mem_map[g]: the use count of page g
  pg_dir,    \* pg_dir[t][d]: the page of a page table, 0 if not present
  pte,       \* pte[t][a]: a page table entry, None if not present
  content,   \* what is in a page; what is in a free one does not matter, as
             \* get_free_page() clears it, and is taken to be Zero
  proc       \* task[], with the local variables of its kernel code

vars == <<mem_map, pg_dir, pte, content, proc>>

TextOf(e, a) == [exe |-> e, addr |-> a]
Content == {Zero} \cup Task \cup {TextOf(e, a) : e \in Exe, a \in Text}

Entry == [page : Page \cup {Low}, rw : BOOLEAN, dirty : BOOLEAN]

(* None is no program, no page table entry and, as a memory, no task.     *)
ASSUME NoneAssumption == /\ None \notin Exe \cup Entry
                         /\ None \notin [Addr -> Content \cup {Unloaded}]

(* page: of its task_struct, 0 for a free slot; at: the address of the     *)
(* fault do_no_page() sleeps for, next: the program do_execve() loads;     *)
(* held: the page a local variable of either holds.                        *)
Proc == [st : {"free", "user", "no_page", "args", "close", "zombie"},
         page : Page \cup {0}, exe : Exe \cup {None}, next : Exe \cup {None},
         at : Addr \cup {None}, held : Page \cup {0}]

NoProc == [st |-> "free", page |-> 0, exe |-> None, next |-> None,
           at |-> None, held |-> 0]

TypeOK ==
  /\ mem_map \in [Page -> Nat]
  /\ pg_dir \in [Task -> [Table -> Page \cup {0}]]
  /\ pte \in [Task -> [Addr -> Entry \cup {None}]]
  /\ content \in [Page \cup {Low} -> Content]
  /\ proc \in [Task -> Proc]

NoDir == [d \in Table |-> 0]
NoEntries == [a \in Addr |-> None]

(* init was forked by task 0: its first table maps pages of the kernel,    *)
(* read-only; it has no executable.                                        *)
Init ==
  /\ NrPages >= 2
  /\ mem_map = [g \in Page |-> IF g >= NrPages - 1 THEN 1 ELSE 0]
  /\ pg_dir = [t \in Task |-> IF t = First
                              THEN [NoDir EXCEPT ![1] = NrPages - 1] ELSE NoDir]
  /\ pte = [t \in Task |-> [a \in Addr |->
              IF t = First /\ TableOf[a] = 1
                THEN [page |-> Low, rw |-> FALSE, dirty |-> FALSE] ELSE None]]
  /\ content = [g \in Page \cup {Low} |-> Zero]
  /\ proc = [t \in Task |-> IF t = First
                THEN [NoProc EXCEPT !.st = "user", !.page = NrPages]
                ELSE NoProc]

-----------------------------------------------------------------------------
(* Pages are gotten and freed. Operators on a map of counts, so that one   *)
(* step can do several.                                                    *)

FreePages(map) == {g \in Page : map[g] = 0}

(* get_free_page(): the last free page. *)
LastFree(map) == Max(FreePages(map))
Taken(map, g) == [map EXCEPT ![g] = 1]

Mapping(entries, g) == {a \in Addr : entries[a] # None /\ entries[a].page = g}

(* free_page_tables(): every present page and every page table once. *)
Freed(map, t) ==
  [g \in Page |-> map[g] - Cardinality(Mapping(pte[t], g))
                         - Cardinality({d \in Table : pg_dir[t][d] = g})]

(* What is left of the contents cs when only the pages of map are in use.  *)
Kept(cs, map) ==
  [g \in Page \cup {Low} |-> IF g # Low /\ map[g] = 0 THEN Zero ELSE cs[g]]

(* do_exit(), also out of oom(); the slot is kept until somebody waits. *)
Exited(t, map) ==
  /\ mem_map' = Freed(map, t)
  /\ content' = Kept(content, mem_map')
  /\ pg_dir' = [pg_dir EXCEPT ![t] = NoDir]
  /\ pte' = [pte EXCEPT ![t] = NoEntries]
  /\ proc' = [proc EXCEPT ![t] = [NoProc EXCEPT !.st = "zombie",
                                                !.page = proc[t].page]]

(* put_page() for task t: page g becomes its page at a, with a new page     *)
(* table if need be. dir is its directory; room says that there is one.    *)
HasRoom(map, dir, a) == dir[TableOf[a]] # 0 \/ FreePages(map) # {}

PutPage(map, dir, entries, a, entry) ==
  LET d == TableOf[a]
      new == dir[d] = 0
  IN [map |-> IF new THEN Taken(map, LastFree(map)) ELSE map,
      dir |-> IF new THEN [dir EXCEPT ![d] = LastFree(map)] ELSE dir,
      entries |-> [entries EXCEPT ![a] = entry]]

Writable(g) == [page |-> g, rw |-> TRUE, dirty |-> FALSE]

-----------------------------------------------------------------------------
(* A task in user mode touches its memory.                                 *)

(* The processor writes and sets the dirty bit. *)
Write(t, a) ==
  /\ proc[t].st = "user"
  /\ pte[t][a] # None /\ pte[t][a].rw
  /\ content' = [content EXCEPT ![pte[t][a].page] = t]
  /\ pte' = [pte EXCEPT ![t][a].dirty = TRUE]
  /\ UNCHANGED <<mem_map, pg_dir, proc>>

(* Mutant: a page is taken to be private if it is mapped twice. *)
OnlyUserOfTwo(g) == g # Low /\ mem_map[g] <= 2

OnlyUser(g) == g # Low /\ mem_map[g] = 1

(* The page may be written to, and is if the write goes on. *)
Unprotect(entry, writes) == [entry EXCEPT !.rw = TRUE, !.dirty = @ \/ writes]

(* un_wp_page(), which then lets the write go on, or none comes.           *)
UnWpPage(t, a, writes) ==
  LET old == pte[t][a].page IN
  /\ proc[t].st = "user"
  /\ pte[t][a] # None /\ ~pte[t][a].rw
  /\ \/ /\ OnlyUser(old)
        /\ pte' = [pte EXCEPT ![t][a] = Unprotect(pte[t][a], writes)]
        /\ content' = [content EXCEPT ![old] = IF writes THEN t ELSE @]
        /\ UNCHANGED <<mem_map, pg_dir, proc>>
     \/ /\ ~OnlyUser(old) /\ FreePages(mem_map) # {}
        /\ LET new == LastFree(mem_map) IN
             /\ mem_map' = [g \in Page |-> IF g = new THEN 1
                                           ELSE IF g = old THEN mem_map[g] - 1
                                           ELSE mem_map[g]]
             /\ pte' = [pte EXCEPT ![t][a] = [Writable(new) EXCEPT
                                                !.dirty = writes]]
             /\ content' = [content EXCEPT ![new] = IF writes THEN t
                                                    ELSE content[old]]
        /\ UNCHANGED <<pg_dir, proc>>
     \/ /\ ~OnlyUser(old) /\ FreePages(mem_map) = {}
        /\ Exited(t, mem_map)

(* A write to a shared page: do_wp_page(), and the write is repeated. *)
DoWpPage(t, a) == UnWpPage(t, a, TRUE)

(* verify_area() before a system call that may fail before it writes. *)
WriteVerify(t, a) == UnWpPage(t, a, FALSE)

(* get_empty_page(): no program, or not a page of its file. *)
GetEmptyPage(t, a) ==
  LET g == LastFree(mem_map)
      map == Taken(mem_map, g)
      put == PutPage(map, pg_dir[t], pte[t], a, Writable(g))
  IN
  /\ proc[t].st = "user" /\ pte[t][a] = None
  /\ proc[t].exe = None \/ a \notin Text
  /\ IF FreePages(mem_map) # {} /\ HasRoom(map, pg_dir[t], a)
       THEN /\ mem_map' = put.map
            /\ pg_dir' = [pg_dir EXCEPT ![t] = put.dir]
            /\ pte' = [pte EXCEPT ![t] = put.entries]
            /\ UNCHANGED <<content, proc>>
       ELSE Exited(t, mem_map)

(* try_to_share() finds the page in task p: present and clean. *)
Shareable(p, a) ==
  /\ pte[p][a] # None /\ ~pte[p][a].dirty
  /\ pte[p][a].page # Low

Sharers(t, a) == {p \in Task \ {t} : /\ proc[p].st # "free"
                                     /\ proc[p].exe = proc[t].exe
                                     /\ Shareable(p, a)}

NeedsFile(t, a) ==
  /\ proc[t].st = "user" /\ pte[t][a] = None
  /\ proc[t].exe # None /\ a \in Text

WriteProtect(entry) == [entry EXCEPT !.rw = FALSE]

(* share_page(): write-protect the page in both tasks. *)
SharePage(t, a) ==
  /\ NeedsFile(t, a)
  /\ \E p \in Sharers(t, a) :
       LET entry == WriteProtect(pte[p][a])
           put == PutPage(mem_map, pg_dir[t], pte[t], a, entry)
       IN IF HasRoom(mem_map, pg_dir[t], a)
            THEN /\ mem_map' = [put.map EXCEPT ![entry.page] = @ + 1]
                 /\ pg_dir' = [pg_dir EXCEPT ![t] = put.dir]
                 /\ pte' = [pte EXCEPT ![t] = put.entries, ![p][a] = entry]
                 /\ UNCHANGED <<content, proc>>
            ELSE Exited(t, mem_map)

(* Nobody has it: get a page and sleep in bread_page(). *)
NoPage(t, a) ==
  /\ NeedsFile(t, a) /\ Sharers(t, a) = {}
  /\ IF FreePages(mem_map) # {}
       THEN /\ mem_map' = Taken(mem_map, LastFree(mem_map))
            /\ proc' = [proc EXCEPT ![t] = [@ EXCEPT
                         !.st = "no_page", !.at = a, !.held = LastFree(mem_map)]]
            /\ UNCHANGED <<pg_dir, pte, content>>
       ELSE Exited(t, mem_map)

(* The page was read; it is put in its place, or freed. *)
BreadPage(t) ==
  LET p == proc[t]
      put == PutPage(mem_map, pg_dir[t], pte[t], p.at, Writable(p.held))
  IN
  /\ p.st = "no_page"
  /\ IF HasRoom(mem_map, pg_dir[t], p.at)
       THEN /\ mem_map' = put.map
            /\ pg_dir' = [pg_dir EXCEPT ![t] = put.dir]
            /\ pte' = [pte EXCEPT ![t] = put.entries]
            /\ content' = [content EXCEPT ![p.held] = TextOf(p.exe, p.at)]
            /\ proc' = [proc EXCEPT ![t] = [@ EXCEPT
                         !.st = "user", !.at = None, !.held = 0]]
       ELSE Exited(t, [mem_map EXCEPT ![p.held] = 0])

-----------------------------------------------------------------------------
(* fork()                                                                  *)

(* copy_page_tables(): one table, if there is one and a page for its copy; *)
(* then all of them.                                                       *)
CopiedTable(t, s, d) ==
  IF ~s.ok \/ pg_dir[t][d] = 0 THEN s
  ELSE IF FreePages(s.map) = {} THEN [s EXCEPT !.ok = FALSE]
  ELSE LET new == LastFree(s.map)
       IN [map |-> Taken(s.map, new), dir |-> [s.dir EXCEPT ![d] = new],
           ok |-> TRUE]

CopiedTables(t, map) ==
  LET upto[d \in 0..NrTables] ==
        IF d = 0 THEN [map |-> map, dir |-> NoDir, ok |-> TRUE]
        ELSE CopiedTable(t, upto[d - 1], d)
  IN upto[NrTables]

(* Mutant: the parent may go on writing. *)
ParentEntryKept(entry) == entry

(* Pages of the kernel stay as they are in the parent. *)
ParentEntry(entry) == IF entry.page = Low THEN entry ELSE WriteProtect(entry)

(* copy_process(): the child's task_struct and page tables, or none. The   *)
(* pages copied before memory ran out stay write-protected in the parent.  *)
Fork(t, c) ==
  /\ proc[t].st = "user" /\ proc[c].st = "free"
  /\ FreePages(mem_map) # {}
  /\ LET page == LastFree(mem_map)
         tables == CopiedTables(t, Taken(mem_map, page))
         copied == {a \in Addr : /\ tables.dir[TableOf[a]] # 0
                                 /\ pte[t][a] # None}
         parent == [a \in Addr |-> IF a \in copied THEN ParentEntry(pte[t][a])
                                   ELSE pte[t][a]]
     IN IF tables.ok
          THEN /\ mem_map' = [g \in Page |->
                     tables.map[g] + Cardinality(Mapping(pte[t], g) \cap copied)]
               /\ pg_dir' = [pg_dir EXCEPT ![c] = tables.dir]
               /\ pte' = [pte EXCEPT ![t] = parent,
                            ![c] = [a \in Addr |->
                                      IF a \in copied
                                        THEN WriteProtect(pte[t][a])
                                        ELSE None]]
               /\ proc' = [proc EXCEPT ![c] = [proc[t] EXCEPT !.page = page]]
          ELSE /\ pte' = [pte EXCEPT ![t] = parent]
               /\ UNCHANGED <<mem_map, pg_dir, proc>>
  /\ UNCHANGED content

-----------------------------------------------------------------------------
(* do_execve()                                                             *)

(* copy_strings() puts the arguments in a page of their own. *)
CopyStrings(t, e) ==
  /\ proc[t].st = "user" /\ FreePages(mem_map) # {}
  /\ LET g == LastFree(mem_map) IN
       /\ mem_map' = Taken(mem_map, g)
       /\ content' = [content EXCEPT ![g] = t]
       /\ proc' = [proc EXCEPT ![t] = [@ EXCEPT
                    !.st = "args", !.next = e, !.held = g]]
  /\ UNCHANGED <<pg_dir, pte>>

(* Mutant: the page of the arguments is forgotten. *)
ExecErrorLeaks(t) ==
  /\ proc[t].st = "args"
  /\ proc' = [proc EXCEPT ![t] = [@ EXCEPT
                !.st = "user", !.next = None, !.held = 0]]
  /\ UNCHANGED <<mem_map, pg_dir, pte, content>>

(* exec_error1 *)
ExecError(t) ==
  /\ proc[t].st = "args"
  /\ mem_map' = [mem_map EXCEPT ![proc[t].held] = 0]
  /\ content' = Kept(content, mem_map')
  /\ proc' = [proc EXCEPT ![t] = [@ EXCEPT
                !.st = "user", !.next = None, !.held = 0]]
  /\ UNCHANGED <<pg_dir, pte>>

(* "This is the point of no return": the program is the new one; files are *)
(* closed, which may sleep.                                                *)
NewExecutable(t) ==
  /\ proc[t].st = "args"
  /\ proc' = [proc EXCEPT ![t].st = "close", ![t].exe = proc[t].next]
  /\ UNCHANGED <<mem_map, pg_dir, pte, content>>

(* The old memory is freed, and change_ldt() puts the arguments on top.    *)
LoadExecutable(t) ==
  LET p == proc[t]
      map == Freed(mem_map, t)
      put == PutPage(map, NoDir, NoEntries, Stack, Writable(p.held))
  IN
  /\ p.st = "close"
  /\ IF HasRoom(map, NoDir, Stack)
       THEN /\ mem_map' = put.map
            /\ pg_dir' = [pg_dir EXCEPT ![t] = put.dir]
            /\ pte' = [pte EXCEPT ![t] = put.entries]
       ELSE /\ mem_map' = map
            /\ pg_dir' = [pg_dir EXCEPT ![t] = NoDir]
            /\ pte' = [pte EXCEPT ![t] = NoEntries]
  /\ proc' = [proc EXCEPT ![t] = [@ EXCEPT
                !.st = "user", !.next = None, !.held = 0]]
  /\ content' = Kept(content, mem_map')

-----------------------------------------------------------------------------
(* exit() and wait()                                                       *)

Exit(t) ==
  /\ proc[t].st = "user"
  /\ Exited(t, mem_map)

(* release(): the page of the task_struct. *)
Release(t) ==
  /\ proc[t].st = "zombie"
  /\ mem_map' = [mem_map EXCEPT ![proc[t].page] = @ - 1]
  /\ proc' = [proc EXCEPT ![t] = NoProc]
  /\ UNCHANGED <<pg_dir, pte, content>>

Next ==
  \E t \in Task :
    \/ \E a \in Addr : \/ Write(t, a) \/ DoWpPage(t, a) \/ WriteVerify(t, a)
                       \/ GetEmptyPage(t, a) \/ SharePage(t, a) \/ NoPage(t, a)
    \/ BreadPage(t)
    \/ \E c \in Task : Fork(t, c)
    \/ \E e \in Exe : CopyStrings(t, e)
    \/ ExecError(t) \/ NewExecutable(t) \/ LoadExecutable(t)
    \/ Exit(t) \/ Release(t)

Spec == Init /\ [][Next]_vars

-----------------------------------------------------------------------------

(* The references to a page: from page tables and directories, as          *)
(* task_struct, and from the local variables of sleeping kernel code.      *)
Refs(g) ==
  Cardinality({x \in Task \X Addr : /\ pte[x[1]][x[2]] # None
                                    /\ pte[x[1]][x[2]].page = g})
  + Cardinality({x \in Task \X Table : pg_dir[x[1]][x[2]] = g})
  + Cardinality({t \in Task : proc[t].page = g})
  + Cardinality({t \in Task : proc[t].held = g})

(* mem_map counts exactly the references there are, through forks and      *)
(* faults that run out of memory half way: no page is lost, none is freed  *)
(* twice ("trying to free free page"), none is gotten while in use.        *)
CountsExact == TypeOK /\ \A g \in Page : mem_map[g] = Refs(g)

(* Whoever can write to a page has it alone, so un_wp_page(),              *)
(* copy_page_tables() and try_to_share() together lose no write protection.*)
WritableIsPrivate ==
  \A t \in Task, a \in Addr :
    pte[t][a] # None /\ pte[t][a].rw =>
      pte[t][a].page # Low /\ mem_map[pte[t][a].page] = 1

(* memory.c:363-368: a page is shared "if it is clean" with a task that is *)
(* known to have "the same executable", so that what a task gets below     *)
(* end_data, from the file or from another task, is its program.           *)
LoadedIsProgram ==
  [][\A t \in Task, a \in Text :
       /\ proc[t].st \in {"user", "no_page"} /\ proc[t].exe # None
       /\ pte[t][a] = None /\ pte'[t][a] # None
       => content'[pte'[t][a].page] = TextOf(proc[t].exe, a)]_vars

(* What t reads at a, or would if it touched it. *)
Reads(t, a) ==
  IF pte[t][a] # None THEN content[pte[t][a].page]
  ELSE IF a \in Text THEN Unloaded
  ELSE Zero

Mem == [t \in Task |-> IF proc[t].st \in {"free", "zombie"} THEN None
                       ELSE [a \in Addr |-> Reads(t, a)]]

PM == INSTANCE PrivateMemory WITH mem <- Mem

(* Copy on write, sharing and demand loading cannot be told from a memory  *)
(* of one's own that fork() copies and execve() replaces. That what is     *)
(* loaded is the program is another matter: see LoadedIsProgram.           *)
ImplementsPrivateMemory == PM!Spec
=============================================================================
