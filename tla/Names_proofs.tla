---------------------------- MODULE Names_proofs ----------------------------
(***************************************************************************)
(* Proofs about the inode table, for any finite sets of tasks and slots,   *)
(* any numbers of inodes and blocks, any disks and any paths.              *)
(***************************************************************************)
EXTENDS Names, Numbers

(* The fields of an inode and of a call. *)
IsInode(i) ==
  /\ DOMAIN i = {"nr", "count", "dirt", "lock", "kind", "nlinks", "zones", "size"}
  /\ i = [x \in DOMAIN i |-> i[x]]

IsCall(r) ==
  /\ DOMAIN r = {"pc", "op", "path", "to", "dir", "ino", "old", "nr", "k", "b",
                 "n", "e", "puts", "bh", "then"}
  /\ r = [x \in DOMAIN r |-> r[x]]

(* The inodes a call has, by where it is.                                  *)
NoDir(r) == r.dir = None
NoIno(r) == r.ino = None
NoPuts(r) == r.puts = <<>>
HasDir(r) == r.dir \in Slot
HasIno(r) == r.ino \in Slot
OldIf(r) == IF r.op = "link_to" THEN r.old \in Slot ELSE r.old = None

PutsOf(r) ==
  \/ \E a \in Slot : r.puts = <<a>>
  \/ \E a, b \in Slot : r.puts = <<a, b>>

Looking(r) ==
  /\ r.nr # 0
  /\ ~(Final(r) /\ r.op \in Making)
  /\ OldIf(r)
  /\ IF Final(r) /\ r.op \in Removing THEN HasDir(r) ELSE NoDir(r)

Then(r) ==
  \/ r.then = "user" /\ NoIno(r) /\ r.old = None
  \/ r.then = "undo" /\ HasIno(r) /\ r.old = None
  \/ r.then = "linked" /\ NoIno(r) /\ r.old \in Slot
  \/ r.then = "iget" /\ NoIno(r) /\ Looking(r)

AtPut == {"put", "write", "trunc"}

(* A call that may still have to open a file. *)
Before(r) ==
  \/ r.pc \in {"find", "iget", "read", "dots", "add", "grow", "otrunc"}
  \/ r.pc \in AtPut /\ r.then = "iget"

(* The inodes a task holds where it is in its call, f being its open file. *)
Fit(r, f) ==
  /\ f \in Slot \cup {None}
  /\ Before(r) /\ r.op \in Opening => f = None
  /\ r.pc \notin AtPut => NoPuts(r) /\ r.then = "user"
  /\ \/ r.pc = "user" /\ NoDir(r) /\ NoIno(r) /\ r.old = None
     \/ r.pc = "extend" /\ NoDir(r) /\ NoIno(r) /\ r.old = None /\ f \in Slot
     \/ r.pc = "find" /\ HasDir(r) /\ NoIno(r) /\ OldIf(r)
     \/ r.pc = "iget" /\ NoIno(r) /\ Looking(r)
     \/ r.pc = "read" /\ HasIno(r) /\ Looking(r)
     \/ r.pc \in AtPut /\ NoDir(r) /\ PutsOf(r) /\ Then(r)
     \/ r.pc = "undo" /\ NoDir(r) /\ HasIno(r) /\ r.old = None
     \/ r.pc = "linked" /\ NoDir(r) /\ NoIno(r) /\ r.old \in Slot
     \/ /\ r.pc = "dots" /\ HasDir(r) /\ HasIno(r) /\ r.old = None
        /\ r.op = "mkdir"
     \/ /\ r.pc \in {"add", "grow"} /\ HasDir(r) /\ OldIf(r)
        /\ IF r.op = "link_to" THEN NoIno(r)
           ELSE HasIno(r) /\ r.op \in Making \cup {"creat"}
     \/ /\ r.pc = "otrunc" /\ NoDir(r) /\ HasIno(r) /\ r.old = None
        /\ r.op = "trunc"
     \/ r.pc = "empty" /\ HasDir(r) /\ HasIno(r) /\ r.old = None

-----------------------------------------------------------------------------
(* The inductive invariant.  The root stays in one slot; each task holds   *)
(* what its call needs, and each slot counts who holds it: a step moves    *)
(* inodes between the places of one task and the count with them.  An      *)
(* inode whose number is not in use is in no slot, or iget() was asked for *)
(* it; and after a panic every task has stopped.                           *)
Shapes ==
  /\ DOMAIN table = Slot /\ \A s \in Slot : IsInode(table[s])
  /\ DOMAIN at = Task /\ DOMAIN file = Task
  /\ syncing \in Slot \cup {None}

Rooted ==
  /\ \E s \in Slot : table[s].nr = Root
  /\ \A s, x \in Slot : table[s].nr = Root /\ table[x].nr = Root => s = x
  /\ Root \in imap

Live ==
  /\ \A t \in Task : IsCall(at[t]) /\ Fit(at[t], file[t])
  /\ \A s \in Slot :
       table[s].count =
         Cardinality({x \in Task \X Keeping : Kept[x[1]][x[2]] = s})
         + (IF table[s].nr = Root THEN 1 ELSE 0)
  /\ \A s \in Slot : table[s].nr = 0 => table[s].count = 0
  /\ Rooted

Mapped ==
  "number" \notin raced =>
    /\ \A s \in Slot : table[s].nr = 0 \/ table[s].nr \in imap
    /\ OneSlotPerInode

Running == panic = ""

NamesInv ==
  /\ Shapes
  /\ Running => Live
  /\ ~Running => \A t \in Task : at[t].pc = "stopped"
  /\ IdleIsClean /\ Mapped

-----------------------------------------------------------------------------
(* What is done to the records of calls and of inodes.                     *)
LEMMA ReleaseIs ==
  ASSUME NEW r, IsCall(r), NEW p, NEW then
  PROVE  LET q == Release(r, p, then)
         IN /\ IsCall(q)
            /\ q.pc = "put" /\ q.puts = p /\ q.then = then
            /\ q.dir = None /\ q.ino = None
            /\ q.old = IF then = "user" THEN None ELSE r.old
            /\ q.op = r.op /\ q.path = r.path /\ q.nr = r.nr
BY DEF Release, IsCall

(* A call that keeps a buffer until its inodes are put holds no inode more.*)
LEMMA ReleaseHoldingIs ==
  ASSUME NEW r, IsCall(r), NEW p, NEW h
  PROVE  LET q == ReleaseHolding(r, p, h)
         IN /\ IsCall(q)
            /\ q.pc = "put" /\ q.puts = p /\ q.then = "user"
            /\ q.dir = None /\ q.ino = None /\ q.old = None
<1> DEFINE q == Release(r, p, "user")
<1>1. /\ IsCall(q) /\ q.pc = "put" /\ q.puts = p /\ q.then = "user"
      /\ q.dir = None /\ q.ino = None /\ q.old = None
  BY ReleaseIs
<1> HIDE DEF q
<1>2. ReleaseHolding(r, p, h) = [q EXCEPT !.bh = h]
  BY DEF ReleaseHolding, q
<1> QED
  BY <1>1, <1>2 DEF IsCall

(* A task that is in no call holds nothing but its open file. *)
LEMMA IdleIs ==
  /\ IsCall(Idle)
  /\ Idle.pc = "user" /\ Idle.puts = <<>> /\ Idle.then = "user"
  /\ Idle.dir = None /\ Idle.ino = None /\ Idle.old = None
BY DEF Idle, IsCall

(* After an iput() comes the next, or the rest of the call. *)
LEMMA PutDoneIs ==
  ASSUME NEW r, IsCall(r)
  PROVE  LET q == PutDone(r)
         IN /\ IsCall(q)
            /\ Len(r.puts) > 1 =>
                 /\ q.pc = "put" /\ q.puts = Tail(r.puts) /\ q.then = r.then
                 /\ q.dir = r.dir /\ q.ino = r.ino /\ q.old = r.old
                 /\ q.op = r.op /\ q.path = r.path /\ q.nr = r.nr
            /\ ~(Len(r.puts) > 1) /\ r.then = "user" => q = Idle
            /\ ~(Len(r.puts) > 1) /\ r.then # "user" =>
                 /\ q.pc = r.then /\ q.puts = <<>> /\ q.then = "user"
                 /\ q.dir = r.dir /\ q.ino = r.ino /\ q.old = r.old
                 /\ q.op = r.op /\ q.path = r.path /\ q.nr = r.nr
BY IdleIs DEF PutDone, IsCall

(* A task that has reached a directory reads it, or gives up and puts it. *)
LEMMA EnterIs ==
  ASSUME NEW r, IsCall(r), NEW s, NEW i
  PROVE  LET q == Enter(r, s, i)
         IN /\ IsCall(q) /\ q.op = r.op /\ q.path = r.path /\ q.nr = r.nr
            /\ \/ /\ q.pc = "find" /\ q.dir = s /\ q.ino = None
                  /\ q.old = r.old /\ q.puts = r.puts /\ q.then = r.then
               \/ /\ q.pc = "put" /\ q.dir = None /\ q.ino = None
                  /\ q.old = None /\ q.then = "user"
                  /\ q.puts = IF r.op = "link_to" THEN <<s, r.old>> ELSE <<s>>
<1>1. CASE i.kind = "dir" /\ Permitted(i)
  BY <1>1 DEF Enter, IsCall
<1>2. CASE ~(i.kind = "dir" /\ Permitted(i))
  BY <1>2, ReleaseIs DEF Enter
<1> QED
  BY <1>1, <1>2

(* A slot that has been cleared. *)
LEMMA EmptyIs ==
  IsInode(Empty) /\ Empty.nr = 0 /\ Empty.count = 0 /\ Empty.dirt = FALSE
  /\ Empty.lock = FALSE
BY DEF Empty, IsInode

-----------------------------------------------------------------------------
(* How many of the places of a call have an inode.                         *)
Sum(r, f, s) == Cardinality(InRow(KeptBy(r, f), Keeping, s))

(* The places of a call one by one. *)
LEMMA SumIs ==
  ASSUME NEW r, NEW f, NEW s
  PROVE  Sum(r, f, s) =
           One(r.dir, s) + One(r.ino, s) + One(r.old, s) + One(f, s)
           + One(KeptBy(r, f).put, s) + One(KeptBy(r, f).last, s)
<1> DEFINE h == KeptBy(r, f)
           U(A) == {a \in A : h[a] = s}
           A0 == {}
           A1 == {"dir"}
           A2 == A1 \cup {"ino"}
           A3 == A2 \cup {"old"}
           A4 == A3 \cup {"file"}
           A5 == A4 \cup {"put"}
           A6 == A5 \cup {"last"}
<1>0. ASSUME NEW A, NEW x, x \notin A, IsFiniteSet(A)
      PROVE  /\ IsFiniteSet(A \cup {x})
             /\ Cardinality(U(A)) \in Nat
             /\ Cardinality(U(A \cup {x})) = Cardinality(U(A)) + One(h[x], s)
  <2>1. IsFiniteSet(U(A)) /\ x \notin U(A)
    BY <1>0, FS_Subset
  <2>2. CASE h[x] = s
    <3>1. U(A \cup {x}) = U(A) \cup {x}
      BY <2>2
    <3> QED
      BY <2>1, <2>2, <3>1, <1>0, FS_AddElement, FS_CardinalityType DEF One
  <2>3. CASE h[x] # s
    <3>1. U(A \cup {x}) = U(A)
      BY <2>3
    <3>2. Cardinality(U(A)) \in Nat /\ IsFiniteSet(A \cup {x})
      BY <2>1, <1>0, FS_AddElement, FS_CardinalityType
    <3>3. One(h[x], s) = 0
      BY <2>3 DEF One
    <3> HIDE DEF U
    <3> QED
      BY <3>1, <3>2, <3>3
  <2> QED
    BY <2>2, <2>3
<1>1. IsFiniteSet(A0) /\ Cardinality(U(A0)) = 0
  BY FS_EmptySet
<1>2. A1 = A0 \cup {"dir"} /\ "dir" \notin A0
  OBVIOUS
<1>3. "ino" \notin A1 /\ "old" \notin A2 /\ "file" \notin A3 /\ "put" \notin A4
      /\ "last" \notin A5
  OBVIOUS
<1>4. A6 = Keeping
  BY DEF Keeping
<1> HIDE DEF A0, A1, A2, A3, A4, A5, A6, U
<1>5. IsFiniteSet(A1) /\ Cardinality(U(A1)) = One(h["dir"], s)
  BY <1>0, <1>1, <1>2 DEF One
<1>6. IsFiniteSet(A2) /\ Cardinality(U(A2)) = Cardinality(U(A1)) + One(h["ino"], s)
  BY <1>0, <1>3, <1>5 DEF A2
<1>7. IsFiniteSet(A3) /\ Cardinality(U(A3)) = Cardinality(U(A2)) + One(h["old"], s)
  BY <1>0, <1>3, <1>6 DEF A3
<1>8. IsFiniteSet(A4) /\ Cardinality(U(A4)) = Cardinality(U(A3)) + One(h["file"], s)
  BY <1>0, <1>3, <1>7 DEF A4
<1>9. IsFiniteSet(A5) /\ Cardinality(U(A5)) = Cardinality(U(A4)) + One(h["put"], s)
  BY <1>0, <1>3, <1>8 DEF A5
<1>10. IsFiniteSet(A6) /\ Cardinality(U(A6)) = Cardinality(U(A5)) + One(h["last"], s)
  BY <1>0, <1>3, <1>9 DEF A6
<1>11. /\ h["dir"] = r.dir /\ h["ino"] = r.ino /\ h["old"] = r.old
       /\ h["file"] = f /\ h["put"] = h.put /\ h["last"] = h.last
  BY DEF KeptBy
<1>12. Sum(r, f, s) = Cardinality(U(A6))
  BY <1>4 DEF Sum, InRow, U
<1>13. \A x, v : One(x, v) \in Nat
  BY DEF One
<1>14. h.put = KeptBy(r, f).put /\ h.last = KeptBy(r, f).last
  OBVIOUS
<1> HIDE DEF h
<1>15. Cardinality(U(A6)) =
         One(r.dir, s) + One(r.ino, s) + One(r.old, s) + One(f, s)
         + One(h.put, s) + One(h.last, s)
  BY <1>1, <1>5, <1>6, <1>7, <1>8, <1>9, <1>10, <1>11, <1>13
<1> QED
  BY <1>12, <1>14, <1>15

(* A call with no puts, with one and with two.                             *)
LEMMA SumPuts ==
  ASSUME NEW r, NEW f, NEW s \in Slot
  PROVE  LET n == One(r.dir, s) + One(r.ino, s) + One(r.old, s) + One(f, s)
         IN /\ r.puts = <<>> => Sum(r, f, s) = n
            /\ \A a : r.puts = <<a>> => Sum(r, f, s) = n + One(a, s)
            /\ \A a, b : r.puts = <<a, b>> =>
                           Sum(r, f, s) = n + One(a, s) + One(b, s)
<1>0. One(None, s) = 0
  BY DeviceAssumption DEF One
<1>1. ASSUME r.puts = <<>>
      PROVE  KeptBy(r, f).put = None /\ KeptBy(r, f).last = None
  BY <1>1 DEF KeptBy
<1>2. ASSUME NEW a, r.puts = <<a>>
      PROVE  KeptBy(r, f).put = a /\ KeptBy(r, f).last = None
  BY <1>2 DEF KeptBy
<1>3. ASSUME NEW a, NEW b, r.puts = <<a, b>>
      PROVE  KeptBy(r, f).put = a /\ KeptBy(r, f).last = b
  BY <1>3 DEF KeptBy
<1> QED
  BY <1>0, <1>1, <1>2, <1>3, SumIs DEF One

-----------------------------------------------------------------------------
(* Those who hold a slot.                                                  *)
Holders(s) == Cardinality({x \in Task \X Keeping : Kept[x[1]][x[2]] = s})

Mount(s) == IF table[s].nr = Root THEN 1 ELSE 0

(* What Live says of a slot.                                               *)
LEMMA LiveSlots ==
  ASSUME Live, NEW s \in Slot
  PROVE  /\ table[s].count = Holders(s) + Mount(s)
         /\ table[s].nr = 0 => table[s].count = 0
BY DEF Live, Holders, Mount

(* There are finitely many places to hold an inode in. *)
LEMMA KeepingFinite == IsFiniteSet(Keeping) /\ IsFiniteSet(Task)
<1>1. \A x : IsFiniteSet({x})
  BY FS_Singleton
<1>2. IsFiniteSet({"dir"} \cup {"ino"})
  BY <1>1, FS_Union
<1>3. IsFiniteSet(({"dir"} \cup {"ino"}) \cup {"old"})
  BY <1>1, <1>2, FS_Union
<1>4. IsFiniteSet({"file"} \cup {"put"})
  BY <1>1, FS_Union
<1>5. IsFiniteSet(({"file"} \cup {"put"}) \cup {"last"})
  BY <1>1, <1>4, FS_Union
<1>6. Keeping = (({"dir"} \cup {"ino"}) \cup {"old"})
                  \cup (({"file"} \cup {"put"}) \cup {"last"})
  BY DEF Keeping
<1>7. IsFiniteSet((({"dir"} \cup {"ino"}) \cup {"old"})
                    \cup (({"file"} \cup {"put"}) \cup {"last"}))
  BY <1>3, <1>5, FS_Union
<1> QED
  BY <1>6, <1>7, DeviceAssumption

(* No slot is counted on by less than a task holds of it.                  *)
LEMMA Backed ==
  ASSUME Live, NEW t \in Task, NEW s \in Slot
  PROVE  /\ Holders(s) \in Nat /\ Sum(at[t], file[t], s) \in Nat
         /\ table[s].count \in Nat /\ Mount(s) \in Nat
         /\ Holders(s) >= Sum(at[t], file[t], s)
         /\ table[s].count >= Sum(at[t], file[t], s) + Mount(s)
<1> DEFINE f == Kept
<1>1. Holders(s) = Cardinality(Places(f, Task, Keeping, s))
  BY DEF Holders, Places
<1>2. f[t] = KeptBy(at[t], file[t])
  BY DEF Kept
<1> HIDE DEF f
<1>3. /\ IsFiniteSet(Places(f, Task, Keeping, s))
      /\ Cardinality(OtherRows(f, Task, Keeping, s, t)) \in Nat
      /\ Cardinality(InRow(f[t], Keeping, s)) \in Nat
      /\ Cardinality(Places(f, Task, Keeping, s)) =
           Cardinality(OtherRows(f, Task, Keeping, s, t))
             + Cardinality(InRow(f[t], Keeping, s))
  BY KeepingFinite, PlacesRow
<1>4. Sum(at[t], file[t], s) = Cardinality(InRow(f[t], Keeping, s))
  BY <1>2 DEF Sum
<1>5. Mount(s) \in Nat
  BY DEF Mount
<1> QED
  BY <1>1, <1>3, <1>4, <1>5, LiveSlots

(* The root inode is in the one slot that RootSlot is.                     *)
LEMMA RootIs ==
  ASSUME Rooted
  PROVE  /\ RootSlot \in Slot /\ table[RootSlot].nr = Root
         /\ \A s \in Slot : table[s].nr = Root <=> s = RootSlot
BY DEF Rooted, RootSlot

-----------------------------------------------------------------------------
(* A step of the task t, that then is in the call r and has f open.        *)
Takes(t, r, f) ==
  /\ IsCall(r) /\ Fit(r, f)
  /\ DOMAIN at' = Task /\ DOMAIN file' = Task
  /\ at'[t] = r /\ file'[t] = f
  /\ \A u \in Task \ {t} : at'[u] = at[u] /\ file'[u] = file[u]

(* Every slot is counted on by what is held of it then.                    *)
Counts(t, r, f) ==
  /\ DOMAIN table' = Slot
  /\ \A s \in Slot :
       /\ IsInode(table'[s]) /\ table'[s].count \in Nat
       /\ table'[s].count + Sum(at[t], file[t], s)
            = table[s].count + Sum(r, f, s)
       /\ table'[s].nr = Root <=> table[s].nr = Root
       /\ table'[s].count = 0 => ~table'[s].dirt /\ ~table'[s].lock
       /\ table'[s].nr = 0 => table'[s].count = 0

Counting ==
  /\ Root \in imap'
  /\ syncing' \in Slot \cup {None}
  /\ Running'

(* A step of one task that counts right keeps the invariant. *)
LEMMA Stepped ==
  ASSUME NamesInv, Running, NEW t \in Task, NEW r, NEW f,
         Takes(t, r, f), Counts(t, r, f), Counting, Mapped'
  PROVE  NamesInv'
<1>0. Live /\ Rooted
  BY DEF NamesInv, Live
<1> DEFINE h == Kept
           k == Kept'
<1>1. /\ h[t] = KeptBy(at[t], file[t]) /\ k[t] = KeptBy(r, f)
      /\ SameBut(t, Task, h, k)
  BY Zenon DEF Kept, Takes, SameBut
<1>2. ASSUME NEW s \in Slot
      PROVE  Holders(s) = Cardinality(Places(h, Task, Keeping, s))
             /\ Holders(s)' = Cardinality(Places(k, Task, Keeping, s))
  BY DEF Holders, Places
<1> HIDE DEF h, k
<1>3. ASSUME NEW s \in Slot
      PROVE  /\ Holders(s)' + Sum(at[t], file[t], s) = Holders(s) + Sum(r, f, s)
             /\ Holders(s)' \in Nat
  <2> DEFINE T == Task
             A == Keeping
  <2>0. IsFiniteSet(T) /\ IsFiniteSet(A) /\ t \in T /\ SameBut(t, T, h, k)
    BY <1>1, KeepingFinite
  <2> HIDE DEF T, A
  <2> DEFINE n == Cardinality(Places(h, T, A, s))
             m == Cardinality(Places(k, T, A, s))
             a == Cardinality(InRow(h[t], A, s))
             b == Cardinality(InRow(k[t], A, s))
  <2>1. m = n - a + b
    BY <2>0, PlacesChange
  <2>2. m \in Nat /\ n \in Nat /\ a \in Nat /\ b \in Nat
    BY <2>0, PlacesRow, FS_CardinalityType
  <2>3. /\ a = Sum(at[t], file[t], s) /\ b = Sum(r, f, s)
        /\ n = Holders(s) /\ m = Holders(s)'
    BY <1>1, <1>2 DEF A, T, Sum
  <2> HIDE DEF n, m, a, b
  <2>4. m + a = n + b
    BY <2>1, <2>2
  <2> QED
    BY <2>2, <2>3, <2>4
<1>4. Rooted'
  <2>1. \A s \in Slot : table'[s].nr = Root <=> table[s].nr = Root
    BY DEF Counts
  <2> QED
    BY <1>0, <2>1 DEF Rooted, Counting
<1>5. \A s \in Slot : table'[s].count = Holders(s)' + Mount(s)'
  <2> TAKE s \in Slot
  <2>1. table'[s].count + Sum(at[t], file[t], s)
          = table[s].count + Sum(r, f, s)
    BY DEF Counts
  <2>2. Mount(s)' = Mount(s) /\ table'[s].count \in Nat
    BY DEF Counts, Mount
  <2>3. table[s].count = Holders(s) + Mount(s)
    BY <1>0, LiveSlots
  <2>4. /\ Holders(s) \in Nat /\ Mount(s) \in Nat
        /\ Sum(at[t], file[t], s) \in Nat
    BY <1>0, Backed
  <2>5. Sum(r, f, s) \in Nat
    <3>1. IsFiniteSet(InRow(KeptBy(r, f), Keeping, s))
      BY KeepingFinite, FS_Subset DEF InRow
    <3> QED
      BY <3>1, FS_CardinalityType DEF Sum
  <2>6. /\ Holders(s)' + Sum(at[t], file[t], s) = Holders(s) + Sum(r, f, s)
        /\ Holders(s)' \in Nat
    BY <1>3
  <2> QED
    BY <2>1, <2>2, <2>3, <2>4, <2>5, <2>6
<1>6. \A u \in Task : IsCall(at'[u]) /\ Fit(at'[u], file'[u])
  BY <1>0 DEF Live, Takes
<1>7. Live'
  <2>1. \A s \in Slot : table'[s].nr = 0 => table'[s].count = 0
    BY DEF Counts
  <2> QED
    BY <1>4, <1>5, <1>6, <2>1 DEF Live, Holders, Mount
<1>8. IdleIsClean'
  BY DEF Counts, IdleIsClean, IdleSlots
<1>9. Shapes'
  BY DEF Shapes, Takes, Counts, Counting
<1> QED
  BY <1>7, <1>8, <1>9 DEF NamesInv, Counting

(* A step that counts nothing anew and leaves the numbers as they are.     *)
Same(s) ==
  /\ IsInode(table'[s])
  /\ table'[s].nr = table[s].nr /\ table'[s].count = table[s].count
  /\ table'[s].lock = table[s].lock
  /\ table[s].count = 0 => table'[s].dirt = table[s].dirt

Others == UNCHANGED <<imap, syncing, panic>> /\ raced \subseteq raced'

(* No step but iget()'s brings a number into the table. *)
LEMMA MappedKept ==
  ASSUME Mapped, DOMAIN table' = Slot, imap \subseteq imap',
         raced \subseteq raced',
         \A s \in Slot : table'[s].nr \in {0, table[s].nr}
  PROVE  Mapped'
BY DEF Mapped, OneSlotPerInode, Unless

(* A step that leaves the counts, and a task that holds what it held. *)
LEMMA Turn ==
  ASSUME NamesInv, Running, NEW t \in Task, NEW r, NEW f,
         Takes(t, r, f), DOMAIN table' = Slot, \A s \in Slot : Same(s),
         \A s \in Slot : Sum(r, f, s) = Sum(at[t], file[t], s), Others
  PROVE  NamesInv'
<1>0. Live /\ Rooted /\ Shapes /\ IdleIsClean /\ Mapped
  BY DEF NamesInv, Live
<1>1. Counts(t, r, f)
  <2> SUFFICES ASSUME NEW s \in Slot
               PROVE  /\ IsInode(table'[s]) /\ table'[s].count \in Nat
                      /\ table'[s].count + Sum(at[t], file[t], s)
                           = table[s].count + Sum(r, f, s)
                      /\ table'[s].nr = Root <=> table[s].nr = Root
                      /\ table'[s].count = 0 => ~table'[s].dirt /\ ~table'[s].lock
                      /\ table'[s].nr = 0 => table'[s].count = 0
    BY DEF Counts
  <2>1. table[s].count \in Nat /\ Sum(at[t], file[t], s) \in Nat
    BY <1>0, Backed
  <2>2. table[s].count = 0 => ~table[s].dirt /\ ~table[s].lock
    BY <1>0 DEF IdleIsClean, IdleSlots
  <2>3. Same(s) /\ Sum(r, f, s) = Sum(at[t], file[t], s)
    OBVIOUS
  <2>4. table[s].nr = 0 => table[s].count = 0
    BY <1>0, LiveSlots
  <2>5. /\ table'[s].count \in Nat
        /\ table'[s].count + Sum(at[t], file[t], s)
             = table[s].count + Sum(r, f, s)
    BY <2>1, <2>3 DEF Same
  <2>6. table'[s].count = 0 => ~table'[s].dirt /\ ~table'[s].lock
    BY <2>2, <2>3 DEF Same
  <2> QED
    BY <2>3, <2>4, <2>5, <2>6 DEF Same
<1>2. Counting
  <2>1. Running'
    BY Zenon DEF Others, Running
  <2> QED
    BY <1>0, <2>1 DEF Counting, Others, Rooted, Shapes
<1>3. Mapped'
  BY <1>0, MappedKept DEF Same, Others
<1> QED
  BY <1>1, <1>2, <1>3, Stepped

-----------------------------------------------------------------------------
(* Letting go of inodes: a call that releases one or two of them.          *)
LEMMA OneIs ==
  ASSUME NEW s \in Slot
  PROVE  One(None, s) = 0 /\ \A x : One(x, s) \in {0, 1}
BY DeviceAssumption DEF One

(* A call with nothing to put, *)
LEMMA SumNone ==
  ASSUME NEW r, NEW f, NEW s \in Slot, NoPuts(r)
  PROVE  Sum(r, f, s) = One(r.dir, s) + One(r.ino, s) + One(r.old, s) + One(f, s)
BY SumPuts DEF NoPuts

(* with one inode to put, *)
LEMMA SumOnePut ==
  ASSUME NEW r, NEW f, NEW s \in Slot, NEW a, r.puts = <<a>>,
         r.dir = None, r.ino = None
  PROVE  Sum(r, f, s) = One(r.old, s) + One(f, s) + One(a, s)
BY SumPuts, OneIs

(* and with two. *)
LEMMA SumTwoPuts ==
  ASSUME NEW r, NEW f, NEW s \in Slot, NEW a, NEW b, r.puts = <<a, b>>,
         r.dir = None, r.ino = None
  PROVE  Sum(r, f, s) = One(r.old, s) + One(f, s) + One(a, s) + One(b, s)
BY SumPuts, OneIs

(* A call that is given up with one inode to put, *)
LEMMA ReleaseOne ==
  ASSUME NEW r, IsCall(r), NEW f \in Slot \cup {None}, NEW a \in Slot
  PROVE  LET q == Release(r, <<a>>, "user")
         IN /\ IsCall(q) /\ Fit(q, f)
            /\ \A s \in Slot : Sum(q, f, s) = One(f, s) + One(a, s)
<1> DEFINE q == Release(r, <<a>>, "user")
<1>1. /\ IsCall(q) /\ q.pc = "put" /\ q.puts = <<a>> /\ q.then = "user"
      /\ q.dir = None /\ q.ino = None /\ q.old = None
  BY ReleaseIs
<1> HIDE DEF q
<1>2. Fit(q, f)
  BY <1>1 DEF Fit, Before, AtPut, Then, PutsOf, NoDir, NoIno
<1>3. ASSUME NEW s \in Slot
      PROVE  Sum(q, f, s) = One(f, s) + One(a, s)
  BY <1>1, SumOnePut, OneIs
<1>4. IsCall(q)
  BY <1>1
<1> QED
  BY <1>2, <1>3, <1>4 DEF q

(* or with two. *)
LEMMA ReleaseTwo ==
  ASSUME NEW r, IsCall(r), NEW f \in Slot \cup {None}, NEW a \in Slot, NEW b \in Slot
  PROVE  LET q == Release(r, <<a, b>>, "user")
         IN /\ IsCall(q) /\ Fit(q, f)
            /\ \A s \in Slot : Sum(q, f, s) = One(f, s) + One(a, s) + One(b, s)
<1> DEFINE q == Release(r, <<a, b>>, "user")
<1>1. /\ IsCall(q) /\ q.pc = "put" /\ q.puts = <<a, b>> /\ q.then = "user"
      /\ q.dir = None /\ q.ino = None /\ q.old = None
  BY ReleaseIs
<1> HIDE DEF q
<1>2. Fit(q, f)
  BY <1>1 DEF Fit, Before, AtPut, Then, PutsOf, NoDir, NoIno
<1>3. ASSUME NEW s \in Slot
      PROVE  Sum(q, f, s) = One(f, s) + One(a, s) + One(b, s)
  BY <1>1, SumTwoPuts, OneIs
<1>4. IsCall(q)
  BY <1>1
<1> QED
  BY <1>2, <1>3, <1>4 DEF q

(* A buffer may be kept over the two. *)
LEMMA HoldingTwo ==
  ASSUME NEW r, IsCall(r), NEW f \in Slot \cup {None}, NEW a \in Slot, NEW b \in Slot,
         NEW h
  PROVE  LET q == ReleaseHolding(r, <<a, b>>, h)
         IN /\ IsCall(q) /\ Fit(q, f)
            /\ \A s \in Slot : Sum(q, f, s) = One(f, s) + One(a, s) + One(b, s)
<1> DEFINE q == ReleaseHolding(r, <<a, b>>, h)
<1>1. /\ IsCall(q) /\ q.pc = "put" /\ q.puts = <<a, b>> /\ q.then = "user"
      /\ q.dir = None /\ q.ino = None /\ q.old = None
  BY ReleaseHoldingIs
<1> HIDE DEF q
<1>2. Fit(q, f)
  BY <1>1 DEF Fit, Before, AtPut, Then, PutsOf, NoDir, NoIno
<1>3. ASSUME NEW s \in Slot
      PROVE  Sum(q, f, s) = One(f, s) + One(a, s) + One(b, s)
  BY <1>1, SumTwoPuts, OneIs
<1>4. IsCall(q)
  BY <1>1
<1> QED
  BY <1>2, <1>3, <1>4 DEF q

(* What NamesInv says of the call of a task. *)
LEMMA Calling ==
  ASSUME NamesInv, Running, NEW t \in Task
  PROVE  /\ IsCall(at[t]) /\ Fit(at[t], file[t]) /\ file[t] \in Slot \cup {None}
         /\ Live /\ Rooted /\ Shapes /\ IdleIsClean /\ Mapped
         /\ DOMAIN table = Slot
BY DEF NamesInv, Live, Fit, Shapes

(* A task goes on, and what it has open stays open. *)
LEMMA Goes ==
  ASSUME Shapes, NEW t \in Task, NEW q, Go(t, q), UNCHANGED file,
         IsCall(q), Fit(q, file[t])
  PROVE  Takes(t, q, file[t])
BY DEF Shapes, Go, Takes

(* And the table is left alone. *)
LEMMA StaysSame ==
  ASSUME Shapes, UNCHANGED table
  PROVE  DOMAIN table' = Slot /\ \A s \in Slot : Same(s)
BY DEF Shapes, Same

(* A step that changes nothing but where the task is. *)
LEMMA Moves ==
  ASSUME NamesInv, Running, NEW t \in Task, NEW q, Go(t, q),
         IsCall(q), Fit(q, file[t]),
         \A s \in Slot : Sum(q, file[t], s) = Sum(at[t], file[t], s),
         UNCHANGED <<table, file>>, Others
  PROVE  NamesInv'
<1>1. Shapes
  BY Calling
<1>2. Takes(t, q, file[t])
  BY <1>1, Goes
<1> QED
  BY <1>1, <1>2, StaysSame, Turn

-----------------------------------------------------------------------------
(* Looking up                                                              *)
LEMMA AtFind ==
  ASSUME NEW r, NEW f, Fit(r, f), r.pc = "find"
  PROVE  /\ r.dir \in Slot /\ r.ino = None /\ OldIf(r) /\ NoPuts(r)
         /\ r.then = "user" /\ f \in Slot \cup {None}
         /\ r.op \in Opening => f = None
         /\ \A s \in Slot : Sum(r, f, s) =
              One(r.dir, s) + One(r.old, s) + One(f, s)
BY SumNone, OneIs DEF Fit, AtPut, HasDir, NoIno, Before

(* find_entry() has found the name: what was held is kept or put. *)
LEMMA FindHitStep ==
  ASSUME NamesInv, Running, NEW t \in Task, FindHit(t)
  PROVE  NamesInv'
<1> DEFINE r == at[t]
           f == file[t]
           j == Lowest(Hits(r))
           nr == blocks[r.b][j].nr
<1>1. IsCall(r) /\ Fit(r, f) /\ Shapes
  BY Calling
<1>2. r.pc = "find" /\ Hits(r) # {}
  BY DEF FindHit
<1>3. UNCHANGED <<table, file>> /\ Others
  BY DEF FindHit, Others, device
<1>4. /\ r.dir \in Slot /\ r.ino = None /\ OldIf(r) /\ NoPuts(r)
      /\ r.then = "user" /\ f \in Slot \cup {None}
      /\ r.op \in Opening => f = None
      /\ \A s \in Slot : Sum(r, f, s) = One(r.dir, s) + One(r.old, s) + One(f, s)
  BY <1>1, <1>2, AtFind
<1>5. nr # 0
  <2>1. Hits(r) \in SUBSET Nat
    <3>1. Hits(r) \subseteq Positions(r.k, r.n)
      BY Zenon DEF Hits
    <3>2. Positions(r.k, r.n) \subseteq 1..PerBlock
      BY Zenon DEF Positions
    <3>3. 1..PerBlock \subseteq Nat
      BY PathsAssumption
    <3> QED
      BY Zenon, <3>1, <3>2, <3>3
  <2>2. j \in Hits(r)
    BY <1>2, <2>1, MinIn DEF Lowest, Min
  <2> QED
    BY <2>2 DEF Hits
<1>6. CASE Final(r) /\ r.op \in Making
  <2> DEFINE q == Release(r, IF r.op = "link_to" THEN <<r.dir, r.old>>
                                                 ELSE <<r.dir>>, "user")
  <2>1. Go(t, q)
    BY Zenon, <1>6 DEF FindHit
  <2>2. IsCall(q) /\ Fit(q, f)
    BY <1>1, <1>4, ReleaseOne, ReleaseTwo DEF OldIf
  <2>3. ASSUME NEW s \in Slot
        PROVE  Sum(q, f, s) = Sum(r, f, s)
    <3>1. CASE r.op = "link_to"
      <4>1. q = Release(r, <<r.dir, r.old>>, "user") /\ r.old \in Slot
        BY <1>4, <3>1 DEF OldIf
      <4>2. Sum(q, f, s) = One(f, s) + One(r.dir, s) + One(r.old, s)
        BY <1>1, <1>4, <4>1, ReleaseTwo
      <4> QED
        BY <1>4, <4>2 DEF One
    <3>2. CASE r.op # "link_to"
      <4>1. q = Release(r, <<r.dir>>, "user") /\ r.old = None
        BY <1>4, <3>2 DEF OldIf
      <4>2. Sum(q, f, s) = One(f, s) + One(r.dir, s)
        BY <1>1, <1>4, <4>1, ReleaseOne
      <4> QED
        BY <1>4, <4>1, <4>2, OneIs DEF One
    <3> QED
      BY <3>1, <3>2
  <2> HIDE DEF q
  <2> QED
    BY <1>3, <2>1, <2>2, <2>3, Moves
<1>7. CASE Final(r) /\ r.op \in Removing
  <2> DEFINE q == [r EXCEPT !.pc = "iget", !.nr = nr, !.e = <<r.b, j>>]
  <2>0. r.op \notin Making
    BY <1>7 DEF Removing, Making
  <2>1. Go(t, q)
    BY Zenon, <1>7, <2>0 DEF FindHit
  <2> HIDE DEF nr, j
  <2>2. /\ IsCall(q) /\ q.pc = "iget" /\ q.nr = nr
        /\ q.dir = r.dir /\ q.ino = r.ino /\ q.old = r.old /\ q.puts = r.puts
        /\ q.then = r.then /\ q.op = r.op /\ q.path = r.path
    BY <1>1 DEF IsCall
  <2> HIDE DEF q
  <2>3. Fit(q, f)
    BY <1>4, <1>5, <1>7, <2>0, <2>2
       DEF Fit, Before, AtPut, Looking, Final, NoPuts, NoIno, HasDir, OldIf
  <2>4. ASSUME NEW s \in Slot
        PROVE  Sum(q, f, s) = Sum(r, f, s)
    <3>1. Sum(q, f, s) = One(q.dir, s) + One(q.ino, s) + One(q.old, s) + One(f, s)
      BY <1>4, <2>2, SumNone DEF NoPuts
    <3>2. Sum(r, f, s) = One(r.dir, s) + One(r.ino, s) + One(r.old, s) + One(f, s)
      BY <1>4, SumNone
    <3> QED
      BY <2>2, <3>1, <3>2
  <2> QED
    BY <1>3, <2>1, <2>2, <2>3, <2>4, Moves
<1>8. CASE ~(Final(r) /\ r.op \in Making) /\ ~(Final(r) /\ r.op \in Removing)
  <2> DEFINE p == Release(r, <<r.dir>>, "iget")
             q == [p EXCEPT !.nr = nr]
  <2>1. Go(t, q)
    BY Zenon, <1>8 DEF FindHit
  <2>2. /\ IsCall(p) /\ p.pc = "put" /\ p.dir = None
        /\ p.ino = None /\ p.old = r.old /\ p.puts = <<r.dir>>
        /\ p.then = "iget" /\ p.op = r.op /\ p.path = r.path
    BY <1>1, ReleaseIs
  <2> HIDE DEF p, nr, j
  <2>3. /\ IsCall(q) /\ q.pc = "put" /\ q.nr = nr /\ q.dir = None
        /\ q.ino = None /\ q.old = r.old /\ q.puts = <<r.dir>>
        /\ q.then = "iget" /\ q.op = r.op /\ q.path = r.path
    BY <2>2 DEF IsCall
  <2> HIDE DEF q
  <2>4. Fit(q, f)
    BY <1>4, <1>5, <1>8, <2>3
       DEF Fit, Before, AtPut, Looking, Final, Then, PutsOf, NoDir, NoIno, OldIf
  <2>5. ASSUME NEW s \in Slot
        PROVE  Sum(q, f, s) = Sum(r, f, s)
    <3>1. Sum(q, f, s) = One(q.old, s) + One(f, s) + One(r.dir, s)
      BY <2>3, SumOnePut
    <3> QED
      BY <1>4, <2>3, <3>1 DEF One
  <2> QED
    BY <1>3, <2>1, <2>3, <2>4, <2>5, Moves
<1> QED
  BY <1>6, <1>7, <1>8

(* A task that reads on, in the same place. *)
ReadsOn(r, q) ==
  /\ IsCall(q) /\ q.pc = r.pc
  /\ q.dir = r.dir /\ q.ino = r.ino /\ q.old = r.old /\ q.puts = r.puts
  /\ q.then = r.then /\ q.op = r.op /\ q.path = r.path /\ q.nr = r.nr

(* Who reads on holds what he held. *)
LEMMA FitOn ==
  ASSUME NEW r, NEW q, NEW f, Fit(r, f), ReadsOn(r, q)
  PROVE  /\ Fit(q, f)
         /\ \A s \in Slot : Sum(q, f, s) = Sum(r, f, s)
<1>1. Fit(q, f)
  BY DEF ReadsOn, Fit, Before, AtPut, Looking, Final, Then, PutsOf, NoDir,
         NoIno, HasDir, HasIno, OldIf, NoPuts
<1>2. KeptBy(q, f) = KeptBy(r, f)
  BY DEF ReadsOn, KeptBy
<1> QED
  BY <1>1, <1>2 DEF Sum

(* A step to the next block of a directory. *)
LEMMA MovesOn ==
  ASSUME NamesInv, Running, NEW t \in Task, NEW q, Go(t, q), ReadsOn(at[t], q),
         UNCHANGED <<table, file>>, Others
  PROVE  NamesInv'
<1>1. Fit(at[t], file[t])
  BY Calling
<1>2. Fit(q, file[t]) /\ IsCall(q)
      /\ \A s \in Slot : Sum(q, file[t], s) = Sum(at[t], file[t], s)
  BY <1>1, FitOn DEF ReadsOn
<1> QED
  BY <1>2, Moves

(* find_entry() reads the next block. *)
LEMMA FindNextStep ==
  ASSUME NamesInv, Running, NEW t \in Task, FindNext(t)
  PROVE  NamesInv'
<1> DEFINE r == at[t]
           q == [r EXCEPT !.k = @ + 1, !.b = table[r.dir].zones[r.k + 1]]
<1>1. IsCall(r)
  BY Calling
<1>2. Go(t, q) /\ UNCHANGED <<table, file>>
  BY Zenon DEF FindNext
<1>3. Others
  BY DEF FindNext, Others, device
<1>4. ReadsOn(r, q)
  BY <1>1 DEF ReadsOn, IsCall
<1> HIDE DEF q
<1> QED
  BY <1>2, <1>3, <1>4, MovesOn

(* What find_entry() held is put. *)
LEMMA LetGo ==
  ASSUME NEW r, IsCall(r), NEW f \in Slot \cup {None}, r.dir \in Slot,
         OldIf(r)
  PROVE  LET q == Release(r, IF r.op = "link_to" THEN <<r.dir, r.old>>
                                                 ELSE <<r.dir>>, "user")
         IN /\ IsCall(q) /\ Fit(q, f)
            /\ \A s \in Slot : Sum(q, f, s) =
                 One(r.dir, s) + One(r.old, s) + One(f, s)
<1> DEFINE q == Release(r, IF r.op = "link_to" THEN <<r.dir, r.old>>
                                               ELSE <<r.dir>>, "user")
<1>1. CASE r.op = "link_to"
  <2>1. q = Release(r, <<r.dir, r.old>>, "user") /\ r.old \in Slot
    BY <1>1 DEF OldIf
  <2>2. IsCall(q) /\ Fit(q, f)
        /\ \A s \in Slot : Sum(q, f, s) = One(f, s) + One(r.dir, s) + One(r.old, s)
    BY <2>1, ReleaseTwo
  <2> HIDE DEF q
  <2>3. IsCall(q) /\ Fit(q, f)
        /\ \A s \in Slot : Sum(q, f, s) = One(r.dir, s) + One(r.old, s) + One(f, s)
    BY <2>2, OneIs
  <2> QED
    BY <2>3 DEF q
<1>2. CASE r.op # "link_to"
  <2>1. q = Release(r, <<r.dir>>, "user") /\ r.old = None
    BY <1>2 DEF OldIf
  <2>2. IsCall(q) /\ Fit(q, f)
        /\ \A s \in Slot : Sum(q, f, s) = One(f, s) + One(r.dir, s)
    BY <2>1, ReleaseOne
  <2> HIDE DEF q
  <2>3. IsCall(q) /\ Fit(q, f)
        /\ \A s \in Slot : Sum(q, f, s) = One(r.dir, s) + One(r.old, s) + One(f, s)
    BY <2>1, <2>2, OneIs
  <2> QED
    BY <2>3 DEF q
<1> QED
  BY <1>1, <1>2

(* find_entry() has not found the name, and the call ends. *)
LEMMA FindMissStep ==
  ASSUME NamesInv, Running, NEW t \in Task, FindMiss(t)
  PROVE  NamesInv'
<1> DEFINE r == at[t]
           f == file[t]
           q == Release(r, IF r.op = "link_to" THEN <<r.dir, r.old>>
                                               ELSE <<r.dir>>, "user")
<1>1. IsCall(r) /\ Fit(r, f)
  BY Calling
<1>2. r.pc = "find"
  BY Zenon DEF FindMiss, Missing
<1>3. Go(t, q) /\ UNCHANGED <<table, file>>
  BY Zenon DEF FindMiss
<1>4. Others
  BY DEF FindMiss, Others, device
<1>5. /\ r.dir \in Slot /\ OldIf(r) /\ f \in Slot \cup {None}
      /\ \A s \in Slot : Sum(r, f, s) = One(r.dir, s) + One(r.old, s) + One(f, s)
  BY <1>1, <1>2, AtFind
<1>6. /\ IsCall(q) /\ Fit(q, f)
      /\ \A s \in Slot : Sum(q, f, s) = One(r.dir, s) + One(r.old, s) + One(f, s)
  BY <1>1, <1>5, LetGo
<1> HIDE DEF q
<1> QED
  BY <1>3, <1>4, <1>5, <1>6, Moves

-----------------------------------------------------------------------------
(* Making an entry                                                         *)
LEMMA AddingIs ==
  ASSUME NEW r, IsCall(r), NEW i
  PROVE  LET q == Adding(r, i)
         IN /\ IsCall(q) /\ q.pc = "add"
            /\ q.dir = r.dir /\ q.ino = r.ino /\ q.old = r.old
            /\ q.puts = r.puts /\ q.then = r.then /\ q.op = r.op
            /\ q.path = r.path /\ q.nr = r.nr
BY DEF Adding, IsCall

(* sys_link() may go on: it keeps the directory and the old inode. *)
LEMMA LinkMissStep ==
  ASSUME NamesInv, Running, NEW t \in Task, LinkMiss(t)
  PROVE  NamesInv'
<1> DEFINE r == at[t]
           f == file[t]
           q == Adding(r, table[r.dir])
<1>1. IsCall(r) /\ Fit(r, f)
  BY Calling
<1>2. r.pc = "find" /\ r.op = "link_to"
  BY Zenon DEF LinkMiss, Missing
<1>3. Go(t, q) /\ UNCHANGED <<table, file>>
  BY Zenon DEF LinkMiss
<1>4. Others
  BY DEF LinkMiss, Others, device
<1>5. /\ r.dir \in Slot /\ r.ino = None /\ OldIf(r) /\ NoPuts(r)
      /\ r.then = "user" /\ f \in Slot \cup {None}
  BY <1>1, <1>2, AtFind
<1>6. /\ IsCall(q) /\ q.pc = "add" /\ q.dir = r.dir /\ q.ino = r.ino
      /\ q.old = r.old /\ q.puts = r.puts /\ q.then = r.then /\ q.op = r.op
      /\ q.path = r.path
  BY <1>1, AddingIs
<1> HIDE DEF q
<1>7. Fit(q, f)
  BY <1>2, <1>5, <1>6
     DEF Fit, Before, AtPut, NoPuts, NoIno, HasDir, OldIf, Opening
<1>8. \A s \in Slot : Sum(q, f, s) = Sum(r, f, s)
  BY <1>5, <1>6, SumNone DEF NoPuts
<1> QED
  BY <1>3, <1>4, <1>6, <1>7, <1>8, Moves

(* A change of a slot that leaves its number, count and lock, and makes it *)
(* dirty only if somebody holds it.                                        *)
LEMMA ChangeSame ==
  ASSUME Shapes, NEW x \in Slot, NEW i, IsInode(i), Change(x, i),
         i.nr = table[x].nr, i.count = table[x].count, i.lock = table[x].lock,
         table[x].count # 0 \/ i.dirt = table[x].dirt
  PROVE  DOMAIN table' = Slot /\ \A s \in Slot : Same(s)
BY DEF Shapes, Change, Same

(* An inode somebody holds is counted. *)
LEMMA HeldCounts ==
  ASSUME Live, NEW t \in Task, NEW s \in Slot
  PROVE  \/ at[t].dir = s \/ at[t].ino = s \/ at[t].old = s \/ file[t] = s
         => table[s].count # 0
<1>1. Sum(at[t], file[t], s) =
        One(at[t].dir, s) + One(at[t].ino, s) + One(at[t].old, s)
          + One(file[t], s) + One(KeptBy(at[t], file[t]).put, s)
          + One(KeptBy(at[t], file[t]).last, s)
  BY SumIs
<1>2. \A x : One(x, s) \in {0, 1}
  BY OneIs
<1>3. table[s].count >= Sum(at[t], file[t], s) + Mount(s)
      /\ Mount(s) \in Nat /\ table[s].count \in Nat
  BY Backed
<1>4. \A x : x = s => One(x, s) = 1
  BY DEF One
<1> QED
  BY <1>1, <1>2, <1>3, <1>4

(* What a task that makes an entry holds. *)
LEMMA AtAdd ==
  ASSUME NEW r, NEW f, Fit(r, f), r.pc \in {"add", "grow", "dots"}
  PROVE  /\ r.dir \in Slot /\ OldIf(r) /\ NoPuts(r) /\ r.then = "user"
         /\ f \in Slot \cup {None}
         /\ r.op \in Opening => f = None
         /\ r.op = "link_to" => r.ino = None /\ r.pc # "dots"
         /\ r.op # "link_to" => /\ r.ino \in Slot /\ r.old = None
                                /\ r.op \in Making \cup {"creat"}
         /\ r.pc = "dots" => r.op = "mkdir"
         /\ \A s \in Slot : Sum(r, f, s) =
              One(r.dir, s) + One(r.ino, s) + One(r.old, s) + One(f, s)
<1>1. NoPuts(r) /\ r.then = "user"
  BY DEF Fit, AtPut
<1>2. \A s \in Slot : Sum(r, f, s) =
              One(r.dir, s) + One(r.ino, s) + One(r.old, s) + One(f, s)
  BY <1>1, SumNone
<1> QED
  BY <1>1, <1>2 DEF Fit, AtPut, HasDir, HasIno, NoIno, OldIf, Before, Making

(* sys_mkdir() writes the first entries of its directory. *)
LEMMA DotsStep ==
  ASSUME NamesInv, Running, NEW t \in Task, Dots(t)
  PROVE  NamesInv'
<1> DEFINE r == at[t]
           f == file[t]
           q == Adding(r, table[r.dir])
           i == [table[r.ino] EXCEPT !.zones = <<r.b>>, !.kind = "dir",
                                     !.nlinks = 2, !.dirt = TRUE]
<1>1. IsCall(r) /\ Fit(r, f) /\ Live /\ Shapes
  BY Calling
<1>2. r.pc = "dots"
  BY Zenon DEF Dots
<1>3. Go(t, q) /\ UNCHANGED file /\ Change(r.ino, i)
  BY Zenon DEF Dots
<1>4. Others
  BY DEF Dots, Others, device
<1>5. /\ r.dir \in Slot /\ r.ino \in Slot /\ OldIf(r) /\ NoPuts(r)
      /\ r.then = "user" /\ f \in Slot \cup {None} /\ r.op = "mkdir"
      /\ r.old = None
      /\ \A s \in Slot : Sum(r, f, s) =
           One(r.dir, s) + One(r.ino, s) + One(r.old, s) + One(f, s)
  BY <1>1, <1>2, AtAdd
<1>6. /\ IsCall(q) /\ q.pc = "add" /\ q.dir = r.dir /\ q.ino = r.ino
      /\ q.old = r.old /\ q.puts = r.puts /\ q.then = r.then /\ q.op = r.op
  BY <1>1, AddingIs
<1> HIDE DEF q
<1>7. Fit(q, f)
  BY <1>5, <1>6
     DEF Fit, Before, AtPut, NoPuts, HasIno, HasDir, OldIf, Opening, Making
<1>8. \A s \in Slot : Sum(q, f, s) = Sum(r, f, s)
  BY <1>5, <1>6, SumNone DEF NoPuts
<1>9. DOMAIN table' = Slot /\ \A s \in Slot : Same(s)
  <2>1. IsInode(table[r.ino])
    BY <1>1, <1>5 DEF Shapes
  <2>2. /\ IsInode(i) /\ i.nr = table[r.ino].nr
        /\ i.count = table[r.ino].count /\ i.lock = table[r.ino].lock
    BY <2>1 DEF IsInode
  <2>3. table[r.ino].count # 0
    BY <1>1, <1>5, HeldCounts
  <2> HIDE DEF i
  <2> QED
    BY <1>1, <1>3, <1>5, <2>2, <2>3, ChangeSame
<1>10. Takes(t, q, f)
  BY <1>1, <1>3, <1>6, <1>7, Goes
<1> QED
  BY <1>4, <1>8, <1>9, <1>10, Turn

(* add_entry() looks at the next block. *)
LEMMA AddNextStep ==
  ASSUME NamesInv, Running, NEW t \in Task, AddNext(t)
  PROVE  NamesInv'
<1> DEFINE r == at[t]
           q == [r EXCEPT !.k = @ + 1, !.b = table[r.dir].zones[r.k + 1]]
<1>1. IsCall(r)
  BY Calling
<1>2. Go(t, q) /\ UNCHANGED <<table, file>>
  BY Zenon DEF AddNext
<1>3. Others
  BY DEF AddNext, Others, device
<1>4. ReadsOn(r, q)
  BY <1>1 DEF ReadsOn, IsCall
<1> HIDE DEF q
<1> QED
  BY <1>2, <1>3, <1>4, MovesOn

(* Between "add" and "grow" a call keeps what it has. *)
LEMMA FitAdd ==
  ASSUME NEW r, NEW q, NEW f, Fit(r, f), r.pc \in {"add", "grow"},
         q.pc \in {"add", "grow"},
         q.dir = r.dir, q.ino = r.ino, q.old = r.old, q.puts = r.puts,
         q.then = r.then, q.op = r.op
  PROVE  /\ Fit(q, f)
         /\ \A s \in Slot : Sum(q, f, s) = Sum(r, f, s)
<1>1. Fit(q, f)
  BY DEF Fit, Before, AtPut, Then, PutsOf, NoDir, NoIno, HasDir, HasIno, OldIf,
         NoPuts
<1>2. KeptBy(q, f) = KeptBy(r, f)
  BY DEF KeptBy
<1> QED
  BY <1>1, <1>2 DEF Sum

(* new_block() takes a block for the directory. *)
LEMMA AddGrowsStep ==
  ASSUME NamesInv, Running, NEW t \in Task, AddGrows(t)
  PROVE  NamesInv'
<1> DEFINE r == at[t]
           f == file[t]
           b == Lowest(FreeBits(NrBlocks, zmap))
           q == [r EXCEPT !.pc = "grow", !.b = b]
<1>1. IsCall(r) /\ Fit(r, f)
  BY Calling
<1>2. r.pc = "add"
  BY Zenon DEF AddGrows, NoNext
<1>3. Go(t, q) /\ UNCHANGED <<table, file>>
  BY Zenon DEF AddGrows
<1>4. Others
  BY DEF AddGrows, Others, device
<1> HIDE DEF b
<1>5. /\ IsCall(q) /\ q.pc = "grow" /\ q.dir = r.dir /\ q.ino = r.ino
      /\ q.old = r.old /\ q.puts = r.puts /\ q.then = r.then /\ q.op = r.op
  BY <1>1 DEF IsCall
<1> HIDE DEF q
<1>6. Fit(q, f) /\ \A s \in Slot : Sum(q, f, s) = Sum(r, f, s)
  BY <1>1, <1>2, <1>5, FitAdd
<1> QED
  BY <1>3, <1>4, <1>5, <1>6, Moves

(* The directory has got the block. *)
LEMMA GrowStep ==
  ASSUME NamesInv, Running, NEW t \in Task, Grow(t)
  PROVE  NamesInv'
<1> DEFINE r == at[t]
           f == file[t]
           d == table[r.dir]
           z == NextZone(d.zones, r.k, r.b)
           i == [d EXCEPT !.zones = z, !.dirt = TRUE]
           q == [r EXCEPT !.pc = "add", !.k = @ + 1]
<1>1. IsCall(r) /\ Fit(r, f) /\ Live /\ Shapes
  BY Calling
<1>2. r.pc = "grow" /\ r.dir \in Slot
  <2>1. r.pc = "grow"
    BY Zenon DEF Grow
  <2> QED
    BY <1>1, <2>1, AtAdd
<1>3. Go(t, q) /\ UNCHANGED file
  BY Zenon DEF Grow
<1>4. Change(r.dir, i)
  BY DEF Grow
<1>5. Others
  BY DEF Grow, Others, device
<1>6. /\ IsCall(q) /\ q.pc = "add" /\ q.dir = r.dir /\ q.ino = r.ino
      /\ q.old = r.old /\ q.puts = r.puts /\ q.then = r.then /\ q.op = r.op
  BY <1>1 DEF IsCall
<1> HIDE DEF q
<1>7. Fit(q, f) /\ \A s \in Slot : Sum(q, f, s) = Sum(r, f, s)
  BY <1>1, <1>2, <1>6, FitAdd
<1>8. DOMAIN table' = Slot /\ \A s \in Slot : Same(s)
  <2>1. IsInode(d)
    BY <1>1, <1>2 DEF Shapes
  <2> HIDE DEF z
  <2>2. /\ IsInode(i) /\ i.nr = table[r.dir].nr
        /\ i.count = table[r.dir].count /\ i.lock = table[r.dir].lock
    BY <2>1 DEF IsInode
  <2>3. table[r.dir].count # 0
    BY <1>1, <1>2, HeldCounts
  <2> HIDE DEF i
  <2> QED
    BY <1>1, <1>2, <1>4, <2>2, <2>3, ChangeSame
<1>9. Takes(t, q, f)
  BY <1>1, <1>3, <1>6, <1>7, Goes
<1> QED
  BY <1>5, <1>7, <1>8, <1>9, Turn

(* A task goes on, and has the file g open. *)
LEMMA Opens ==
  ASSUME Shapes, NEW t \in Task, NEW q, Go(t, q), NEW g,
         file' = [file EXCEPT ![t] = g], IsCall(q), Fit(q, g)
  PROVE  Takes(t, q, g)
BY DEF Shapes, Go, Takes

(* The entry is made; the new inode becomes the open file, or is put. *)
LEMMA AddEntryStep ==
  ASSUME NamesInv, Running, NEW t \in Task, AddEntry(t)
  PROVE  NamesInv'
<1> DEFINE r == at[t]
           f == file[t]
           d == table[r.dir]
           size == (r.k - 1) * PerBlock + Lowest(Spots(r))
           larger == IF size > d.size THEN size ELSE d.size
           dirty == d.dirt \/ size > d.size \/ r.op = "mkdir"
           links == IF r.op = "mkdir" THEN d.nlinks + 1 ELSE d.nlinks
           i == [d EXCEPT !.size = larger, !.dirt = dirty, !.nlinks = links]
<1>1. IsCall(r) /\ Fit(r, f) /\ Live /\ Shapes
  BY Calling
<1>2. r.pc = "add"
  BY Zenon DEF AddEntry
<1>3. /\ r.dir \in Slot /\ OldIf(r) /\ NoPuts(r) /\ r.then = "user"
      /\ f \in Slot \cup {None}
      /\ r.op \in Opening => f = None
      /\ r.op = "link_to" => r.ino = None
      /\ r.op # "link_to" => r.ino \in Slot /\ r.old = None
      /\ \A s \in Slot : Sum(r, f, s) =
           One(r.dir, s) + One(r.ino, s) + One(r.old, s) + One(f, s)
  BY <1>1, <1>2, AtAdd
<1>4. Others
  BY DEF AddEntry, Others, device
<1>5. Change(r.dir, i)
  BY Zenon DEF AddEntry
<1>6. DOMAIN table' = Slot /\ \A s \in Slot : Same(s)
  <2>1. IsInode(d)
    BY <1>1, <1>3 DEF Shapes
  <2> HIDE DEF size, larger, dirty, links
  <2>2. /\ IsInode(i) /\ i.nr = table[r.dir].nr
        /\ i.count = table[r.dir].count /\ i.lock = table[r.dir].lock
    BY <2>1 DEF IsInode
  <2>3. table[r.dir].count # 0
    BY <1>1, <1>3, HeldCounts
  <2> HIDE DEF i
  <2> QED
    BY <1>1, <1>3, <1>5, <2>2, <2>3, ChangeSame
<1> HIDE DEF i
<1>7. CASE /\ r.op \in {"creat", "excl"}
           /\ file' = [file EXCEPT ![t] = r.ino]
           /\ Go(t, Release(r, <<r.dir>>, "user"))
  <2> DEFINE q == Release(r, <<r.dir>>, "user")
             g == r.ino
  <2>1. f = None /\ g \in Slot /\ r.old = None
    BY <1>3, <1>7 DEF Opening
  <2>2. /\ IsCall(q) /\ Fit(q, g)
        /\ \A s \in Slot : Sum(q, g, s) = One(g, s) + One(r.dir, s)
    BY <1>1, <1>3, <2>1, ReleaseOne
  <2>3. \A s \in Slot : Sum(q, g, s) = Sum(r, f, s)
    BY <1>3, <2>1, <2>2, OneIs
  <2>4. Go(t, q) /\ file' = [file EXCEPT ![t] = g]
    BY <1>7
  <2> HIDE DEF q, g
  <2>5. Takes(t, q, g)
    BY <1>1, <2>2, <2>4, Opens
  <2> QED
    BY <1>4, <1>6, <2>3, <2>5, Turn
<1>8. CASE /\ r.op \in {"mknod", "mkdir"}
           /\ Go(t, ReleaseHolding(r, <<r.dir, r.ino>>, r.b))
           /\ UNCHANGED file
  <2> DEFINE q == ReleaseHolding(r, <<r.dir, r.ino>>, r.b)
  <2>1. r.ino \in Slot /\ r.old = None
    BY <1>3, <1>8
  <2>2. /\ IsCall(q) /\ Fit(q, f)
        /\ \A s \in Slot : Sum(q, f, s) = One(f, s) + One(r.dir, s) + One(r.ino, s)
    BY <1>1, <1>3, <2>1, HoldingTwo
  <2>3. \A s \in Slot : Sum(q, f, s) = Sum(r, f, s)
    BY <1>3, <2>1, <2>2, OneIs
  <2>4. Go(t, q) /\ UNCHANGED file
    BY <1>8
  <2> HIDE DEF q
  <2>5. Takes(t, q, f)
    BY <1>1, <2>2, <2>4, Goes
  <2> QED
    BY <1>4, <1>6, <2>3, <2>5, Turn
<1>9. CASE /\ r.op = "link_to"
           /\ Go(t, Release(r, <<r.dir>>, "linked"))
           /\ UNCHANGED file
  <2> DEFINE q == Release(r, <<r.dir>>, "linked")
  <2>1. r.ino = None /\ r.old \in Slot
    BY <1>3, <1>9 DEF OldIf
  <2>2. /\ IsCall(q) /\ q.pc = "put" /\ q.puts = <<r.dir>>
        /\ q.then = "linked" /\ q.dir = None /\ q.ino = None /\ q.old = r.old
    BY <1>1, ReleaseIs
  <2>3. Go(t, q) /\ UNCHANGED file
    BY <1>9
  <2> HIDE DEF q
  <2>4. Fit(q, f)
    BY <1>3, <2>1, <2>2
       DEF Fit, Before, AtPut, Then, PutsOf, NoDir, NoIno
  <2>5. \A s \in Slot : Sum(q, f, s) = Sum(r, f, s)
    <3> TAKE s \in Slot
    <3>1. Sum(q, f, s) = One(q.old, s) + One(f, s) + One(r.dir, s)
      BY <2>2, SumOnePut
    <3> QED
      BY <1>3, <2>1, <2>2, <3>1, OneIs
  <2>6. Takes(t, q, f)
    BY <1>1, <2>2, <2>3, <2>4, Goes
  <2> QED
    BY <1>4, <1>6, <2>5, <2>6, Turn
<1> QED
  BY Zenon, <1>7, <1>8, <1>9 DEF AddEntry

(* The directory is let go of first, what was made after it. *)
LEMMA UndoingIs ==
  ASSUME NEW r, IsCall(r), NEW f \in Slot \cup {None}, r.dir \in Slot,
         r.old = None, NEW x \in Slot
  PROVE  LET q == Undoing(r, x)
         IN /\ IsCall(q) /\ Fit(q, f)
            /\ \A s \in Slot : Sum(q, f, s) =
                 One(f, s) + One(r.dir, s) + One(x, s)
<1> DEFINE p == Release(r, <<r.dir>>, "undo")
           q == Undoing(r, x)
<1>1. /\ IsCall(p) /\ p.pc = "put" /\ p.puts = <<r.dir>> /\ p.then = "undo"
      /\ p.dir = None /\ p.old = None
  BY ReleaseIs
<1>2. q = [p EXCEPT !.ino = x]
  BY DEF Undoing
<1> HIDE DEF p, q
<1>3. /\ IsCall(q) /\ q.pc = "put" /\ q.puts = <<r.dir>> /\ q.then = "undo"
      /\ q.dir = None /\ q.old = None /\ q.ino = x
  BY <1>1, <1>2 DEF IsCall
<1>4. Fit(q, f)
  BY <1>3 DEF Fit, Before, AtPut, Then, PutsOf, NoDir, HasIno
<1>5. ASSUME NEW s \in Slot
      PROVE  Sum(q, f, s) = One(f, s) + One(r.dir, s) + One(x, s)
  <2>1. Sum(q, f, s) = (One(q.dir, s) + One(q.ino, s) + One(q.old, s) + One(f, s))
                       + One(r.dir, s)
    BY <1>3, SumPuts
  <2> QED
    BY <1>3, <2>1, OneIs
<1> QED
  BY <1>3, <1>4, <1>5 DEF q

(* The directory cannot grow: what was made is put. *)
LEMMA AddFailsStep ==
  ASSUME NamesInv, Running, NEW t \in Task, AddFails(t)
  PROVE  NamesInv'
<1> DEFINE r == at[t]
           f == file[t]
<1>1. IsCall(r) /\ Fit(r, f) /\ Live /\ Shapes
  BY Calling
<1>2. r.pc = "add" /\ UNCHANGED file
  BY Zenon DEF AddFails, NoNext
<1>3. /\ r.dir \in Slot /\ OldIf(r) /\ f \in Slot \cup {None}
      /\ r.op = "link_to" => r.ino = None
      /\ r.op # "link_to" => r.ino \in Slot /\ r.old = None
      /\ \A s \in Slot : Sum(r, f, s) =
           One(r.dir, s) + One(r.ino, s) + One(r.old, s) + One(f, s)
  BY <1>1, <1>2, AtAdd
<1>4. Others
  BY DEF AddFails, Others, device
<1>5. CASE /\ r.op = "link_to"
           /\ Go(t, Release(r, <<r.dir, r.old>>, "user"))
           /\ UNCHANGED table
  <2> DEFINE q == Release(r, <<r.dir, r.old>>, "user")
  <2>1. r.ino = None /\ r.old \in Slot
    BY <1>3, <1>5 DEF OldIf
  <2>2. /\ IsCall(q) /\ Fit(q, f)
        /\ \A s \in Slot : Sum(q, f, s) = One(f, s) + One(r.dir, s) + One(r.old, s)
    BY <1>1, <1>3, <2>1, ReleaseTwo
  <2>3. Go(t, q) /\ UNCHANGED table
    BY <1>5
  <2> HIDE DEF q
  <2>4. \A s \in Slot : Sum(q, f, s) = Sum(r, f, s)
    BY <1>3, <2>1, <2>2, OneIs
  <2> QED
    BY <1>2, <1>4, <2>2, <2>3, <2>4, Moves
<1>6. CASE /\ r.op \in {"creat", "excl"}
           /\ Change(r.ino, [table[r.ino] EXCEPT !.nlinks = 0])
           /\ Go(t, Release(r, <<r.ino, r.dir>>, "user"))
  <2> DEFINE q == Release(r, <<r.ino, r.dir>>, "user")
             i == [table[r.ino] EXCEPT !.nlinks = 0]
  <2>1. r.ino \in Slot /\ r.old = None
    BY <1>3, <1>6
  <2>2. /\ IsCall(q) /\ Fit(q, f)
        /\ \A s \in Slot : Sum(q, f, s) = One(f, s) + One(r.ino, s) + One(r.dir, s)
    BY <1>1, <1>3, <2>1, ReleaseTwo
  <2>3. Go(t, q) /\ Change(r.ino, i)
    BY <1>6
  <2> HIDE DEF q
  <2>4. \A s \in Slot : Sum(q, f, s) = Sum(r, f, s)
    BY <1>3, <2>1, <2>2, OneIs
  <2>5. DOMAIN table' = Slot /\ \A s \in Slot : Same(s)
    <3>1. IsInode(table[r.ino])
      BY <1>1, <2>1 DEF Shapes
    <3>2. /\ IsInode(i) /\ i.nr = table[r.ino].nr
          /\ i.count = table[r.ino].count /\ i.lock = table[r.ino].lock
          /\ i.dirt = table[r.ino].dirt
      BY <3>1 DEF IsInode
    <3> HIDE DEF i
    <3> QED
      BY <1>1, <2>1, <2>3, <3>2, ChangeSame
  <2>6. Takes(t, q, f)
    BY <1>1, <1>2, <2>2, <2>3, Goes
  <2> QED
    BY <1>4, <2>4, <2>5, <2>6, Turn
<1>7. CASE /\ r.op \in {"mknod", "mkdir"}
           /\ Go(t, Undoing(r, r.ino))
           /\ UNCHANGED table
  <2> DEFINE q == Undoing(r, r.ino)
  <2>1. r.ino \in Slot /\ r.old = None
    BY <1>3, <1>7
  <2>2. /\ IsCall(q) /\ Fit(q, f)
        /\ \A s \in Slot : Sum(q, f, s) = One(f, s) + One(r.dir, s) + One(r.ino, s)
    BY <1>1, <1>3, <2>1, UndoingIs
  <2>3. Go(t, q) /\ UNCHANGED table
    BY <1>7
  <2> HIDE DEF q
  <2>4. \A s \in Slot : Sum(q, f, s) = Sum(r, f, s)
    BY <1>3, <2>1, <2>2, OneIs
  <2> QED
    BY <1>2, <1>4, <2>2, <2>3, <2>4, Moves
<1> QED
  BY Zenon, <1>5, <1>6, <1>7 DEF AddFails

(* The new inode is given up when the directory has been put. *)
LEMMA UndoStep ==
  ASSUME NamesInv, Running, NEW t \in Task, Undo(t)
  PROVE  NamesInv'
<1> DEFINE r == at[t]
           f == file[t]
           q == Release(r, <<r.ino>>, "user")
           i == [table[r.ino] EXCEPT !.nlinks = 0]
<1>1. IsCall(r) /\ Fit(r, f) /\ Live /\ Shapes
  BY Calling
<1>2. r.pc = "undo" /\ UNCHANGED file /\ Change(r.ino, i) /\ Go(t, q)
  BY Zenon DEF Undo
<1>3. Others
  <2>1. raced \subseteq raced'
    BY DEF Undo
  <2>2. UNCHANGED <<imap, syncing, panic>>
    BY DEF Undo
  <2> QED
    BY <2>1, <2>2 DEF Others
<1>4. /\ r.dir = None /\ r.ino \in Slot /\ r.old = None /\ NoPuts(r)
      /\ f \in Slot \cup {None}
  BY <1>1, <1>2 DEF Fit, NoDir, HasIno, AtPut
<1>5. /\ IsCall(q) /\ Fit(q, f)
      /\ \A s \in Slot : Sum(q, f, s) = One(f, s) + One(r.ino, s)
  BY <1>1, <1>4, ReleaseOne
<1> HIDE DEF q
<1>6. \A s \in Slot : Sum(q, f, s) = Sum(r, f, s)
  BY <1>4, <1>5, SumNone, OneIs
<1>7. DOMAIN table' = Slot /\ \A s \in Slot : Same(s)
  <2>1. IsInode(table[r.ino])
    BY <1>1, <1>4 DEF Shapes
  <2>2. /\ IsInode(i) /\ i.nr = table[r.ino].nr
        /\ i.count = table[r.ino].count /\ i.lock = table[r.ino].lock
        /\ i.dirt = table[r.ino].dirt
    BY <2>1 DEF IsInode
  <2> HIDE DEF i
  <2> QED
    BY <1>1, <1>2, <1>4, <2>2, ChangeSame
<1>8. Takes(t, q, f)
  BY <1>1, <1>2, <1>5, Goes
<1> QED
  BY <1>3, <1>6, <1>7, <1>8, Turn

(* sys_link() counts the name and puts the inode. *)
LEMMA LinkedStep ==
  ASSUME NamesInv, Running, NEW t \in Task, Linked(t)
  PROVE  NamesInv'
<1> DEFINE r == at[t]
           f == file[t]
           p == Release(r, <<r.old>>, "user")
           q == [p EXCEPT !.old = None]
           i == [table[r.old] EXCEPT !.nlinks = @ + 1, !.dirt = TRUE]
<1>1. IsCall(r) /\ Fit(r, f) /\ Live /\ Shapes
  BY Calling
<1>2. r.pc = "linked" /\ UNCHANGED file /\ Go(t, q)
  BY Zenon DEF Linked
<1>3. Change(r.old, i)
  BY DEF Linked
<1>4. Others
  BY DEF Linked, Others, device
<1>5. /\ r.dir = None /\ r.ino = None /\ r.old \in Slot /\ NoPuts(r)
      /\ f \in Slot \cup {None}
  BY <1>1, <1>2 DEF Fit, NoDir, NoIno, AtPut
<1>6. /\ IsCall(p) /\ Fit(p, f) /\ p.old = None
      /\ \A s \in Slot : Sum(p, f, s) = One(f, s) + One(r.old, s)
  BY <1>1, <1>5, ReleaseOne, ReleaseIs
<1> HIDE DEF p
<1>7. q = p
  BY <1>6 DEF IsCall
<1> HIDE DEF q
<1>8. \A s \in Slot : Sum(q, f, s) = Sum(r, f, s)
  BY <1>5, <1>6, <1>7, SumNone, OneIs
<1>9. DOMAIN table' = Slot /\ \A s \in Slot : Same(s)
  <2>1. IsInode(table[r.old])
    BY <1>1, <1>5 DEF Shapes
  <2>2. /\ IsInode(i) /\ i.nr = table[r.old].nr
        /\ i.count = table[r.old].count /\ i.lock = table[r.old].lock
    BY <2>1 DEF IsInode
  <2>3. table[r.old].count # 0
    BY <1>1, <1>5, HeldCounts
  <2> HIDE DEF i
  <2> QED
    BY <1>1, <1>3, <1>5, <2>2, <2>3, ChangeSame
<1>10. Takes(t, q, f)
  BY <1>1, <1>2, <1>6, <1>7, Goes
<1> QED
  BY <1>4, <1>8, <1>9, <1>10, Turn

-----------------------------------------------------------------------------
(* Removing a directory, and the calls with an open file                   *)
LEMMA AtEmpty ==
  ASSUME NEW r, NEW f, Fit(r, f), r.pc = "empty"
  PROVE  /\ r.dir \in Slot /\ r.ino \in Slot /\ r.old = None
         /\ f \in Slot \cup {None}
         /\ \A s \in Slot : Sum(r, f, s) = One(f, s) + One(r.dir, s) + One(r.ino, s)
<1>1. /\ r.dir \in Slot /\ r.ino \in Slot /\ r.old = None
      /\ f \in Slot \cup {None} /\ NoPuts(r)
  BY DEF Fit, AtPut, HasDir, HasIno
<1>2. \A s \in Slot : Sum(r, f, s) = One(f, s) + One(r.dir, s) + One(r.ino, s)
  BY <1>1, SumNone, OneIs
<1> QED
  BY <1>1, <1>2

(* empty_dir() reads the next block or ends the call. *)
LEMMA EmptyDirStep ==
  ASSUME NamesInv, Running, NEW t \in Task, EmptyDir(t)
  PROVE  NamesInv'
<1> DEFINE r == at[t]
           f == file[t]
<1>1. IsCall(r) /\ Fit(r, f)
  BY Calling
<1>2. r.pc = "empty" /\ UNCHANGED <<table, file>>
  BY Zenon DEF EmptyDir
<1>3. Others
  BY DEF EmptyDir, Others, device
<1>4. CASE Go(t, [r EXCEPT !.k = @ + 1, !.b = table[r.ino].zones[r.k + 1]])
  <2> DEFINE q == [r EXCEPT !.k = @ + 1, !.b = table[r.ino].zones[r.k + 1]]
  <2>1. ReadsOn(r, q)
    BY <1>1 DEF ReadsOn, IsCall
  <2>2. Go(t, q)
    BY <1>4
  <2> HIDE DEF q
  <2> QED
    BY <1>2, <1>3, <2>1, <2>2, MovesOn
<1>5. CASE Go(t, ReleaseHolding(r, <<r.ino, r.dir>>, r.e[1]))
  <2> DEFINE q == ReleaseHolding(r, <<r.ino, r.dir>>, r.e[1])
  <2>1. /\ r.dir \in Slot /\ r.ino \in Slot /\ f \in Slot \cup {None}
        /\ \A s \in Slot : Sum(r, f, s) = One(f, s) + One(r.dir, s) + One(r.ino, s)
    BY <1>1, <1>2, AtEmpty
  <2>2. /\ IsCall(q) /\ Fit(q, f)
        /\ \A s \in Slot : Sum(q, f, s) = One(f, s) + One(r.ino, s) + One(r.dir, s)
    BY <1>1, <2>1, HoldingTwo
  <2>3. Go(t, q)
    BY <1>5
  <2> HIDE DEF q
  <2>4. \A s \in Slot : Sum(q, f, s) = Sum(r, f, s)
    BY <2>1, <2>2, OneIs
  <2> QED
    BY <1>2, <1>3, <2>2, <2>3, <2>4, Moves
<1> QED
  BY Zenon, <1>4, <1>5 DEF EmptyDir

(* sys_rmdir() removes the entry and puts both inodes. *)
LEMMA RmdirStep ==
  ASSUME NamesInv, Running, NEW t \in Task, Rmdir(t)
  PROVE  NamesInv'
<1> DEFINE r == at[t]
           f == file[t]
           q == Release(r, <<r.dir, r.ino>>, "user")
<1>1. IsCall(r) /\ Fit(r, f) /\ Live /\ Shapes
  BY Calling
<1>2. r.pc = "empty" /\ UNCHANGED file /\ Go(t, q)
  BY Zenon DEF Rmdir
<1>3. Others
  BY DEF Rmdir, Others, device
<1>4. /\ r.dir \in Slot /\ r.ino \in Slot /\ f \in Slot \cup {None}
      /\ \A s \in Slot : Sum(r, f, s) = One(f, s) + One(r.dir, s) + One(r.ino, s)
  BY <1>1, <1>2, AtEmpty
<1>5. /\ IsCall(q) /\ Fit(q, f)
      /\ \A s \in Slot : Sum(q, f, s) = One(f, s) + One(r.dir, s) + One(r.ino, s)
  BY <1>1, <1>4, ReleaseTwo
<1> HIDE DEF q
<1>6. DOMAIN table' = Slot /\ \A s \in Slot : Same(s)
  <2>1. DOMAIN table = Slot /\ \A s \in Slot : IsInode(table[s])
    BY <1>1 DEF Shapes
  <2>2. table[r.ino].count # 0 /\ table[r.dir].count # 0
    BY <1>1, <1>4, HeldCounts
  <2>3. table' = [table EXCEPT ![r.ino].nlinks = 0, ![r.ino].dirt = TRUE,
                               ![r.dir].nlinks = @ - 1, ![r.dir].dirt = TRUE]
    BY DEF Rmdir
  <2> QED
    BY <1>4, <2>1, <2>2, <2>3 DEF IsInode, Same
<1>7. Takes(t, q, f)
  BY <1>1, <1>2, <1>5, Goes
<1>8. \A s \in Slot : Sum(q, f, s) = Sum(r, f, s)
  BY <1>4, <1>5
<1> QED
  BY <1>3, <1>6, <1>7, <1>8, Turn

(* A task that has left its call, with or without an open file. *)
LEMMA IdleFits ==
  ASSUME NEW f \in Slot \cup {None}
  PROVE  /\ IsCall(Idle) /\ Fit(Idle, f)
         /\ \A s \in Slot : Sum(Idle, f, s) = One(f, s)
<1>1. Fit(Idle, f)
  BY IdleIs DEF Fit, Before, AtPut, NoDir, NoIno, NoPuts
<1>2. \A s \in Slot : Sum(Idle, f, s) = One(f, s)
  BY IdleIs, SumNone, OneIs DEF NoPuts
<1> QED
  BY <1>1, <1>2, IdleIs

(* O_TRUNC: the inode that was held becomes the open file. *)
LEMMA OpenTruncatedStep ==
  ASSUME NamesInv, Running, NEW t \in Task, OpenTruncated(t)
  PROVE  NamesInv'
<1> DEFINE r == at[t]
           f == file[t]
           g == r.ino
           i == IF HasData(table[g])
                THEN [table[g] EXCEPT !.size = 0, !.dirt = TRUE] ELSE table[g]
<1>1. IsCall(r) /\ Fit(r, f) /\ Live /\ Shapes
  BY Calling
<1>2. /\ r.pc = "otrunc" /\ Change(g, i) /\ Go(t, Idle)
      /\ file' = [file EXCEPT ![t] = g]
  BY Zenon DEF OpenTruncated
<1>3. Others
  BY DEF OpenTruncated, Others, device
<1>4. /\ r.dir = None /\ r.ino \in Slot /\ r.old = None /\ NoPuts(r)
      /\ f = None
  BY <1>1, <1>2 DEF Fit, NoDir, HasIno, AtPut, Before, Opening
<1>5. /\ IsCall(Idle) /\ Fit(Idle, g)
      /\ \A s \in Slot : Sum(Idle, g, s) = One(g, s)
  BY <1>4, IdleFits
<1>6. \A s \in Slot : Sum(Idle, g, s) = Sum(r, f, s)
  BY <1>4, <1>5, SumNone, OneIs
<1>7. DOMAIN table' = Slot /\ \A s \in Slot : Same(s)
  <2>1. IsInode(table[g])
    BY <1>1, <1>4 DEF Shapes
  <2>2. /\ IsInode(i) /\ i.nr = table[g].nr
        /\ i.count = table[g].count /\ i.lock = table[g].lock
    BY <2>1 DEF IsInode
  <2>3. table[g].count # 0
    BY <1>1, <1>4, HeldCounts
  <2> HIDE DEF i
  <2> QED
    BY <1>1, <1>2, <1>4, <2>2, <2>3, ChangeSame
<1>8. Takes(t, Idle, g)
  BY <1>1, <1>2, <1>5, Opens
<1> QED
  BY <1>3, <1>6, <1>7, <1>8, Turn

(* A task outside any call holds its open file. *)
LEMMA AtUser ==
  ASSUME NEW r, NEW f, Fit(r, f), r.pc = "user"
  PROVE  /\ f \in Slot \cup {None}
         /\ \A s \in Slot : Sum(r, f, s) = One(f, s)
<1>1. /\ r.dir = None /\ r.ino = None /\ r.old = None
      /\ f \in Slot \cup {None} /\ NoPuts(r)
  BY DEF Fit, AtPut, NoDir, NoIno
<1>2. \A s \in Slot : Sum(r, f, s) = One(f, s)
  BY <1>1, SumNone, OneIs
<1> QED
  BY <1>1, <1>2

(* file_write() in place changes no count. *)
LEMMA WriteStep ==
  ASSUME NamesInv, Running, NEW t \in Task, Write(t)
  PROVE  NamesInv'
<1> DEFINE r == at[t]
           f == file[t]
<1>1. IsCall(r) /\ Fit(r, f) /\ Live /\ Shapes /\ f \in Slot \cup {None}
  BY Calling
<1>2. f # None /\ UNCHANGED <<at, file>>
  BY Zenon DEF Write, Call
<1>3. Others
  BY DEF Write, Others, device
<1>4. PICK longer \in BOOLEAN :
        Change(f, [table[f] EXCEPT !.dirt = @ \/ longer])
  BY Zenon DEF Write
<1>5. DOMAIN table' = Slot /\ \A s \in Slot : Same(s)
  <2> DEFINE dirty == table[f].dirt \/ longer
             i == [table[f] EXCEPT !.dirt = dirty]
  <2>0. f \in Slot
    BY <1>1, <1>2
  <2>1. IsInode(table[f])
    BY <1>1, <2>0 DEF Shapes
  <2>2. Change(f, i)
    BY <1>4
  <2> HIDE DEF dirty
  <2>3. /\ IsInode(i) /\ i.nr = table[f].nr
        /\ i.count = table[f].count /\ i.lock = table[f].lock
    BY <2>1 DEF IsInode
  <2>4. table[f].count # 0
    BY <1>1, <2>0, HeldCounts
  <2> HIDE DEF i
  <2> QED
    BY <1>1, <2>0, <2>2, <2>3, <2>4, ChangeSame
<1>6. Takes(t, r, f)
  BY <1>1, <1>2 DEF Takes, Shapes
<1> QED
  BY <1>3, <1>5, <1>6, Turn

(* file_write() takes a block, *)
LEMMA ExtendStep ==
  ASSUME NamesInv, Running, NEW t \in Task, Extend(t)
  PROVE  NamesInv'
<1> DEFINE r == at[t]
           f == file[t]
           b == Lowest(FreeBits(NrBlocks, zmap))
           q == [Idle EXCEPT !.pc = "extend", !.b = b]
<1>1. IsCall(r) /\ Fit(r, f) /\ Live /\ Shapes /\ f \in Slot \cup {None}
  BY Calling
<1>2. r.pc = "user" /\ f # None /\ UNCHANGED <<table, file>> /\ Go(t, q)
  BY Zenon DEF Extend, Call
<1>3. Others
  BY DEF Extend, Others, device
<1> HIDE DEF b
<1>4. /\ IsCall(q) /\ q.pc = "extend" /\ q.puts = <<>> /\ q.then = "user"
      /\ q.dir = None /\ q.ino = None /\ q.old = None
  BY DEF IsCall, Idle
<1> HIDE DEF q
<1>5. Fit(q, f)
  BY <1>1, <1>2, <1>4 DEF Fit, Before, AtPut, NoDir, NoIno, NoPuts
<1>6. \A s \in Slot : Sum(q, f, s) = Sum(r, f, s)
  BY <1>1, <1>2, <1>4, AtUser, SumNone, OneIs DEF NoPuts
<1> QED
  BY <1>2, <1>3, <1>4, <1>5, <1>6, Moves

(* and adds it to the file. *)
LEMMA ExtendedStep ==
  ASSUME NamesInv, Running, NEW t \in Task, Extended(t)
  PROVE  NamesInv'
<1> DEFINE r == at[t]
           f == file[t]
           z == NextZone(table[f].zones, 0, r.b)
           i == [table[f] EXCEPT !.zones = z, !.size = 1, !.dirt = TRUE]
<1>1. IsCall(r) /\ Fit(r, f) /\ Live /\ Shapes
  BY Calling
<1>2. r.pc = "extend" /\ UNCHANGED file /\ Go(t, Idle)
  BY Zenon DEF Extended
<1>3. Change(f, i)
  BY DEF Extended
<1>4. Others
  BY DEF Extended, Others, device
<1>5. /\ r.dir = None /\ r.ino = None /\ r.old = None /\ NoPuts(r)
      /\ f \in Slot
  BY <1>1, <1>2 DEF Fit, NoDir, NoIno, AtPut
<1>6. /\ IsCall(Idle) /\ Fit(Idle, f)
      /\ \A s \in Slot : Sum(Idle, f, s) = One(f, s)
  BY <1>5, IdleFits
<1>7. \A s \in Slot : Sum(Idle, f, s) = Sum(r, f, s)
  BY <1>5, <1>6, SumNone, OneIs
<1>8. DOMAIN table' = Slot /\ \A s \in Slot : Same(s)
  <2>1. IsInode(table[f])
    BY <1>1, <1>5 DEF Shapes
  <2> HIDE DEF z
  <2>2. /\ IsInode(i) /\ i.nr = table[f].nr
        /\ i.count = table[f].count /\ i.lock = table[f].lock
    BY <2>1 DEF IsInode
  <2>3. table[f].count # 0
    BY <1>1, <1>5, HeldCounts
  <2> HIDE DEF i
  <2> QED
    BY <1>1, <1>3, <1>5, <2>2, <2>3, ChangeSame
<1>9. Takes(t, Idle, f)
  BY <1>1, <1>2, <1>6, Goes
<1> QED
  BY <1>4, <1>7, <1>8, <1>9, Turn

(* close() turns the open file into an inode to put. *)
LEMMA CloseStep ==
  ASSUME NamesInv, Running, NEW t \in Task, Close(t)
  PROVE  NamesInv'
<1> DEFINE r == at[t]
           f == file[t]
           q == Release(Idle, <<f>>, "user")
           g == None
<1>1. IsCall(r) /\ Fit(r, f) /\ Shapes /\ f \in Slot \cup {None}
  BY Calling
<1>2. /\ r.pc = "user" /\ f # None /\ UNCHANGED table /\ Go(t, q)
      /\ file' = [file EXCEPT ![t] = g]
  BY Zenon DEF Close, Call
<1>3. Others
  BY DEF Close, Others, device
<1>4. f \in Slot
  BY <1>1, <1>2
<1>5. /\ IsCall(q) /\ Fit(q, g)
      /\ \A s \in Slot : Sum(q, g, s) = One(g, s) + One(f, s)
  <2>1. IsCall(Idle) /\ g \in Slot \cup {None}
    BY IdleIs
  <2> QED
    BY <1>4, <2>1, ReleaseOne
<1> HIDE DEF q
<1>6. \A s \in Slot : Sum(q, g, s) = Sum(r, f, s)
  BY <1>1, <1>2, <1>5, AtUser, OneIs
<1>7. Takes(t, q, g)
  BY <1>1, <1>2, <1>5, Opens
<1>8. DOMAIN table' = Slot /\ \A s \in Slot : Same(s)
  BY <1>1, <1>2, StaysSame
<1> QED
  BY <1>3, <1>6, <1>7, <1>8, Turn

-----------------------------------------------------------------------------
(* iput()                                                                  *)
LEMMA HeadOf ==
  ASSUME NEW r, PutsOf(r)
  PROVE  /\ Head(r.puts) \in Slot
         /\ Len(r.puts) > 1 =>
              \E b \in Slot : r.puts = <<Head(r.puts), b>> /\ Tail(r.puts) = <<b>>
         /\ ~(Len(r.puts) > 1) => r.puts = <<Head(r.puts)>>
<1>1. CASE \E a \in Slot : r.puts = <<a>>
  BY <1>1
<1>2. CASE \E a, b \in Slot : r.puts = <<a, b>>
  <2>1. PICK a, b \in Slot : r.puts = <<a, b>>
    BY <1>2
  <2>2. Head(r.puts) = a /\ Tail(r.puts) = <<b>> /\ Len(r.puts) = 2
    BY <2>1
  <2> QED
    BY <2>1, <2>2
<1> QED
  BY <1>1, <1>2 DEF PutsOf

(* What a task in iput() holds. *)
LEMMA AtPuts ==
  ASSUME NEW r, NEW f, Fit(r, f), r.pc \in AtPut
  PROVE  /\ r.dir \in {None} /\ PutsOf(r) /\ Then(r)
         /\ f \in Slot \cup {None} /\ Head(r.puts) \in Slot
BY HeadOf DEF Fit, AtPut, NoDir

(* The step a task takes when it has put the first inode.                  *)
LEMMA PutDoneFits ==
  ASSUME NEW r, IsCall(r), NEW f, Fit(r, f), r.pc \in AtPut
  PROVE  LET q == PutDone(r)
         IN /\ IsCall(q) /\ Fit(q, f)
            /\ \A s \in Slot :
                 Sum(q, f, s) + One(Head(r.puts), s) = Sum(r, f, s)
<1> DEFINE q == PutDone(r)
           a == Head(r.puts)
<1>1. /\ r.dir = None /\ PutsOf(r) /\ Then(r) /\ f \in Slot \cup {None}
      /\ a \in Slot
  BY AtPuts
<1>2. CASE Len(r.puts) > 1
  <2>1. PICK b \in Slot : r.puts = <<a, b>> /\ Tail(r.puts) = <<b>>
    BY <1>1, <1>2, HeadOf
  <2>2. /\ IsCall(q) /\ q.pc = "put" /\ q.puts = <<b>> /\ q.then = r.then
        /\ q.dir = r.dir /\ q.ino = r.ino /\ q.old = r.old
        /\ q.op = r.op /\ q.path = r.path /\ q.nr = r.nr
    BY <1>2, <2>1, PutDoneIs
  <2> HIDE DEF q, a
  <2>3. Fit(q, f)
    BY <1>1, <2>1, <2>2 DEF Fit, Before, AtPut, Then, PutsOf, NoDir, NoIno,
         HasIno, HasDir, Looking, Final, OldIf
  <2>4. ASSUME NEW s \in Slot
        PROVE  Sum(q, f, s) + One(a, s) = Sum(r, f, s)
    <3>1. Sum(q, f, s) = (One(q.dir, s) + One(q.ino, s) + One(q.old, s) + One(f, s))
                          + One(b, s)
      BY <2>2, SumPuts
    <3>2. Sum(r, f, s) = (One(r.dir, s) + One(r.ino, s) + One(r.old, s) + One(f, s))
                          + One(a, s) + One(b, s)
      BY <2>1, SumPuts
    <3> QED
      BY <2>2, <3>1, <3>2, OneIs
  <2> QED
    BY <2>2, <2>3, <2>4 DEF q, a
<1>3. CASE ~(Len(r.puts) > 1) /\ r.then = "user"
  <2>1. q = Idle /\ r.puts = <<a>>
    BY <1>1, <1>3, PutDoneIs, HeadOf
  <2>2. r.ino = None /\ r.old = None
    BY <1>1, <1>3 DEF Then, NoIno
  <2>3. /\ IsCall(q) /\ Fit(q, f)
        /\ \A s \in Slot : Sum(q, f, s) = One(f, s)
    BY <1>1, <2>1, IdleFits
  <2> HIDE DEF q, a
  <2>4. ASSUME NEW s \in Slot
        PROVE  Sum(q, f, s) + One(a, s) = Sum(r, f, s)
    <3>1. Sum(r, f, s) = (One(r.dir, s) + One(r.ino, s) + One(r.old, s) + One(f, s))
                          + One(a, s)
      BY <2>1, SumPuts
    <3> QED
      BY <1>1, <2>2, <2>3, <3>1, OneIs
  <2> QED
    BY <2>3, <2>4 DEF q, a
<1>4. CASE ~(Len(r.puts) > 1) /\ r.then # "user"
  <2>1. /\ IsCall(q) /\ q.pc = r.then /\ q.puts = <<>> /\ q.then = "user"
        /\ q.dir = r.dir /\ q.ino = r.ino /\ q.old = r.old
        /\ q.op = r.op /\ q.path = r.path /\ q.nr = r.nr
    BY <1>4, PutDoneIs
  <2>2. r.puts = <<a>>
    BY <1>1, <1>4, HeadOf
  <2> HIDE DEF q, a
  <2>3. Fit(q, f)
    BY <1>1, <1>4, <2>1
       DEF Fit, Before, AtPut, Then, NoDir, NoIno, HasIno, HasDir, NoPuts,
           Looking, Final, OldIf
  <2>4. ASSUME NEW s \in Slot
        PROVE  Sum(q, f, s) + One(a, s) = Sum(r, f, s)
    <3>1. Sum(r, f, s) = (One(r.dir, s) + One(r.ino, s) + One(r.old, s) + One(f, s))
                          + One(a, s)
      BY <2>2, SumPuts
    <3>2. Sum(q, f, s) = One(q.dir, s) + One(q.ino, s) + One(q.old, s) + One(f, s)
      BY <2>1, SumNone DEF NoPuts
    <3> QED
      BY <2>1, <3>1, <3>2, OneIs
  <2> QED
    BY <2>1, <2>3, <2>4 DEF q, a
<1> QED
  BY <1>2, <1>3, <1>4

(* The inode that is put is counted on. *)
LEMMA PutCounts ==
  ASSUME Live, NEW t \in Task, IsCall(at[t]), Fit(at[t], file[t]), at[t].pc \in AtPut
  PROVE  LET s == Head(at[t].puts)
         IN /\ s \in Slot /\ table[s].count \in Nat \ {0} /\ table[s].nr # 0
            /\ Mount(s) \in Nat /\ table[s].count >= 1 + Mount(s)
<1> DEFINE r == at[t]
           f == file[t]
           s == Head(r.puts)
           q == PutDone(r)
<1>1. s \in Slot
  BY AtPuts
<1>2. Sum(q, f, s) + One(s, s) = Sum(r, f, s)
  BY <1>1, PutDoneFits
<1>3. Sum(q, f, s) \in Nat
  <2>1. IsFiniteSet(InRow(KeptBy(q, f), Keeping, s))
    BY KeepingFinite, FS_Subset DEF InRow
  <2> QED
    BY <2>1, FS_CardinalityType DEF Sum
<1>4. One(s, s) = 1
  BY DEF One
<1>5. /\ table[s].count \in Nat /\ Mount(s) \in Nat
      /\ table[s].count >= Sum(r, f, s) + Mount(s)
  BY <1>1, Backed
<1>6. table[s].nr = 0 => table[s].count = 0
  BY <1>1, LiveSlots
<1> HIDE DEF q, s, r, f
<1>7. /\ s \in Slot /\ table[s].count \in Nat \ {0} /\ table[s].nr # 0
      /\ Mount(s) \in Nat /\ table[s].count >= 1 + Mount(s)
  BY <1>1, <1>2, <1>3, <1>4, <1>5, <1>6
<1> QED
  BY <1>7 DEF s, r

(* A step that changes the slot x, in which nothing is made anew.          *)
LEMMA Changed ==
  ASSUME NamesInv, Running, NEW t \in Task, NEW q, Go(t, q), UNCHANGED file,
         IsCall(q), Fit(q, file[t]), NEW x \in Slot, NEW i, IsInode(i), Change(x, i),
         i.nr = table[x].nr, i.count \in Nat,
         \A s \in Slot : (IF s = x THEN i.count ELSE table[s].count)
                           + Sum(at[t], file[t], s)
                         = table[s].count + Sum(q, file[t], s),
         i.count = 0 => ~i.dirt /\ ~i.lock,
         i.nr = 0 => i.count = 0,
         Others
  PROVE  NamesInv'
<1>1. Shapes /\ Live /\ IdleIsClean /\ Mapped /\ Rooted
  BY Calling
<1>2. Takes(t, q, file[t])
  BY <1>1, Goes
<1>3. /\ DOMAIN table' = Slot /\ table'[x] = i
      /\ \A s \in Slot \ {x} : table'[s] = table[s]
  BY <1>1 DEF Change, Shapes
<1>4. Counts(t, q, file[t])
  <2> SUFFICES ASSUME NEW s \in Slot
               PROVE  /\ IsInode(table'[s]) /\ table'[s].count \in Nat
                      /\ table'[s].count + Sum(at[t], file[t], s)
                           = table[s].count + Sum(q, file[t], s)
                      /\ table'[s].nr = Root <=> table[s].nr = Root
                      /\ table'[s].count = 0 => ~table'[s].dirt /\ ~table'[s].lock
                      /\ table'[s].nr = 0 => table'[s].count = 0
    BY <1>3 DEF Counts
  <2>1. IsInode(table[s]) /\ table[s].count \in Nat
    BY <1>1, Backed DEF Shapes
  <2>2. table[s].nr = 0 => table[s].count = 0
    BY <1>1, LiveSlots
  <2>3. table[s].count = 0 => ~table[s].dirt /\ ~table[s].lock
    BY <1>1 DEF IdleIsClean, IdleSlots
  <2> QED
    BY <1>3, <2>1, <2>2, <2>3
<1>5. Counting
  <2>1. Running'
    BY Zenon DEF Others, Running
  <2> QED
    BY <1>1, <2>1 DEF Counting, Others, Rooted, Shapes
<1>6. Mapped'
  <2>1. \A s \in Slot : table'[s].nr \in {0, table[s].nr}
    BY <1>3
  <2> QED
    BY <1>1, <1>3, <2>1, MappedKept DEF Others
<1> QED
  BY <1>2, <1>4, <1>5, <1>6, Stepped

(* iput() of an inode with other users takes one count away. *)
LEMMA PutSharedStep ==
  ASSUME NamesInv, Running, NEW t \in Task, PutShared(t), UNCHANGED file
  PROVE  NamesInv'
<1> DEFINE r == at[t]
           f == file[t]
           x == Head(r.puts)
           n == table[x].count - 1
           i == [table[x] EXCEPT !.count = n]
           q == PutDone(r)
<1>1. IsCall(r) /\ Fit(r, f) /\ Live /\ Shapes /\ IdleIsClean
  BY Calling
<1>2. /\ r.pc = "put" /\ Go(t, q) /\ Change(x, i)
      /\ ~table[x].lock /\ ~LastRef(table[x])
  BY Zenon DEF PutShared
<1>3. Others
  BY DEF PutShared, Others
<1>4. r.pc \in AtPut
  BY <1>2 DEF AtPut
<1>5. /\ x \in Slot /\ table[x].count \in Nat \ {0} /\ table[x].nr # 0
  BY <1>1, <1>4, PutCounts
<1>6. table[x].count # 1
  BY <1>2, <1>5 DEF LastRef
<1>7. /\ IsCall(q) /\ Fit(q, f)
      /\ \A s \in Slot : Sum(q, f, s) + One(x, s) = Sum(r, f, s)
  BY <1>1, <1>4, PutDoneFits
<1>8. n \in Nat \ {0} /\ n + 1 = table[x].count
  BY <1>5, <1>6
<1> HIDE DEF n, q
<1>9. IsInode(i) /\ i.nr = table[x].nr /\ i.count = n
  <2>1. IsInode(table[x])
    BY <1>1, <1>5 DEF Shapes
  <2> QED
    BY <2>1 DEF IsInode
<1> HIDE DEF i, x
<1>10. ASSUME NEW s \in Slot
       PROVE  (IF s = x THEN i.count ELSE table[s].count) + Sum(r, f, s)
                = table[s].count + Sum(q, f, s)
  <2>0. Sum(q, f, s) \in Nat
    <3>1. IsFiniteSet(InRow(KeptBy(q, f), Keeping, s))
      BY KeepingFinite, FS_Subset DEF InRow
    <3> QED
      BY <3>1, FS_CardinalityType DEF Sum
  <2>1. Sum(q, f, s) + One(x, s) = Sum(r, f, s) /\ table[s].count \in Nat
    BY <1>1, <1>7, Backed
  <2>2. One(x, s) = IF s = x THEN 1 ELSE 0
    BY DEF One
  <2> QED
    BY <1>8, <1>9, <2>0, <2>1, <2>2
<1> QED
  BY <1>2, <1>3, <1>5, <1>7, <1>8, <1>9, <1>10, Changed

(* The places of a call that have an inode are finitely many. *)
LEMMA SumNat ==
  ASSUME NEW r, NEW f, NEW s
  PROVE  Sum(r, f, s) \in Nat
<1>1. IsFiniteSet(InRow(KeptBy(r, f), Keeping, s))
  BY KeepingFinite, FS_Subset DEF InRow
<1> QED
  BY <1>1, FS_CardinalityType DEF Sum

(* A step that leaves all counts. *)
LEMMA Uncounted ==
  ASSUME NEW t \in Task, Live, NEW q, NEW f, NEW x \in Slot, NEW i,
         i.count = table[x].count,
         \A s \in Slot : Sum(q, f, s) = Sum(at[t], f, s)
  PROVE  \A s \in Slot : (IF s = x THEN i.count ELSE table[s].count)
                           + Sum(at[t], f, s)
                         = table[s].count + Sum(q, f, s)
BY Backed, SumNat

(* A task that stays in iput() holds what it held. *)
LEMMA AtPutSame ==
  ASSUME NEW r, NEW f, Fit(r, f), r.pc \in AtPut, NEW q, IsCall(q),
         q.pc \in AtPut, q.puts = r.puts, q.then = r.then,
         q.dir = r.dir, q.ino = r.ino, q.old = r.old,
         q.op = r.op, q.path = r.path, q.nr = r.nr
  PROVE  /\ Fit(q, f)
         /\ \A s \in Slot : Sum(q, f, s) = Sum(r, f, s)
<1>1. Fit(q, f)
  BY DEF Fit, Before, AtPut, Looking, Final, Then, PutsOf, NoDir,
         NoIno, HasDir, HasIno, OldIf, NoPuts
<1>2. KeptBy(q, f) = KeptBy(r, f)
  BY DEF KeptBy
<1> QED
  BY <1>1, <1>2 DEF Sum

(* iput() by the last user begins to write the inode, or lets it go clean. *)
LEMMA PutLastStep ==
  ASSUME NamesInv, Running, NEW t \in Task, PutLast(t), UNCHANGED file
  PROVE  NamesInv'
<1> DEFINE r == at[t]
           f == file[t]
           x == Head(r.puts)
<1>1. IsCall(r) /\ Fit(r, f) /\ Live /\ Shapes /\ IdleIsClean
  BY Calling
<1>2. r.pc = "put" /\ ~table[x].lock /\ LastRef(table[x])
  BY Zenon DEF PutLast
<1>3. Others
  BY DEF PutLast, Others
<1>4. r.pc \in AtPut
  BY <1>2 DEF AtPut
<1>5. /\ x \in Slot /\ table[x].count \in Nat \ {0} /\ table[x].nr # 0
  BY <1>1, <1>4, PutCounts
<1>6. table[x].count = 1
  BY <1>2 DEF LastRef
<1>7. IsInode(table[x])
  BY <1>1, <1>5 DEF Shapes
<1>8. CASE /\ Change(x, [table[x] EXCEPT !.lock = TRUE])
           /\ Go(t, [r EXCEPT !.pc = "write"])
  <2> DEFINE i == [table[x] EXCEPT !.lock = TRUE]
             q == [r EXCEPT !.pc = "write"]
  <2>1. IsInode(i) /\ i.nr = table[x].nr /\ i.count = table[x].count
    BY <1>7 DEF IsInode
  <2>2. /\ IsCall(q) /\ q.pc = "write" /\ q.puts = r.puts /\ q.then = r.then
        /\ q.dir = r.dir /\ q.ino = r.ino /\ q.old = r.old
        /\ q.op = r.op /\ q.path = r.path /\ q.nr = r.nr
    BY <1>1 DEF IsCall
  <2>3. Go(t, q) /\ Change(x, i)
    BY <1>8
  <2> HIDE DEF i, q, x
  <2>4. q.pc \in AtPut
    BY <2>2 DEF AtPut
  <2>5. Fit(q, f) /\ \A s \in Slot : Sum(q, f, s) = Sum(r, f, s)
    BY <1>1, <1>4, <2>2, <2>4, AtPutSame
  <2>6. \A s \in Slot : (IF s = x THEN i.count ELSE table[s].count) + Sum(r, f, s)
                        = table[s].count + Sum(q, f, s)
    BY <1>1, <1>5, <2>1, <2>5, Uncounted
  <2> QED
    BY <1>3, <1>5, <1>6, <2>1, <2>2, <2>3, <2>5, <2>6, Changed
<1>9. CASE /\ ~table[x].dirt
           /\ Change(x, [table[x] EXCEPT !.count = 0])
           /\ Go(t, PutDone(r))
  <2> DEFINE i == [table[x] EXCEPT !.count = 0]
             q == PutDone(r)
  <2>1. /\ IsInode(i) /\ i.nr = table[x].nr /\ i.count = 0
        /\ i.dirt = table[x].dirt /\ i.lock = table[x].lock
    BY <1>7 DEF IsInode
  <2>2. /\ IsCall(q) /\ Fit(q, f)
        /\ \A s \in Slot : Sum(q, f, s) + One(x, s) = Sum(r, f, s)
    BY <1>1, <1>4, PutDoneFits
  <2>3. Go(t, q) /\ Change(x, i)
    BY <1>9
  <2> HIDE DEF i, q, x
  <2>4. ASSUME NEW s \in Slot
        PROVE  (IF s = x THEN i.count ELSE table[s].count) + Sum(r, f, s)
                 = table[s].count + Sum(q, f, s)
    <3>1. /\ Sum(q, f, s) + One(x, s) = Sum(r, f, s) /\ table[s].count \in Nat
          /\ Sum(q, f, s) \in Nat
      BY <1>1, <2>2, Backed, SumNat
    <3>2. One(x, s) = IF s = x THEN 1 ELSE 0
      BY DEF One
    <3> QED
      BY <1>6, <2>1, <3>1, <3>2
  <2>5. ~i.dirt /\ ~i.lock
    BY <1>2, <1>9, <2>1
  <2> QED
    BY <1>3, <1>5, <2>1, <2>2, <2>3, <2>4, <2>5, Changed
<1> QED
  BY Zenon, <1>8, <1>9 DEF PutLast, MustWrite

(* write_inode() ends: the inode is clean and unlocked. *)
LEMMA WriteInodeStep ==
  ASSUME NamesInv, Running, NEW t \in Task, WriteInode(t), UNCHANGED file
  PROVE  NamesInv'
<1> DEFINE r == at[t]
           f == file[t]
           x == Head(r.puts)
           i == [table[x] EXCEPT !.dirt = FALSE, !.lock = FALSE]
           q == [r EXCEPT !.pc = "put"]
<1>1. IsCall(r) /\ Fit(r, f) /\ Live /\ Shapes
  BY Calling
<1>2. r.pc = "write" /\ Go(t, q) /\ Change(x, i)
  BY Zenon DEF WriteInode, Written
<1>3. Others
  BY DEF WriteInode, Others
<1>4. r.pc \in AtPut
  BY <1>2 DEF AtPut
<1>5. /\ x \in Slot /\ table[x].count \in Nat \ {0} /\ table[x].nr # 0
  BY <1>1, <1>4, PutCounts
<1>6. IsInode(table[x])
  BY <1>1, <1>5 DEF Shapes
<1>7. IsInode(i) /\ i.nr = table[x].nr /\ i.count = table[x].count
  BY <1>6 DEF IsInode
<1>8. /\ IsCall(q) /\ q.pc = "put" /\ q.puts = r.puts /\ q.then = r.then
      /\ q.dir = r.dir /\ q.ino = r.ino /\ q.old = r.old
      /\ q.op = r.op /\ q.path = r.path /\ q.nr = r.nr
  BY <1>1 DEF IsCall
<1> HIDE DEF i, q, x
<1>9. q.pc \in AtPut
  BY <1>8 DEF AtPut
<1>10. Fit(q, f) /\ \A s \in Slot : Sum(q, f, s) = Sum(r, f, s)
  BY <1>1, <1>4, <1>8, <1>9, AtPutSame
<1>11. \A s \in Slot : (IF s = x THEN i.count ELSE table[s].count) + Sum(r, f, s)
                       = table[s].count + Sum(q, f, s)
  BY <1>1, <1>5, <1>7, <1>10, Uncounted
<1> QED
  BY <1>2, <1>3, <1>5, <1>7, <1>8, <1>10, <1>11, Changed

(* iput() of an inode without links begins to truncate it. *)
LEMMA PutUnlinkedStep ==
  ASSUME NamesInv, Running, NEW t \in Task, PutUnlinked(t), UNCHANGED file
  PROVE  NamesInv'
<1> DEFINE r == at[t]
           f == file[t]
           q == [r EXCEPT !.pc = "trunc"]
<1>1. IsCall(r) /\ Fit(r, f)
  BY Calling
<1>2. r.pc = "put" /\ Go(t, q) /\ UNCHANGED table
  BY Zenon DEF PutUnlinked
<1>3. Others
  BY DEF PutUnlinked, Others
<1>4. /\ IsCall(q) /\ q.pc = "trunc" /\ q.puts = r.puts /\ q.then = r.then
      /\ q.dir = r.dir /\ q.ino = r.ino /\ q.old = r.old
      /\ q.op = r.op /\ q.path = r.path /\ q.nr = r.nr
  BY <1>1 DEF IsCall
<1> HIDE DEF q
<1>5. q.pc \in AtPut /\ r.pc \in AtPut
  BY <1>2, <1>4 DEF AtPut
<1>6. Fit(q, f) /\ \A s \in Slot : Sum(q, f, s) = Sum(r, f, s)
  BY <1>1, <1>4, <1>5, AtPutSame
<1> QED
  BY <1>2, <1>3, <1>4, <1>6, Moves

-----------------------------------------------------------------------------
(* truncate() and free_inode()                                             *)
LEMMA TakeZoneStep ==
  ASSUME NamesInv, Running, NEW t \in Task, TakeZone(t), UNCHANGED file
  PROVE  NamesInv'
<1> DEFINE r == at[t]
           b == Head(table[Truncated(t)].zones)
           q == [r EXCEPT !.b = b]
<1>1. IsCall(r)
  BY Calling
<1>2. Go(t, q) /\ UNCHANGED table
  BY Zenon DEF TakeZone
<1>3. Others
  BY DEF TakeZone, Others
<1> HIDE DEF b
<1>4. ReadsOn(r, q)
  BY <1>1 DEF ReadsOn, IsCall
<1> HIDE DEF q
<1> QED
  BY <1>2, <1>3, <1>4, MovesOn

(* After a panic nothing happens. *)
LEMMA Panicked ==
  ASSUME NamesInv, Running, NEW message, Panic(message), UNCHANGED file, ~Running'
  PROVE  NamesInv'
<1>1. Live /\ Shapes /\ IdleIsClean /\ Mapped
  BY DEF NamesInv
<1>2. /\ UNCHANGED <<table, imap, syncing, raced>>
      /\ at' = [t \in Task |-> [at[t] EXCEPT !.pc = "stopped"]]
  BY DEF Panic
<1>3. Shapes'
  BY <1>1, <1>2 DEF Shapes
<1>4. IdleIsClean'
  BY <1>1, <1>2 DEF IdleIsClean, IdleSlots
<1>5. Mapped'
  BY <1>1, <1>2 DEF Mapped, OneSlotPerInode, Unless
<1>6. ASSUME NEW t \in Task
      PROVE  at'[t].pc = "stopped"
  <2>1. IsCall(at[t])
    BY <1>1 DEF Live
  <2>2. at'[t] = [at[t] EXCEPT !.pc = "stopped"]
    BY <1>2
  <2> QED
    BY <2>1, <2>2 DEF IsCall
<1> QED
  BY <1>3, <1>4, <1>5, <1>6 DEF NamesInv

(* new_block() panics where its block has another user. *)
LEMMA NewBlockPanicsStep ==
  ASSUME NamesInv, Running, NEW t \in Task, NewBlockPanics(t), UNCHANGED file
  PROVE  NamesInv'
<1>1. Panic("new block: count is != 1")
  BY Zenon DEF NewBlockPanics
<1>2. ~Running'
  BY Zenon, <1>1 DEF Panic, Running
<1> QED
  BY <1>1, <1>2, Panicked

(* truncate() frees a block, or panics and stops every task. *)
LEMMA FreeZoneStep ==
  ASSUME NamesInv, Running, NEW t \in Task, FreeZone(t), UNCHANGED file
  PROVE  NamesInv'
<1> DEFINE r == at[t]
           f == file[t]
           x == Truncated(t)
           zones == table[x].zones
           i == IF zones # <<>> /\ Head(zones) = r.b
                THEN [table[x] EXCEPT !.zones = Tail(@)] ELSE table[x]
           q == [r EXCEPT !.b = None]
<1>1. IsCall(r) /\ Fit(r, f) /\ Live /\ Shapes
  BY Calling
<1>2. r.pc \in {"trunc", "otrunc"}
  BY Zenon DEF FreeZone
<1>3. CASE Panic("free_block: bit already cleared")
  <2>1. ~Running'
    BY Zenon, <1>3 DEF Panic, Running
  <2> QED
    BY <1>3, <2>1, Panicked
<1>4. CASE /\ raced \subseteq raced' /\ Change(x, i) /\ Go(t, q)
           /\ UNCHANGED <<imap, syncing, panic>>
  <2>1. x \in Slot
    <3>1. CASE r.pc = "trunc"
      BY <1>1, <3>1, AtPuts DEF Truncated, AtPut
    <3>2. CASE r.pc = "otrunc"
      BY <1>1, <3>2 DEF Truncated, Fit, AtPut, HasIno
    <3> QED
      BY <1>2, <3>1, <3>2
  <2>2. IsInode(table[x])
    BY <1>1, <2>1 DEF Shapes
  <2>3. /\ IsInode(i) /\ i.nr = table[x].nr /\ i.count = table[x].count
        /\ i.lock = table[x].lock /\ i.dirt = table[x].dirt
    BY <2>2 DEF IsInode
  <2>4. ReadsOn(r, q)
    BY <1>1 DEF ReadsOn, IsCall
  <2>5. Change(x, i) /\ Go(t, q) /\ Others
    BY <1>4 DEF Others
  <2> HIDE DEF i, q, x
  <2>6. DOMAIN table' = Slot /\ \A s \in Slot : Same(s)
    BY <1>1, <2>1, <2>3, <2>5, ChangeSame
  <2>7. Fit(q, f) /\ IsCall(q)
        /\ \A s \in Slot : Sum(q, f, s) = Sum(r, f, s)
    BY <1>1, <2>4, FitOn DEF ReadsOn
  <2>8. Takes(t, q, f)
    BY <1>1, <2>5, <2>7, Goes
  <2> QED
    BY <2>5, <2>6, <2>7, <2>8, Turn
<1>5. \/ Panic("free_block: bit already cleared")
      \/ /\ raced \subseteq raced' /\ Change(x, i) /\ Go(t, q)
         /\ UNCHANGED <<imap, syncing, panic>>
  <2>1. \/ Panic("free_block: bit already cleared")
        \/ /\ \E z : raced' = raced \cup z
           /\ Change(x, i) /\ Go(t, q)
           /\ UNCHANGED <<disk, imap, syncing, panic>>
    BY Zenon DEF FreeZone
  <2> QED
    BY <2>1
<1> QED
  BY <1>3, <1>4, <1>5

(* free_inode() clears the slot of its last user, or panics. *)
LEMMA FreeInodeStep ==
  ASSUME NamesInv, Running, NEW t \in Task, FreeInode(t), UNCHANGED file
  PROVE  NamesInv'
<1> DEFINE r == at[t]
           f == file[t]
           x == Head(r.puts)
           q == PutDone(r)
<1>1. IsCall(r) /\ Fit(r, f) /\ Live /\ Shapes /\ Rooted /\ Mapped /\ IdleIsClean
  BY Calling
<1>2. r.pc \in AtPut
  BY DEF FreeInode, AtPut
<1>3. /\ x \in Slot /\ table[x].count \in Nat \ {0} /\ table[x].nr # 0
      /\ Mount(x) \in Nat /\ table[x].count >= 1 + Mount(x)
  BY <1>1, <1>2, PutCounts
<1>4. CASE Panic("free_inode") \/ Panic("trying to free inode with links")
  <2>1. ~Running'
    BY Zenon, <1>4 DEF Panic, Running
  <2> QED
    BY <1>4, <2>1, Panicked
<1>5. CASE /\ ~(table[x].count > 1)
           /\ imap' = imap \ {table[x].nr} /\ Change(x, Empty) /\ Go(t, q)
           /\ raced \subseteq raced'
           /\ UNCHANGED <<syncing, panic>>
  <2>1. table[x].count = 1 /\ Mount(x) = 0
    BY <1>3, <1>5
  <2>2. table[x].nr # Root
    BY <2>1 DEF Mount
  <2>3. /\ IsCall(q) /\ Fit(q, f)
        /\ \A s \in Slot : Sum(q, f, s) + One(x, s) = Sum(r, f, s)
    BY <1>1, <1>2, PutDoneFits
  <2>4. /\ DOMAIN table' = Slot /\ table'[x] = Empty
        /\ \A s \in Slot \ {x} : table'[s] = table[s]
    BY <1>1, <1>3, <1>5 DEF Change, Shapes
  <2>5. Takes(t, q, f)
    BY <1>1, <1>5, <2>3, Goes
  <2> HIDE DEF q, x
  <2>6. Counts(t, q, f)
    <3> SUFFICES ASSUME NEW s \in Slot
                 PROVE  /\ IsInode(table'[s]) /\ table'[s].count \in Nat
                        /\ table'[s].count + Sum(r, f, s)
                             = table[s].count + Sum(q, f, s)
                        /\ table'[s].nr = Root <=> table[s].nr = Root
                        /\ table'[s].count = 0 => ~table'[s].dirt /\ ~table'[s].lock
                        /\ table'[s].nr = 0 => table'[s].count = 0
      BY <2>4 DEF Counts
    <3>1. IsInode(table[s]) /\ table[s].count \in Nat
      BY <1>1, Backed DEF Shapes
    <3>2. table[s].nr = 0 => table[s].count = 0
      BY <1>1, LiveSlots
    <3>3. table[s].count = 0 => ~table[s].dirt /\ ~table[s].lock
      BY <1>1 DEF IdleIsClean, IdleSlots
    <3>4. Sum(q, f, s) \in Nat /\ Sum(q, f, s) + One(x, s) = Sum(r, f, s)
      BY <2>3, SumNat
    <3>5. One(x, s) = IF s = x THEN 1 ELSE 0
      BY DEF One
    <3> QED
      BY <2>1, <2>2, <2>4, <3>1, <3>2, <3>3, <3>4, <3>5, EmptyIs DEF Root
  <2>7. Counting
    <3>1. Running'
      BY Zenon, <1>5 DEF Running
    <3>2. Root \in imap'
      BY <1>1, <1>5, <2>2 DEF Rooted, x
    <3> QED
      BY <1>1, <1>5, <3>1, <3>2 DEF Counting, Shapes
  <2>8. Mapped'
    <3> SUFFICES ASSUME "number" \notin raced'
                 PROVE  /\ \A s \in Slot : table'[s].nr = 0 \/ table'[s].nr \in imap'
                        /\ \A s, y \in Slot : table'[s].nr = table'[y].nr /\ s # y
                                                => table'[s].nr = 0
      BY DEF Mapped, OneSlotPerInode, Unless
    <3>1. /\ \A s \in Slot : table[s].nr = 0 \/ table[s].nr \in imap
          /\ \A s, y \in Slot : table[s].nr = table[y].nr /\ s # y
                                  => table[s].nr = 0
      BY <1>1, <1>5 DEF Mapped, OneSlotPerInode, Unless
    <3>2. imap' = imap \ {table[x].nr}
      BY <1>5 DEF x
    <3> QED
      BY <1>3, <2>4, <3>1, <3>2, EmptyIs DEF x
  <2> QED
    BY <2>5, <2>6, <2>7, <2>8, Stepped
<1>6. \/ Panic("free_inode") \/ Panic("trying to free inode with links")
      \/ /\ ~(table[x].count > 1)
         /\ imap' = imap \ {table[x].nr} /\ Change(x, Empty) /\ Go(t, q)
         /\ raced \subseteq raced'
         /\ UNCHANGED <<syncing, panic>>
  <2>1. \/ Panic("free_inode") \/ Panic("trying to free inode with links")
        \/ /\ ~(table[x].count > 1)
           /\ imap' = imap \ {table[x].nr} /\ Change(x, Empty) /\ Go(t, q)
           /\ \E z : raced' = raced \cup z
           /\ UNCHANGED <<disk, zmap, syncing, panic, leaked>>
    BY Zenon DEF FreeInode
  <2> QED
    BY <2>1
<1> QED
  BY <1>4, <1>5, <1>6

(* The update process.                                                     *)
LEMMA SyncKeeps ==
  ASSUME NamesInv, Running, UNCHANGED <<at, file, imap, raced, panic>>,
         syncing' \in Slot \cup {None},
         NEW x \in Slot, NEW i, IsInode(i), Change(x, i),
         i.nr = table[x].nr, i.count = table[x].count,
         i.count = 0 => ~i.dirt /\ ~i.lock
  PROVE  NamesInv'
<1>1. Live /\ Shapes /\ IdleIsClean /\ Mapped
  BY DEF NamesInv
<1>2. /\ DOMAIN table' = Slot
      /\ \A s \in Slot : /\ table'[s].nr = table[s].nr
                         /\ table'[s].count = table[s].count
                         /\ IsInode(table'[s])
  BY <1>1 DEF Change, Shapes
<1>3. Shapes'
  BY <1>1, <1>2 DEF Shapes
<1>4. IdleIsClean'
  BY <1>1 DEF IdleIsClean, IdleSlots, Change, Shapes
<1>5. Mapped'
  BY <1>1, <1>2, MappedKept
<1>6. Live'
  <2>1. Kept' = Kept
    BY DEF Kept
  <2>2. \A s \in Slot : table'[s].count = Holders(s)' + Mount(s)'
    <3> TAKE s \in Slot
    <3>1. Holders(s)' = Holders(s)
      BY <2>1 DEF Holders
    <3>2. Mount(s)' = Mount(s)
      BY <1>2 DEF Mount
    <3> QED
      BY <1>1, <1>2, <3>1, <3>2, LiveSlots
  <2>3. \A s \in Slot : table'[s].nr = 0 => table'[s].count = 0
    BY <1>1, <1>2 DEF Live
  <2>4. \A t \in Task : IsCall(at'[t]) /\ Fit(at'[t], file'[t])
    BY <1>1 DEF Live
  <2>5. Rooted'
    BY <1>1, <1>2 DEF Live, Rooted
  <2> QED
    BY <2>2, <2>3, <2>4, <2>5 DEF Live, Holders, Mount
<1>7. Running'
  BY Zenon DEF Running
<1> QED
  BY <1>3, <1>4, <1>5, <1>6, <1>7 DEF NamesInv

(* sync_inodes() locks an inode in use: only those are dirty. *)
LEMMA SyncInodeStep ==
  ASSUME NamesInv, Running, NEW s \in Slot, SyncInode(s), UNCHANGED file
  PROVE  NamesInv'
<1> DEFINE i == [table[s] EXCEPT !.lock = TRUE]
<1>1. Shapes /\ IdleIsClean
  BY DEF NamesInv
<1>2. table[s].dirt /\ Change(s, i) /\ syncing' = s
  BY Zenon DEF SyncInode
<1>3. UNCHANGED <<at, file, imap, raced, panic>>
  BY DEF SyncInode
<1>4. IsInode(i) /\ i.nr = table[s].nr /\ i.count = table[s].count
  BY <1>1 DEF Shapes, IsInode
<1>5. table[s].count # 0
  BY <1>1, <1>2 DEF IdleIsClean, IdleSlots
<1> HIDE DEF i
<1> QED
  BY <1>2, <1>3, <1>4, <1>5, SyncKeeps

(* The inode sync_inodes() has written is clean and unlocked. *)
LEMMA SyncDoneStep ==
  ASSUME NamesInv, Running, SyncDone, UNCHANGED file
  PROVE  NamesInv'
<1> DEFINE s == syncing
           i == [table[s] EXCEPT !.dirt = FALSE, !.lock = FALSE]
<1>1. Shapes
  BY DEF NamesInv
<1>2. s # None /\ Change(s, i) /\ syncing' = None
  BY Zenon DEF SyncDone, Written
<1>3. UNCHANGED <<at, file, imap, raced, panic>>
  BY DEF SyncDone
<1>4. s \in Slot
  BY <1>1, <1>2 DEF Shapes
<1>5. IsInode(table[s])
  BY <1>1, <1>4 DEF Shapes
<1>6. IsInode(i) /\ i.nr = table[s].nr /\ i.count = table[s].count
      /\ ~i.dirt /\ ~i.lock
  BY <1>5 DEF IsInode
<1> HIDE DEF i, s
<1> QED
  BY <1>2, <1>3, <1>4, <1>6, SyncKeeps

-----------------------------------------------------------------------------
(* Calls begin, and inodes are brought into slots                          *)
LEMMA EnterFits ==
  ASSUME NEW r, IsCall(r), NoPuts(r), r.then = "user", NEW f \in Slot \cup {None},
         OldIf(r), r.op \in Opening => f = None, NEW x \in Slot, NEW i
  PROVE  LET q == Enter(r, x, i)
         IN /\ IsCall(q) /\ Fit(q, f)
            /\ \A s \in Slot : Sum(q, f, s) =
                 One(x, s) + One(r.old, s) + One(f, s)
<1> DEFINE q == Enter(r, x, i)
<1>1. /\ IsCall(q) /\ q.op = r.op /\ q.path = r.path
      /\ \/ /\ q.pc = "find" /\ q.dir = x /\ q.ino = None
            /\ q.old = r.old /\ q.puts = r.puts /\ q.then = r.then
         \/ /\ q.pc = "put" /\ q.dir = None /\ q.ino = None
            /\ q.old = None /\ q.then = "user"
            /\ q.puts = IF r.op = "link_to" THEN <<x, r.old>> ELSE <<x>>
  BY EnterIs
<1> HIDE DEF q
<1>2. CASE /\ q.pc = "find" /\ q.dir = x /\ q.ino = None
           /\ q.old = r.old /\ q.puts = r.puts /\ q.then = r.then
  <2>1. Fit(q, f)
    BY <1>1, <1>2 DEF Fit, Before, AtPut, NoPuts, HasDir, NoIno, OldIf
  <2>2. \A s \in Slot : Sum(q, f, s) = One(x, s) + One(r.old, s) + One(f, s)
    BY <1>2, SumNone, OneIs DEF NoPuts
  <2> QED
    BY <1>1, <2>1, <2>2 DEF q
<1>3. CASE /\ q.pc = "put" /\ q.dir = None /\ q.ino = None
           /\ q.old = None /\ q.then = "user" /\ q.puts = <<x, r.old>>
           /\ r.op = "link_to"
  <2>0. r.old \in Slot
    BY <1>3 DEF OldIf
  <2>1. Fit(q, f)
    BY <1>3, <2>0 DEF Fit, Before, AtPut, Then, PutsOf, NoDir, NoIno
  <2>2. \A s \in Slot : Sum(q, f, s) = One(x, s) + One(r.old, s) + One(f, s)
    BY <1>3, SumTwoPuts, OneIs
  <2> QED
    BY <1>1, <2>1, <2>2 DEF q
<1>4. CASE /\ q.pc = "put" /\ q.dir = None /\ q.ino = None
           /\ q.old = None /\ q.then = "user" /\ q.puts = <<x>>
           /\ r.op # "link_to"
  <2>0. r.old = None
    BY <1>4 DEF OldIf
  <2>1. Fit(q, f)
    BY <1>4 DEF Fit, Before, AtPut, Then, PutsOf, NoDir, NoIno
  <2>2. \A s \in Slot : Sum(q, f, s) = One(x, s) + One(r.old, s) + One(f, s)
    BY <1>4, <2>0, SumOnePut, OneIs
  <2> QED
    BY <1>1, <2>1, <2>2 DEF q
<1> QED
  BY <1>1, <1>2, <1>3, <1>4

(* A call begins at the root, which it counts once more. *)
LEMMA StartStep ==
  ASSUME NamesInv, Running, NEW t \in Task, NEW op, NEW path, NEW to,
         Start(t, op, path, to), op # "link_to", op \in Opening => file[t] = None
  PROVE  NamesInv'
<1> DEFINE r == at[t]
           f == file[t]
           x == RootSlot
           p == [Idle EXCEPT !.op = op, !.path = path, !.to = to]
           q == Enter(p, x, table[x])
           n == table[x].count + 1
           i == [table[x] EXCEPT !.count = n]
<1>1. /\ IsCall(r) /\ Fit(r, f) /\ Live /\ Shapes /\ Rooted
      /\ f \in Slot \cup {None}
  BY Calling
<1>2. r.pc = "user" /\ UNCHANGED file /\ Go(t, q)
  BY Zenon DEF Start
<1>3. Change(x, i)
  BY DEF Start, WithCount, Change
<1>4. Others
  BY DEF Start, Others, device
<1>5. x \in Slot /\ table[x].nr = Root
  BY <1>1, RootIs
<1>6. /\ IsCall(p) /\ NoPuts(p) /\ p.then = "user" /\ p.op = op /\ p.old = None
  BY DEF IsCall, Idle, NoPuts
<1> HIDE DEF p
<1>7. /\ IsCall(q) /\ Fit(q, f)
      /\ \A s \in Slot : Sum(q, f, s) = One(x, s) + One(None, s) + One(f, s)
  BY <1>1, <1>5, <1>6, EnterFits DEF OldIf
<1> HIDE DEF q
<1>8. IsInode(table[x]) /\ table[x].count \in Nat
  BY <1>1, <1>5, Backed DEF Shapes
<1>9. n \in Nat \ {0} /\ n = table[x].count + 1
  BY <1>8
<1> HIDE DEF n
<1>10. IsInode(i) /\ i.nr = table[x].nr /\ i.count = n
  BY <1>8 DEF IsInode
<1> HIDE DEF i, x
<1>11. ASSUME NEW s \in Slot
       PROVE  (IF s = x THEN i.count ELSE table[s].count) + Sum(r, f, s)
                = table[s].count + Sum(q, f, s)
  <2>1. Sum(q, f, s) = One(x, s) + One(f, s) /\ Sum(r, f, s) = One(f, s)
    BY <1>1, <1>2, <1>7, AtUser, OneIs
  <2>2. /\ One(x, s) = (IF s = x THEN 1 ELSE 0) /\ One(f, s) \in {0, 1}
        /\ table[s].count \in Nat
    BY <1>1, OneIs, Backed DEF One
  <2> QED
    BY <1>9, <1>10, <2>1, <2>2
<1>12. i.nr # 0
  BY <1>5, <1>10 DEF Root
<1> QED
  BY <1>2, <1>3, <1>4, <1>5, <1>7, <1>9, <1>10, <1>11, <1>12, Changed

(* An inode is brought into the idle slot x. *)
LEMMA Brought ==
  ASSUME NamesInv, Running, NEW t \in Task, NEW q, Go(t, q), UNCHANGED file,
         IsCall(q), Fit(q, file[t]), NEW x \in IdleSlots, NEW i, IsInode(i),
         Change(x, i), i.count = 1, i.nr \notin {0, Root},
         \A s \in Slot : Sum(q, file[t], s) = Sum(at[t], file[t], s) + One(x, s),
         imap \subseteq imap', UNCHANGED <<syncing, panic>>, Mapped'
  PROVE  NamesInv'
<1>1. Shapes /\ Live /\ IdleIsClean /\ Rooted
  BY Calling
<1>2. Takes(t, q, file[t])
  BY <1>1, Goes
<1>3. /\ DOMAIN table' = Slot /\ table'[x] = i
      /\ \A s \in Slot \ {x} : table'[s] = table[s]
      /\ x \in Slot /\ table[x].count = 0
  BY <1>1 DEF Change, Shapes, IdleSlots
<1>4. table[x].nr # Root
  <2>1. table[x].count >= Sum(at[t], file[t], x) + Mount(x)
        /\ Sum(at[t], file[t], x) \in Nat
    BY <1>1, <1>3, Backed
  <2> QED
    BY <1>3, <2>1 DEF Mount
<1>5. Counts(t, q, file[t])
  <2> SUFFICES ASSUME NEW s \in Slot
               PROVE  /\ IsInode(table'[s]) /\ table'[s].count \in Nat
                      /\ table'[s].count + Sum(at[t], file[t], s)
                           = table[s].count + Sum(q, file[t], s)
                      /\ table'[s].nr = Root <=> table[s].nr = Root
                      /\ table'[s].count = 0 => ~table'[s].dirt /\ ~table'[s].lock
                      /\ table'[s].nr = 0 => table'[s].count = 0
    BY <1>3 DEF Counts
  <2>1. IsInode(table[s]) /\ table[s].count \in Nat
        /\ Sum(at[t], file[t], s) \in Nat
    BY <1>1, Backed DEF Shapes
  <2>2. table[s].nr = 0 => table[s].count = 0
    BY <1>1, LiveSlots
  <2>3. table[s].count = 0 => ~table[s].dirt /\ ~table[s].lock
    BY <1>1 DEF IdleIsClean, IdleSlots
  <2>4. /\ Sum(q, file[t], s) = Sum(at[t], file[t], s) + One(x, s)
        /\ One(x, s) = IF s = x THEN 1 ELSE 0
    BY DEF One
  <2>5. i.count = 1 /\ i.nr # 0 /\ i.nr # Root /\ IsInode(i)
    OBVIOUS
  <2>6. table'[s].count + Sum(at[t], file[t], s)
          = table[s].count + Sum(q, file[t], s)
    BY <1>3, <2>1, <2>4, <2>5
  <2> QED
    BY <1>3, <1>4, <2>1, <2>2, <2>3, <2>5, <2>6
<1>6. Counting
  <2>1. Running'
    BY Zenon DEF Running
  <2> QED
    BY <1>1, <2>1 DEF Counting, Rooted, Shapes
<1> QED
  BY <1>2, <1>5, <1>6, Stepped

(* What find_first_zero() finds is free. *)
LEMMA LowestFree ==
  ASSUME NEW n \in Nat, NEW map, FreeBits(n, map) # {}
  PROVE  Lowest(FreeBits(n, map)) \in (1..n) \ map
<1>1. FreeBits(n, map) \in SUBSET Nat
  BY DEF FreeBits
<1>2. Lowest(FreeBits(n, map)) \in FreeBits(n, map)
  BY <1>1, MinIn DEF Lowest, Min
<1> QED
  BY <1>2 DEF FreeBits

(* A new inode has one user. *)
LEMMA MadeIs ==
  ASSUME NEW op, NEW nr
  PROVE  LET i == Made(op, nr)
         IN IsInode(i) /\ i.nr = nr /\ i.count = 1
BY DEF Made, Empty, IsInode

(* What is done with a new inode, by new_inode()'s callers. *)
LEMMA MakeInodeStep ==
  ASSUME NamesInv, Running, NEW t \in Task, MakeInode(t)
  PROVE  NamesInv'
<1> DEFINE r == at[t]
           f == file[t]
           nr == Lowest(FreeBits(NrInodes, imap))
           i == Made(r.op, nr)
           b == Lowest(FreeBits(NrBlocks, zmap))
<1>1. /\ IsCall(r) /\ Fit(r, f) /\ Shapes /\ Rooted /\ Mapped
      /\ f \in Slot \cup {None}
  BY Calling
<1>2. r.pc = "find" /\ UNCHANGED file
  BY Zenon DEF MakeInode, Missing
<1>3. r.op \in (Making \cup {"creat"}) \ {"link_to"}
  BY Zenon DEF MakeInode
<1>4. UNCHANGED <<syncing, panic>> /\ UNCHANGED raced
  BY DEF MakeInode, device
<1>5. /\ r.dir \in Slot /\ r.ino = None /\ r.old = None /\ NoPuts(r)
      /\ r.then = "user"
      /\ r.op \in Opening => f = None
      /\ \A s \in Slot : Sum(r, f, s) =
           One(r.dir, s) + One(r.old, s) + One(f, s)
  BY <1>1, <1>2, <1>3, AtFind DEF OldIf
<1>6. CASE Go(t, Release(r, <<r.dir>>, "user")) /\ UNCHANGED <<table, imap>>
  <2> DEFINE q == Release(r, <<r.dir>>, "user")
  <2>1. /\ IsCall(q) /\ Fit(q, f)
        /\ \A s \in Slot : Sum(q, f, s) = One(f, s) + One(r.dir, s)
    BY <1>1, <1>5, ReleaseOne
  <2>2. Go(t, q) /\ UNCHANGED table /\ Others
    BY <1>4, <1>6 DEF Others
  <2> HIDE DEF q
  <2>3. \A s \in Slot : Sum(q, f, s) = Sum(r, f, s)
    BY <1>5, <2>1, OneIs
  <2> QED
    BY <1>2, <2>1, <2>2, <2>3, Moves
<1>7. ASSUME FreeBits(NrInodes, imap) # {}, imap' = imap \cup {nr},
             NEW x \in IdleSlots, Change(x, i), NEW q, Go(t, q),
             IsCall(q), Fit(q, f),
             \A s \in Slot : Sum(q, f, s) = Sum(r, f, s) + One(x, s)
      PROVE  NamesInv'
  <2>1. nr \in 1..NrInodes /\ nr \notin imap
    BY <1>7, LowestFree, DeviceAssumption
  <2>2. IsInode(i) /\ i.nr = nr /\ i.count = 1
    BY MadeIs
  <2>3. nr \notin {0, Root}
    BY <1>1, <2>1 DEF Rooted
  <2>4. /\ DOMAIN table' = Slot /\ table'[x] = i /\ x \in Slot
        /\ \A s \in Slot \ {x} : table'[s] = table[s]
    BY <1>1, <1>7 DEF Change, Shapes, IdleSlots
  <2> HIDE DEF i, nr
  <2>5. Mapped'
    <3> SUFFICES ASSUME "number" \notin raced'
                 PROVE  /\ \A s \in Slot : table'[s].nr = 0 \/ table'[s].nr \in imap'
                        /\ \A s, y \in Slot : table'[s].nr = table'[y].nr /\ s # y
                                                => table'[s].nr = 0
      BY DEF Mapped, OneSlotPerInode, Unless
    <3>1. /\ \A s \in Slot : table[s].nr = 0 \/ table[s].nr \in imap
          /\ \A s, y \in Slot : table[s].nr = table[y].nr /\ s # y
                                  => table[s].nr = 0
      BY <1>1, <1>4 DEF Mapped, OneSlotPerInode, Unless
    <3> QED
      BY <1>7, <2>1, <2>2, <2>3, <2>4, <3>1
  <2> QED
    BY <1>2, <1>4, <1>7, <2>2, <2>3, <2>5, Brought
<1>8. ASSUME FreeBits(NrInodes, imap) # {}, imap' = imap \cup {nr},
             NEW x \in IdleSlots, Change(x, i),
             Go(t, Adding([r EXCEPT !.ino = x], table[r.dir]))
      PROVE  NamesInv'
  <2> DEFINE p == [r EXCEPT !.ino = x]
             q == Adding(p, table[r.dir])
  <2>0. x \in Slot
    BY DEF IdleSlots
  <2>1. /\ IsCall(p) /\ p.ino = x /\ p.dir = r.dir /\ p.old = r.old
        /\ p.puts = r.puts /\ p.then = r.then /\ p.op = r.op
    BY <1>1 DEF IsCall
  <2>2. Go(t, q)
    BY <1>8
  <2> HIDE DEF p
  <2>3. /\ IsCall(q) /\ q.pc = "add" /\ q.ino = x /\ q.dir = r.dir
        /\ q.old = r.old /\ q.puts = r.puts /\ q.then = r.then /\ q.op = r.op
    BY <2>1, AddingIs
  <2> HIDE DEF q
  <2>4. Fit(q, f)
    BY <1>1, <1>3, <1>5, <2>0, <2>3
       DEF Fit, Before, AtPut, NoPuts, HasDir, HasIno, OldIf
  <2>5. ASSUME NEW s \in Slot
        PROVE  Sum(q, f, s) = Sum(r, f, s) + One(x, s)
    <3>1. Sum(q, f, s) = One(q.dir, s) + One(q.ino, s) + One(q.old, s) + One(f, s)
      BY <1>5, <2>3, SumNone DEF NoPuts
    <3> QED
      BY <1>5, <2>3, <3>1, OneIs
  <2> QED
    BY <1>7, <1>8, <2>2, <2>3, <2>4, <2>5
<1>9. ASSUME FreeBits(NrInodes, imap) # {}, imap' = imap \cup {nr},
             NEW x \in IdleSlots, Change(x, i), Go(t, Undoing(r, x))
      PROVE  NamesInv'
  <2> DEFINE q == Undoing(r, x)
  <2>0. x \in Slot
    BY DEF IdleSlots
  <2>1. /\ IsCall(q) /\ Fit(q, f)
        /\ \A s \in Slot : Sum(q, f, s) = One(f, s) + One(r.dir, s) + One(x, s)
    BY <1>1, <1>5, <2>0, UndoingIs
  <2>2. Go(t, q)
    BY <1>9
  <2> HIDE DEF q
  <2>3. \A s \in Slot : Sum(q, f, s) = Sum(r, f, s) + One(x, s)
    BY <1>5, <2>1, OneIs
  <2> QED
    BY <1>7, <1>9, <2>1, <2>2, <2>3
<1>10. ASSUME FreeBits(NrInodes, imap) # {}, imap' = imap \cup {nr},
              NEW x \in IdleSlots, Change(x, i), r.op = "mkdir",
              Go(t, [[r EXCEPT !.ino = x] EXCEPT !.pc = "dots", !.b = b])
       PROVE  NamesInv'
  <2> DEFINE p == [r EXCEPT !.ino = x]
             q == [p EXCEPT !.pc = "dots", !.b = b]
  <2>0. x \in Slot
    BY DEF IdleSlots
  <2> HIDE DEF b
  <2>1. /\ IsCall(p) /\ p.ino = x /\ p.dir = r.dir /\ p.old = r.old
        /\ p.puts = r.puts /\ p.then = r.then /\ p.op = r.op
    BY <1>1 DEF IsCall
  <2>2. Go(t, q)
    BY <1>10
  <2> HIDE DEF p
  <2>3. /\ IsCall(q) /\ q.pc = "dots" /\ q.ino = x /\ q.dir = r.dir
        /\ q.old = r.old /\ q.puts = r.puts /\ q.then = r.then /\ q.op = r.op
    BY <2>1 DEF IsCall
  <2> HIDE DEF q
  <2>4. Fit(q, f)
    BY <1>1, <1>5, <1>10, <2>0, <2>3
       DEF Fit, Before, AtPut, NoPuts, HasDir, HasIno, Opening
  <2>5. ASSUME NEW s \in Slot
        PROVE  Sum(q, f, s) = Sum(r, f, s) + One(x, s)
    <3>1. Sum(q, f, s) = One(q.dir, s) + One(q.ino, s) + One(q.old, s) + One(f, s)
      BY <1>5, <2>3, SumNone DEF NoPuts
    <3> QED
      BY <1>5, <2>3, <3>1, OneIs
  <2> QED
    BY <1>7, <1>10, <2>2, <2>3, <2>4, <2>5
<1>11. \/ Go(t, Release(r, <<r.dir>>, "user")) /\ UNCHANGED <<table, imap>>
       \/ /\ FreeBits(NrInodes, imap) # {} /\ imap' = imap \cup {nr}
          /\ \E x \in IdleSlots :
               /\ Change(x, i)
               /\ \/ Go(t, Adding([r EXCEPT !.ino = x], table[r.dir]))
                  \/ Go(t, Undoing(r, x))
                  \/ /\ r.op = "mkdir"
                     /\ Go(t, [[r EXCEPT !.ino = x] EXCEPT !.pc = "dots", !.b = b])
  <2>1. \/ Go(t, Release(r, <<r.dir>>, "user")) /\ UNCHANGED <<table, imap, zmap>>
        \/ /\ FreeBits(NrInodes, imap) # {} /\ imap' = imap \cup {nr}
           /\ \E x \in IdleSlots :
                /\ Change(x, i)
                /\ \/ Go(t, Adding([r EXCEPT !.ino = x], table[r.dir]))
                   \/ Go(t, Undoing(r, x))
                   \/ /\ r.op = "mkdir"
                      /\ Go(t, [[r EXCEPT !.ino = x] EXCEPT !.pc = "dots", !.b = b])
    BY Zenon DEF MakeInode
  <2> HIDE DEF nr, i, b, r
  <2> QED
    BY <2>1
<1> QED
  BY Zenon, <1>6, <1>8, <1>9, <1>10, <1>11

-----------------------------------------------------------------------------
(* iget() and what comes then                                              *)
Holding(t, x) == One(at[t].dir, x) + One(at[t].old, x) + One(file[t], x)

AtLook(t) ==
  LET r == at[t]
  IN /\ Looking(r) /\ NoPuts(r) /\ r.then = "user"
     /\ r.op \in Opening => file[t] = None

(* The task t has the inode in the slot s of tbl. *)
Reached(t, s, tbl) ==
  /\ AtLook(t)
  /\ s \in Slot /\ DOMAIN tbl = Slot
  /\ \A x \in Slot :
       /\ IsInode(tbl[x]) /\ tbl[x].count \in Nat
       /\ tbl[x].count + Sum(at[t], file[t], x) =
            table[x].count + (Holding(t, x) + One(s, x))
       /\ tbl[x].nr = Root <=> table[x].nr = Root
       /\ tbl[x].nr \in {0, table[x].nr}
       /\ tbl[x].count = 0 => ~tbl[x].dirt /\ ~tbl[x].lock
       /\ tbl[x].nr = 0 => tbl[x].count = 0

(* The inode iget() has reached is counted. *)
LEMMA ReachedCounts ==
  ASSUME NamesInv, Running, NEW t \in Task, NEW s, NEW tbl, Reached(t, s, tbl)
  PROVE  s \in Slot /\ tbl[s].count # 0
<1>1. Live /\ s \in Slot
  BY Calling DEF Reached
<1>2. /\ table[s].count \in Nat /\ Sum(at[t], file[t], s) \in Nat
      /\ table[s].count >= Sum(at[t], file[t], s) + Mount(s) /\ Mount(s) \in Nat
  BY <1>1, Backed
<1>3. /\ tbl[s].count \in Nat
      /\ tbl[s].count + Sum(at[t], file[t], s) =
           table[s].count + (Holding(t, s) + One(s, s))
  BY <1>1 DEF Reached
<1>4. Holding(t, s) \in Nat /\ One(s, s) = 1
  BY DEF Holding, One
<1> QED
  BY <1>1, <1>2, <1>3, <1>4

(* The table after the step is tbl but for what is counted there. *)
Lands(t, s, tbl, q, g) ==
  /\ DOMAIN table' = Slot
  /\ \A x \in Slot :
       /\ IsInode(table'[x]) /\ table'[x].count \in Nat
       /\ table'[x].nr = tbl[x].nr
       /\ table'[x].count + (Holding(t, x) + One(s, x)) =
            tbl[x].count + Sum(q, g, x)
       /\ table'[x].count = 0 => ~table'[x].dirt /\ ~table'[x].lock
       /\ table'[x].nr = 0 => table'[x].count = 0

(* A call that goes on with the inode it has reached and counts right keeps*)
(* the invariant.                                                          *)
LEMMA ArrivesIn ==
  ASSUME NamesInv, Running, NEW t \in Task, NEW s, NEW tbl, Reached(t, s, tbl),
         NEW q, NEW g, Takes(t, q, g), Lands(t, s, tbl, q, g), Others
  PROVE  NamesInv'
<1>1. Live /\ Shapes /\ Rooted /\ Mapped
  BY Calling
<1>2. Counts(t, q, g)
  <2> SUFFICES ASSUME NEW x \in Slot
               PROVE  /\ IsInode(table'[x]) /\ table'[x].count \in Nat
                      /\ table'[x].count + Sum(at[t], file[t], x)
                           = table[x].count + Sum(q, g, x)
                      /\ table'[x].nr = Root <=> table[x].nr = Root
                      /\ table'[x].count = 0 => ~table'[x].dirt /\ ~table'[x].lock
                      /\ table'[x].nr = 0 => table'[x].count = 0
    BY DEF Counts, Lands
  <2>1. /\ tbl[x].count \in Nat
        /\ tbl[x].count + Sum(at[t], file[t], x) =
             table[x].count + (Holding(t, x) + One(s, x))
        /\ tbl[x].nr = Root <=> table[x].nr = Root
    BY DEF Reached
  <2>2. /\ IsInode(table'[x]) /\ table'[x].count \in Nat
        /\ table'[x].nr = tbl[x].nr
        /\ table'[x].count + (Holding(t, x) + One(s, x)) =
             tbl[x].count + Sum(q, g, x)
        /\ table'[x].count = 0 => ~table'[x].dirt /\ ~table'[x].lock
        /\ table'[x].nr = 0 => table'[x].count = 0
    BY DEF Lands
  <2>3. table[x].count \in Nat /\ Sum(at[t], file[t], x) \in Nat
    BY <1>1, Backed
  <2>4. Sum(q, g, x) \in Nat
    BY SumNat
  <2>5. Holding(t, x) \in Nat /\ One(s, x) \in Nat
    BY DEF Holding, One
  <2>6. table'[x].count + Sum(at[t], file[t], x) = table[x].count + Sum(q, g, x)
    BY <2>1, <2>2, <2>3, <2>4, <2>5
  <2> QED
    BY <2>1, <2>2, <2>6
<1>3. Counting
  <2>1. Running'
    BY Zenon DEF Others, Running
  <2> QED
    BY <1>1, <2>1 DEF Counting, Others, Rooted, Shapes
<1>4. Mapped'
  <2>1. \A x \in Slot : table'[x].nr \in {0, table[x].nr}
    BY DEF Lands, Reached
  <2>2. DOMAIN table' = Slot
    BY DEF Lands
  <2> QED
    BY <1>1, <2>1, <2>2, MappedKept DEF Others
<1> QED
  BY <1>2, <1>3, <1>4, Stepped

(* Nothing but the slot s is changed any more. *)
Only(s, i, tbl) ==
  /\ DOMAIN table' = Slot /\ table'[s] = i
  /\ \A x \in Slot \ {s} : table'[x] = tbl[x]

(* The same, where no count changes any more. *)
LEMMA ArrivesSame ==
  ASSUME NamesInv, Running, NEW t \in Task, NEW s, NEW tbl, Reached(t, s, tbl),
         NEW q, NEW g, Takes(t, q, g),
         NEW i, Only(s, i, tbl), IsInode(i),
         i.nr = tbl[s].nr, i.count = tbl[s].count,
         \A x \in Slot : Sum(q, g, x) = Holding(t, x) + One(s, x), Others
  PROVE  NamesInv'
<1>1. s \in Slot /\ tbl[s].count # 0
  BY ReachedCounts
<1>2. Lands(t, s, tbl, q, g)
  <2>1. DOMAIN table' = Slot /\ table'[s] = i
        /\ \A x \in Slot \ {s} : table'[x] = tbl[x]
    BY DEF Only
  <2> SUFFICES ASSUME NEW x \in Slot
               PROVE  /\ IsInode(table'[x]) /\ table'[x].count \in Nat
                      /\ table'[x].nr = tbl[x].nr
                      /\ table'[x].count + (Holding(t, x) + One(s, x)) =
                           tbl[x].count + Sum(q, g, x)
                      /\ table'[x].count = 0 => ~table'[x].dirt /\ ~table'[x].lock
                      /\ table'[x].nr = 0 => table'[x].count = 0
    BY <2>1 DEF Lands
  <2>2. /\ IsInode(tbl[x]) /\ tbl[x].count \in Nat
        /\ tbl[x].count = 0 => ~tbl[x].dirt /\ ~tbl[x].lock
        /\ tbl[x].nr = 0 => tbl[x].count = 0
    BY DEF Reached
  <2>3. Sum(q, g, x) = Holding(t, x) + One(s, x)
    OBVIOUS
  <2> QED
    BY <1>1, <2>1, <2>2, <2>3
<1> QED
  BY <1>2, ArrivesIn

(* What a task in iget() holds. *)
LEMMA LookingIs ==
  ASSUME NamesInv, Running, NEW t \in Task, AtLook(t)
  PROVE  LET r == at[t]
         IN /\ IsCall(r) /\ NoPuts(r) /\ r.then = "user"
            /\ file[t] \in Slot \cup {None} /\ Shapes
            /\ r.op \in Opening => file[t] = None
            /\ OldIf(r)
            /\ IF Final(r) /\ r.op \in Removing THEN r.dir \in Slot ELSE r.dir = None
BY Calling DEF AtLook, Looking, HasDir, NoDir

(* get_dir() enters the directory it has reached. *)
LEMMA WalkOnStep ==
  ASSUME NamesInv, Running, NEW t \in Task, NEW s, NEW tbl, Reached(t, s, tbl),
         WalkOn(t, s, tbl), UNCHANGED <<imap, syncing, panic>>
  PROVE  NamesInv'
<1> DEFINE r == at[t]
           f == file[t]
           p == [r EXCEPT !.path = Tail(@)]
           q == Enter(p, s, tbl[s])
<1>1. /\ IsCall(r) /\ NoPuts(r) /\ r.then = "user"
      /\ f \in Slot \cup {None} /\ Shapes
      /\ r.op \in Opening => f = None
      /\ OldIf(r) /\ s \in Slot
  BY LookingIs DEF Reached
<1>2. ~Final(r) /\ table' = tbl /\ Go(t, q) /\ UNCHANGED file
  BY Zenon DEF WalkOn
<1>3. r.dir = None
  BY <1>2, LookingIs DEF Reached
<1>4. Others
  BY DEF WalkOn, Others
<1>5. /\ IsCall(p) /\ p.op = r.op /\ p.old = r.old /\ p.puts = r.puts
      /\ p.then = r.then
  BY <1>1 DEF IsCall
<1> HIDE DEF p
<1>6. NoPuts(p) /\ OldIf(p)
  BY <1>1, <1>5 DEF NoPuts, OldIf
<1>7. /\ IsCall(q) /\ Fit(q, f)
      /\ \A x \in Slot : Sum(q, f, x) = One(s, x) + One(r.old, x) + One(f, x)
  BY <1>1, <1>5, <1>6, EnterFits
<1> HIDE DEF q
<1>8. Takes(t, q, f)
  BY <1>1, <1>2, <1>7, Goes
<1>9. \A x \in Slot : Sum(q, f, x) = Holding(t, x) + One(s, x)
  BY <1>3, <1>7, OneIs DEF Holding
<1>10. Only(s, tbl[s], tbl) /\ IsInode(tbl[s])
  BY <1>1, <1>2 DEF Reached, Only
<1> QED
  BY <1>4, <1>8, <1>9, <1>10, ArrivesSame

(* namei() has its inode, and it is put. *)
LEMMA GotNameStep ==
  ASSUME NamesInv, Running, NEW t \in Task, NEW s, NEW tbl, Reached(t, s, tbl),
         Final(at[t]), GotName(t, s, tbl), UNCHANGED <<imap, syncing, panic>>
  PROVE  NamesInv'
<1> DEFINE r == at[t]
           f == file[t]
           q == Release(r, <<s>>, "user")
           i == [tbl[s] EXCEPT !.dirt = TRUE]
<1>1. /\ IsCall(r) /\ f \in Slot \cup {None} /\ Shapes
      /\ OldIf(r) /\ s \in Slot
  BY LookingIs DEF Reached
<1>2. r.op \in {"stat", "link"} /\ Go(t, q) /\ UNCHANGED file
  BY DEF GotName
<1>3. Only(s, i, tbl)
  BY <1>1 DEF GotName, Reached, Only
<1>4. r.dir = None /\ r.old = None
  <2>1. r.op \notin Removing /\ r.op # "link_to"
    BY <1>2 DEF Removing
  <2> QED
    BY <1>1, <2>1, LookingIs DEF Reached, OldIf
<1>5. Others
  BY DEF GotName, Others
<1>6. /\ IsCall(q) /\ Fit(q, f)
      /\ \A x \in Slot : Sum(q, f, x) = One(f, x) + One(s, x)
  BY <1>1, ReleaseOne
<1> HIDE DEF q
<1>7. Takes(t, q, f)
  BY <1>1, <1>2, <1>6, Goes
<1>8. \A x \in Slot : Sum(q, f, x) = Holding(t, x) + One(s, x)
  BY <1>4, <1>6, OneIs DEF Holding
<1>9. IsInode(tbl[s])
  BY <1>1 DEF Reached
<1>10. IsInode(i) /\ i.nr = tbl[s].nr /\ i.count = tbl[s].count
  BY <1>9 DEF IsInode
<1> HIDE DEF i
<1> QED
  BY <1>3, <1>5, <1>7, <1>8, <1>10, ArrivesSame

(* sys_link() keeps the old inode and begins at the root again. *)
LEMMA GotOldStep ==
  ASSUME NamesInv, Running, NEW t \in Task, NEW s, NEW tbl, Reached(t, s, tbl),
         Final(at[t]), GotOld(t, s, tbl), UNCHANGED <<imap, syncing, panic>>
  PROVE  NamesInv'
<1> DEFINE r == at[t]
           f == file[t]
           z == RootSlot
           p == [r EXCEPT !.op = "link_to", !.path = r.to, !.old = s]
           i == [tbl[s] EXCEPT !.dirt = TRUE]
           m == [tbl EXCEPT ![s] = i]
           n == m[z].count + 1
           j == [m[z] EXCEPT !.count = n]
           q == Enter(p, z, table'[z])
<1>1. /\ IsCall(r) /\ NoPuts(r) /\ r.then = "user"
      /\ f \in Slot \cup {None} /\ Shapes
      /\ OldIf(r) /\ s \in Slot
  BY LookingIs DEF Reached
<1>2. r.op = "link" /\ UNCHANGED file
  BY DEF GotOld
<1>3. table' = [m EXCEPT ![z] = j]
  BY DEF GotOld, WithCount
<1>4. Go(t, q)
  BY Zenon DEF GotOld
<1>5. Others
  BY DEF GotOld, Others
<1>6. r.dir = None /\ r.old = None
  <2>1. r.op \notin Removing /\ r.op # "link_to"
    BY <1>2 DEF Removing
  <2> QED
    BY <1>1, <2>1, LookingIs DEF Reached, OldIf
<1>7. z \in Slot /\ table[z].nr = Root
  BY RootIs, Calling
<1>8. /\ IsCall(p) /\ p.op = "link_to" /\ p.old = s /\ p.puts = r.puts
      /\ p.then = r.then
  BY <1>1 DEF IsCall
<1> HIDE DEF p
<1>9. /\ IsCall(q) /\ Fit(q, f)
      /\ \A x \in Slot : Sum(q, f, x) = One(z, x) + One(s, x) + One(f, x)
  <2>1. NoPuts(p) /\ OldIf(p) /\ p.op \notin Opening
    BY <1>1, <1>8 DEF NoPuts, OldIf, Opening
  <2> QED
    BY <1>1, <1>7, <1>8, <2>1, EnterFits
<1> HIDE DEF q
<1>10. Takes(t, q, f)
  BY <1>1, <1>2, <1>4, <1>9, Goes
<1>11. Lands(t, s, tbl, q, f)
  <2>1. /\ DOMAIN tbl = Slot /\ IsInode(tbl[s]) /\ tbl[s].count # 0
        /\ tbl[s].count \in Nat
    BY <1>1, ReachedCounts DEF Reached
  <2>2. /\ IsInode(i) /\ i.nr = tbl[s].nr /\ i.count = tbl[s].count
    BY <2>1 DEF IsInode
  <2> HIDE DEF i
  <2>3. /\ DOMAIN m = Slot /\ m[s] = i
        /\ \A x \in Slot \ {s} : m[x] = tbl[x]
    BY <1>1, <2>1
  <2> HIDE DEF m
  <2>4. \A x \in Slot : /\ IsInode(m[x]) /\ m[x].nr = tbl[x].nr
                        /\ m[x].count = tbl[x].count /\ m[x].count \in Nat
                        /\ m[x].count = 0 => ~m[x].dirt /\ ~m[x].lock
                        /\ m[x].nr = 0 => m[x].count = 0
    BY <2>1, <2>2, <2>3 DEF Reached
  <2>5. n \in Nat \ {0} /\ n = m[z].count + 1
    BY <1>7, <2>4
  <2> HIDE DEF n
  <2>6. IsInode(j) /\ j.nr = m[z].nr /\ j.count = n
    BY <1>7, <2>4 DEF IsInode
  <2> HIDE DEF j
  <2>7. /\ DOMAIN table' = Slot /\ table'[z] = j
        /\ \A x \in Slot \ {z} : table'[x] = m[x]
    BY <1>3, <1>7, <2>3
  <2>8. tbl[z].nr = Root
    BY <1>7 DEF Reached
  <2> HIDE DEF z
  <2> SUFFICES ASSUME NEW x \in Slot
               PROVE  /\ IsInode(table'[x]) /\ table'[x].count \in Nat
                      /\ table'[x].nr = tbl[x].nr
                      /\ table'[x].count + (Holding(t, x) + One(s, x)) =
                           tbl[x].count + Sum(q, f, x)
                      /\ table'[x].count = 0 => ~table'[x].dirt /\ ~table'[x].lock
                      /\ table'[x].nr = 0 => table'[x].count = 0
    BY <2>7 DEF Lands
  <2>9. /\ Sum(q, f, x) = One(z, x) + One(s, x) + One(f, x)
        /\ Holding(t, x) = One(f, x)
    BY <1>6, <1>9, OneIs DEF Holding
  <2>10. /\ One(z, x) = (IF x = z THEN 1 ELSE 0)
         /\ One(f, x) \in {0, 1} /\ One(s, x) \in {0, 1}
    BY DEF One
  <2>11. table'[x].count + (Holding(t, x) + One(s, x)) = tbl[x].count + Sum(q, f, x)
    BY <2>4, <2>5, <2>6, <2>7, <2>9, <2>10
  <2> QED
    BY <2>4, <2>5, <2>6, <2>7, <2>8, <2>11 DEF Root
<1> QED
  BY <1>5, <1>10, <1>11, ArrivesIn

(* open_namei() has its inode: it is opened, truncated or put. *)
LEMMA GotFileStep ==
  ASSUME NamesInv, Running, NEW t \in Task, NEW s, NEW tbl, Reached(t, s, tbl),
         Final(at[t]), GotFile(t, s, tbl), UNCHANGED <<imap, syncing, panic>>
  PROVE  NamesInv'
<1> DEFINE r == at[t]
           f == file[t]
<1>1. /\ IsCall(r) /\ NoPuts(r) /\ r.then = "user"
      /\ f \in Slot \cup {None} /\ Shapes
      /\ OldIf(r) /\ s \in Slot
      /\ r.op \in Opening => f = None
  BY LookingIs DEF Reached
<1>2. r.op \in {"open", "trunc", "creat"} /\ table' = tbl
  BY DEF GotFile
<1>3. Only(s, tbl[s], tbl) /\ IsInode(tbl[s])
  BY <1>1, <1>2 DEF Reached, Only
<1>4. r.dir = None /\ r.old = None /\ f = None
  <2>1. r.op \notin Removing /\ r.op # "link_to" /\ r.op \in Opening
    BY <1>2 DEF Removing, Opening
  <2> QED
    BY <1>1, <2>1, LookingIs DEF Reached, OldIf
<1>5. Others
  BY DEF GotFile, Others
<1>6. CASE Go(t, Release(r, <<s>>, "user")) /\ UNCHANGED file
  <2> DEFINE q == Release(r, <<s>>, "user")
  <2>1. /\ IsCall(q) /\ Fit(q, f)
        /\ \A x \in Slot : Sum(q, f, x) = One(f, x) + One(s, x)
    BY <1>1, ReleaseOne
  <2>2. Go(t, q) /\ UNCHANGED file
    BY <1>6
  <2> HIDE DEF q
  <2>3. Takes(t, q, f)
    BY <1>1, <2>1, <2>2, Goes
  <2>4. \A x \in Slot : Sum(q, f, x) = Holding(t, x) + One(s, x)
    BY <1>4, <2>1, OneIs DEF Holding
  <2> QED
    BY <1>3, <1>5, <2>3, <2>4, ArrivesSame
<1>7. CASE /\ r.op = "trunc" /\ UNCHANGED file
           /\ Go(t, [r EXCEPT !.pc = "otrunc", !.ino = s])
  <2> DEFINE q == [r EXCEPT !.pc = "otrunc", !.ino = s]
  <2>1. /\ IsCall(q) /\ q.pc = "otrunc" /\ q.ino = s /\ q.dir = r.dir
        /\ q.old = r.old /\ q.puts = r.puts /\ q.then = r.then /\ q.op = r.op
    BY <1>1 DEF IsCall
  <2>2. Go(t, q) /\ UNCHANGED file
    BY <1>7
  <2> HIDE DEF q
  <2>3. Fit(q, f)
    BY <1>1, <1>4, <1>7, <2>1 DEF Fit, Before, AtPut, NoPuts, NoDir, HasIno
  <2>4. Takes(t, q, f)
    BY <1>1, <2>1, <2>2, <2>3, Goes
  <2>5. \A x \in Slot : Sum(q, f, x) = Holding(t, x) + One(s, x)
    BY <1>1, <1>4, <2>1, SumNone, OneIs DEF Holding, NoPuts
  <2> QED
    BY <1>3, <1>5, <2>4, <2>5, ArrivesSame
<1>8. CASE file' = [file EXCEPT ![t] = s] /\ Go(t, Idle)
  <2>1. /\ IsCall(Idle) /\ Fit(Idle, s)
        /\ \A x \in Slot : Sum(Idle, s, x) = One(s, x)
    BY <1>1, IdleFits
  <2>2. Takes(t, Idle, s)
    BY <1>1, <1>8, <2>1, Opens
  <2>3. \A x \in Slot : Sum(Idle, s, x) = Holding(t, x) + One(s, x)
    BY <1>4, <2>1, OneIs DEF Holding
  <2> QED
    BY <1>3, <1>5, <2>2, <2>3, ArrivesSame
<1> QED
  BY Zenon, <1>6, <1>7, <1>8 DEF GotFile

(* sys_unlink() takes a link away and puts both inodes. *)
LEMMA GotUnlinkedStep ==
  ASSUME NamesInv, Running, NEW t \in Task, NEW s, NEW tbl, Reached(t, s, tbl),
         Final(at[t]), GotUnlinked(t, s, tbl), UNCHANGED <<imap, syncing, panic>>
  PROVE  NamesInv'
<1> DEFINE r == at[t]
           f == file[t]
           n == IF tbl[s].nlinks = 0 THEN 0 ELSE tbl[s].nlinks - 1
           i == [tbl[s] EXCEPT !.nlinks = n, !.dirt = TRUE]
<1>1. /\ IsCall(r) /\ f \in Slot \cup {None} /\ Shapes
      /\ OldIf(r) /\ s \in Slot
  BY LookingIs DEF Reached
<1>2. r.op = "unlink" /\ UNCHANGED file
  BY Zenon DEF GotUnlinked
<1>3. r.dir \in Slot /\ r.old = None
  <2>1. r.op \in Removing /\ r.op # "link_to"
    BY <1>2 DEF Removing
  <2> QED
    BY <1>1, <2>1, LookingIs DEF Reached, OldIf
<1>4. Others
  <2>1. raced \subseteq raced'
    BY DEF GotUnlinked
  <2> QED
    BY <2>1 DEF Others
<1>5. PICK q : /\ Go(t, q) /\ IsCall(q) /\ Fit(q, f)
               /\ \A x \in Slot :
                    Sum(q, f, x) = One(f, x) + One(s, x) + One(r.dir, x)
  <2>1. CASE Go(t, Release(r, <<s, r.dir>>, "user"))
    BY <1>1, <1>3, <2>1, ReleaseTwo
  <2>2. CASE Go(t, ReleaseHolding(r, <<s, r.dir>>, r.e[1]))
    BY <1>1, <1>3, <2>2, HoldingTwo
  <2> QED
    BY Zenon, <2>1, <2>2 DEF GotUnlinked
<1>6. Takes(t, q, f)
  BY <1>1, <1>2, <1>5, Goes
<1>7. \A x \in Slot : Sum(q, f, x) = Holding(t, x) + One(s, x)
  BY <1>3, <1>5, OneIs DEF Holding
<1>8. IsInode(tbl[s]) /\ DOMAIN tbl = Slot
  BY <1>1 DEF Reached
<1>9. CASE table' = tbl
  <2>1. Only(s, tbl[s], tbl)
    BY <1>8, <1>9 DEF Only
  <2> QED
    BY <1>4, <1>6, <1>7, <1>8, <2>1, ArrivesSame
<1>10. CASE table' = [tbl EXCEPT ![s].nlinks = IF @ = 0 THEN 0 ELSE @ - 1,
                                 ![s].dirt = TRUE]
  <2>1. Only(s, i, tbl)
    BY <1>1, <1>8, <1>10 DEF Only, IsInode
  <2> HIDE DEF n
  <2>2. IsInode(i) /\ i.nr = tbl[s].nr /\ i.count = tbl[s].count
    BY <1>8 DEF IsInode
  <2> HIDE DEF i
  <2> QED
    BY <1>4, <1>6, <1>7, <2>1, <2>2, ArrivesSame
<1> QED
  BY <1>9, <1>10 DEF GotUnlinked

(* sys_rmdir() goes on to empty_dir(), or puts both inodes. *)
LEMMA GotDirStep ==
  ASSUME NamesInv, Running, NEW t \in Task, NEW s, NEW tbl, Reached(t, s, tbl),
         Final(at[t]), GotDir(t, s, tbl), UNCHANGED <<imap, syncing, panic>>
  PROVE  NamesInv'
<1> DEFINE r == at[t]
           f == file[t]
           e == [r EXCEPT !.pc = "empty", !.ino = s, !.k = 1,
                          !.b = tbl[s].zones[1], !.n = tbl[s].size]
<1>1. /\ IsCall(r) /\ f \in Slot \cup {None} /\ Shapes
      /\ NoPuts(r) /\ r.then = "user" /\ OldIf(r) /\ s \in Slot
  BY LookingIs DEF Reached
<1>2. r.op = "rmdir" /\ table' = tbl /\ UNCHANGED file
  BY Zenon DEF GotDir
<1>3. r.dir \in Slot /\ r.old = None
  <2>1. r.op \in Removing /\ r.op # "link_to"
    BY <1>2 DEF Removing
  <2> QED
    BY <1>1, <2>1, LookingIs DEF Reached, OldIf
<1>4. Others
  BY DEF GotDir, Others
<1>5. Only(s, tbl[s], tbl) /\ IsInode(tbl[s])
  BY <1>1, <1>2 DEF Reached, Only
<1>6. ASSUME NEW a \in Slot, NEW b \in Slot, Go(t, ReleaseHolding(r, <<a, b>>, r.e[1])),
             {a, b} = {s, r.dir}, a = s => b = r.dir, a = r.dir => b = s
      PROVE  NamesInv'
  <2> DEFINE q == ReleaseHolding(r, <<a, b>>, r.e[1])
  <2>1. /\ IsCall(q) /\ Fit(q, f)
        /\ \A x \in Slot : Sum(q, f, x) = One(f, x) + One(a, x) + One(b, x)
    BY <1>1, HoldingTwo
  <2>2. Go(t, q)
    BY <1>6
  <2> HIDE DEF q
  <2>3. Takes(t, q, f)
    BY <1>1, <1>2, <2>1, <2>2, Goes
  <2>4. \A x \in Slot : Sum(q, f, x) = Holding(t, x) + One(s, x)
    <3> TAKE x \in Slot
    <3>1. Sum(q, f, x) = One(f, x) + One(a, x) + One(b, x)
      BY <2>1
    <3>2. Holding(t, x) = One(r.dir, x) + One(f, x)
      BY <1>3, OneIs DEF Holding
    <3>3. One(a, x) + One(b, x) = One(s, x) + One(r.dir, x)
      <4>1. (a = s /\ b = r.dir) \/ (a = r.dir /\ b = s)
        BY <1>6
      <4> QED
        BY <4>1, OneIs
    <3> QED
      BY <3>1, <3>2, <3>3, OneIs
  <2> QED
    BY <1>4, <1>5, <2>3, <2>4, ArrivesSame
<1>7. CASE Go(t, e)
  <2>1. /\ IsCall(e) /\ e.pc = "empty" /\ e.ino = s /\ e.dir = r.dir
        /\ e.old = r.old /\ e.puts = r.puts /\ e.then = r.then /\ e.op = r.op
    BY <1>1 DEF IsCall
  <2>2. Go(t, e)
    BY <1>7
  <2> HIDE DEF e
  <2>3. Fit(e, f)
    BY <1>1, <1>3, <2>1 DEF Fit, Before, AtPut, NoPuts, HasDir, HasIno
  <2>4. Takes(t, e, f)
    BY <1>1, <1>2, <2>1, <2>2, <2>3, Goes
  <2>5. \A x \in Slot : Sum(e, f, x) = Holding(t, x) + One(s, x)
    BY <1>1, <1>3, <2>1, SumNone, OneIs DEF Holding, NoPuts
  <2> QED
    BY <1>4, <1>5, <2>4, <2>5, ArrivesSame
<1>8. \/ Go(t, ReleaseHolding(r, <<r.dir, s>>, r.e[1]))
      \/ Go(t, ReleaseHolding(r, <<s, r.dir>>, r.e[1]))
      \/ Go(t, e)
  BY Zenon DEF GotDir
<1> QED
  BY <1>1, <1>3, <1>6, <1>7, <1>8

(* Whatever call has reached the inode. *)
LEMMA ArrivedStep ==
  ASSUME NamesInv, Running, NEW t \in Task, NEW s, NEW tbl, Reached(t, s, tbl),
         Arrived(t, s, tbl), UNCHANGED <<imap, syncing, panic>>
  PROVE  NamesInv'
<1>1. CASE WalkOn(t, s, tbl)
  BY <1>1, WalkOnStep
<1>2. CASE Final(at[t]) /\ GotName(t, s, tbl)
  BY <1>2, GotNameStep
<1>3. CASE Final(at[t]) /\ GotOld(t, s, tbl)
  BY <1>3, GotOldStep
<1>4. CASE Final(at[t]) /\ GotFile(t, s, tbl)
  BY <1>4, GotFileStep
<1>5. CASE Final(at[t]) /\ GotUnlinked(t, s, tbl)
  BY <1>5, GotUnlinkedStep
<1>6. CASE Final(at[t]) /\ GotDir(t, s, tbl)
  BY <1>6, GotDirStep
<1> QED
  BY <1>1, <1>2, <1>3, <1>4, <1>5, <1>6 DEF Arrived

(* What Live says of a slot, in one place. *)
LEMMA SlotIs ==
  ASSUME NamesInv, Running, NEW t \in Task, NEW x \in Slot
  PROVE  /\ IsInode(table[x]) /\ table[x].count \in Nat
         /\ table[x].count = 0 => ~table[x].dirt /\ ~table[x].lock
         /\ table[x].nr = 0 => table[x].count = 0
         /\ table[x].nr = Root => table[x].count # 0
<1>1. Live /\ Shapes /\ IdleIsClean
  BY Calling
<1>2. /\ table[x].count \in Nat /\ Sum(at[t], file[t], x) \in Nat
      /\ table[x].count >= Sum(at[t], file[t], x) + Mount(x)
  BY <1>1, Backed
<1>3. table[x].nr = Root => table[x].count # 0
  BY <1>2 DEF Mount
<1>4. table[x].count = 0 => ~table[x].dirt /\ ~table[x].lock
  BY <1>1 DEF IdleIsClean, IdleSlots
<1>5. table[x].nr = 0 => table[x].count = 0
  BY <1>1, LiveSlots
<1> QED
  BY <1>1, <1>2, <1>3, <1>4, <1>5 DEF Shapes

(* iget() finds the inode and counts it, or takes an empty slot for it. *)
LEMMA IgetStep ==
  ASSUME NamesInv, Running, NEW t \in Task, Iget(t)
  PROVE  NamesInv'
<1> DEFINE r == at[t]
           f == file[t]
<1>1. /\ IsCall(r) /\ Fit(r, f) /\ Live /\ Shapes /\ Rooted /\ Mapped
      /\ f \in Slot \cup {None}
  BY Calling
<1>2. r.pc = "iget" /\ UNCHANGED <<imap, syncing, panic>>
  BY Zenon DEF Iget, device
<1>3. /\ r.ino = None /\ AtLook(t) /\ r.nr # 0 /\ NoPuts(r)
  BY <1>1, <1>2 DEF Fit, Before, AtPut, NoIno, AtLook, Looking
<1>4. \A x \in Slot : Sum(r, f, x) = Holding(t, x)
  BY <1>3, SumNone, OneIs DEF Holding
<1>5. PICK spare \in IdleSlots :
        LET tbl == [table EXCEPT ![spare] = Empty]
            there == There(tbl, r.nr)
        IN \/ \E s \in there : Arrived(t, s, WithCount(tbl, s, 1))
           \/ /\ there = {}
              /\ table' = [tbl EXCEPT ![spare] =
                             [Empty EXCEPT !.nr = r.nr, !.count = 1, !.lock = TRUE]]
              /\ Go(t, [r EXCEPT !.pc = "read", !.ino = spare])
              /\ raced' = raced \cup Gone(t)
              /\ UNCHANGED file
  BY Zenon DEF Iget
<1> DEFINE m == [table EXCEPT ![spare] = Empty]
<1>6. /\ spare \in Slot /\ table[spare].count = 0 /\ table[spare].nr # Root
  BY SlotIs DEF IdleSlots
<1>7. /\ DOMAIN m = Slot /\ m[spare] = Empty
      /\ \A x \in Slot \ {spare} : m[x] = table[x]
  BY <1>1, <1>6 DEF Shapes
<1>8. ASSUME NEW s \in There(m, r.nr), Arrived(t, s, WithCount(m, s, 1))
      PROVE  NamesInv'
  <2> HIDE DEF m
  <2> DEFINE n == m[s].count + 1
             i == [m[s] EXCEPT !.count = n]
             tbl == WithCount(m, s, 1)
  <2>1. s \in Slot /\ m[s].nr = r.nr
    BY <1>8 DEF There
  <2>2. s # spare /\ m[s] = table[s]
    BY <1>3, <1>7, <2>1, EmptyIs
  <2>3. n \in Nat \ {0} /\ n = table[s].count + 1 /\ IsInode(m[s])
    BY <2>1, <2>2, SlotIs
  <2>4. tbl = [m EXCEPT ![s] = i]
    BY DEF WithCount
  <2> HIDE DEF n
  <2>5. IsInode(i) /\ i.nr = table[s].nr /\ i.count = n
    BY <2>2, <2>3 DEF IsInode
  <2> HIDE DEF i
  <2>6. /\ DOMAIN tbl = Slot /\ tbl[s] = i
        /\ \A x \in Slot \ {s} : tbl[x] = m[x]
    BY <1>7, <2>1, <2>4
  <2> HIDE DEF tbl
  <2>7. Reached(t, s, tbl)
    <3> SUFFICES ASSUME NEW x \in Slot
                 PROVE  /\ IsInode(tbl[x]) /\ tbl[x].count \in Nat
                        /\ tbl[x].count + Sum(at[t], file[t], x) =
                             table[x].count + (Holding(t, x) + One(s, x))
                        /\ tbl[x].nr = Root <=> table[x].nr = Root
                        /\ tbl[x].nr \in {0, table[x].nr}
                        /\ tbl[x].count = 0 => ~tbl[x].dirt /\ ~tbl[x].lock
                        /\ tbl[x].nr = 0 => tbl[x].count = 0
      BY <1>3, <2>1, <2>6 DEF Reached
    <3>1. /\ IsInode(table[x]) /\ table[x].count \in Nat
          /\ table[x].count = 0 => ~table[x].dirt /\ ~table[x].lock
          /\ table[x].nr = 0 => table[x].count = 0
      BY SlotIs
    <3>2. /\ IsInode(tbl[x]) /\ tbl[x].count \in Nat
          /\ tbl[x].count = table[x].count + One(s, x)
      BY <1>6, <1>7, <2>2, <2>3, <2>5, <2>6, <3>1, EmptyIs DEF One
    <3>3. /\ tbl[x].nr = Root <=> table[x].nr = Root
          /\ tbl[x].nr \in {0, table[x].nr}
          /\ tbl[x].count = 0 => ~tbl[x].dirt /\ ~tbl[x].lock
          /\ tbl[x].nr = 0 => tbl[x].count = 0
      <4>1. CASE x = s
        <5>1. table[s].nr # 0
          BY <1>3, <2>1, <2>2
        <5> QED
          BY <2>3, <2>5, <2>6, <4>1, <5>1
      <4>2. CASE x = spare
        BY <1>6, <1>7, <2>2, <2>6, <4>2, EmptyIs DEF Root
      <4>3. CASE x # s /\ x # spare
        <5>1. tbl[x] = table[x]
          BY <1>7, <2>6, <4>3
        <5> QED
          BY <3>1, <5>1
      <4> QED
        BY <4>1, <4>2, <4>3
    <3>4. Sum(r, f, x) = Holding(t, x) /\ Holding(t, x) \in Nat /\ One(s, x) \in Nat
      BY <1>4 DEF Holding, One
    <3> QED
      BY <3>1, <3>2, <3>3, <3>4
  <2>8. Arrived(t, s, tbl)
    BY <1>8 DEF tbl
  <2> QED
    BY <1>2, <2>7, <2>8, ArrivedStep
<1>9. CASE /\ There(m, r.nr) = {}
           /\ table' = [m EXCEPT ![spare] =
                          [Empty EXCEPT !.nr = r.nr, !.count = 1, !.lock = TRUE]]
           /\ Go(t, [r EXCEPT !.pc = "read", !.ino = spare])
           /\ raced' = raced \cup Gone(t)
           /\ UNCHANGED file
  <2> DEFINE i == [Empty EXCEPT !.nr = r.nr, !.count = 1, !.lock = TRUE]
             q == [r EXCEPT !.pc = "read", !.ino = spare]
  <2>1. table' = [table EXCEPT ![spare] = i]
    BY <1>9
  <2>2. Go(t, q)
    BY <1>9
  <2>3. IsInode(i) /\ i.nr = r.nr /\ i.count = 1
    BY DEF Empty, IsInode
  <2>4. /\ IsCall(q) /\ q.pc = "read" /\ q.ino = spare /\ q.dir = r.dir
        /\ q.old = r.old /\ q.puts = r.puts /\ q.then = r.then /\ q.op = r.op
        /\ q.path = r.path /\ q.nr = r.nr
    BY <1>1 DEF IsCall
  <2> HIDE DEF q, i
  <2>5. Fit(q, f)
    BY <1>1, <1>3, <1>6, <2>4
       DEF Fit, Before, AtPut, NoPuts, HasIno, Looking, AtLook, Final, OldIf,
           HasDir, NoDir
  <2>6. \A x \in Slot : Sum(q, f, x) = Sum(r, f, x) + One(spare, x)
    <3> TAKE x \in Slot
    <3>1. Sum(q, f, x) = One(q.dir, x) + One(q.ino, x) + One(q.old, x) + One(f, x)
      BY <1>3, <2>4, SumNone DEF NoPuts
    <3> QED
      BY <1>4, <2>4, <3>1, OneIs DEF Holding
  <2>7. \A x \in Slot \ {spare} : table[x].nr # r.nr
    BY <1>7, <1>9 DEF There
  <2>8. r.nr # Root
    <3>1. RootSlot \in Slot /\ table[RootSlot].nr = Root
      BY <1>1, RootIs
    <3> QED
      BY <1>6, <2>7, <3>1
  <2>9. /\ table'[spare] = i
        /\ \A x \in Slot \ {spare} : table'[x] = table[x]
    BY <1>1, <1>6, <2>1 DEF Shapes
  <2>10. Mapped'
    <3> SUFFICES ASSUME "number" \notin raced'
                 PROVE  /\ \A x \in Slot : table'[x].nr = 0 \/ table'[x].nr \in imap'
                        /\ \A x, y \in Slot : table'[x].nr = table'[y].nr /\ x # y
                                                => table'[x].nr = 0
      BY DEF Mapped, OneSlotPerInode, Unless
    <3>1. "number" \notin raced /\ "number" \notin Gone(t)
      BY <1>9
    <3>2. r.nr \in imap
      BY <3>1 DEF Gone
    <3>3. /\ \A x \in Slot : table[x].nr = 0 \/ table[x].nr \in imap
          /\ \A x, y \in Slot : table[x].nr = table[y].nr /\ x # y
                                  => table[x].nr = 0
      BY <1>1, <3>1 DEF Mapped, OneSlotPerInode, Unless
    <3> QED
      BY <1>2, <2>3, <2>7, <2>9, <3>2, <3>3
  <2>11. Change(spare, i) /\ UNCHANGED file
    BY <1>9, <2>1 DEF Change
  <2> QED
    BY <1>2, <1>3, <2>2, <2>3, <2>4, <2>5, <2>6, <2>8, <2>10, <2>11, Brought
<1> QED
  BY <1>5, <1>8, <1>9

(* read_inode() ends, and the call goes on. *)
LEMMA ReadInodeStep ==
  ASSUME NamesInv, Running, NEW t \in Task, ReadInode(t)
  PROVE  NamesInv'
<1> DEFINE r == at[t]
           f == file[t]
           s == r.ino
           d == disk[table[s].nr]
           i == [FromDisk(table[s], d) EXCEPT !.lock = FALSE]
           tbl == [table EXCEPT ![s] = i]
<1>1. /\ IsCall(r) /\ Fit(r, f) /\ Live /\ Shapes /\ f \in Slot \cup {None}
  BY Calling
<1>2. r.pc = "read" /\ UNCHANGED <<imap, syncing, panic>> /\ Arrived(t, s, tbl)
  BY Zenon DEF ReadInode, device
<1>3. /\ s \in Slot /\ AtLook(t) /\ NoPuts(r)
  BY <1>1, <1>2 DEF Fit, Before, AtPut, HasIno, AtLook
<1>4. \A x \in Slot : Sum(r, f, x) = Holding(t, x) + One(s, x)
  BY <1>3, SumNone, OneIs DEF Holding
<1>5. table[s].count # 0
  BY <1>1, <1>3, HeldCounts
<1>6. IsInode(i) /\ i.nr = table[s].nr /\ i.count = table[s].count
  <2>1. IsInode(table[s])
    BY <1>1, <1>3 DEF Shapes
  <2> HIDE DEF d
  <2> QED
    BY <2>1 DEF IsInode, FromDisk
<1> HIDE DEF i
<1>7. /\ DOMAIN tbl = Slot /\ tbl[s] = i
      /\ \A x \in Slot \ {s} : tbl[x] = table[x]
  BY <1>1, <1>3 DEF Shapes
<1> HIDE DEF tbl
<1>8. Reached(t, s, tbl)
  <2> SUFFICES ASSUME NEW x \in Slot
               PROVE  /\ IsInode(tbl[x]) /\ tbl[x].count \in Nat
                      /\ tbl[x].count + Sum(at[t], file[t], x) =
                           table[x].count + (Holding(t, x) + One(s, x))
                      /\ tbl[x].nr = Root <=> table[x].nr = Root
                      /\ tbl[x].nr \in {0, table[x].nr}
                      /\ tbl[x].count = 0 => ~tbl[x].dirt /\ ~tbl[x].lock
                      /\ tbl[x].nr = 0 => tbl[x].count = 0
    BY <1>3, <1>7 DEF Reached
  <2>1. /\ IsInode(table[x]) /\ table[x].count \in Nat
        /\ table[x].count = 0 => ~table[x].dirt /\ ~table[x].lock
        /\ table[x].nr = 0 => table[x].count = 0
    BY SlotIs
  <2>2. Sum(r, f, x) = Holding(t, x) + One(s, x)
    BY <1>4
  <2>3. CASE x = s
    BY <1>5, <1>6, <1>7, <2>1, <2>2, <2>3
  <2>4. CASE x # s
    <3>1. tbl[x] = table[x]
      BY <1>7, <2>4
    <3> QED
      BY <2>1, <2>2, <3>1
  <2> QED
    BY <2>3, <2>4
<1> QED
  BY <1>2, <1>8, ArrivedStep

-----------------------------------------------------------------------------
(* The initial states: the root inode and, if there is one, the inode that *)
(* every task has open.                                                    *)
Opened(d) == d.open # None

FirstInode(d, r, x) ==
  FromDisk([Empty EXCEPT !.nr = IF x = r THEN Root ELSE d.open,
                         !.count = IF x = r THEN 1 ELSE Cardinality(Task)],
           d.inodes[IF x = r THEN Root ELSE d.open])

FirstTable(d, r, s) ==
  table = [x \in Slot |-> IF x \in (IF Opened(d) THEN {r, s} ELSE {r})
                          THEN FirstInode(d, r, x) ELSE Empty]

First(d, r, s) ==
  /\ Opened(d) <=> r # s
  /\ imap = {n \in Ino : d.inodes[n].nlinks > 0}
  /\ FirstTable(d, r, s)
  /\ at = [t \in Task |-> Idle]
  /\ file = [t \in Task |-> IF Opened(d) THEN s ELSE None]
  /\ syncing = None /\ Running

InitOf(d, r, s) ==
  LET opened == d.open # None
      count == [x \in Slot |-> IF x = r THEN 1 ELSE Cardinality(Task)]
      nr == [x \in Slot |-> IF x = r THEN Root ELSE d.open]
      used == IF opened THEN {r, s} ELSE {r}
  IN /\ opened <=> r # s
     /\ disk = d.inodes /\ blocks = d.blocks
     /\ imap = {n \in Ino : d.inodes[n].nlinks > 0}
     /\ zmap = UNION {Range(d.inodes[n].zones) : n \in imap}
     /\ table = [x \in Slot |->
                  IF x \in used
                  THEN FromDisk(
                         [Empty EXCEPT !.nr = nr[x], !.count = count[x]],
                         d.inodes[nr[x]])
                  ELSE Empty]
     /\ at = [t \in Task |-> Idle]
     /\ file = [t \in Task |-> IF opened THEN s ELSE None]
     /\ leaked = {} /\ syncing = None /\ raced = {} /\ panic = "" /\ calls = 0

(* The parts of Init that matter here. *)
LEMMA InitIs ==
  ASSUME Init
  PROVE  \E d \in Disks, r, s \in Slot : First(d, r, s)
<1>1. PICK d \in Disks, r, s \in Slot : InitOf(d, r, s)
  BY Zenon DEF Init, InitOf
<1> DEFINE count == [x \in Slot |-> IF x = r THEN 1 ELSE Cardinality(Task)]
           nr == [x \in Slot |-> IF x = r THEN Root ELSE d.open]
           used == IF Opened(d) THEN {r, s} ELSE {r}
<1>2. Opened(d) <=> r # s
  BY Zenon, <1>1 DEF InitOf, Opened
<1>3. imap = {n \in Ino : d.inodes[n].nlinks > 0} /\ syncing = None
  BY Zenon, <1>1 DEF InitOf
<1>4. table = [x \in Slot |->
                 IF x \in used
                 THEN FromDisk([Empty EXCEPT !.nr = nr[x], !.count = count[x]],
                               d.inodes[nr[x]])
                 ELSE Empty]
  BY Zenon, <1>1 DEF InitOf, Opened
<1>5. at = [t \in Task |-> Idle] /\ file = [t \in Task |-> IF Opened(d) THEN s ELSE None]
  BY Zenon, <1>1 DEF InitOf, Opened
<1>6. Running
  BY Zenon, <1>1 DEF InitOf, Running
<1>7. FirstTable(d, r, s)
  <2>1. \A x \in Slot :
          FromDisk([Empty EXCEPT !.nr = nr[x], !.count = count[x]],
                   d.inodes[nr[x]]) = FirstInode(d, r, x)
    <3> TAKE x \in Slot
    <3>1. /\ nr[x] = IF x = r THEN Root ELSE d.open
          /\ count[x] = IF x = r THEN 1 ELSE Cardinality(Task)
      OBVIOUS
    <3> HIDE DEF nr, count
    <3> QED
      BY Zenon, <3>1 DEF FirstInode
  <2> HIDE DEF nr, count
  <2> DEFINE g(x) == FromDisk([Empty EXCEPT !.nr = nr[x], !.count = count[x]],
                              d.inodes[nr[x]])
  <2>2. table = [x \in Slot |-> IF x \in used THEN g(x) ELSE Empty]
    BY Zenon, <1>4
  <2>3. \A x \in Slot : g(x) = FirstInode(d, r, x)
    BY Zenon, <2>1
  <2> HIDE DEF g
  <2> QED
    BY <2>2, <2>3 DEF FirstTable
<1> QED
  BY Zenon, <1>1, <1>2, <1>3, <1>5, <1>6, <1>7 DEF First

(* What each slot has then. *)
LEMMA FirstSlots ==
  ASSUME NEW d \in Disks, NEW r \in Slot, NEW s \in Slot, First(d, r, s),
         NEW x \in Slot
  PROVE  /\ IsInode(table[x]) /\ table[x].dirt = FALSE /\ table[x].lock = FALSE
         /\ x = r => table[x].nr = Root /\ table[x].count = 1
         /\ x # r /\ Opened(d) /\ x = s =>
              table[x].nr = d.open /\ table[x].count = Cardinality(Task)
         /\ x # r /\ ~(Opened(d) /\ x = s) => table[x].nr = 0 /\ table[x].count = 0
<1>1. table[x] = IF x \in (IF Opened(d) THEN {r, s} ELSE {r})
                 THEN FirstInode(d, r, x) ELSE Empty
  BY Zenon DEF First, FirstTable
<1>2. x \in (IF Opened(d) THEN {r, s} ELSE {r}) <=> x = r \/ (Opened(d) /\ x = s)
  OBVIOUS
<1>3. CASE x = r \/ (Opened(d) /\ x = s)
  <2>1. table[x] = FirstInode(d, r, x)
    BY Zenon, <1>1, <1>2, <1>3
  <2> DEFINE nr == IF x = r THEN Root ELSE d.open
             n == IF x = r THEN 1 ELSE Cardinality(Task)
             e == [Empty EXCEPT !.nr = nr, !.count = n]
             i == FromDisk(e, d.inodes[nr])
  <2>2. IsInode(e) /\ e.nr = nr /\ e.count = n /\ e.dirt = FALSE /\ e.lock = FALSE
    BY DEF Empty, IsInode
  <2>3. table[x] = i
    BY Zenon, <2>1 DEF FirstInode
  <2> HIDE DEF e
  <2>4. IsInode(i) /\ i.nr = e.nr /\ i.count = e.count /\ i.dirt = e.dirt
        /\ i.lock = e.lock
    BY <2>2 DEF FromDisk, IsInode
  <2> HIDE DEF i
  <2> QED
    BY <1>3, <2>2, <2>3, <2>4
<1>4. CASE ~(x = r \/ (Opened(d) /\ x = s))
  <2>1. table[x] = Empty
    BY Zenon, <1>1, <1>2, <1>4
  <2> QED
    BY <1>4, <2>1, EmptyIs
<1> QED
  BY <1>3, <1>4

(* Nobody holds anything but the inode that all have open.                 *)
LEMMA FirstHolders ==
  ASSUME NEW d \in Disks, NEW r \in Slot, NEW s \in Slot, First(d, r, s),
         NEW x \in Slot
  PROVE  Holders(x) = IF Opened(d) /\ x = s THEN Cardinality(Task) ELSE 0
<1> DEFINE held == {y \in Task \X Keeping : Kept[y[1]][y[2]] = x}
           f == IF Opened(d) THEN s ELSE None
<1>1. \A t \in Task, a \in Keeping :
        Kept[t][a] = x <=> a = "file" /\ Opened(d) /\ x = s
  <2> TAKE t \in Task, a \in Keeping
  <2>1. Kept[t] = KeptBy(Idle, f)
    BY DEF First, Kept
  <2> HIDE DEF f
  <2>2. /\ KeptBy(Idle, f).dir = None /\ KeptBy(Idle, f).ino = None
        /\ KeptBy(Idle, f).old = None /\ KeptBy(Idle, f).file = f
        /\ KeptBy(Idle, f).put = None /\ KeptBy(Idle, f).last = None
    BY IdleIs DEF KeptBy
  <2>3. x # None
    BY DeviceAssumption
  <2>4. f = x <=> Opened(d) /\ x = s
    BY <2>3 DEF f
  <2>5. CASE a = "file"
    BY <2>1, <2>2, <2>4, <2>5
  <2>6. CASE a # "file"
    BY <2>1, <2>2, <2>3, <2>6 DEF Keeping
  <2> QED
    BY <2>5, <2>6
<1>2. CASE Opened(d) /\ x = s
  <2>1. held = Task \X {"file"}
    BY <1>1, <1>2 DEF Keeping
  <2>2. IsFiniteSet({"file"}) /\ Cardinality({"file"}) = 1
    BY FS_Singleton
  <2>3. Cardinality(Task \X {"file"}) = Cardinality(Task) * Cardinality({"file"})
    BY <2>2, DeviceAssumption, FS_Product
  <2>4. Cardinality(Task) \in Nat
    BY DeviceAssumption, FS_CardinalityType
  <2>5. Holders(x) = Cardinality(held)
    BY DEF Holders
  <2> HIDE DEF held
  <2> QED
    BY <1>2, <2>1, <2>2, <2>3, <2>4, <2>5
<1>3. CASE ~(Opened(d) /\ x = s)
  <2>1. held = {}
    BY <1>1, <1>3
  <2> QED
    BY <1>3, <2>1, FS_EmptySet DEF Holders
<1> QED
  BY <1>2, <1>3

(* The invariant holds initially. *)
LEMMA NamesInit == Init => NamesInv
<1> SUFFICES ASSUME Init
             PROVE  NamesInv
  OBVIOUS
<1>1. PICK d \in Disks, r, s \in Slot : First(d, r, s)
  BY InitIs
<1>2. /\ d.inodes[Root].nlinks > 0
      /\ Opened(d) => d.open \in Ino \ {Root} /\ d.inodes[d.open].nlinks > 0
  BY DisksAssumption DEF Opened
<1>3. Root \in Ino
  BY DeviceAssumption DEF Root, Ino
<1>4. Root \in imap /\ (Opened(d) => d.open \in imap)
  BY <1>1, <1>2, <1>3 DEF First
<1>5. Opened(d) => d.open # 0 /\ d.open # Root
  BY <1>2 DEF Ino
<1>6. \A x \in Slot :
        /\ IsInode(table[x]) /\ table[x].dirt = FALSE /\ table[x].lock = FALSE
        /\ x = r => table[x].nr = Root /\ table[x].count = 1
        /\ x # r /\ Opened(d) /\ x = s =>
             table[x].nr = d.open /\ table[x].count = Cardinality(Task)
        /\ x # r /\ ~(Opened(d) /\ x = s) => table[x].nr = 0 /\ table[x].count = 0
  BY <1>1, FirstSlots
<1>7. Shapes
  BY <1>1, <1>6 DEF Shapes, First, FirstTable
<1>8. \A t \in Task : IsCall(at[t]) /\ Fit(at[t], file[t])
  <2> TAKE t \in Task
  <2>1. at[t] = Idle /\ file[t] \in Slot \cup {None}
    BY <1>1 DEF First
  <2> QED
    BY <2>1, IdleFits
<1>9. ASSUME NEW x \in Slot
      PROVE  table[x].count = Holders(x) + Mount(x)
  <2>1. Holders(x) = IF Opened(d) /\ x = s THEN Cardinality(Task) ELSE 0
    BY <1>1, FirstHolders
  <2>2. Cardinality(Task) \in Nat
    BY DeviceAssumption, FS_CardinalityType
  <2>3. Opened(d) <=> r # s
    BY <1>1 DEF First
  <2>4. Root # 0
    BY DEF Root
  <2> QED
    BY <1>5, <1>6, <2>1, <2>2, <2>3, <2>4 DEF Mount
<1>10. \A x \in Slot : table[x].nr = 0 => table[x].count = 0
  BY <1>5, <1>6 DEF Root
<1>11. Rooted
  BY <1>4, <1>5, <1>6 DEF Rooted, Root
<1>12. Live
  BY <1>8, <1>9, <1>10, <1>11 DEF Live, Holders, Mount
<1>13. IdleIsClean
  BY <1>6 DEF IdleIsClean, IdleSlots
<1>14. Mapped
  <2>1. \A x \in Slot : table[x].nr = 0 \/ table[x].nr \in imap
    BY <1>4, <1>6
  <2>2. \A x, y \in Slot : table[x].nr = table[y].nr /\ x # y => table[x].nr = 0
    BY <1>5, <1>6 DEF Root
  <2> QED
    BY <2>1, <2>2 DEF Mapped, OneSlotPerInode, Unless
<1>15. Running
  BY <1>1 DEF First
<1> QED
  BY <1>7, <1>12, <1>13, <1>14, <1>15 DEF NamesInv

-----------------------------------------------------------------------------
(* A task that has stopped does nothing. *)
Somewhere(t) == at[t].pc # "stopped"

(* No task that has stopped is in a call, *)
LEMMA NamesStepSomewhere ==
  ASSUME NEW t \in Task, NamesCall(t) \/ NamesStep(t) \/ Write(t) \/ Extend(t)
                           \/ Close(t)
  PROVE  Somewhere(t)
<1>1. ASSUME NamesCall(t)
      PROVE  at[t].pc = "user"
  BY Zenon, <1>1 DEF NamesCall, Start
<1>2. ASSUME Write(t) \/ Extend(t) \/ Close(t)
      PROVE  at[t].pc = "user"
  BY Zenon, <1>2 DEF Write, Extend, Close, Call
<1>3. ASSUME NamesStep(t)
      PROVE  at[t].pc \in {"find", "dots", "add", "grow", "undo", "linked",
                           "iget", "read", "empty", "otrunc", "extend"}
  <2>1. ASSUME FindHit(t) \/ FindNext(t) \/ FindMiss(t) \/ MakeInode(t) \/ LinkMiss(t)
        PROVE  at[t].pc = "find"
    BY Zenon, <2>1 DEF FindHit, FindNext, FindMiss, MakeInode, LinkMiss, Missing
  <2>2. ASSUME AddEntry(t) \/ AddNext(t) \/ AddGrows(t) \/ AddFails(t)
        PROVE  at[t].pc = "add"
    BY Zenon, <2>2 DEF AddEntry, AddNext, AddGrows, AddFails, NoNext
  <2>3. ASSUME Dots(t) \/ Grow(t) \/ Undo(t) \/ Linked(t) \/ Iget(t) \/ ReadInode(t)
        PROVE  at[t].pc \in {"dots", "grow", "undo", "linked", "iget", "read"}
    BY Zenon, <2>3 DEF Dots, Grow, Undo, Linked, Iget, ReadInode
  <2>4. ASSUME EmptyDir(t) \/ Rmdir(t) \/ OpenTruncated(t) \/ Extended(t)
        PROVE  at[t].pc \in {"empty", "otrunc", "extend"}
    BY Zenon, <2>4 DEF EmptyDir, Rmdir, OpenTruncated, Extended
  <2> HIDE DEF NamesStep
  <2>5. \/ FindHit(t) \/ FindNext(t) \/ FindMiss(t) \/ MakeInode(t) \/ LinkMiss(t)
        \/ AddEntry(t) \/ AddNext(t) \/ AddGrows(t) \/ AddFails(t)
        \/ Dots(t) \/ Grow(t) \/ Undo(t) \/ Linked(t) \/ Iget(t) \/ ReadInode(t)
        \/ EmptyDir(t) \/ Rmdir(t) \/ OpenTruncated(t) \/ Extended(t)
    BY Zenon, <1>3 DEF NamesStep
  <2> QED
    BY <2>1, <2>2, <2>3, <2>4, <2>5
<1> QED
  BY <1>1, <1>2, <1>3 DEF Somewhere

(* or in iput(), *)
LEMMA PutStepSomewhere ==
  ASSUME NEW t \in Task, PutStep(t)
  PROVE  Somewhere(t)
<1>1. at[t].pc \in {"put", "write", "trunc", "otrunc", "dots", "grow",
                     "extend"}
  <2>1. ASSUME PutShared(t) \/ PutLast(t) \/ PutUnlinked(t)
        PROVE  at[t].pc = "put"
    BY Zenon, <2>1 DEF PutShared, PutLast, PutUnlinked
  <2>2. ASSUME WriteInode(t)
        PROVE  at[t].pc = "write"
    BY Zenon, <2>2 DEF WriteInode
  <2>3. ASSUME TakeZone(t) \/ FreeZone(t) \/ FreeInode(t)
        PROVE  at[t].pc \in {"trunc", "otrunc"}
    BY Zenon, <2>3 DEF TakeZone, FreeZone, FreeInode
  <2>4. ASSUME NewBlockPanics(t)
        PROVE  at[t].pc \in {"dots", "grow", "extend"}
    BY Zenon, <2>4 DEF NewBlockPanics
  <2> QED
    BY <2>1, <2>2, <2>3, <2>4 DEF PutStep
<1> QED
  BY <1>1 DEF Somewhere

(* and nothing is written after a panic. *)
LEMMA SyncRunning ==
  ASSUME SyncDone \/ \E s \in Slot : SyncInode(s)
  PROVE  Running
BY Zenon DEF SyncDone, SyncInode, Running

(* So nothing happens after a panic. *)
LEMMA NextRuns ==
  ASSUME NamesInv, Next
  PROVE  Running
<1>1. CASE SyncDone \/ \E s \in Slot : SyncInode(s)
  BY <1>1, SyncRunning
<1>2. CASE \E t \in Task : \/ NamesCall(t) \/ NamesStep(t) \/ Write(t)
                           \/ Extend(t) \/ Close(t) \/ PutStep(t)
  <2>1. PICK t \in Task : Somewhere(t)
    BY Zenon, <1>2, NamesStepSomewhere, PutStepSomewhere
  <2> QED
    BY Zenon, <2>1 DEF NamesInv, Somewhere
<1> QED
  BY Zenon, <1>1, <1>2 DEF Next

(* Calls that begin, and those that are one step. *)
LEMMA CallsKeep ==
  ASSUME NamesInv, Running, NEW t \in Task,
         NamesCall(t) \/ Write(t) \/ Extend(t) \/ Close(t)
  PROVE  NamesInv'
<1>1. CASE NamesCall(t)
  <2>1. \E op, path, to : /\ Start(t, op, path, to) /\ op # "link_to"
                          /\ op \in Opening => file[t] = None
    <3>1. "link_to" \notin Opening /\ "link" \notin Opening /\ "link" # "link_to"
      BY DEF Opening
    <3>2. \A op \in {"stat", "mknod", "mkdir", "unlink", "rmdir"} :
            op \notin Opening /\ op # "link_to"
      BY DEF Opening
    <3> QED
      BY Zenon, <1>1, <3>1, <3>2 DEF NamesCall
  <2> QED
    BY <2>1, StartStep
<1> QED
  BY <1>1, WriteStep, ExtendStep, CloseStep

(* The steps inside a call. *)
LEMMA NamesStepKeeps ==
  ASSUME NamesInv, Running, NEW t \in Task, NamesStep(t)
  PROVE  NamesInv'
<1>1. CASE \/ FindHit(t) \/ FindNext(t) \/ FindMiss(t) \/ MakeInode(t)
           \/ LinkMiss(t)
  BY <1>1, FindHitStep, FindNextStep, FindMissStep, MakeInodeStep, LinkMissStep
<1>2. CASE \/ AddEntry(t) \/ AddNext(t) \/ AddGrows(t) \/ Grow(t) \/ AddFails(t)
  BY <1>2, AddEntryStep, AddNextStep, AddGrowsStep, GrowStep, AddFailsStep
<1>3. CASE Dots(t) \/ Undo(t) \/ Linked(t) \/ Iget(t) \/ ReadInode(t)
  BY <1>3, DotsStep, UndoStep, LinkedStep, IgetStep, ReadInodeStep
<1>4. CASE EmptyDir(t) \/ Rmdir(t) \/ OpenTruncated(t) \/ Extended(t)
  BY <1>4, EmptyDirStep, RmdirStep, OpenTruncatedStep, ExtendedStep
<1> QED
  BY Zenon, <1>1, <1>2, <1>3, <1>4 DEF NamesStep

(* The steps of iput() and truncate(). *)
LEMMA PutStepKeeps ==
  ASSUME NamesInv, Running, NEW t \in Task, PutStep(t), UNCHANGED file
  PROVE  NamesInv'
BY PutSharedStep, PutLastStep, WriteInodeStep, PutUnlinkedStep, TakeZoneStep,
   FreeZoneStep, FreeInodeStep, NewBlockPanicsStep DEF PutStep

(* A step that changes nothing. *)
LEMMA StutterKeeps ==
  ASSUME NamesInv, UNCHANGED vars
  PROVE  NamesInv'
<1>1. UNCHANGED <<table, at, file, syncing>> /\ UNCHANGED <<imap, raced, panic>>
  BY Zenon DEF vars, device
<1>2. Shapes'
  BY <1>1 DEF NamesInv, Shapes
<1>3. Running' <=> Running
  BY Zenon, <1>1 DEF Running
<1>4. Live' <=> Live
  <2>1. Rooted' <=> Rooted
    BY <1>1 DEF Rooted
  <2>2. Kept' = Kept
    BY <1>1 DEF Kept
  <2> QED
    BY <1>1, <2>1, <2>2 DEF Live
<1>5. IdleIsClean' /\ Mapped'
  BY <1>1 DEF NamesInv, IdleIsClean, IdleSlots, Mapped, OneSlotPerInode, Unless
<1> QED
  BY <1>1, <1>2, <1>3, <1>4, <1>5 DEF NamesInv

(* Every step keeps the invariant. *)
LEMMA NamesInvNext == NamesInv /\ [Next]_vars => NamesInv'
<1> SUFFICES ASSUME NamesInv, [Next]_vars
             PROVE  NamesInv'
  OBVIOUS
<1>1. CASE UNCHANGED vars
  BY <1>1, StutterKeeps
<1>2. CASE Next
  <2>1. Running
    BY <1>2, NextRuns
  <2>2. CASE (SyncDone \/ \E s \in Slot : SyncInode(s))
             /\ UNCHANGED <<blocks, file, calls>>
    BY <2>1, <2>2, SyncDoneStep, SyncInodeStep
  <2>3. CASE \E t \in Task : PutStep(t) /\ UNCHANGED <<blocks, file, calls>>
    BY <2>1, <2>3, PutStepKeeps
  <2>4. CASE \E t \in Task : NamesCall(t) \/ Write(t) \/ Extend(t) \/ Close(t)
    BY <2>1, <2>4, CallsKeep
  <2>5. CASE \E t \in Task : NamesStep(t)
    BY <2>1, <2>5, NamesStepKeeps
  <2> QED
    BY Zenon, <1>2, <2>2, <2>3, <2>4, <2>5 DEF Next
<1> QED
  BY <1>1, <1>2

(* NamesInv holds in every reachable state: each task holds exactly the    *)
(* inodes its place in its call says, and each slot counts them.           *)
THEOREM NamesInvariant == Spec => []NamesInv
<1> QED
  BY NamesInit, NamesInvNext, PTL DEF Spec

(* Until there is a panic, i_count of every inode is the number of places  *)
(* in system calls and open files that hold it, and one more for the       *)
(* mounted root: no error path of fs/namei.c drops an inode it holds or    *)
(* keeps one it has given up, whatever calls overlap and whatever runs out.*)
THEOREM CountsAreExact == Spec => []CountsExact
<1>1. NamesInv => CountsExact
  <2> SUFFICES ASSUME NamesInv, Running
               PROVE  /\ \A t \in Task : Len(at[t].puts) <= 2
                      /\ \A s \in Slot :
                           table[s].count =
                             Cardinality({x \in Task \X Keeping :
                                            Kept[x[1]][x[2]] = s})
                             + (IF table[s].nr = Root THEN 1 ELSE 0)
    BY Zenon DEF CountsExact, Running
  <2>1. Live
    BY DEF NamesInv
  <2>2. ASSUME NEW t \in Task
        PROVE  Len(at[t].puts) <= 2
    <3>1. Fit(at[t], file[t])
      BY <2>1 DEF Live
    <3>2. NoPuts(at[t]) \/ PutsOf(at[t])
      BY <3>1 DEF Fit, AtPut
    <3>3. ASSUME NoPuts(at[t])
          PROVE  Len(at[t].puts) = 0
      BY <3>3 DEF NoPuts
    <3>4. ASSUME NEW a, NEW b, at[t].puts = <<a>> \/ at[t].puts = <<a, b>>
          PROVE  Len(at[t].puts) \in {1, 2}
      <4>1. Len(<<a>>) = 1 /\ Len(<<a, b>>) = 2
        OBVIOUS
      <4> QED
        BY <3>4, <4>1
    <3>5. PutsOf(at[t]) => Len(at[t].puts) \in {1, 2}
      BY Zenon, <3>4 DEF PutsOf
    <3>6. \A n : n = 0 \/ n \in {1, 2} => n <= 2
      OBVIOUS
    <3> QED
      BY Zenon, <3>2, <3>3, <3>5, <3>6
  <2> QED
    BY <2>1, <2>2 DEF Live
<1> QED
  BY <1>1, NamesInvariant, PTL

(* A slot nobody counts on is neither dirty nor locked, so                 *)
(* get_empty_inode() never sleeps or loses what it overwrites.             *)
THEOREM IdleSlotsAreClean == Spec => []IdleIsClean
<1>1. NamesInv => IdleIsClean
  BY DEF NamesInv
<1> QED
  BY <1>1, NamesInvariant, PTL

(* No inode is in two slots, unless iget() was asked for a number that had *)
(* been freed.                                                             *)
THEOREM OneSlotForEachInode == Spec => []OneSlotPerInode
<1>1. NamesInv => OneSlotPerInode
  BY DEF NamesInv, Mapped, OneSlotPerInode, Unless
<1> QED
  BY <1>1, NamesInvariant, PTL
=============================================================================
