------------------------- MODULE BufferCache_proofs -------------------------
(***************************************************************************)
(* Proofs about the buffer cache, for any number of buffers, blocks and    *)
(* requests and any finite number of tasks.                                *)
(*                                                                         *)
(* Three inductive invariants, each on top of the one before it:           *)
(*   CacheInv   who refers to which buffer, and who holds its lock         *)
(*   StoreInv   where the contents of a valid buffer are kept              *)
(*   WholeInv   only valid buffers are ever written back                   *)
(* They give the invariants that the runs check and, with the last one,    *)
(* that the cache implements BlockStore.                                   *)
(***************************************************************************)
EXTENDS BufferCache, Numbers, SequenceTheorems, TLAPS

(* These sets of labels are short for their members.                       *)
USE DEF Requesting, GoingToSleep

(* Does a task in state t hold a reference, by bh, to a buffer? It does    *)
(* from the count++ of get_hash_table() or getblk() up to the brelse().    *)
Holding(t) ==
  \/ t.pc \in {"gh_wait", "bread_wait", "drop", "copy", "fault", "copy_rest",
               "brelse"}
  \/ t.pc \in {"ll_rw_block"} \cup Requesting /\ t.passes = 0
  \/ t.pc = "ahead" /\ t.first = 0

(* The buffer it so refers to.                                             *)
Held(t) == IF Holding(t) THEN t.bh ELSE 0

(* The places inside sys_sync() and sync_dev() ...                         *)
InSync == {"sync_wait", "ll_rw_block"} \cup Requesting

(* ... and those at which breada() may hold a first buffer, tmp, as well.  *)
HasFirst == {"find", "gh_wait", "gb_wait", "drop", "ahead"} \cup InSync

(* The local variables of a call fit its place in the code: which of bh,   *)
(* first and i are set, in which calls, and that breada() is still looking *)
(* for the block it was called for until it has a first buffer.            *)
Fit(t) ==
  /\ Holding(t) \/ t.pc = "gb_wait" => t.bh # 0
  /\ t.passes # 0 => t.pc \in InSync /\ t.i # 0
  /\ t.passes # 0 /\ t.op # "sync" => t.bh # 0
  /\ t.pc = "sync_wait" => t.passes # 0
  /\ t.op = "sync" => \/ t.pc \in InSync /\ t.passes # 0
                      \/ t.pc \in {"user", "return"}
  /\ t.op # "sync" => /\ t.blk \in Block /\ t.want \in Block
                      /\ t.first = 0 => t.want = t.blk
  /\ t.first # 0 => t.op \in UsesBreada /\ t.pc \in HasFirst
  /\ t.first # 0 /\ t.pc \in Requesting => t.passes # 0
  /\ t.pc = "ahead" => t.op \in UsesBreada
  /\ t.pc = "drop" => t.first # 0

(* The buffer that ll_rw_block() is called for, and the buffer that a task *)
(* has locked that wants a free request and has none.                      *)
TargetOf(t) ==
  IF t.passes # 0 THEN t.i ELSE IF t.first # 0 THEN t.first ELSE t.bh

LockOf(t) == IF t.pc \in Requesting THEN TargetOf(t) ELSE 0

(* A buffer that is referred to still holds the block it was taken for.    *)
Keeps(t, bs) == /\ Holding(t) => bs[t.bh].block = t.want
                /\ t.first # 0 => bs[t.first].block = t.blk

(* A buffer without a block is neither dirty nor locked.                   *)
Placed(bs) == \A b \in Buffer : bs[b].dirt \/ bs[b].lock => bs[b].block # 0

(* A lock has one owner: the request for the buffer, which is about the    *)
(* block that the buffer holds, or the task that is waiting for a free     *)
(* request.                                                                *)
Owned ==
  /\ \A i, j \in DOMAIN queue : queue[i].bh = queue[j].bh => i = j
  /\ \A p, r \in Proc :
       LockOf(task[p]) # 0 /\ LockOf(task[p]) = LockOf(task[r]) => p = r
  /\ \A p \in Proc, i \in DOMAIN queue : queue[i].bh # LockOf(task[p])
  /\ \A i \in DOMAIN queue : /\ buf[queue[i].bh].lock
                             /\ queue[i].sector = buf[queue[i].bh].block
  /\ \A p \in Proc : LockOf(task[p]) # 0 => buf[LockOf(task[p])].lock
  /\ \A b \in Buffer : buf[b].lock => \/ \E i \in DOMAIN queue : queue[i].bh = b
                                      \/ \E p \in Proc : LockOf(task[p]) = b

(* The count of a buffer is the number of references to it.                *)
Counted ==
  \A b \in Buffer : buf[b].count = Occurs([p \in Proc |-> Held(task[p])], b)
                                     + Occurs([p \in Proc |-> task[p].first], b)

CacheInv ==
  /\ TypeOK
  /\ \A p \in Proc : Fit(task[p]) /\ Keeps(task[p], buf)
  /\ Counted
  /\ Placed(buf)
  /\ Owned

(* The fields of a task.                                                   *)
LEMMA TaskFields ==
  ASSUME NEW t \in Task
  PROVE  /\ t.pc \in Label /\ t.op \in AllOps /\ t.blk \in Block \cup {0}
         /\ t.want \in Block \cup {0} /\ t.val \in Val
         /\ t.bh \in Buffer \cup {0} /\ t.first \in Buffer \cup {0}
         /\ t.i \in Buffer \cup {0} /\ t.dev \in Nat /\ t.passes \in 0..2
         /\ t.done \in BOOLEAN
BY DEF Task

(* A reference is to a buffer, or 0.                                       *)
LEMMA HeldFields ==
  ASSUME NEW t \in Task
  PROVE  Held(t) \in Buffer \cup {0} /\ LockOf(t) \in Buffer \cup {0}
BY TaskFields DEF Held, LockOf, TargetOf

(* These definitions are those of the invariants, of a task in any state.  *)
LEMMA HoldsIsHolding ==
  ASSUME TypeOK, NEW p \in Proc
  PROVE  /\ HoldsBh(p) <=> Holding(task[p])
         /\ Syncing(p) <=> task[p].passes # 0
         /\ Target(p) = TargetOf(task[p])
<1>1. task[p] \in Task
  BY DEF TypeOK
<1>2. Syncing(p) <=> task[p].passes # 0
  BY <1>1, TaskFields DEF Syncing
<1> QED
  BY <1>2 DEF HoldsBh, Holding, Target, TargetOf

(* CacheInv implies what is to be shown: the counts, ...                   *)
LEMMA CountedIsCount ==
  ASSUME CacheInv
  PROVE  CountIsReferences
<1> SUFFICES ASSUME NEW b \in Buffer
             PROVE  buf[b].count =
                      Cardinality({p \in Proc : HoldsBh(p) /\ task[p].bh = b})
                        + Cardinality({p \in Proc : task[p].first = b})
  BY DEF CountIsReferences
<1>1. b # 0
  BY SizeAssumption DEF Buffer
<1>2. TypeOK
  BY DEF CacheInv
<1>3. {p \in Proc : HoldsBh(p) /\ task[p].bh = b} =
        {p \in Proc : Held(task[p]) = b}
  BY <1>1, <1>2, HoldsIsHolding DEF Held
<1> DEFINE f == [p \in Proc |-> Held(task[p])]
           g == [p \in Proc |-> task[p].first]
<1>4. Occurs(f, b) = Cardinality({p \in Proc : Held(task[p]) = b})
  <2>1. {p \in DOMAIN f : f[p] = b} = {p \in Proc : Held(task[p]) = b}
    OBVIOUS
  <2> QED
    BY <2>1 DEF Occurs
<1>5. Occurs(g, b) = Cardinality({p \in Proc : task[p].first = b})
  <2>1. {p \in DOMAIN g : g[p] = b} = {p \in Proc : task[p].first = b}
    OBVIOUS
  <2> QED
    BY <2>1 DEF Occurs
<1>6. buf[b].count = Occurs(f, b) + Occurs(g, b)
  BY DEF CacheInv, Counted
<1> QED
  BY <1>3, <1>4, <1>5, <1>6

(* ... the identities ...                                                  *)
LEMMA KeepsIsIdentity ==
  ASSUME CacheInv
  PROVE  IdentityStable
BY HoldsIsHolding DEF CacheInv, IdentityStable, Keeps

(* ... and the locks.                                                      *)
LEMMA OwnedIsOneOwner ==
  ASSUME CacheInv
  PROVE  LockHasOneOwner
<1>1. TypeOK /\ Owned
  BY DEF CacheInv
<1>2. ASSUME NEW b \in Buffer
      PROVE  Cardinality({i \in DOMAIN queue : queue[i].bh = b})
               + Cardinality({p \in Proc : task[p].pc \in Requesting
                                             /\ Target(p) = b})
               = IF buf[b].lock THEN 1 ELSE 0
  <2> DEFINE I == {i \in DOMAIN queue : queue[i].bh = b}
             P == {p \in Proc : task[p].pc \in Requesting /\ Target(p) = b}
  <2>1. b # 0
    BY SizeAssumption DEF Buffer
  <2>2. P = {p \in Proc : LockOf(task[p]) = b}
    BY <1>1, <2>1, HoldsIsHolding DEF LockOf
  <2>3. CASE ~buf[b].lock
    <3>1. I = {} /\ P = {}
      BY <1>1, <2>1, <2>2, <2>3 DEF Owned
    <3>2. Cardinality(I) = 0 /\ Cardinality(P) = 0
      <4> HIDE DEF I, P
      <4> QED
        BY <3>1, FS_EmptySet
    <3> QED
      BY <2>3, <3>2
  <2>4. CASE buf[b].lock /\ \E i \in DOMAIN queue : queue[i].bh = b
    <3> PICK i \in DOMAIN queue : queue[i].bh = b
      BY <2>4
    <3>1. I = {i} /\ P = {}
      BY <1>1, <2>1, <2>2, <2>4 DEF Owned
    <3>2. Cardinality(I) = 1 /\ Cardinality(P) = 0
      <4> HIDE DEF I, P
      <4> QED
        BY <3>1, FS_EmptySet, FS_Singleton
    <3> QED
      BY <2>4, <3>2
  <2>5. CASE buf[b].lock /\ \E p \in Proc : LockOf(task[p]) = b
    <3> PICK p \in Proc : LockOf(task[p]) = b
      BY <2>5
    <3>1. P = {p} /\ I = {}
      BY <1>1, <2>1, <2>2, <2>5 DEF Owned
    <3>2. Cardinality(P) = 1 /\ Cardinality(I) = 0
      <4> HIDE DEF I, P
      <4> QED
        BY <3>1, FS_EmptySet, FS_Singleton
    <3> QED
      BY <2>5, <3>2
  <2> QED
    BY <1>1, <2>3, <2>4, <2>5 DEF Owned
<1> QED
  BY <1>1, <1>2 DEF LockHasOneOwner, Owned
-----------------------------------------------------------------------------

(* The buffers that a pass of sync over device dev, now at n, still has to *)
(* look at.                                                                *)
Left(dev, n, bufs) == {b \in Buffer : /\ b > n /\ Matches(dev, b)
                                      /\ bufs[b].lock \/ bufs[b].dirt}

(* n has the buffers of t and is in the same call ...                      *)
Stands(t, n) == /\ n \in Task /\ n.op = t.op /\ n.bh = t.bh
                /\ n.first = t.first /\ n.blk = t.blk /\ n.want = t.want

(* ... with the same arguments, results and effect.                        *)
SameCall(t, n) == /\ n.op = t.op /\ n.blk = t.blk /\ n.val = t.val
                  /\ n.done = t.done

(* n differs from t in its place in the code only.                         *)
Like(t, n) == Stands(t, n) /\ SameCall(t, n)

(* The next buffer that sync looks at, or the end of the sync.             *)
LEMMA NextSyncIs ==
  ASSUME NEW t \in Task, t.passes # 0, NEW bufs, NEW n, n = NextSync(t, bufs)
  PROVE  /\ Like(t, n)
         /\ \/ n.pc = "sync_wait" /\ n.i # 0 /\ n.passes # 0
            \/ /\ n.pc = IF t.op = "sync" THEN "return" ELSE "gb_wait"
               /\ n.passes = 0
<1> DEFINE rest(i) == Left(t.dev, i, bufs)
           go(i, ps) == [t EXCEPT !.pc = "sync_wait", !.i = Min(rest(i)),
                                  !.passes = ps]
           out == [t EXCEPT !.pc = IF t.op = "sync" THEN "return"
                                                    ELSE "gb_wait",
                            !.i = 0, !.passes = 0, !.dev = 0]
<1>1. n = IF rest(t.i) # {} THEN go(t.i, t.passes)
          ELSE IF t.passes = 2 /\ rest(0) # {} THEN go(0, 1)
          ELSE out
  BY DEF NextSync, Left
<1>2. t.passes \in 0..2 /\ t.dev \in Nat
  BY TaskFields
<1>3. ASSUME NEW i, rest(i) # {}
      PROVE  Min(rest(i)) \in Buffer /\ Min(rest(i)) # 0
  <2>1. rest(i) \in SUBSET Nat /\ rest(i) \subseteq Buffer
    BY DEF Left, Buffer
  <2> HIDE DEF rest
  <2>2. Min(rest(i)) \in rest(i)
    BY <1>3, <2>1, MinIn
  <2> QED
    BY <2>1, <2>2, SizeAssumption DEF Buffer
<1>4. ASSUME NEW i, rest(i) # {}, NEW ps \in 0..2
      PROVE  Like(t, go(i, ps)) /\ go(i, ps).pc = "sync_wait"
               /\ go(i, ps).i # 0 /\ go(i, ps).passes = ps
  <2> PICK j \in Buffer : j = Min(rest(i)) /\ j # 0
    BY <1>3, <1>4
  <2>1. go(i, ps) = [t EXCEPT !.pc = "sync_wait", !.i = j, !.passes = ps]
    OBVIOUS
  <2> HIDE DEF go, rest
  <2> QED
    BY <2>1 DEF Task, Like, Stands, SameCall, Label
<1>5. Like(t, out) /\ out.pc = (IF t.op = "sync" THEN "return" ELSE "gb_wait")
        /\ out.passes = 0
  <2> DEFINE l == IF t.op = "sync" THEN "return" ELSE "gb_wait"
  <2>1. l \in Label
    BY DEF Label
  <2>2. out = [t EXCEPT !.pc = l, !.i = 0, !.passes = 0, !.dev = 0]
    OBVIOUS
  <2> DEFINE t1 == [t EXCEPT !.pc = l, !.i = 0]
             t2 == [t1 EXCEPT !.passes = 0]
  <2> HIDE DEF l, out
  <2>3. Like(t, t1) /\ t1.pc = l
    BY <2>1 DEF Task, Like, Stands, SameCall
  <2>4. out = [t2 EXCEPT !.dev = 0]
    BY <2>2
  <2> HIDE DEF t1
  <2>5. Like(t, t2) /\ t2.pc = l /\ t2.passes = 0
    BY <2>3 DEF Task, Like, Stands, SameCall
  <2> HIDE DEF t2
  <2>6. Like(t, out) /\ out.pc = l /\ out.passes = 0
    BY <2>4, <2>5 DEF Task, Like, Stands, SameCall
  <2> QED
    BY <2>6 DEF l
<1> HIDE DEF rest, go, out
<1> QED
  BY <1>1, <1>2, <1>4, <1>5
-----------------------------------------------------------------------------

(* The types of everything but the tasks.                                  *)
Types ==
  /\ WQ!TypeOK
  /\ queue \in Seq(EL!Request)
  /\ moved \in BOOLEAN
  /\ disk \in [Block -> Val]
  /\ missed \subseteq Proc
  /\ buf \in [Buffer -> BufferHead]

(* The references to b of a task in state t.                               *)
Refs(t, b) == One(Held(t), b) + One(t.first, b)

(* A step of a task from t to n changes each count by what the references  *)
(* of that task change.                                                    *)
Recounted(t, n) ==
  \A b \in Buffer : buf'[b].count = buf[b].count - Refs(t, b) + Refs(n, b)

(* Such a step keeps the counts exact.                                     *)
LEMMA RecountedIsCounted ==
  ASSUME CacheInv, NEW p \in Proc, NEW n, task' = [task EXCEPT ![p] = n],
         Recounted(task[p], n)
  PROVE  Counted'
<1> SUFFICES ASSUME NEW b \in Buffer
             PROVE  buf'[b].count =
                      Occurs([q \in Proc |-> Held(task'[q])], b)
                        + Occurs([q \in Proc |-> task'[q].first], b)
  BY DEF Counted, Held, Holding
<1> DEFINE f == [q \in Proc |-> Held(task[q])]
           g == [q \in Proc |-> task[q].first]
           ff == [q \in Proc |-> Held(task'[q])]
           gg == [q \in Proc |-> task'[q].first]
<1>1. task \in [Proc -> Task]
  BY DEF CacheInv, TypeOK
<1>2. /\ DOMAIN f = Proc /\ DOMAIN ff = Proc
      /\ \A q \in Proc \ {p} : ff[q] = f[q]
      /\ f[p] = Held(task[p]) /\ ff[p] = Held(n)
  BY <1>1
<1>3. /\ DOMAIN g = Proc /\ DOMAIN gg = Proc
      /\ \A q \in Proc \ {p} : gg[q] = g[q]
      /\ g[p] = task[p].first /\ gg[p] = n.first
  BY <1>1
<1>4. buf[b].count = Occurs(f, b) + Occurs(g, b)
  BY DEF CacheInv, Counted
<1>5. buf'[b].count = buf[b].count - Refs(task[p], b) + Refs(n, b)
  BY DEF Recounted
<1> HIDE DEF f, g, ff, gg
<1>6. /\ Occurs(ff, b) = Occurs(f, b) - One(f[p], b) + One(ff[p], b)
      /\ Occurs(f, b) \in Nat /\ Occurs(ff, b) \in Nat
  BY <1>2, OccursChange, OccursNumber, ProcAssumption
<1>7. /\ Occurs(gg, b) = Occurs(g, b) - One(g[p], b) + One(gg[p], b)
      /\ Occurs(g, b) \in Nat /\ Occurs(gg, b) \in Nat
  BY <1>3, OccursChange, OccursNumber, ProcAssumption
<1>8. \A x : One(x, b) \in Nat
  BY DEF One
<1> SUFFICES buf'[b].count = Occurs(ff, b) + Occurs(gg, b)
  BY DEF ff, gg
<1> QED
  BY <1>2, <1>3, <1>4, <1>5, <1>6, <1>7, <1>8 DEF Refs

(* A buffer that is referred to has a positive count: no decrement in      *)
(* brelse() goes below 0, and getblk() does not take it over.              *)
LEMMA CountIsPositive ==
  ASSUME CacheInv, NEW p \in Proc, NEW b \in Buffer,
         Held(task[p]) = b \/ task[p].first = b
  PROVE  buf[b].count \in Nat /\ buf[b].count > 0
<1> DEFINE f == [q \in Proc |-> Held(task[q])]
           g == [q \in Proc |-> task[q].first]
<1>1. DOMAIN f = Proc /\ f[p] = Held(task[p])
  OBVIOUS
<1>2. DOMAIN g = Proc /\ g[p] = task[p].first
  OBVIOUS
<1>3. buf[b].count = Occurs(f, b) + Occurs(g, b)
  BY DEF CacheInv, Counted
<1> HIDE DEF f, g
<1>4. Occurs(f, b) \in Nat /\ (Held(task[p]) = b => Occurs(f, b) # 0)
  BY <1>1, OccursNumber, ProcAssumption
<1>5. Occurs(g, b) \in Nat /\ (task[p].first = b => Occurs(g, b) # 0)
  BY <1>2, OccursNumber, ProcAssumption
<1> QED
  BY <1>3, <1>4, <1>5

(* A step leaves the identity of every buffer alone, ...                   *)
SameBlocks == \A b \in Buffer : buf'[b].block = buf[b].block

(* ... or the locks.                                                       *)
SameLocks == \A b \in Buffer : buf'[b].lock = buf[b].lock

(* Locks keep their owners when neither locks nor requests change.         *)
LEMMA OwnedStays ==
  ASSUME CacheInv, SameLocks, queue' = queue,
         \A b \in Buffer : buf[b].lock => buf'[b].block = buf[b].block,
         \A p \in Proc : LockOf(task'[p]) = LockOf(task[p])
  PROVE  Owned'
<1>1. \A i \in DOMAIN queue : queue[i].bh \in Buffer
  <2>1. queue \in Seq(EL!Request)
    BY DEF CacheInv, TypeOK
  <2>2. \A i \in DOMAIN queue : queue[i] \in EL!Request
    BY <2>1, ElementOfSeq
  <2> QED
    BY <2>2 DEF EL!Request
<1>2. \A p \in Proc : LockOf(task[p]) \in Buffer \cup {0}
  BY HeldFields DEF CacheInv, TypeOK
<1> DEFINE L(p) == LockOf(task'[p])
<1>3. \A p \in Proc : LockOf(task[p])' = LockOf(task[p])
  BY DEF LockOf, TargetOf
<1>4. Owned
  BY DEF CacheInv
<1> HIDE DEF L
<1> QED
  BY <1>1, <1>2, <1>3, <1>4 DEF Owned, SameLocks

(* What a step of p to n must do to keep CacheInv.                         *)
LEMMA Stepped ==
  ASSUME CacheInv, NEW p \in Proc, NEW n \in Task,
         task' = [task EXCEPT ![p] = n], Fit(n), Keeps(n, buf'),
         \A r \in Proc \ {p} : Keeps(task[r], buf'),
         Recounted(task[p], n), Placed(buf'), Owned', Types'
  PROVE  CacheInv'
<1>1. task \in [Proc -> Task]
  BY DEF CacheInv, TypeOK
<1>2. \A r \in Proc : task'[r] = IF r = p THEN n ELSE task[r]
  BY <1>1
<1>3. \A r \in Proc : Fit(task'[r]) /\ Keeps(task'[r], buf')
  BY <1>2 DEF CacheInv
<1>4. \A r \in Proc : Fit(task[r])' /\ Keeps(task[r], buf)'
  BY <1>3 DEF Fit, Keeps, Holding
<1>5. TypeOK'
  BY <1>1 DEF Types, TypeOK
<1>6. Counted'
  BY RecountedIsCounted
<1>7. Placed(buf)'
  BY DEF Placed
<1> QED
  BY <1>4, <1>5, <1>6, <1>7 DEF CacheInv

(* The steps that leave the device alone ...                               *)
SmallSteps ==
  UNCHANGED <<queue, moved, disk>> /\ missed' \subseteq Proc /\ WQ!TypeOK'

(* ... keep CacheInv when one buffer changes, but not its lock or its      *)
(* block, ...                                                              *)
LEMMA Ordinary ==
  ASSUME CacheInv, SmallSteps,
         NEW p \in Proc, NEW n \in Task, task' = [task EXCEPT ![p] = n],
         Fit(n), Keeps(n, buf), LockOf(task[p]) = 0, LockOf(n) = 0,
         NEW v \in Buffer, NEW h \in BufferHead, buf' = [buf EXCEPT ![v] = h],
         h.block = buf[v].block, h.lock = buf[v].lock,
         h.dirt => buf[v].dirt \/ buf[v].block # 0,
         Recounted(task[p], n)
  PROVE  CacheInv'
<1>1. /\ task \in [Proc -> Task] /\ buf \in [Buffer -> BufferHead]
      /\ Types /\ Placed(buf)
  BY DEF CacheInv, TypeOK, Types
<1>2. \A b \in Buffer : buf'[b] = IF b = v THEN h ELSE buf[b]
  BY <1>1
<1>3. SameBlocks /\ SameLocks /\ buf' \in [Buffer -> BufferHead]
  BY <1>1, <1>2 DEF SameBlocks, SameLocks
<1>4. Placed(buf')
  BY <1>1, <1>2, <1>3 DEF Placed, SameBlocks, SameLocks
<1>5. ASSUME NEW t \in Task, Keeps(t, buf), Fit(t) PROVE Keeps(t, buf')
  BY <1>3, <1>5, TaskFields DEF Keeps, SameBlocks, Fit
<1>6. \A r \in Proc \ {p} : Keeps(task[r], buf')
  BY <1>1, <1>5 DEF CacheInv
<1>7. \A r \in Proc : LockOf(task'[r]) = LockOf(task[r])
  <2>1. \A r \in Proc : task'[r] = IF r = p THEN n ELSE task[r]
    BY <1>1
  <2> QED
    BY <2>1
<1>8. Owned'
  BY <1>3, <1>7, OwnedStays DEF SmallSteps, SameBlocks
<1>9. Types'
  BY <1>1, <1>3 DEF Types, SmallSteps
<1> QED
  BY <1>4, <1>5, <1>6, <1>8, <1>9, Stepped

(* ... or none.                                                            *)
LEMMA OrdinaryStill ==
  ASSUME CacheInv, SmallSteps, UNCHANGED buf,
         NEW p \in Proc, NEW n \in Task, task' = [task EXCEPT ![p] = n],
         Fit(n), Keeps(n, buf), LockOf(task[p]) = 0, LockOf(n) = 0,
         \A b \in Buffer : Refs(n, b) = Refs(task[p], b)
  PROVE  CacheInv'
<1>1. buf \in [Buffer -> BufferHead]
  BY DEF CacheInv, TypeOK
<1>2. 1 \in Buffer
  BY SizeAssumption DEF Buffer
<1>3. buf[1] \in BufferHead /\ buf' = [buf EXCEPT ![1] = buf[1]]
  BY <1>1, <1>2
<1>4. Recounted(task[p], n)
  <2>1. \A b \in Buffer : buf[b].count \in Nat
    BY <1>1 DEF BufferHead
  <2>2. \A b \in Buffer : Refs(n, b) \in Nat
    BY DEF Refs, One
  <2> QED
    BY <2>1, <2>2 DEF Recounted
<1>5. \E h \in BufferHead : /\ buf' = [buf EXCEPT ![1] = h] /\ h = buf[1]
  BY <1>3
<1> QED
  BY <1>2, <1>4, <1>5, Ordinary
-----------------------------------------------------------------------------

(* What CacheInv says of one task.                                         *)
LEMMA Here ==
  ASSUME CacheInv, NEW p \in Proc
  PROVE  /\ task[p] \in Task /\ Fit(task[p]) /\ Keeps(task[p], buf)
         /\ task \in [Proc -> Task] /\ buf \in [Buffer -> BufferHead]
         /\ 0 \notin Buffer /\ 0 \notin Block
<1>1. 0 \notin Buffer /\ 0 \notin Block
  BY SizeAssumption, BlockAssumption DEF Buffer
<1> QED
  BY <1>1 DEF CacheInv, TypeOK

(* What holds of the local variables during a sync.                        *)
CanSync(t) == /\ t.op # "sync" => /\ t.bh # 0 /\ t.blk \in Block /\ t.want \in Block
                                  /\ t.first = 0 => t.want = t.blk
              /\ t.first # 0 => t.op \in UsesBreada

(* Places where a task neither fills a buffer nor waits for a request.     *)
Plain(n) ==
  n.pc \notin {"user", "copy", "fault", "copy_rest"} \cup Requesting

(* n stands where t stood, as far as the buffers go. *)
Follows(t, n) == /\ Stands(t, n) /\ Fit(n) /\ LockOf(n) = 0

(* The next place of a sync fits, and refers to nothing new.               *)
LEMMA NextSyncFits ==
  ASSUME NEW t \in Task, t.passes # 0, CanSync(t), NEW bufs, NEW n,
         n = NextSync(t, bufs)
  PROVE  Follows(t, n) /\ Held(n) = 0 /\ Plain(n) /\ SameCall(t, n)
<1>1. /\ Like(t, n)
      /\ \/ n.pc = "sync_wait" /\ n.i # 0 /\ n.passes # 0
         \/ /\ n.pc = IF t.op = "sync" THEN "return" ELSE "gb_wait"
            /\ n.passes = 0
  BY NextSyncIs
<1>2. LockOf(n) = 0 /\ Held(n) = 0
  BY <1>1 DEF LockOf, Held, Holding
<1>3. Fit(n)
  BY <1>1
  DEF Fit, CanSync, Like, Stands, SameCall, Holding, InSync, HasFirst, UsesBreada
<1> QED
  BY <1>1, <1>2, <1>3 DEF Follows, Like, Plain

(* Where n follows t, what t refers to keeps its block.                    *)
LEMMA FollowsKeeps ==
  ASSUME NEW t, NEW n, Follows(t, n), Held(n) = Held(t) \/ Held(n) = 0,
         Fit(t), Keeps(t, buf)
  PROVE  Keeps(n, buf)
BY DEF Follows, Like, Stands, SameCall, Keeps, Held, Fit

(* A step from t to such an n that leaves the buffers alone keeps          *)
(* CacheInv.                                                               *)
LEMMA FollowsOn ==
  ASSUME CacheInv, SmallSteps, UNCHANGED buf, NEW p \in Proc, NEW n,
         task' = [task EXCEPT ![p] = n], LockOf(task[p]) = 0,
         Follows(task[p], n), Held(n) = Held(task[p])
  PROVE  CacheInv'
<1>1. Keeps(n, buf)
  BY Here, FollowsKeeps
<1>2. \A b \in Buffer : Refs(n, b) = Refs(task[p], b)
  BY DEF Refs, Follows, Like, Stands, SameCall
<1>3. n \in Task /\ Fit(n) /\ LockOf(n) = 0
  BY DEF Follows, Like, Stands, SameCall
<1> QED
  BY <1>1, <1>2, <1>3, OrdinaryStill

(* The return from make_request() is such a step.                          *)
LEMMA FromRequestFits ==
  ASSUME CacheInv, NEW p \in Proc, task[p].pc \in {"ll_rw_block", "get_request"},
         NEW bufs, FromRequest(p, bufs)
  PROVE  \E n : /\ task' = [task EXCEPT ![p] = n]
                /\ Follows(task[p], n) /\ Held(n) = Held(task[p])
                /\ Plain(n) /\ SameCall(task[p], n)
<1> DEFINE t == task[p]
<1>0. t \in Task /\ Fit(t) /\ Keeps(t, buf)
  BY Here
<1>1. (Syncing(p) <=> t.passes # 0) /\ (RwAhead(p) <=> t.passes = 0 /\ t.first # 0)
  BY HoldsIsHolding DEF CacheInv, RwAhead
<1>2. CASE t.passes # 0
  <2> DEFINE n == NextSync(t, bufs)
  <2>1. task' = [task EXCEPT ![p] = n]
    BY <1>1, <1>2 DEF FromRequest
  <2>2. CanSync(t)
    BY <1>0, <1>2 DEF CanSync, Fit
  <2>3. Held(t) = 0
    BY <1>2 DEF Held, Holding
  <2> HIDE DEF n, t
  <2>4. Follows(t, n) /\ Held(n) = 0 /\ Plain(n) /\ SameCall(t, n)
    BY <1>0, <1>2, <2>2, NextSyncFits DEF n
  <2> QED
    BY <2>1, <2>3, <2>4 DEF t
<1>3. ASSUME NEW l \in {"drop", "ahead", "bread_wait"}, t.passes = 0,
             l = "drop" <=> t.first # 0, l = "ahead" => t.op \in UsesBreada,
             task' = [task EXCEPT ![p] = [t EXCEPT !.pc = l]]
      PROVE  \E n : /\ task' = [task EXCEPT ![p] = n]
                    /\ Follows(t, n) /\ Held(n) = Held(t)
                    /\ Plain(n) /\ SameCall(t, n)
  <2> DEFINE n == [t EXCEPT !.pc = l]
  <2>1. Like(t, n) /\ n.pc = l /\ n.passes = 0
    BY <1>0, <1>3 DEF Like, Stands, SameCall, Task, Label
  <2>2. task' = [task EXCEPT ![p] = n]
    BY <1>3
  <2> HIDE DEF n
  <2>3. Held(n) = Held(t) /\ LockOf(n) = 0
    BY <1>3, <2>1 DEF Held, Holding, Like, Stands, SameCall, LockOf
  <2>4. Fit(n)
    BY <1>0, <1>3, <2>1
    DEF Fit, Like, Stands, SameCall, Holding, InSync, HasFirst
  <2> QED
    BY <1>3, <2>1, <2>2, <2>3, <2>4 DEF Follows, Like, Plain
<1>4. CASE t.passes = 0
  <2>1. CASE t.first # 0
    <3>1. task' = [task EXCEPT ![p] = [t EXCEPT !.pc = "drop"]]
      BY <1>1, <1>4, <2>1 DEF FromRequest
    <3> QED
      BY <1>3, <1>4, <2>1, <3>1
  <2>2. CASE t.first = 0 /\ t.op \in UsesBreada
    <3>1. task' = [task EXCEPT ![p] = [t EXCEPT !.pc = "ahead"]]
      BY <1>1, <1>4, <2>2 DEF FromRequest
    <3> QED
      BY <1>3, <1>4, <2>2, <3>1
  <2>3. CASE t.first = 0 /\ t.op \notin UsesBreada
    <3>1. task' = [task EXCEPT ![p] = [t EXCEPT !.pc = "bread_wait"]]
      BY <1>1, <1>4, <2>3 DEF FromRequest
    <3> QED
      BY <1>3, <1>4, <2>3, <3>1
  <2> QED
    BY <2>1, <2>2, <2>3
<1> QED
  BY <1>2, <1>4
-----------------------------------------------------------------------------

(* One lemma for each step, from here on. The system call returns.         *)
LEMMA ReturnKeeps ==
  ASSUME CacheInv, SmallSteps, NEW p \in Proc, Return(p)
  PROVE  CacheInv'
<1> DEFINE t == task[p]
<1>0. t \in Task /\ Fit(t) /\ t.pc = "return" /\ UNCHANGED buf
  BY Here DEF Return, At
<1> DEFINE n == Idle
<1>1. task' = [task EXCEPT ![p] = n]
  BY DEF Return
<1>2. /\ n \in Task /\ n.pc = "user" /\ n.op = "sync" /\ n.passes = 0
      /\ n.first = 0
  BY ValAssumption DEF Task, Idle, Label, AllOps
<1> HIDE DEF n, t
<1>3. Held(t) = 0 /\ t.first = 0 /\ LockOf(t) = 0
  BY <1>0 DEF Held, Holding, Fit, HasFirst, InSync, LockOf
<1>4. Held(n) = 0 /\ Fit(n) /\ Keeps(n, buf) /\ LockOf(n) = 0
  BY <1>2 DEF Held, Holding, Fit, HasFirst, InSync, Keeps, LockOf
<1>5. \A b \in Buffer : Refs(n, b) = Refs(t, b)
  BY <1>2, <1>3, <1>4 DEF Refs
<1> QED
  BY <1>0, <1>1, <1>2, <1>3, <1>4, <1>5, OrdinaryStill DEF t

(* getblk() picks a victim, to which it has no reference yet.              *)
LEMMA FindVictimKeeps ==
  ASSUME CacheInv, SmallSteps, NEW p \in Proc, FindVictim(p)
  PROVE  CacheInv'
<1> DEFINE t == task[p]
<1>0. t \in Task /\ Fit(t) /\ Keeps(t, buf) /\ t.pc = "find" /\ UNCHANGED buf
  BY Here DEF FindVictim, At
<1>1. PICK b \in Victims : task' = [task EXCEPT ![p].pc = "gb_wait", ![p].bh = b]
  BY DEF FindVictim
<1>2. b \in Buffer /\ b # 0
  BY Here DEF Victims
<1> DEFINE n == [t EXCEPT !.pc = "gb_wait", !.bh = b]
<1>3. task' = [task EXCEPT ![p] = n]
  BY <1>1
<1>4. /\ n \in Task /\ n.pc = "gb_wait" /\ n.bh = b /\ n.op = t.op
      /\ n.blk = t.blk /\ n.want = t.want /\ n.first = t.first
      /\ n.passes = t.passes /\ n.i = t.i
  BY <1>0, <1>2 DEF Task, Label
<1> HIDE DEF n, t
<1>5. Held(t) = 0 /\ Held(n) = 0 /\ LockOf(t) = 0 /\ LockOf(n) = 0
  BY <1>0, <1>4 DEF Held, Holding, LockOf
<1>6. Fit(n) /\ Keeps(n, buf)
  BY <1>0, <1>2, <1>4 DEF Fit, HasFirst, InSync, Keeps, Holding
<1>7. \A c \in Buffer : Refs(n, c) = Refs(t, c)
  BY <1>4, <1>5 DEF Refs
<1> QED
  BY <1>0, <1>3, <1>4, <1>5, <1>6, <1>7, OrdinaryStill DEF t

(* getblk() finds that the victim has been taken, or must be synced:       *)
(* sync_dev() may have slept.                                              *)
LEMMA VictimUnfitFits ==
  ASSUME CacheInv, NEW p \in Proc, VictimUnfit(p)
  PROVE  \E n : /\ task' = [task EXCEPT ![p] = n]
                /\ Follows(task[p], n) /\ Held(n) = Held(task[p])
                /\ Plain(n) /\ SameCall(task[p], n)
<1> DEFINE t == task[p]
<1>0. /\ t \in Task /\ Fit(t) /\ Keeps(t, buf) /\ t.pc = "gb_wait"
      /\ UNCHANGED buf
  BY Here DEF VictimUnfit, At
<1>1. Held(t) = 0 /\ LockOf(t) = 0 /\ t.op # "sync" /\ t.passes = 0
  BY <1>0 DEF Held, Holding, LockOf, Fit, InSync
<1>2. CASE Goto(p, "find")
  <2> DEFINE n == [t EXCEPT !.pc = "find"]
  <2>1. task' = [task EXCEPT ![p] = n]
    BY <1>2 DEF Goto
  <2>2. Like(t, n) /\ n.pc = "find" /\ n.passes = t.passes
    BY <1>0 DEF Task, Label, Like, Stands, SameCall
  <2> HIDE DEF n, t
  <2>3. Held(n) = 0 /\ LockOf(n) = 0 /\ Fit(n)
    BY <1>0, <1>1, <2>2
    DEF Held, Holding, LockOf, Fit, HasFirst, InSync, Like, Stands, SameCall
  <2>4. Follows(t, n)
    BY <2>2, <2>3 DEF Follows, Like
  <2> QED
    BY <1>1, <2>1, <2>2, <2>3, <2>4 DEF t, Plain, Like
<1>3. CASE task' = [task EXCEPT ![p] =
                      NextSync([@ EXCEPT !.i = 0, !.dev = BufDev(task[p].bh),
                                         !.passes = 2], buf)]
  <2> DEFINE d == BufDev(t.bh)
             t0 == [t EXCEPT !.i = 0]
             t1 == [t0 EXCEPT !.passes = 2]
             s == [t1 EXCEPT !.dev = d]
             n == NextSync(s, buf)
  <2>1. task' = [task EXCEPT ![p] = n]
    BY <1>3
  <2>2. d \in Nat
    <3>1. t.bh \in Buffer
      BY <1>0, TaskFields DEF Fit
    <3>2. buf[t.bh].block \in Block \cup {0}
      BY <3>1, Here DEF BufferHead
    <3> QED
      BY <3>2, DevAssumption DEF BufDev
  <2> HIDE DEF d
  <2>10. Like(t, t0)
    BY <1>0 DEF Task, Like, Stands, SameCall
  <2> HIDE DEF t0
  <2>3. Like(t, t1) /\ t1.passes = 2
    BY <2>10 DEF Task, Like, Stands, SameCall
  <2> HIDE DEF t1
  <2>4. Like(t, s) /\ s.passes = 2
    BY <2>2, <2>3 DEF Task, Like, Stands, SameCall
  <2> HIDE DEF s
  <2>5. CanSync(s)
    BY <1>0, <1>1, <2>4 DEF CanSync, Like, Stands, SameCall, Fit
  <2>6. Follows(s, n) /\ Held(n) = 0 /\ Plain(n) /\ SameCall(s, n)
    BY <2>4, <2>5, NextSyncFits DEF Like, Stands, SameCall
  <2>7. Follows(t, n) /\ SameCall(t, n)
    BY <2>4, <2>6 DEF Follows, Like, Stands, SameCall
  <2> HIDE DEF n, t
  <2> QED
    BY <1>1, <2>1, <2>6, <2>7 DEF t
<1> QED
  BY <1>2, <1>3 DEF VictimUnfit

(* So it goes on without it.                                               *)
LEMMA VictimUnfitKeeps ==
  ASSUME CacheInv, SmallSteps, NEW p \in Proc, VictimUnfit(p)
  PROVE  CacheInv'
<1>1. PICK n : /\ task' = [task EXCEPT ![p] = n]
               /\ Follows(task[p], n) /\ Held(n) = Held(task[p])
  BY VictimUnfitFits
<1>2. UNCHANGED buf /\ LockOf(task[p]) = 0
  BY DEF VictimUnfit, At, LockOf
<1> QED
  BY <1>1, <1>2, FollowsOn

(* breada() goes on to the next block, or back to the first buffer: the    *)
(* reference moves between tmp and bh.                                     *)
LEMMA NextAheadKeeps ==
  ASSUME CacheInv, SmallSteps, NEW p \in Proc, NextAhead(p)
  PROVE  CacheInv'
<1> DEFINE t == task[p]
           next == t.want + 1
           first == IF t.first = 0 THEN t.bh ELSE t.first
<1>0. /\ t \in Task /\ Fit(t) /\ Keeps(t, buf) /\ t.pc = "ahead"
      /\ UNCHANGED buf
  BY Here DEF NextAhead, At
<1>1. /\ t.op \in UsesBreada /\ t.op # "sync" /\ t.passes = 0
      /\ t.blk \in Block /\ LockOf(t) = 0
  BY <1>0 DEF Fit, UsesBreada, InSync, LockOf
<1>2. /\ first \in Buffer /\ first # 0 /\ buf[first].block = t.blk
      /\ \A b \in Buffer : Refs(t, b) = One(first, b)
  <2>1. CASE t.first = 0
    <3>1. Holding(t) /\ t.bh # 0
      BY <1>0, <2>1 DEF Holding, Fit
    <3>2. buf[t.bh].block = t.blk
      BY <1>0, <1>1, <2>1, <3>1 DEF Keeps, Fit
    <3>3. \A b \in Buffer : One(t.first, b) = 0
      BY <2>1, Here DEF One
    <3>4. Held(t) = t.bh
      BY <3>1 DEF Held
    <3> QED
      BY <1>0, <2>1, <3>1, <3>2, <3>3, <3>4, TaskFields DEF Refs, One
  <2>2. CASE t.first # 0
    <3>1. ~Holding(t)
      BY <1>0, <2>2 DEF Holding
    <3>2. \A b \in Buffer : One(Held(t), b) = 0
      BY <3>1, Here DEF One, Held
    <3> QED
      BY <1>0, <2>2, <3>2, TaskFields DEF Refs, One, Keeps
  <2> QED
    BY <2>1, <2>2
<1>3. CASE /\ next \in Block
           /\ task' = [task EXCEPT ![p].pc = "find", ![p].want = next,
                                   ![p].bh = 0, ![p].first = first]
  <2> DEFINE n == [t EXCEPT !.pc = "find", !.want = next, !.bh = 0,
                            !.first = first]
  <2>1. task' = [task EXCEPT ![p] = n]
    BY <1>3
  <2> HIDE DEF first, next
  <2>2. /\ n \in Task /\ n.pc = "find" /\ n.want = next /\ n.bh = 0
        /\ n.first = first /\ n.op = t.op /\ n.blk = t.blk
        /\ n.passes = t.passes
    BY <1>0, <1>2, <1>3 DEF Task, Label
  <2> HIDE DEF n, t
  <2>3. Held(n) = 0 /\ LockOf(n) = 0 /\ Fit(n) /\ Keeps(n, buf)
    BY <1>1, <1>2, <1>3, <2>2
    DEF Held, Holding, LockOf, Fit, HasFirst, InSync, Keeps
  <2>4. \A b \in Buffer : Refs(n, b) = Refs(t, b)
    BY <1>2, <2>2, <2>3, Here DEF Refs, One
  <2> QED
    BY <1>0, <1>1, <2>1, <2>2, <2>3, <2>4, OrdinaryStill DEF t
<1>4. CASE task' = [task EXCEPT ![p].pc = "bread_wait", ![p].want = t.blk,
                                ![p].bh = first, ![p].first = 0]
  <2> DEFINE n == [t EXCEPT !.pc = "bread_wait", !.want = t.blk, !.bh = first,
                            !.first = 0]
  <2>1. task' = [task EXCEPT ![p] = n]
    BY <1>4
  <2> HIDE DEF first, next
  <2>2. /\ n \in Task /\ n.pc = "bread_wait" /\ n.want = t.blk
        /\ n.bh = first /\ n.first = 0 /\ n.op = t.op /\ n.blk = t.blk
        /\ n.passes = t.passes
    BY <1>0, <1>1, <1>2 DEF Task, Label
  <2> HIDE DEF n, t
  <2>3. Held(n) = first /\ LockOf(n) = 0 /\ Fit(n) /\ Keeps(n, buf)
    BY <1>1, <1>2, <2>2
    DEF Held, Holding, LockOf, Fit, HasFirst, InSync, Keeps
  <2>4. \A b \in Buffer : Refs(n, b) = Refs(t, b)
    BY <1>2, <2>2, <2>3, Here DEF Refs, One
  <2> QED
    BY <1>0, <1>1, <2>1, <2>2, <2>3, <2>4, OrdinaryStill DEF t
<1> QED
  BY <1>3, <1>4 DEF NextAhead

(* bread() has waited for the buffer.                                      *)
LEMMA BreadDoneKeeps ==
  ASSUME CacheInv, SmallSteps, NEW p \in Proc, BreadDone(p)
  PROVE  CacheInv'
<1> DEFINE t == task[p]
           l == IF buf[t.bh].uptodate THEN "copy" ELSE "brelse"
           n == [t EXCEPT !.pc = l]
<1>0. /\ t \in Task /\ Fit(t) /\ Keeps(t, buf) /\ t.pc = "bread_wait"
      /\ UNCHANGED buf
  BY Here DEF BreadDone, At
<1>1. task' = [task EXCEPT ![p] = n]
  BY DEF BreadDone, Goto
<1>2. l \in {"copy", "brelse"}
  OBVIOUS
<1> HIDE DEF l
<1>3. Like(t, n) /\ n.pc = l /\ n.passes = t.passes
  BY <1>0, <1>2 DEF Task, Label, Like, Stands, SameCall
<1> HIDE DEF n, t
<1>4. Held(n) = Held(t) /\ LockOf(t) = 0 /\ LockOf(n) = 0
  BY <1>0, <1>2, <1>3 DEF Held, Holding, LockOf, Like, Stands, SameCall
<1>5. Fit(n)
  BY <1>0, <1>2, <1>3
  DEF Fit, HasFirst, InSync, Like, Stands, SameCall, Holding
<1> QED
  BY <1>0, <1>1, <1>3, <1>4, <1>5, FollowsOn DEF t, Follows, Like

(* sync looks at one buffer, ...                                           *)
LEMMA SyncBufferFits ==
  ASSUME CacheInv, NEW p \in Proc, SyncBuffer(p)
  PROVE  \E n : /\ task' = [task EXCEPT ![p] = n]
                /\ Follows(task[p], n) /\ Held(n) = Held(task[p])
                /\ Plain(n) /\ SameCall(task[p], n)
<1> DEFINE t == task[p]
<1>0. /\ t \in Task /\ Fit(t) /\ Keeps(t, buf) /\ t.pc = "sync_wait"
      /\ UNCHANGED buf
  BY Here DEF SyncBuffer, At
<1>1. Held(t) = 0 /\ LockOf(t) = 0 /\ t.passes # 0
  BY <1>0 DEF Held, Holding, LockOf, Fit
<1>2. CASE task' = [task EXCEPT ![p] = [t EXCEPT !.pc = "ll_rw_block"]]
  <2> DEFINE n == [t EXCEPT !.pc = "ll_rw_block"]
  <2>1. Like(t, n) /\ n.pc = "ll_rw_block" /\ n.passes = t.passes /\ n.i = t.i
    BY <1>0 DEF Task, Label, Like, Stands, SameCall
  <2>2. task' = [task EXCEPT ![p] = n]
    BY <1>2
  <2> HIDE DEF n, t
  <2>3. Held(n) = 0 /\ LockOf(n) = 0
    BY <1>1, <2>1 DEF Held, Holding, LockOf
  <2>4. Fit(n)
    BY <1>0, <1>1, <2>1
    DEF Fit, HasFirst, InSync, Like, Stands, SameCall, Holding
  <2> QED
    BY <1>1, <2>1, <2>2, <2>3, <2>4 DEF t, Follows, Plain, Like
<1>3. CASE task' = [task EXCEPT ![p] = NextSync(t, buf)]
  <2>1. CanSync(t)
    BY <1>0, <1>1 DEF CanSync, Fit
  <2> DEFINE n == NextSync(t, buf)
  <2>2. Follows(t, n) /\ Held(n) = 0 /\ Plain(n) /\ SameCall(t, n)
    BY <1>0, <1>1, <2>1, NextSyncFits
  <2>3. task' = [task EXCEPT ![p] = n]
    BY <1>3
  <2> HIDE DEF n, t
  <2> QED
    BY <1>1, <2>2, <2>3 DEF t
<1>4. \/ task' = [task EXCEPT ![p] = [t EXCEPT !.pc = "ll_rw_block"]]
      \/ task' = [task EXCEPT ![p] = NextSync(t, buf)]
  BY DEF SyncBuffer
<1> QED
  BY <1>2, <1>3, <1>4

(* ... to which it takes no reference.                                     *)
LEMMA SyncBufferKeeps ==
  ASSUME CacheInv, SmallSteps, NEW p \in Proc, SyncBuffer(p)
  PROVE  CacheInv'
<1>1. PICK n : /\ task' = [task EXCEPT ![p] = n]
               /\ Follows(task[p], n) /\ Held(n) = Held(task[p])
  BY SyncBufferFits
<1>2. UNCHANGED buf /\ LockOf(task[p]) = 0
  BY DEF SyncBuffer, At, LockOf
<1> QED
  BY <1>1, <1>2, FollowsOn

(* ll_rw_block() finds that nothing is to be read or written.              *)
LEMMA NeedlessKeeps ==
  ASSUME CacheInv, SmallSteps, NEW p \in Proc, ForgetReadAhead(p) \/ NoRequest(p)
  PROVE  CacheInv'
<1>1. task[p].pc = "ll_rw_block" /\ FromRequest(p, buf) /\ UNCHANGED buf
  BY DEF ForgetReadAhead, NoRequest, At
<1>2. PICK n : /\ task' = [task EXCEPT ![p] = n]
               /\ Follows(task[p], n) /\ Held(n) = Held(task[p])
  BY <1>1, FromRequestFits
<1>3. LockOf(task[p]) = 0
  BY <1>1 DEF LockOf
<1> QED
  BY <1>1, <1>2, <1>3, FollowsOn

(* The page fault in the middle of a copy is over.                         *)
LEMMA FaultDoneKeeps ==
  ASSUME CacheInv, SmallSteps, NEW p \in Proc, FaultDone(p)
  PROVE  CacheInv'
<1> DEFINE t == task[p]
           n == [t EXCEPT !.pc = "copy_rest"]
<1>0. /\ t \in Task /\ Fit(t) /\ Keeps(t, buf) /\ t.pc = "fault"
      /\ UNCHANGED buf /\ task' = [task EXCEPT ![p] = n]
  BY Here DEF FaultDone, Goto
<1>1. Like(t, n) /\ n.pc = "copy_rest" /\ n.passes = t.passes
  BY <1>0 DEF Task, Label, Like, Stands, SameCall
<1> HIDE DEF n, t
<1>2. Held(n) = Held(t) /\ LockOf(t) = 0 /\ LockOf(n) = 0
  BY <1>0, <1>1 DEF Held, Holding, LockOf, Like, Stands, SameCall
<1>3. Fit(n)
  BY <1>0, <1>1 DEF Fit, HasFirst, InSync, Like, Stands, SameCall, Holding
<1> QED
  BY <1>0, <1>1, <1>2, <1>3, FollowsOn DEF t, Follows, Like

(* A task outside the kernel.                                              *)
LEMMA IdleIsTask ==
  /\ Idle \in Task /\ Idle.pc = "user" /\ Idle.op = "sync" /\ Idle.passes = 0
  /\ Idle.first = 0 /\ Idle.i = 0
BY ValAssumption DEF Task, Idle, Label, AllOps

(* A task makes a system call.                                             *)
LEMMA EnterKeeps ==
  ASSUME CacheInv, SmallSteps, NEW p \in Proc, Enter(p)
  PROVE  CacheInv'
<1> DEFINE t == task[p]
<1>0. /\ t \in Task /\ Fit(t) /\ t.pc = "user" /\ UNCHANGED buf
  BY Here DEF Enter
<1>1. /\ Held(t) = 0 /\ LockOf(t) = 0 /\ t.first = 0
  BY <1>0 DEF Held, Holding, LockOf, Fit, HasFirst, InSync
<1>2. ASSUME NEW o \in Ops \ {"sync"}, NEW k \in Block, NEW v \in Val,
             task' = [task EXCEPT ![p] = [Idle EXCEPT !.pc = "find", !.op = o,
                                          !.blk = k, !.want = k, !.val = v]]
      PROVE  CacheInv'
  <2> DEFINE m == Idle
             n == [m EXCEPT !.pc = "find", !.op = o, !.blk = k, !.want = k,
                            !.val = v]
  <2>1. task' = [task EXCEPT ![p] = n]
    BY <1>2
  <2>2. o \in AllOps /\ m \in Task /\ m.passes = 0 /\ m.first = 0
    BY OpsAssumption, IdleIsTask
  <2> HIDE DEF m
  <2>3. /\ n \in Task /\ n.pc = "find" /\ n.op = o /\ n.blk = k /\ n.want = k
        /\ n.passes = 0 /\ n.first = 0
    BY <2>2 DEF Task, Label
  <2> HIDE DEF n, t
  <2>4. Held(n) = 0 /\ LockOf(n) = 0 /\ Fit(n) /\ Keeps(n, buf)
    BY <2>3 DEF Held, Holding, LockOf, Fit, HasFirst, InSync, Keeps
  <2>5. \A b \in Buffer : Refs(n, b) = Refs(t, b)
    BY <1>1, <2>3, <2>4 DEF Refs
  <2> QED
    BY <1>0, <1>1, <2>1, <2>3, <2>4, <2>5, OrdinaryStill DEF t
<1>3. CASE task' = [task EXCEPT ![p] = NextSync([Idle EXCEPT !.passes = 1], buf)]
  <2> DEFINE m == Idle
             s == [m EXCEPT !.passes = 1]
             n == NextSync(s, buf)
  <2>1. task' = [task EXCEPT ![p] = n]
    BY <1>3
  <2>2. m \in Task /\ m.op = "sync" /\ m.first = 0
    BY IdleIsTask
  <2> HIDE DEF m
  <2>3. Like(m, s) /\ s.passes = 1
    BY <2>2 DEF Task, Like, Stands, SameCall
  <2> HIDE DEF s
  <2>4. CanSync(s)
    BY <2>2, <2>3 DEF CanSync, Like, Stands, SameCall
  <2>5. Follows(s, n) /\ Held(n) = 0
    BY <2>3, <2>4, NextSyncFits DEF Like, Stands, SameCall
  <2> HIDE DEF n, t
  <2>6. n \in Task /\ Fit(n) /\ LockOf(n) = 0 /\ n.first = 0
    BY <2>2, <2>3, <2>5 DEF Follows, Like, Stands, SameCall
  <2>7. Keeps(n, buf)
    BY <2>5, <2>6 DEF Keeps, Held, Fit
  <2>8. \A b \in Buffer : Refs(n, b) = Refs(t, b)
    BY <1>1, <2>5, <2>6 DEF Refs
  <2> QED
    BY <1>0, <1>1, <2>1, <2>6, <2>7, <2>8, OrdinaryStill DEF t
<1>4. \/ \E o \in Ops \ {"sync"}, k \in Block, v \in Val :
           task' = [task EXCEPT ![p] = [Idle EXCEPT !.pc = "find", !.op = o,
                                        !.blk = k, !.want = k, !.val = v]]
      \/ task' = [task EXCEPT ![p] = NextSync([Idle EXCEPT !.passes = 1], buf)]
  BY ValAssumption DEF Enter
<1> QED
  BY <1>2, <1>3, <1>4
-----------------------------------------------------------------------------

(* The block is in the cache: count++ before any sleep.                    *)
LEMMA FindHitKeeps ==
  ASSUME CacheInv, SmallSteps, NEW p \in Proc, FindHit(p)
  PROVE  CacheInv'
<1> DEFINE t == task[p]
<1>0. /\ t \in Task /\ Fit(t) /\ Keeps(t, buf) /\ t.pc = "find"
      /\ buf \in [Buffer -> BufferHead]
  BY Here DEF FindHit, At
<1>1. PICK b \in Cached(t.want) :
        /\ buf' = [buf EXCEPT ![b].count = buf[b].count + 1]
        /\ task' = [task EXCEPT ![p].pc = "gh_wait", ![p].bh = b]
  BY DEF FindHit
<1>2. b \in Buffer /\ b # 0 /\ buf[b].block = t.want
  BY Here DEF Cached
<1> DEFINE g == buf[b]
           h == [g EXCEPT !.count = g.count + 1]
           n == [t EXCEPT !.pc = "gh_wait", !.bh = b]
<1>3. task' = [task EXCEPT ![p] = n] /\ buf' = [buf EXCEPT ![b] = h]
  BY <1>1
<1>4. Like([t EXCEPT !.bh = b], n) /\ n.bh = b /\ n.pc = "gh_wait"
        /\ n.passes = t.passes /\ n.op = t.op /\ n.blk = t.blk
        /\ n.want = t.want /\ n.first = t.first
  BY <1>0, <1>2 DEF Task, Label, Like, Stands, SameCall
<1>5. /\ h \in BufferHead /\ h.block = g.block /\ h.lock = g.lock
      /\ h.dirt = g.dirt /\ h.count = g.count + 1 /\ g.count \in Nat
  <2>1. g \in BufferHead
    BY <1>0, <1>2
  <2> HIDE DEF g
  <2> QED
    BY <2>1 DEF BufferHead
<1> HIDE DEF n, t, h
<1>6. Held(t) = 0 /\ Held(n) = b /\ LockOf(t) = 0 /\ LockOf(n) = 0
  BY <1>0, <1>4 DEF Held, Holding, LockOf
<1>7. n \in Task /\ Fit(n) /\ Keeps(n, buf)
  BY <1>0, <1>2, <1>4
  DEF Fit, HasFirst, InSync, Keeps, Holding, Like, Stands, SameCall
<1>8. Recounted(t, n)
  <2> SUFFICES ASSUME NEW c \in Buffer
               PROVE  buf'[c].count = buf[c].count - Refs(t, c) + Refs(n, c)
    BY DEF Recounted
  <2>1. buf'[c].count = buf[c].count + One(b, c) /\ buf[c].count \in Nat
    BY <1>0, <1>2, <1>3, <1>5 DEF One, BufferHead
  <2>2. Refs(n, c) = Refs(t, c) + One(b, c)
    BY <1>4, <1>6, Here DEF Refs, One
  <2>3. Refs(t, c) \in Nat /\ One(b, c) \in Nat
    BY DEF Refs, One
  <2> QED
    BY <2>1, <2>2, <2>3
<1> QED
  BY <1>0, <1>2, <1>3, <1>5, <1>6, <1>7, <1>8, Ordinary DEF t

(* A step that drops the reference by bh.                                  *)
LEMMA LetsGo ==
  ASSUME CacheInv, SmallSteps, NEW p \in Proc, NEW n,
         task' = [task EXCEPT ![p] = n], Holding(task[p]),
         LockOf(task[p]) = 0, Follows(task[p], n), Held(n) = 0,
         buf' = [buf EXCEPT ![task[p].bh].count = buf[task[p].bh].count - 1]
  PROVE  CacheInv'
<1> DEFINE t == task[p]
           b == t.bh
           g == buf[b]
           h == [g EXCEPT !.count = g.count - 1]
<1>1. /\ t \in Task /\ Fit(t) /\ Keeps(t, buf) /\ buf \in [Buffer -> BufferHead]
      /\ Held(t) = b /\ b \in Buffer
  BY Here, TaskFields DEF Held, Fit
<1>2. buf' = [buf EXCEPT ![b] = h]
  OBVIOUS
<1>3. g.count \in Nat /\ g.count > 0
  BY <1>1, CountIsPositive
<1>4. /\ h \in BufferHead /\ h.block = g.block /\ h.lock = g.lock
      /\ h.dirt = g.dirt /\ h.count = g.count - 1
  <2>1. g \in BufferHead
    BY <1>1
  <2> HIDE DEF g
  <2> QED
    BY <1>3, <2>1 DEF BufferHead
<1> HIDE DEF h, t
<1>5. n \in Task /\ Fit(n) /\ LockOf(n) = 0 /\ n.first = t.first
  BY DEF Follows, Like, Stands, SameCall, t
<1>6. Keeps(n, buf)
  BY <1>1, FollowsKeeps DEF t
<1>7. Recounted(t, n)
  <2> SUFFICES ASSUME NEW c \in Buffer
               PROVE  buf'[c].count = buf[c].count - Refs(t, c) + Refs(n, c)
    BY DEF Recounted
  <2>1. buf'[c].count = buf[c].count - One(b, c) /\ buf[c].count \in Nat
    BY <1>1, <1>2, <1>4 DEF One, BufferHead
  <2>2. Refs(t, c) = Refs(n, c) + One(b, c)
    BY <1>1, <1>5, Here DEF Refs, One
  <2>3. Refs(n, c) \in Nat /\ One(b, c) \in Nat
    BY DEF Refs, One
  <2> QED
    BY <2>1, <2>2, <2>3
<1>8. \E v \in Buffer, k \in BufferHead :
        /\ buf' = [buf EXCEPT ![v] = k] /\ k.block = buf[v].block
        /\ k.lock = buf[v].lock /\ (k.dirt => buf[v].dirt)
  BY <1>1, <1>2, <1>4
<1>9. task[p] = t
  BY DEF t
<1> HIDE DEF b, g
<1> QED
  BY <1>5, <1>6, <1>7, <1>8, <1>9, Ordinary

(* A task that has got its buffer refers to it, wherever it goes next.     *)
LEMMA GotFits ==
  ASSUME NEW t \in Task, Fit(t), t.pc \in {"gh_wait", "gb_wait"}, NEW u, NEW n,
         n = Got(t, t.bh, u)
  PROVE  /\ Follows(t, n) /\ Held(n) = t.bh /\ SameCall(t, n)
         /\ \/ Plain(n)
            \/ n.pc = "copy" /\ (t.op = "block_write_full" \/ u)
<1> DEFINE l == IF t.op = "block_write_full" THEN "copy"
                ELSE IF ~u THEN "ll_rw_block"
                ELSE IF t.first # 0 THEN "drop"
                ELSE IF t.op \in UsesBreada THEN "ahead"
                ELSE "copy"
<1>1. n = [t EXCEPT !.pc = l]
  <2>1. n = [[t EXCEPT !.bh = t.bh] EXCEPT !.pc = l]
    BY DEF Got
  <2>2. [t EXCEPT !.bh = t.bh] = t
    BY DEF Task
  <2> HIDE DEF l
  <2> QED
    BY <2>1, <2>2
<1>2. /\ l \in {"copy", "ll_rw_block", "drop", "ahead"}
      /\ l = "drop" => t.first # 0
      /\ l = "ahead" => t.first = 0 /\ t.op \in UsesBreada
      /\ l = "copy" => t.first = 0 \/ t.op \notin UsesBreada
      /\ l = "copy" => t.op = "block_write_full" \/ u
  BY DEF UsesBreada
<1> HIDE DEF l
<1>3. t.passes = 0 /\ t.op # "sync" /\ t.bh # 0
  BY DEF Fit, InSync, Holding
<1>4. Like(t, n) /\ n.pc = l /\ n.passes = 0
  BY <1>1, <1>2, <1>3, TaskFields DEF Task, Label, Like, Stands, SameCall
<1>5. Held(n) = t.bh /\ LockOf(n) = 0
  BY <1>2, <1>4 DEF Held, Holding, LockOf, Like, Stands, SameCall
<1>6. Fit(n)
  BY <1>2, <1>3, <1>4
  DEF Fit, Like, Stands, SameCall, Holding, InSync, HasFirst
<1>7. \/ Plain(n)
      \/ n.pc = "copy" /\ (t.op = "block_write_full" \/ u)
  BY <1>2, <1>4 DEF Plain
<1> QED
  BY <1>4, <1>5, <1>6, <1>7 DEF Follows, Like

(* get_hash_table() after its wait: the buffer still holds the block, or   *)
(* is dropped.                                                             *)
LEMMA GetHashTableKeeps ==
  ASSUME CacheInv, SmallSteps, NEW p \in Proc, GetHashTable(p)
  PROVE  CacheInv'
<1> DEFINE t == task[p]
<1>0. t \in Task /\ Fit(t) /\ t.pc = "gh_wait"
  BY Here DEF GetHashTable, At
<1>1. Holding(t) /\ Held(t) = t.bh /\ LockOf(t) = 0
  BY <1>0 DEF Holding, Held, LockOf
<1>2. CASE buf[t.bh].block = t.want
  <2> DEFINE u == buf[t.bh].uptodate
             n == Got(t, t.bh, u)
  <2>1. task' = [task EXCEPT ![p] = n] /\ UNCHANGED buf
    BY <1>2 DEF GetHashTable
  <2> HIDE DEF u
  <2>2. Follows(t, n) /\ Held(n) = t.bh
    BY <1>0, GotFits
  <2> HIDE DEF n, t
  <2> QED
    BY <1>1, <2>1, <2>2, FollowsOn DEF t
<1>3. CASE buf[t.bh].block # t.want
  <2> DEFINE n == [t EXCEPT !.pc = "find"]
  <2>1. /\ task' = [task EXCEPT ![p] = n]
        /\ buf' = [buf EXCEPT ![t.bh].count = buf[t.bh].count - 1]
    BY <1>3 DEF GetHashTable, Goto
  <2>2. Like(t, n) /\ n.pc = "find" /\ n.passes = t.passes
    BY <1>0 DEF Task, Label, Like, Stands, SameCall
  <2> HIDE DEF n, t
  <2>3. Held(n) = 0 /\ LockOf(n) = 0
    BY <2>2 DEF Held, Holding, LockOf
  <2>4. Fit(n)
    BY <1>0, <2>2 DEF Fit, HasFirst, InSync, Like, Stands, SameCall, Holding
  <2> QED
    BY <1>1, <2>1, <2>2, <2>3, <2>4, LetsGo DEF t, Follows, Like
<1> QED
  BY <1>2, <1>3

(* breada() drops a buffer it has read ahead.                              *)
LEMMA DropKeeps ==
  ASSUME CacheInv, SmallSteps, NEW p \in Proc, Drop(p)
  PROVE  CacheInv'
<1> DEFINE t == task[p]
           n == [t EXCEPT !.pc = "ahead"]
<1>0. t \in Task /\ Fit(t) /\ t.pc = "drop"
  BY Here DEF Drop, At
<1>1. /\ task' = [task EXCEPT ![p] = n]
      /\ buf' = [buf EXCEPT ![t.bh].count = buf[t.bh].count - 1]
  BY DEF Drop, Goto
<1>2. Like(t, n) /\ n.pc = "ahead" /\ n.passes = t.passes
  BY <1>0 DEF Task, Label, Like, Stands, SameCall
<1> HIDE DEF n, t
<1>3. Holding(t) /\ Held(n) = 0 /\ LockOf(t) = 0 /\ LockOf(n) = 0
  BY <1>0, <1>2 DEF Held, Holding, LockOf, Fit, Like, Stands, SameCall
<1>4. Fit(n)
  BY <1>0, <1>2 DEF Fit, HasFirst, InSync, Like, Stands, SameCall, Holding
<1> QED
  BY <1>1, <1>2, <1>3, <1>4, LetsGo DEF t, Follows, Like

(* brelse() after its wait.                                                *)
LEMMA BrelseKeeps ==
  ASSUME CacheInv, SmallSteps, NEW p \in Proc, Brelse(p)
  PROVE  CacheInv'
<1> DEFINE t == task[p]
           n == [t EXCEPT !.pc = "return"]
<1>0. t \in Task /\ Fit(t) /\ t.pc = "brelse"
  BY Here DEF Brelse, At
<1>1. /\ task' = [task EXCEPT ![p] = n]
      /\ buf' = [buf EXCEPT ![t.bh].count = buf[t.bh].count - 1]
  BY DEF Brelse, Goto
<1>2. Like(t, n) /\ n.pc = "return" /\ n.passes = t.passes
  BY <1>0 DEF Task, Label, Like, Stands, SameCall
<1> HIDE DEF n, t
<1>3. Holding(t) /\ Held(n) = 0 /\ LockOf(t) = 0 /\ LockOf(n) = 0
  BY <1>0, <1>2 DEF Held, Holding, LockOf
<1>4. Fit(n)
  BY <1>0, <1>2 DEF Fit, HasFirst, InSync, Like, Stands, SameCall, Holding
<1> QED
  BY <1>1, <1>2, <1>3, <1>4, LetsGo DEF t, Follows, Like

(* A step that changes the data or the dirty bit of the buffer it refers   *)
(* to.                                                                     *)
LEMMA Filled ==
  ASSUME CacheInv, SmallSteps, NEW p \in Proc, NEW n,
         task' = [task EXCEPT ![p] = n], Holding(task[p]),
         LockOf(task[p]) = 0, Follows(task[p], n), Held(n) = Held(task[p]),
         NEW h \in BufferHead, NEW b, b = task[p].bh,
         buf' = [buf EXCEPT ![b] = h],
         h.block = buf[b].block, h.lock = buf[b].lock, h.count = buf[b].count
  PROVE  CacheInv'
<1> DEFINE t == task[p]
<1>1. /\ t \in Task /\ Fit(t) /\ Keeps(t, buf) /\ buf \in [Buffer -> BufferHead]
      /\ b \in Buffer
  BY Here, TaskFields DEF Fit
<1>2. buf[b].block # 0
  <2>1. t.op # "sync"
    BY <1>1 DEF Fit, Holding, InSync
  <2> QED
    BY <1>1, <2>1, Here DEF Keeps, Fit
<1>3. n \in Task /\ Fit(n) /\ LockOf(n) = 0
  BY DEF Follows, Like, Stands, SameCall
<1>4. Keeps(n, buf)
  BY <1>1, FollowsKeeps
<1>5. Recounted(t, n)
  <2>1. \A c \in Buffer : buf'[c].count = buf[c].count /\ buf[c].count \in Nat
    BY <1>1 DEF BufferHead
  <2>2. \A c \in Buffer : Refs(n, c) = Refs(t, c) /\ Refs(t, c) \in Nat
    BY DEF Refs, Follows, Like, Stands, SameCall, One
  <2> QED
    BY <2>1, <2>2 DEF Recounted
<1>6. \E v \in Buffer, k \in BufferHead :
        /\ buf' = [buf EXCEPT ![v] = k] /\ k.block = buf[v].block
        /\ k.lock = buf[v].lock
        /\ k.dirt => buf[v].dirt \/ buf[v].block # 0
  BY <1>1, <1>2
<1>7. Recounted(task[p], n)
  BY <1>5
<1> HIDE DEF t
<1> QED
  BY <1>3, <1>4, <1>6, <1>7, Ordinary

(* The copy between the buffer and the user's memory.                      *)
LEMMA CopyKeeps ==
  ASSUME CacheInv, SmallSteps, NEW p \in Proc, Copy(p)
  PROVE  CacheInv'
<1> DEFINE t == task[p]
           g == buf[t.bh]
<1>0. /\ t \in Task /\ Fit(t) /\ t.pc \in {"copy", "copy_rest"}
      /\ t.bh \in Buffer /\ g \in BufferHead
  <2>1. t \in Task /\ Fit(t) /\ t.pc \in {"copy", "copy_rest"}
    BY Here DEF Copy
  <2>2. t.bh \in Buffer
    BY <2>1, TaskFields DEF Fit, Holding
  <2> QED
    BY <2>1, <2>2, Here
<1>1. Holding(t) /\ LockOf(t) = 0
  BY <1>0 DEF Holding, LockOf
<1>2. ASSUME NEW n, Stands(t, n), n.pc = "brelse", n.passes = t.passes
      PROVE  Follows(t, n) /\ Held(n) = Held(t)
  <2>1. Held(n) = Held(t) /\ LockOf(n) = 0
    BY <1>0, <1>2 DEF Held, Holding, LockOf, Like, Stands, SameCall
  <2>2. Fit(n)
    BY <1>0, <1>2 DEF Fit, HasFirst, InSync, Like, Stands, SameCall, Holding
  <2> QED
    BY <1>2, <2>1, <2>2 DEF Follows, Like
<1>3. CASE t.op \in Reads
  <2> DEFINE d == g.data
             n == [t EXCEPT !.val = d, !.done = TRUE, !.pc = "brelse"]
  <2>1. task' = [task EXCEPT ![p] = n] /\ UNCHANGED buf
    BY <1>3 DEF Copy
  <2>2. d \in Val
    BY <1>0 DEF BufferHead
  <2> HIDE DEF d
  <2>3. Stands(t, n) /\ n.pc = "brelse" /\ n.passes = t.passes
    BY <1>0, <2>2 DEF Like, Stands, SameCall, Task, Label
  <2> HIDE DEF n, t, g
  <2>4. Follows(t, n) /\ Held(n) = Held(t)
    BY <1>2, <2>3
  <2> QED
    BY <1>1, <2>1, <2>4, FollowsOn DEF t
<1>4. CASE t.op \notin Reads
  <2> DEFINE n == [t EXCEPT !.done = TRUE, !.pc = "brelse"]
             d == t.val
             x == g.dirt \/ MarksDirty(t)
             h == [g EXCEPT !.data = d, !.dirt = x]
  <2>1. task' = [task EXCEPT ![p] = n] /\ buf' = [buf EXCEPT ![t.bh] = h]
    BY <1>4 DEF Copy
  <2>2. Stands(t, n) /\ n.pc = "brelse" /\ n.passes = t.passes
    BY <1>0 DEF Like, Stands, SameCall, Task, Label
  <2>3. d \in Val /\ x \in BOOLEAN
    BY <1>0, TaskFields DEF BufferHead, MarksDirty
  <2> HIDE DEF n, d, x
  <2>4. /\ h \in BufferHead /\ h.block = g.block /\ h.lock = g.lock
        /\ h.count = g.count
    <3>1. g \in BufferHead
      BY <1>0
    <3> HIDE DEF g
    <3> QED
      BY <2>3, <3>1 DEF BufferHead
  <2>5. Follows(t, n) /\ Held(n) = Held(t)
    BY <1>2, <2>2
  <2> HIDE DEF h
  <2>6. task[p] = t /\ \E b : b = t.bh
    OBVIOUS
  <2>7. /\ buf' = [buf EXCEPT ![task[p].bh] = h] /\ h.block = buf[task[p].bh].block
        /\ h.lock = buf[task[p].bh].lock /\ h.count = buf[task[p].bh].count
    BY <2>1, <2>4
  <2> HIDE DEF t, g
  <2> QED
    BY <1>1, <2>1, <2>4, <2>5, <2>6, <2>7, Filled
<1> QED
  BY <1>3, <1>4

(* The copy is interrupted by a page fault.                                *)
LEMMA FaultKeeps ==
  ASSUME CacheInv, SmallSteps, NEW p \in Proc, Fault(p)
  PROVE  CacheInv'
<1> DEFINE t == task[p]
           g == buf[t.bh]
           x == g.dirt \/ t.op = "file_write"
           h == [g EXCEPT !.dirt = x]
           n == [t EXCEPT !.pc = "fault"]
<1>0. t \in Task /\ Fit(t) /\ t.pc = "copy"
  BY Here DEF Fault, At
<1>1. Holding(t) /\ LockOf(t) = 0 /\ t.bh \in Buffer
  BY <1>0, TaskFields DEF Holding, LockOf, Fit
<1>2. g \in BufferHead /\ x \in BOOLEAN
  BY <1>1, Here DEF BufferHead
<1>3. task' = [task EXCEPT ![p] = n] /\ buf' = [buf EXCEPT ![t.bh] = h]
  BY DEF Fault, Goto
<1> HIDE DEF x
<1>4. Like(t, n) /\ n.pc = "fault" /\ n.passes = t.passes
  BY <1>0 DEF Like, Stands, SameCall, Task, Label
<1>5. /\ h \in BufferHead /\ h.block = g.block /\ h.lock = g.lock
      /\ h.count = g.count
  <2>1. g \in BufferHead
    BY <1>2
  <2> HIDE DEF g
  <2> QED
    BY <1>2, <2>1 DEF BufferHead
<1> HIDE DEF n, h
<1>6. Held(n) = Held(t) /\ LockOf(n) = 0
  BY <1>0, <1>4 DEF Held, Holding, LockOf, Like, Stands, SameCall
<1>7. Fit(n)
  BY <1>0, <1>4 DEF Fit, HasFirst, InSync, Like, Stands, SameCall, Holding
<1>8. Follows(t, n)
  BY <1>4, <1>6, <1>7 DEF Follows, Like
<1>9. /\ buf' = [buf EXCEPT ![task[p].bh] = h] /\ h.block = buf[task[p].bh].block
      /\ h.lock = buf[task[p].bh].lock /\ h.count = buf[task[p].bh].count
  BY <1>3, <1>5
<1>10. task[p] = t
  OBVIOUS
<1> HIDE DEF t, g
<1> QED
  BY <1>1, <1>3, <1>5, <1>6, <1>8, <1>9, <1>10, Filled

(* getblk() takes the victim over: the count is 0, so no other task refers *)
(* to it and loses its block.                                              *)
LEMMA AssignKeeps ==
  ASSUME CacheInv, SmallSteps, NEW p \in Proc, Assign(p)
  PROVE  CacheInv'
<1> DEFINE t == task[p]
           v == t.bh
           g == buf[v]
           h == TakenOver(g, t.want)
           n == Got(t, t.bh, FALSE)
<1>0. /\ t \in Task /\ Fit(t) /\ Keeps(t, buf) /\ t.pc = "gb_wait"
      /\ buf \in [Buffer -> BufferHead]
  BY Here DEF Assign, At
<1>1. /\ Held(t) = 0 /\ LockOf(t) = 0 /\ v \in Buffer /\ t.want \in Block
      /\ t.op # "sync"
  BY <1>0, TaskFields DEF Holding, Held, LockOf, Fit, InSync
<1>2. g.count = 0 /\ ~g.lock /\ g \in BufferHead
  BY <1>0, <1>1 DEF Assign, Free
<1>3. task' = [task EXCEPT ![p] = n] /\ buf' = [buf EXCEPT ![v] = h]
  BY DEF Assign
<1>4. /\ h \in BufferHead /\ h.block = t.want /\ ~h.lock /\ ~h.dirt
      /\ h.count = 1
  <2> DEFINE k == t.want
  <2>1. k \in Block /\ h = TakenOver(g, k)
    BY <1>1
  <2> HIDE DEF g, k, h
  <2>2. /\ h \in BufferHead /\ h.block = k /\ ~h.lock /\ ~h.dirt /\ h.count = 1
    BY <1>2, <2>1 DEF TakenOver, BufferHead
  <2> QED
    BY <2>2 DEF k
<1>5. Follows(t, n) /\ Held(n) = v
  BY <1>0, GotFits
<1>6. n \in Task /\ Fit(n) /\ LockOf(n) = 0 /\ Stands(t, n)
  BY <1>5 DEF Follows, Like, Stands, SameCall
<1> HIDE DEF n, h
<1>7. \A b \in Buffer : buf'[b] = IF b = v THEN h ELSE buf[b]
  BY <1>0, <1>3
<1>8. \A r \in Proc : Held(task[r]) # v /\ task[r].first # v
  BY <1>1, <1>2, CountIsPositive
<1>9. \A r \in Proc : Keeps(task[r], buf')
  <2> SUFFICES ASSUME NEW r \in Proc PROVE Keeps(task[r], buf')
    OBVIOUS
  <2>1. /\ task[r] \in Task /\ Fit(task[r]) /\ Keeps(task[r], buf)
    BY Here
  <2> HIDE DEF v, t, g
  <2> QED
    BY <1>7, <1>8, <2>1, TaskFields DEF Keeps, Held, Fit
<1>10. Keeps(n, buf')
  <2>1. Keeps(t, buf')
    BY <1>9
  <2>2. buf'[v].block = t.want
    BY <1>1, <1>4, <1>7
  <2> HIDE DEF g
  <2> QED
    BY <1>5, <1>6, <2>1, <2>2 DEF Keeps, Like, Stands, SameCall, Held
<1>11. SameLocks /\ Types' /\ Placed(buf')
  <2>1. SameLocks
    BY <1>2, <1>4, <1>7, <1>0 DEF SameLocks, BufferHead
  <2>2. buf' \in [Buffer -> BufferHead]
    BY <1>0, <1>3, <1>4
  <2>3. Types'
    BY <2>2 DEF Types, SmallSteps, CacheInv, TypeOK
  <2>4. Placed(buf')
    BY <1>1, <1>4, <1>7, Here DEF Placed, CacheInv
  <2> QED
    BY <2>1, <2>3, <2>4
<1>12. \A r \in Proc : LockOf(task'[r]) = LockOf(task[r])
  <2>1. \A r \in Proc : task'[r] = IF r = p THEN n ELSE task[r]
    BY <1>3, Here
  <2> QED
    BY <1>1, <1>6, <2>1
<1>13. Owned'
  <2>1. \A b \in Buffer : buf[b].lock => buf'[b].block = buf[b].block
    BY <1>2, <1>7
  <2> QED
    BY <1>11, <1>12, <2>1, OwnedStays DEF SmallSteps
<1>14. Recounted(t, n)
  <2> SUFFICES ASSUME NEW c \in Buffer
               PROVE  buf'[c].count = buf[c].count - Refs(t, c) + Refs(n, c)
    BY DEF Recounted
  <2>1. buf'[c].count = buf[c].count + One(v, c) /\ buf[c].count \in Nat
    BY <1>0, <1>2, <1>4, <1>7 DEF One, BufferHead
  <2>2. Refs(n, c) = Refs(t, c) + One(v, c)
    BY <1>1, <1>5, <1>6, Here DEF Refs, One, Like, Stands, SameCall
  <2>3. Refs(t, c) \in Nat /\ One(v, c) \in Nat
    BY DEF Refs, One
  <2> QED
    BY <2>1, <2>2, <2>3
<1>15. Recounted(task[p], n) /\ task' = [task EXCEPT ![p] = n]
  BY <1>3, <1>14
<1> HIDE DEF t, v, g
<1> QED
  BY <1>6, <1>9, <1>10, <1>11, <1>13, <1>15, Stepped
-----------------------------------------------------------------------------

(* The fields of a request.                                                *)
LEMMA QueueTyped ==
  ASSUME CacheInv, NEW i \in DOMAIN queue
  PROVE  /\ queue[i] \in EL!Request /\ queue[i].bh \in Buffer
         /\ queue[i].sector \in Block
<1>1. queue \in Seq(EL!Request)
  BY DEF CacheInv, TypeOK
<1>2. queue[i] \in EL!Request
  BY <1>1, ElementOfSeq
<1> QED
  BY <1>2 DEF EL!Request

(* make_request() has locked a buffer for a request of which there is none *)
(* yet, and no other task has locked it.                                   *)
LEMMA WantsRequest ==
  ASSUME CacheInv, NEW p \in Proc, HasLocked(p), NEW b, b = Target(p)
  PROVE  /\ task[p].pc \in {"ll_rw_block", "get_request"}
         /\ b = TargetOf(task[p]) /\ b \in Buffer /\ b # 0
         /\ buf[b].block \in Block
         /\ \A i \in DOMAIN queue : queue[i].bh # b
         /\ \A r \in Proc \ {p} : LockOf(task[r]) # b
         /\ LockOf(task[p]) \in {0, b}
<1> DEFINE t == task[p]
<1>0. t \in Task /\ Fit(t) /\ Keeps(t, buf)
  BY Here
<1>1. t.pc \in {"ll_rw_block", "get_request"}
  BY DEF HasLocked, At
<1>2. b = TargetOf(t)
  BY HoldsIsHolding DEF CacheInv
<1>3. b \in Buffer /\ b # 0
  <2>1. TargetOf(t) \in Buffer \cup {0}
    BY <1>0, TaskFields DEF TargetOf
  <2>2. TargetOf(t) # 0
    BY <1>0, <1>1 DEF TargetOf, Fit, Holding
  <2> QED
    BY <1>2, <2>1, <2>2
<1>4. \/ LockOf(t) = b
      \/ t.pc = "ll_rw_block" /\ ~buf[b].lock /\ Needed(p)
  BY <1>2 DEF HasLocked, At, LockOf
<1>5. buf[b].block \in Block
  <2>1. buf[b].block \in Block \cup {0}
    BY <1>3, Here DEF BufferHead
  <2>2. CASE LockOf(t) = b
    <3>1. buf[b].lock
      BY <1>3, <2>2 DEF CacheInv, Owned
    <3> QED
      BY <1>3, <2>1, <3>1 DEF CacheInv, Placed
  <2>3. CASE t.pc = "ll_rw_block" /\ Needed(p) /\ t.passes # 0
    <3>1. buf[b].dirt
      <4>1. Syncing(p)
        BY <2>3, HoldsIsHolding DEF CacheInv
      <4>2. Command(p) = WRITE
        BY <4>1 DEF Command
      <4> QED
        BY <2>3, <4>2 DEF Needed
    <3> QED
      BY <1>3, <2>1, <3>1 DEF CacheInv, Placed
  <2>4. CASE t.pc = "ll_rw_block" /\ t.passes = 0
    <3>1. t.op # "sync" /\ Holding(t)
      BY <1>0, <2>4 DEF Fit, Holding
    <3> QED
      BY <1>0, <1>2, <2>4, <3>1 DEF Keeps, TargetOf, Fit
  <2> QED
    BY <1>4, <2>2, <2>3, <2>4
<1>6. /\ \A i \in DOMAIN queue : queue[i].bh # b
      /\ \A r \in Proc \ {p} : LockOf(task[r]) # b
  <2>1. Owned
    BY DEF CacheInv
  <2> HIDE DEF t
  <2>2. CASE LockOf(t) = b
    BY <1>3, <2>1, <2>2 DEF Owned, t
  <2>3. CASE ~buf[b].lock
    BY <1>3, <2>1, <2>3 DEF Owned
  <2> QED
    BY <1>4, <2>2, <2>3
<1>7. LockOf(t) \in {0, b}
  BY <1>2 DEF LockOf
<1> QED
  BY <1>1, <1>2, <1>3, <1>5, <1>6, <1>7

(* The task that finds no free request owns the lock.                      *)
LEMMA NoneFreeKeeps ==
  ASSUME CacheInv, SmallSteps, NEW p \in Proc, NoneFree(p)
  PROVE  CacheInv'
<1> DEFINE t == task[p]
<1> PICK b : b = Target(p)
  OBVIOUS
<1> DEFINE g == buf[b]
           h == [g EXCEPT !.lock = TRUE]
           n == [t EXCEPT !.pc = "no_request"]
<1>0. t \in Task /\ Fit(t) /\ Keeps(t, buf) /\ buf \in [Buffer -> BufferHead]
  BY Here
<1>1. /\ t.pc \in {"ll_rw_block", "get_request"}
      /\ b = TargetOf(t) /\ b \in Buffer /\ b # 0
      /\ g.block \in Block
      /\ \A i \in DOMAIN queue : queue[i].bh # b
      /\ \A r \in Proc \ {p} : LockOf(task[r]) # b
      /\ LockOf(t) \in {0, b}
  <2>1. HasLocked(p)
    BY DEF NoneFree
  <2> QED
    BY <2>1, WantsRequest
<1>2. task' = [task EXCEPT ![p] = n] /\ buf' = [buf EXCEPT ![b] = h]
  BY DEF NoneFree, Goto
<1>3. Like(t, n) /\ n.pc = "no_request" /\ n.passes = t.passes /\ n.i = t.i
  BY <1>0
  DEF Like, Stands, SameCall, Task, Label, Requesting, GoingToSleep
<1>4. /\ h \in BufferHead /\ h.block = g.block /\ h.lock /\ h.dirt = g.dirt
      /\ h.count = g.count
  <2>1. g \in BufferHead
    BY <1>0, <1>1
  <2> HIDE DEF g
  <2> QED
    BY <2>1 DEF BufferHead
<1> HIDE DEF n, h
<1>5. Held(n) = Held(t) /\ LockOf(n) = b
  BY <1>1, <1>3 
  DEF Held, Holding, LockOf, TargetOf, Like, Stands, SameCall, Requesting,
      GoingToSleep
<1>6. Fit(n)
  <2>1. t.passes # 0 \/ t.first = 0
    BY HoldsIsHolding DEF NoneFree, RwAhead, CacheInv
  <2> QED
    BY <1>0, <1>1, <1>3, <2>1
    DEF Fit, HasFirst, InSync, Like, Stands, SameCall, Holding, Requesting,
        GoingToSleep
<1>7. \A c \in Buffer : buf'[c] = IF c = b THEN h ELSE buf[c]
  BY <1>0, <1>2
<1>8. SameBlocks /\ \A c \in Buffer : buf'[c].count = buf[c].count
  BY <1>4, <1>7 DEF SameBlocks
<1>9. \A r \in Proc : task'[r] = IF r = p THEN n ELSE task[r]
  BY <1>2, Here
<1>10. Owned'
  <2>1. Owned
    BY DEF CacheInv
  <2>2. \A r \in Proc : LockOf(task[r])' = IF r = p THEN b ELSE LockOf(task[r])
    <3>1. \A r \in Proc : LockOf(task'[r]) = IF r = p THEN b ELSE LockOf(task[r])
      BY <1>5, <1>9
    <3> QED
      BY <3>1 DEF LockOf, TargetOf
  <2>3. \A c \in Buffer : /\ buf'[c].lock = (c = b \/ buf[c].lock)
                          /\ buf'[c].block = buf[c].block
    BY <1>0, <1>4, <1>7 DEF BufferHead
  <2>4. queue' = queue /\ \A i \in DOMAIN queue : queue[i].bh \in Buffer
    BY QueueTyped DEF SmallSteps
  <2>5. \A r \in Proc : LockOf(task[r]) \in Buffer \cup {0}
    BY Here, HeldFields
  <2>6. /\ \A i \in DOMAIN queue : queue[i].bh # b
        /\ \A r \in Proc \ {p} : LockOf(task[r]) # b
        /\ b \in Buffer /\ b # 0 /\ LockOf(task[p]) \in {0, b}
    BY <1>1
  <2> HIDE DEF t, g
  <2>7. \A r, s \in Proc : LockOf(task[r])' # 0
          /\ LockOf(task[r])' = LockOf(task[s])' => r = s
    BY <2>1, <2>2, <2>6 DEF Owned
  <2>8. \A r \in Proc, i \in DOMAIN queue : queue[i].bh # LockOf(task[r])'
    BY <2>1, <2>2, <2>6 DEF Owned
  <2>9. \A i \in DOMAIN queue : /\ buf'[queue[i].bh].lock
                                /\ queue[i].sector = buf'[queue[i].bh].block
    BY <2>1, <2>3, <2>4 DEF Owned
  <2>10. \A r \in Proc : LockOf(task[r])' # 0 => buf'[LockOf(task[r])'].lock
    BY <2>1, <2>2, <2>3, <2>5, <2>6 DEF Owned
  <2>11. \A c \in Buffer : buf'[c].lock =>
            \/ \E i \in DOMAIN queue : queue[i].bh = c
            \/ \E r \in Proc : LockOf(task[r])' = c
    <3> SUFFICES ASSUME NEW c \in Buffer, c # b, buf'[c].lock
                 PROVE  \/ \E i \in DOMAIN queue : queue[i].bh = c
                        \/ \E r \in Proc : LockOf(task[r])' = c
      BY <2>2
    <3>1. \/ \E i \in DOMAIN queue : queue[i].bh = c
          \/ \E r \in Proc : LockOf(task[r]) = c
      BY <2>1, <2>3 DEF Owned
    <3>2. \A r \in Proc : LockOf(task[r]) = c => r # p
      BY <2>6, Here
    <3> QED
      BY <2>2, <3>1, <3>2
  <2>12. \A i, j \in DOMAIN queue : queue[i].bh = queue[j].bh => i = j
    BY <2>1 DEF Owned
  <2>13. queue' = queue
    BY <2>4
  <2> QED
    BY <2>7, <2>8, <2>9, <2>10, <2>11, <2>12, <2>13 DEF Owned
<1>11. Types' /\ Placed(buf')
  <2>1. buf' \in [Buffer -> BufferHead]
    BY <1>0, <1>2, <1>4
  <2>2. Placed(buf')
    BY <1>1, <1>4, <1>7, Here DEF Placed, CacheInv
  <2> QED
    BY <2>1, <2>2 DEF Types, SmallSteps, CacheInv, TypeOK
<1>12. ASSUME NEW s \in Task, Keeps(s, buf), Fit(s) PROVE Keeps(s, buf')
  BY <1>8, <1>12, TaskFields DEF Keeps, SameBlocks, Fit
<1>13. \A r \in Proc : Keeps(task[r], buf')
  BY <1>12, Here
<1>14. Keeps(n, buf')
  <2>2. Keeps(t, buf')
    BY <1>13
  <2> QED
    BY <1>3, <1>5, <1>6, <2>2 DEF Keeps, Like, Stands, SameCall, Held, Fit
<1>15. Recounted(task[p], n)
  <2>1. \A c \in Buffer : buf[c].count \in Nat
    BY <1>0 DEF BufferHead
  <2>2. \A c \in Buffer : Refs(n, c) = Refs(t, c) /\ Refs(t, c) \in Nat
    BY <1>3, <1>5 DEF Refs, One, Like, Stands, SameCall
  <2> QED
    BY <1>8, <2>1, <2>2 DEF Recounted
<1>16. n \in Task /\ task' = [task EXCEPT ![p] = n]
  BY <1>2, <1>3 DEF Like, Stands, SameCall
<1> HIDE DEF t, g
<1> QED
  BY <1>6, <1>10, <1>11, <1>13, <1>14, <1>15, <1>16, Stepped
(* A task that only goes to another label.                                 *)
LEMMA GotoIs ==
  ASSUME CacheInv, NEW p \in Proc, NEW l \in Label, Goto(p, l)
  PROVE  \E n : /\ task' = [task EXCEPT ![p] = n] /\ n.pc = l
                /\ Like(task[p], n) /\ n.passes = task[p].passes
                /\ n.i = task[p].i
<1> DEFINE t == task[p]
           n == [t EXCEPT !.pc = l]
<1>1. task' = [task EXCEPT ![p] = n] /\ t \in Task
  BY Here DEF Goto
<1>2. n.pc = l /\ Like(t, n) /\ n.passes = t.passes /\ n.i = t.i
  BY <1>1 DEF Task, SameCall, Like, Stands
<1> HIDE DEF n
<1> QED
  BY <1>1, <1>2

(* Going to sleep for a request, a task stays among those that want one.   *)
LEMMA SleepForRequestIs ==
  ASSUME CacheInv, NEW p \in Proc, SleepForRequest(p)
  PROVE  /\ task[p].pc \in GoingToSleep
         /\ \E n : /\ task' = [task EXCEPT ![p] = n] /\ n.pc \in Requesting
                   /\ Like(task[p], n) /\ n.passes = task[p].passes
                   /\ n.i = task[p].i
<1>1. task[p].pc \in GoingToSleep
  BY DEF SleepForRequest, At, GoingToSleep
<1>2. PICK l \in Requesting : Goto(p, l)
  BY DEF SleepForRequest, Requesting, GoingToSleep
<1>3. l \in Label
  BY DEF Label
<1> QED
  BY <1>1, <1>2, <1>3, GotoIs

(* It keeps its lock and its references.                                   *)
LEMMA SleepForRequestKeeps ==
  ASSUME CacheInv, SmallSteps, NEW p \in Proc, SleepForRequest(p)
  PROVE  CacheInv'
<1> DEFINE t == task[p]
<1>0. t \in Task /\ Fit(t) /\ Keeps(t, buf) /\ buf \in [Buffer -> BufferHead]
  BY Here
<1>1. PICK n : /\ task' = [task EXCEPT ![p] = n] /\ n.pc \in Requesting
               /\ Like(t, n) /\ n.passes = t.passes /\ n.i = t.i
  BY SleepForRequestIs
<1>2. t.pc \in Requesting /\ UNCHANGED buf
  BY SleepForRequestIs DEF Requesting, SleepForRequest
<1>3. Held(n) = Held(t) /\ LockOf(n) = LockOf(t)
  BY <1>1, <1>2
  DEF Held, Holding, LockOf, TargetOf, Like, Stands, SameCall, Requesting,
      GoingToSleep
<1>4. Fit(n)
  BY <1>0, <1>1, <1>2
  DEF Fit, HasFirst, InSync, Like, Stands, SameCall, Holding, Requesting,
      GoingToSleep
<1>5. n \in Task /\ Keeps(n, buf)
  BY <1>0, <1>1, <1>2, <1>3
  DEF Keeps, Like, Stands, SameCall, Holding, Requesting, GoingToSleep
<1>6. SameBlocks /\ SameLocks
  BY <1>2 DEF SameBlocks, SameLocks
<1>7. \A r \in Proc : LockOf(task'[r]) = LockOf(task[r])
  <2>1. \A r \in Proc : task'[r] = IF r = p THEN n ELSE task[r]
    BY <1>1, Here
  <2> QED
    BY <1>3, <2>1
<1>8. Owned'
  BY <1>6, <1>7, OwnedStays DEF SmallSteps, SameBlocks
<1>9. Types' /\ Placed(buf')
  BY <1>2 DEF Types, SmallSteps, CacheInv, TypeOK
<1>10. Recounted(t, n)
  <2>1. \A b \in Buffer : Refs(n, b) = Refs(t, b) /\ Refs(t, b) \in Nat
    BY <1>1, <1>3 DEF Refs, One, Like, Stands, SameCall
  <2>2. \A b \in Buffer : buf[b].count \in Nat
    BY <1>0 DEF BufferHead
  <2> QED
    BY <1>2, <2>1, <2>2 DEF Recounted
<1>11. \A r \in Proc : Keeps(task[r], buf')
  BY <1>2, Here
<1> QED
  BY <1>1, <1>2, <1>4, <1>5, <1>8, <1>9, <1>10, <1>11, Stepped
-----------------------------------------------------------------------------

(* The list q has become qq by one more request, at k: Before(i, k) is     *)
(* where the i-th request of qq was in q.                                  *)
Before(i, k) == IF i < k THEN i ELSE i - 1

Links(q, qq, k) ==
  /\ k \in DOMAIN qq
  /\ \A i \in DOMAIN qq \ {k} :
       Before(i, k) \in DOMAIN q /\ qq[i] = q[Before(i, k)]
  /\ \A i, j \in DOMAIN qq \ {k} : Before(i, k) = Before(j, k) => i = j
  /\ \A j \in DOMAIN q : \E i \in DOMAIN qq \ {k} : Before(i, k) = j
  /\ q # <<>> => k # 1

(* add_request() does that to the list, by the lemma on inserting.    *)
LEMMA AddLinks ==
  ASSUME NEW q \in Seq(EL!Request), NEW r \in EL!Request
  PROVE  /\ EL!AddRequest(q, r) \in Seq(EL!Request)
         /\ \E k : Links(q, EL!AddRequest(q, r), k)
                     /\ EL!AddRequest(q, r)[k] = r
<1> DEFINE qq == EL!AddRequest(q, r)
           fits == {i \in 1..(Len(q) - 1) :
                      /\ EL!InOrder(q[i], r) \/ ~EL!InOrder(q[i], q[i + 1])
                      /\ EL!InOrder(r, q[i + 1])}
           m == IF fits = {} THEN Len(q) ELSE Min(fits)
<1>0. Len(q) \in Nat /\ (q # <<>> => Len(q) # 0)
  BY LenProperties, EmptySeq
<1>2. m \in 0..Len(q) /\ (q # <<>> => m # 0)
  <2>1. fits \in SUBSET Nat /\ fits \subseteq 1..(Len(q) - 1)
    BY <1>0
  <2> HIDE DEF fits
  <2>2. CASE fits = {}
    BY <1>0, <2>2
  <2>3. CASE fits # {}
    <3>1. Min(fits) \in fits
      BY <2>1, <2>3, MinIn
    <3>2. m = Min(fits)
      BY <2>3
    <3>3. Min(fits) \in 1..(Len(q) - 1)
      BY <2>1, <3>1
    <3> HIDE DEF m
    <3>4. m \in 1..(Len(q) - 1)
      BY <3>2, <3>3
    <3> QED
      BY <1>0, <3>4
  <2> QED
    BY <2>2, <2>3
<1>1. /\ qq \in Seq(EL!Request) /\ Len(qq) = Len(q) + 1
      /\ \A i \in 1..m : qq[i] = q[i]
      /\ qq[m + 1] = r
      /\ \A i \in (m + 2)..(Len(q) + 1) : qq[i] = q[i - 1]
  <2>1. qq = WithElement(q, m + 1, r)
    BY DEF EL!AddRequest, EL!InsertAt, EL!Min, Min, WithElement
  <2> HIDE DEF qq, m
  <2> DEFINE n == m + 1
  <2>2. n \in 1..(Len(q) + 1) /\ n - 1 = m /\ n + 1 = m + 2
    BY <1>0, <1>2
  <2> HIDE DEF n
  <2>3. /\ WithElement(q, n, r) \in Seq(EL!Request)
        /\ Len(WithElement(q, n, r)) = Len(q) + 1
        /\ \A i \in 1..(n - 1) : WithElement(q, n, r)[i] = q[i]
        /\ WithElement(q, n, r)[n] = r
        /\ \A i \in (n + 1)..(Len(q) + 1) : WithElement(q, n, r)[i] = q[i - 1]
    BY <2>2, Inserted
  <2>4. qq = WithElement(q, n, r)
    BY <2>1 DEF n
  <2>5. /\ qq \in Seq(EL!Request) /\ Len(qq) = Len(q) + 1
        /\ \A i \in 1..m : qq[i] = q[i]
        /\ qq[n] = r
        /\ \A i \in (m + 2)..(Len(q) + 1) : qq[i] = q[i - 1]
    BY <2>2, <2>3, <2>4
  <2> QED
    BY <2>5 DEF n
<1>3. Len(q) \in Nat /\ DOMAIN q = 1..Len(q) /\ DOMAIN qq = 1..Len(qq)
  BY <1>1, LenProperties
<1> HIDE DEF qq, m
<1> DEFINE k == m + 1
<1>4. k \in DOMAIN qq
  BY <1>1, <1>2, <1>3
<1>5. ASSUME NEW i \in DOMAIN qq \ {k}
      PROVE  Before(i, k) \in DOMAIN q /\ qq[i] = q[Before(i, k)]
  <2>1. i \in 1..m \/ i \in (m + 2)..(Len(q) + 1)
    BY <1>1, <1>2, <1>3
  <2> QED
    BY <1>1, <1>2, <1>3, <2>1 DEF Before
<1>6. \A i, j \in DOMAIN qq \ {k} : Before(i, k) = Before(j, k) => i = j
  BY <1>1, <1>2, <1>3 DEF Before
<1>7. ASSUME NEW j \in DOMAIN q
      PROVE  \E i \in DOMAIN qq \ {k} : Before(i, k) = j
  <2>1. CASE j <= m
    <3>1. j \in DOMAIN qq \ {k} /\ Before(j, k) = j
      BY <1>1, <1>2, <1>3, <2>1 DEF Before
    <3> QED
      BY <3>1
  <2>2. CASE j > m
    <3>1. j + 1 \in DOMAIN qq \ {k} /\ Before(j + 1, k) = j
      BY <1>1, <1>2, <1>3, <2>2 DEF Before
    <3> QED
      BY <3>1
  <2> QED
    BY <1>2, <1>3, <2>1, <2>2
<1>8. Links(q, qq, k) /\ qq[k] = r
  <2>1. q # <<>> => k # 1
    BY <1>2, <1>3
  <2> QED
    BY <1>1, <1>4, <1>5, <1>6, <1>7, <2>1 DEF Links
<1> QED
  BY <1>1, <1>8 DEF qq

(* So does make_request(), and the new request is the one asked for.       *)
LEMMA MakeRequestLinks ==
  ASSUME queue \in Seq(EL!Request), NEW rw \in {READ, WRITE},
         NEW s \in Block, NEW b \in Buffer, EL!MakeRequest(rw, s, b)
  PROVE  /\ queue' \in Seq(EL!Request)
         /\ \E k : Links(queue, queue', k) /\ queue'[k].bh = b
                     /\ queue'[k].sector = s /\ queue'[k].cmd = rw
<1> DEFINE slot == EL!Max(EL!FreeSlots(rw))
           r == [slot |-> slot, cmd |-> rw, dev |-> DevOf[s], sector |-> s,
                 bh |-> b]
<1>1. queue' = EL!AddRequest(queue, r) /\ EL!FreeSlots(rw) # {}
  BY DEF EL!MakeRequest
<1>2. slot \in EL!Slot
  <2>1. EL!FreeSlots(rw) \in SUBSET (0..NrRequest)
    <3>1. (NrRequest * 2) \div 3 \in Nat /\ (NrRequest * 2) \div 3 <= NrRequest
      BY SizeAssumption
    <3> QED
      BY <3>1, SizeAssumption DEF EL!FreeSlots, EL!SlotsFor, EL!Slot
  <2>2. slot = Max(EL!FreeSlots(rw))
    BY DEF EL!Max, Max
  <2>3. slot \in EL!FreeSlots(rw)
    <3> HIDE DEF slot
    <3> QED
      BY <1>1, <2>1, <2>2, MaxIn, SizeAssumption
  <2>4. EL!FreeSlots(rw) \subseteq EL!Slot
    <3>1. (NrRequest * 2) \div 3 \in Nat /\ (NrRequest * 2) \div 3 <= NrRequest
      BY SizeAssumption
    <3> QED
      BY <3>1, SizeAssumption DEF EL!FreeSlots, EL!SlotsFor, EL!Slot
  <2> QED
    BY <2>3, <2>4
<1>3. r \in EL!Request /\ r.bh = b /\ r.sector = s /\ r.cmd = rw
  <2>1. DevOf[s] \in Nat
    BY DevAssumption
  <2> HIDE DEF slot
  <2> QED
    BY <1>2, <2>1 DEF EL!Request, READ, WRITE
<1> HIDE DEF r
<1> QED
  BY <1>1, <1>3, AddLinks

(* The lock passes from the task to its request.                           *)
LEMMA AddRequestKeeps ==
  ASSUME CacheInv, WQ!TypeOK', NEW p \in Proc, AddRequest(p)
  PROVE  CacheInv'
<1> DEFINE t == task[p]
<1> PICK b : b = Target(p)
  OBVIOUS
<1> DEFINE g == buf[b]
           h == [g EXCEPT !.lock = TRUE, !.dirt = FALSE]
<1>0. t \in Task /\ Fit(t) /\ Keeps(t, buf) /\ buf \in [Buffer -> BufferHead]
  BY Here
<1>1. /\ t.pc \in {"ll_rw_block", "get_request"}
      /\ b = TargetOf(t) /\ b \in Buffer /\ b # 0
      /\ g.block \in Block
      /\ \A i \in DOMAIN queue : queue[i].bh # b
      /\ \A r \in Proc \ {p} : LockOf(task[r]) # b
      /\ LockOf(t) \in {0, b}
  <2>1. HasLocked(p)
    BY DEF AddRequest
  <2> QED
    BY <2>1, WantsRequest
<1>2. PICK n : /\ task' = [task EXCEPT ![p] = n]
               /\ Follows(t, n) /\ Held(n) = Held(t)
  <2>1. FromRequest(p, buf')
    BY DEF AddRequest
  <2> QED
    BY <1>1, <2>1, FromRequestFits
<1>3. buf' = [buf EXCEPT ![b] = h]
  BY DEF AddRequest
<1>4. /\ h \in BufferHead /\ h.block = g.block /\ h.lock /\ ~h.dirt
      /\ h.count = g.count
  <2>1. g \in BufferHead
    BY <1>0, <1>1
  <2> HIDE DEF g
  <2> QED
    BY <2>1 DEF BufferHead
<1> HIDE DEF h
<1>5. n \in Task /\ Fit(n) /\ LockOf(n) = 0 /\ n.first = t.first
  BY <1>2 DEF Follows, Like, Stands, SameCall
<1>6. Keeps(n, buf)
  BY <1>0, <1>2, FollowsKeeps
<1>7. \A c \in Buffer : buf'[c] = IF c = b THEN h ELSE buf[c]
  BY <1>0, <1>3
<1>8. \A c \in Buffer : /\ buf'[c].lock = (c = b \/ buf[c].lock)
                        /\ buf'[c].block = buf[c].block
                        /\ buf'[c].count = buf[c].count
  BY <1>0, <1>4, <1>7 DEF BufferHead
<1>9. \A r \in Proc : task'[r] = IF r = p THEN n ELSE task[r]
  BY <1>2, Here
<1>10. /\ queue' \in Seq(EL!Request)
       /\ \E k : Links(queue, queue', k) /\ queue'[k].bh = b
                   /\ queue'[k].sector = g.block
  <2>1. EL!MakeRequest(Command(p), g.block, b) /\ Command(p) \in {READ, WRITE}
    BY DEF AddRequest, Command
  <2> QED
    BY <1>1, <2>1, MakeRequestLinks DEF CacheInv, TypeOK
<1>11. Owned'
  <2>1. Owned
    BY DEF CacheInv
  <2>2. \A r \in Proc : LockOf(task[r])' = IF r = p THEN 0 ELSE LockOf(task[r])
    <3>1. \A r \in Proc : LockOf(task'[r]) = IF r = p THEN 0 ELSE LockOf(task[r])
      BY <1>5, <1>9
    <3> QED
      BY <3>1 DEF LockOf, TargetOf
  <2>3. \A i \in DOMAIN queue : queue[i].bh \in Buffer
    BY QueueTyped
  <2>4. \A r \in Proc : LockOf(task[r]) \in Buffer \cup {0}
    BY Here, HeldFields
  <2>5. /\ \A i \in DOMAIN queue : queue[i].bh # b
        /\ \A r \in Proc \ {p} : LockOf(task[r]) # b
        /\ b \in Buffer /\ b # 0 /\ LockOf(task[p]) \in {0, b}
    BY <1>1
  <2>6. PICK k : Links(queue, queue', k) /\ queue'[k].bh = b
                   /\ queue'[k].sector = buf[b].block
    BY <1>10
  <2>7. /\ \A i \in DOMAIN queue' \ {k} :
             Before(i, k) \in DOMAIN queue /\ queue'[i] = queue[Before(i, k)]
        /\ \A i, j \in DOMAIN queue' \ {k} : Before(i, k) = Before(j, k) => i = j
        /\ \A j \in DOMAIN queue : \E i \in DOMAIN queue' \ {k} :
             Before(i, k) = j
        /\ k \in DOMAIN queue'
    BY <2>6 DEF Links
  <2> HIDE DEF t, g
  <2>8. \A i, j \in DOMAIN queue' : queue'[i].bh = queue'[j].bh => i = j
    <3>1. \A i \in DOMAIN queue' \ {k} : queue'[i].bh # b
      BY <2>5, <2>7
    <3>2. \A i, j \in DOMAIN queue' \ {k} : queue'[i].bh = queue'[j].bh => i = j
      BY <2>1, <2>7 DEF Owned
    <3> QED
      BY <2>6, <3>1, <3>2
  <2>9. \A r, s \in Proc : LockOf(task[r])' # 0
          /\ LockOf(task[r])' = LockOf(task[s])' => r = s
    BY <2>1, <2>2 DEF Owned
  <2>10. \A r \in Proc, i \in DOMAIN queue' : queue'[i].bh # LockOf(task[r])'
    <3> SUFFICES ASSUME NEW r \in Proc, NEW i \in DOMAIN queue'
                 PROVE  queue'[i].bh # LockOf(task[r])'
      OBVIOUS
    <3>1. CASE i = k
      BY <2>2, <2>5, <2>6, <3>1
    <3>2. CASE i # k
      <4>1. Before(i, k) \in DOMAIN queue /\ queue'[i] = queue[Before(i, k)]
        BY <2>7, <3>2
      <4>2. queue'[i].bh # LockOf(task[r]) /\ queue'[i].bh # 0
        BY <2>1, <2>3, <4>1, Here DEF Owned
      <4> QED
        BY <2>2, <4>2
    <3> QED
      BY <3>1, <3>2
  <2>11. \A i \in DOMAIN queue' : /\ buf'[queue'[i].bh].lock
                                  /\ queue'[i].sector = buf'[queue'[i].bh].block
    <3> SUFFICES ASSUME NEW i \in DOMAIN queue'
                 PROVE  /\ buf'[queue'[i].bh].lock
                        /\ queue'[i].sector = buf'[queue'[i].bh].block
      OBVIOUS
    <3>1. CASE i = k
      BY <1>8, <2>5, <2>6, <3>1
    <3>2. CASE i # k
      <4>1. Before(i, k) \in DOMAIN queue /\ queue'[i] = queue[Before(i, k)]
        BY <2>7, <3>2
      <4> PICK j \in DOMAIN queue : queue'[i] = queue[j]
        BY <4>1
      <4>2. /\ queue[j].bh \in Buffer /\ buf[queue[j].bh].lock
            /\ queue[j].sector = buf[queue[j].bh].block
        BY <2>1, <2>3 DEF Owned
      <4>3. /\ buf'[queue[j].bh].lock
            /\ queue[j].sector = buf'[queue[j].bh].block
        BY <1>8, <4>2
      <4> QED
        BY <4>3
    <3> QED
      BY <3>1, <3>2
  <2>12. \A r \in Proc : LockOf(task[r])' # 0 => buf'[LockOf(task[r])'].lock
    BY <1>8, <2>1, <2>2, <2>4 DEF Owned
  <2>13. ASSUME NEW c \in Buffer, buf'[c].lock
         PROVE  \/ \E i \in DOMAIN queue' : queue'[i].bh = c
                \/ \E r \in Proc : LockOf(task[r])' = c
    <3>1. CASE c = b
      BY <2>6, <2>7, <3>1
    <3>2. CASE c # b
      <4>1. \/ \E i \in DOMAIN queue : queue[i].bh = c
            \/ \E r \in Proc : LockOf(task[r]) = c
        BY <1>8, <2>1, <2>13, <3>2 DEF Owned
      <4>2. \A r \in Proc : LockOf(task[r]) = c => r # p
        BY <2>5, <3>2, Here
      <4>3. ASSUME NEW j \in DOMAIN queue, queue[j].bh = c
            PROVE  \E i \in DOMAIN queue' : queue'[i].bh = c
        BY <2>7, <4>3
      <4> QED
        BY <2>2, <4>1, <4>2, <4>3
    <3> QED
      BY <3>1, <3>2
  <2> QED
    BY <2>8, <2>9, <2>10, <2>11, <2>12, <2>13 DEF Owned
<1>12. Types' /\ Placed(buf')
  <2>1. buf' \in [Buffer -> BufferHead]
    BY <1>0, <1>3, <1>4
  <2>2. Placed(buf')
    BY <1>1, <1>4, <1>7, Here DEF Placed, CacheInv
  <2>3. UNCHANGED <<moved, disk, missed>>
    BY DEF AddRequest
  <2> QED
    BY <1>10, <2>1, <2>2, <2>3 DEF Types, CacheInv, TypeOK
<1>13. ASSUME NEW s \in Task, Keeps(s, buf), Fit(s) PROVE Keeps(s, buf')
  BY <1>8, <1>13, TaskFields DEF Keeps, Fit
<1>14. Keeps(n, buf') /\ \A r \in Proc : Keeps(task[r], buf')
  BY <1>5, <1>6, <1>13, Here
<1>15. Recounted(task[p], n)
  <2>1. \A c \in Buffer : buf[c].count \in Nat
    BY <1>0 DEF BufferHead
  <2>2. \A c \in Buffer : Refs(n, c) = Refs(t, c) /\ Refs(t, c) \in Nat
    BY <1>2, <1>5 DEF Refs, One
  <2> QED
    BY <1>8, <2>1, <2>2 DEF Recounted
<1> HIDE DEF t, g
<1> QED
  BY <1>2, <1>5, <1>11, <1>12, <1>14, <1>15, Stepped
-----------------------------------------------------------------------------

(* The interrupt changes neither counts nor blocks, ...                    *)
SameRefs == \A b \in Buffer : buf'[b].block = buf[b].block
                                /\ buf'[b].count = buf[b].count

(* ... so all it can disturb are types, places and locks.                  *)
LEMMA Undisturbed ==
  ASSUME CacheInv, task' = task, SameRefs, Types', Placed(buf'), Owned'
  PROVE  CacheInv'
<1>1. \A p \in Proc : Fit(task[p]) /\ Keeps(task[p], buf')
  <2> SUFFICES ASSUME NEW p \in Proc PROVE Keeps(task[p], buf')
    BY Here
  <2> QED
    BY Here, TaskFields DEF Keeps, SameRefs, Fit
<1>2. \A p \in Proc : Fit(task[p])' /\ Keeps(task[p], buf)'
  BY <1>1 DEF Fit, Keeps, Holding
<1>3. Counted'
  <2>1. /\ [p \in Proc |-> Held(task'[p])] = [p \in Proc |-> Held(task[p])]
        /\ [p \in Proc |-> task'[p].first] = [p \in Proc |-> task[p].first]
    OBVIOUS
  <2>2. \A b \in Buffer :
          buf'[b].count = Occurs([p \in Proc |-> Held(task'[p])], b)
                            + Occurs([p \in Proc |-> task'[p].first], b)
    BY <2>1 DEF SameRefs, CacheInv, Counted
  <2> QED
    BY <2>2 DEF Counted, Held, Holding
<1>4. TypeOK'
  BY DEF Types, TypeOK, CacheInv
<1>5. Placed(buf)'
  BY DEF Placed
<1> QED
  BY <1>2, <1>3, <1>4, <1>5 DEF CacheInv

(* Falling asleep and resuming leave the cache alone.                      *)
LEMMA SleepsKeep ==
  ASSUME CacheInv, WQ!TypeOK',
         UNCHANGED <<queue, moved, disk, missed, buf, task>>
  PROVE  CacheInv'
<1>1. SameRefs /\ SameLocks
  BY DEF SameRefs, SameLocks
<1>2. Types' /\ Placed(buf')
  BY DEF Types, CacheInv, TypeOK
<1>3. Owned'
  BY <1>1, OwnedStays DEF SameRefs
<1> QED
  BY <1>1, <1>2, <1>3, Undisturbed

(* The request at the head of the list.                                    *)
LEMMA HeadTyped ==
  ASSUME CacheInv, queue # <<>>
  PROVE  /\ 1 \in DOMAIN queue /\ Head(queue) = queue[1]
         /\ Head(queue).bh \in Buffer /\ Head(queue).sector \in Block
<1>1. queue \in Seq(EL!Request)
  BY DEF CacheInv, TypeOK
<1>2. 1 \in DOMAIN queue /\ Head(queue) = queue[1]
  BY <1>1, LenProperties, EmptySeq
<1> QED
  BY <1>2, QueueTyped

(* The data cross the bus.                                                 *)
LEMMA MoveDataKeeps ==
  ASSUME CacheInv, WQ!TypeOK', MoveData
  PROVE  CacheInv'
<1> PICK r : r = Head(queue)
  OBVIOUS
<1>1. r.bh \in Buffer /\ r.sector \in Block
  BY HeadTyped DEF MoveData
<1>2. buf \in [Buffer -> BufferHead] /\ disk \in [Block -> Val]
  BY DEF CacheInv, TypeOK
<1>3. SameRefs /\ SameLocks /\ buf' \in [Buffer -> BufferHead]
        /\ disk' \in [Block -> Val]
        /\ \A b \in Buffer : buf'[b].dirt = buf[b].dirt
  <2>1. CASE UNCHANGED buf /\ disk' = [disk EXCEPT ![r.sector] = buf[r.bh].data]
    <3>1. buf[r.bh].data \in Val
      BY <1>1, <1>2 DEF BufferHead
    <3> QED
      BY <1>1, <1>2, <2>1, <3>1 DEF SameRefs, SameLocks
  <2>2. CASE UNCHANGED disk /\ buf' = [buf EXCEPT ![r.bh].data = disk[r.sector]]
    <3> DEFINE g == buf[r.bh]
               d == disk[r.sector]
               h == [g EXCEPT !.data = d]
    <3>1. g \in BufferHead /\ d \in Val /\ buf' = [buf EXCEPT ![r.bh] = h]
      BY <1>1, <1>2, <2>2
    <3>2. /\ h \in BufferHead /\ h.block = g.block /\ h.lock = g.lock
          /\ h.dirt = g.dirt /\ h.count = g.count
      <4> HIDE DEF g, d
      <4> QED
        BY <3>1 DEF BufferHead
    <3> HIDE DEF h
    <3> QED
      BY <1>1, <1>2, <2>2, <3>1, <3>2 DEF SameRefs, SameLocks
  <2> QED
    BY <2>1, <2>2 DEF MoveData
<1>4. Placed(buf')
  BY <1>3 DEF Placed, SameRefs, SameLocks, CacheInv
<1>5. UNCHANGED <<queue, task, missed>> /\ moved' \in BOOLEAN
  BY DEF MoveData
<1>6. Types'
  BY <1>3, <1>5 DEF Types, CacheInv, TypeOK
<1>7. Owned'
  BY <1>3, <1>5, OwnedStays DEF SameRefs
<1> QED
  BY <1>3, <1>4, <1>5, <1>6, <1>7, Undisturbed

(* end_request() frees the request and unlocks its buffer.                 *)
LEMMA EndRequestKeeps ==
  ASSUME CacheInv, WQ!TypeOK', NEW u \in BOOLEAN, EndRequest(u)
  PROVE  CacheInv'
<1> PICK b : b = Head(queue).bh
  OBVIOUS
<1>1. queue # <<>> /\ queue' = Tail(queue) /\ queue \in Seq(EL!Request)
  BY DEF EndRequest, EL!EndRequest, CacheInv, TypeOK
<1>2. 1 \in DOMAIN queue /\ b = queue[1].bh /\ b \in Buffer
  BY <1>1, HeadTyped
<1>3. buf \in [Buffer -> BufferHead]
  BY DEF CacheInv, TypeOK
<1> DEFINE g == buf[b]
           h == [g EXCEPT !.uptodate = u, !.lock = FALSE]
<1>4. buf' = [buf EXCEPT ![b] = h] /\ g \in BufferHead
  BY <1>2, <1>3 DEF EndRequest
<1>5. /\ h \in BufferHead /\ h.block = g.block /\ h.lock = FALSE
      /\ h.dirt = g.dirt /\ h.count = g.count
  <2> HIDE DEF g
  <2> QED
    BY <1>4 DEF BufferHead
<1> HIDE DEF h
<1>6. \A c \in Buffer : /\ buf'[c].block = buf[c].block
                        /\ buf'[c].count = buf[c].count
                        /\ buf'[c].dirt = buf[c].dirt
                        /\ buf'[c].lock => c # b /\ buf[c].lock
                        /\ c # b => buf'[c].lock = buf[c].lock
  BY <1>2, <1>3, <1>4, <1>5
<1>7. SameRefs /\ Placed(buf')
  BY <1>6 DEF SameRefs, Placed, CacheInv
<1>8. /\ queue' \in Seq(EL!Request)
      /\ \A i \in DOMAIN queue' : i + 1 \in DOMAIN queue /\ i \in Nat /\ i # 0
                                    /\ queue'[i] = queue[i + 1]
      /\ \A j \in DOMAIN queue : j # 1 => \E i \in DOMAIN queue' : queue'[i] = queue[j]
  <2>1. /\ queue' \in Seq(EL!Request) /\ Len(queue') = Len(queue) - 1
        /\ \A i \in 1..Len(queue') : queue'[i] = queue[i + 1]
    BY <1>1, HeadTailProperties
  <2>2. /\ Len(queue) \in Nat /\ DOMAIN queue = 1..Len(queue)
        /\ DOMAIN queue' = 1..Len(queue')
    BY <1>1, <2>1, LenProperties
  <2>3. \A j \in DOMAIN queue : j # 1 =>
          j - 1 \in DOMAIN queue' /\ queue'[j - 1] = queue[j]
    BY <2>1, <2>2
  <2> QED
    BY <2>1, <2>2, <2>3
<1>9. task' = task /\ UNCHANGED disk /\ moved' \in BOOLEAN
  BY DEF EndRequest
<1>10. Types'
  <2>1. buf' \in [Buffer -> BufferHead]
    BY <1>2, <1>3, <1>4, <1>5
  <2>2. missed' \subseteq Proc
    BY DEF EndRequest, CacheInv, TypeOK
  <2> QED
    BY <1>8, <1>9, <2>1, <2>2 DEF Types, CacheInv, TypeOK
<1>11. Owned'
  <2> DEFINE L(p) == LockOf(task[p])
  <2>1. Owned
    BY DEF CacheInv
  <2>2. \A p \in Proc : L(p)' = L(p) /\ L(p) \in Buffer \cup {0}
    <3>1. \A p \in Proc : LockOf(task'[p]) = LockOf(task[p])
      BY <1>9
    <3> QED
      BY <3>1, Here, HeldFields DEF LockOf, TargetOf
  <2> HIDE DEF L
  <2>3. /\ \A i, j \in DOMAIN queue : queue[i].bh = queue[j].bh => i = j
        /\ \A p, r \in Proc : L(p) # 0 /\ L(p) = L(r) => p = r
        /\ \A p \in Proc, i \in DOMAIN queue : queue[i].bh # L(p)
        /\ \A i \in DOMAIN queue : /\ buf[queue[i].bh].lock
                                   /\ queue[i].sector = buf[queue[i].bh].block
        /\ \A p \in Proc : L(p) # 0 => buf[L(p)].lock
        /\ \A c \in Buffer : buf[c].lock =>
              (\E i \in DOMAIN queue : queue[i].bh = c) \/ (\E p \in Proc : L(p) = c)
    BY <2>1 DEF Owned, L
  <2>4. \A i \in DOMAIN queue : queue[i].bh \in Buffer
    BY QueueTyped
  <2>5. \A i, j \in DOMAIN queue' : queue'[i].bh = queue'[j].bh => i = j
    <3> SUFFICES ASSUME NEW i \in DOMAIN queue', NEW j \in DOMAIN queue',
                        queue'[i].bh = queue'[j].bh
                 PROVE  i = j
      OBVIOUS
    <3>1. i + 1 = j + 1
      BY <1>8, <2>3
    <3> QED
      BY <1>8, <3>1
  <2>6. ASSUME NEW i \in DOMAIN queue'
        PROVE  /\ \A p \in Proc : queue'[i].bh # L(p)
               /\ buf'[queue'[i].bh].lock
               /\ queue'[i].sector = buf'[queue'[i].bh].block
    <3>1. i + 1 \in DOMAIN queue /\ i + 1 # 1 /\ queue'[i] = queue[i + 1]
      BY <1>8
    <3> PICK j \in DOMAIN queue : j # 1 /\ queue'[i] = queue[j]
      BY <3>1
    <3>2. queue[j].bh # b
      BY <1>2, <2>3
    <3>3. /\ buf'[queue[j].bh].lock
          /\ queue[j].sector = buf'[queue[j].bh].block
      BY <1>6, <2>3, <2>4, <3>2
    <3> QED
      BY <2>3, <3>3
  <2>7. ASSUME NEW p \in Proc, L(p) # 0
        PROVE  buf'[L(p)].lock
    <3>1. L(p) # b /\ L(p) \in Buffer
      BY <1>2, <2>2, <2>3, <2>7
    <3> QED
      BY <1>6, <2>3, <2>7, <3>1
  <2>8. ASSUME NEW c \in Buffer, buf'[c].lock
        PROVE  (\E i \in DOMAIN queue' : queue'[i].bh = c) \/ (\E p \in Proc : L(p) = c)
    <3>1. c # b /\ buf[c].lock
      BY <1>6, <2>8
    <3>2. ASSUME NEW j \in DOMAIN queue, queue[j].bh = c
          PROVE  \E i \in DOMAIN queue' : queue'[i].bh = c
      BY <1>2, <1>8, <3>1, <3>2
    <3> QED
      BY <2>3, <3>1, <3>2
  <2>9. \A p, r \in Proc : L(p) # 0 /\ L(p) = L(r) => p = r
    BY <2>3
  <2>10. /\ \A p, r \in Proc : L(p)' # 0 /\ L(p)' = L(r)' => p = r
         /\ \A p \in Proc, i \in DOMAIN queue' : queue'[i].bh # L(p)'
         /\ \A p \in Proc : L(p)' # 0 => buf'[L(p)'].lock
         /\ \A c \in Buffer : buf'[c].lock =>
              (\E i \in DOMAIN queue' : queue'[i].bh = c) \/ (\E p \in Proc : L(p)' = c)
    BY <2>2, <2>6, <2>7, <2>8, <2>9
  <2> QED
    BY <2>5, <2>6, <2>10 DEF Owned, L
<1> QED
  BY <1>7, <1>9, <1>10, <1>11, Undisturbed
-----------------------------------------------------------------------------

(* The steps of the wait queues that a step of the cache may be.           *)
WaitSteps == \/ UNCHANGED wqvars
             \/ \E p \in Proc : \/ WQ!Dispatch(p) \/ WQ!Yield(p)
                                \/ WQ!ResumeSleepOn(p)
                                \/ \E q \in Queue :
                                     \/ WQ!SleepOn(p, q) \/ WQ!ReadHead(p, q)
                                     \/ WQ!TakeHead(p, q)
                                     \/ WQ!FallAsleep(p, q)
             \/ \E qs \in SUBSET Queue : WQ!WakeUp(qs)

(* They keep its types.                                                    *)
LEMMA WaitStepsTyped ==
  ASSUME WQ!TypeOK, WaitSteps
  PROVE  WQ!TypeOK'
<1> USE DEF WQ!TypeOK, WQ!State
<1>1. CASE UNCHANGED wqvars
  BY <1>1 DEF wqvars
<1>2. ASSUME NEW p \in Proc, WQ!Dispatch(p) \/ WQ!Yield(p)
      PROVE  WQ!TypeOK'
  BY <1>2 DEF WQ!Dispatch, WQ!Yield
<1>3. ASSUME NEW p \in Proc, WQ!ResumeSleepOn(p)
      PROVE  WQ!TypeOK'
  BY <1>3 DEF WQ!ResumeSleepOn, WQ!LeaveFrame
<1>4. ASSUME NEW p \in Proc, NEW q \in Queue,
             \/ WQ!SleepOn(p, q) \/ WQ!ReadHead(p, q)
             \/ WQ!TakeHead(p, q) \/ WQ!FallAsleep(p, q)
      PROVE  WQ!TypeOK'
  BY <1>4 DEF WQ!SleepOn, WQ!ReadHead, WQ!TakeHead, WQ!FallAsleep
<1>5. ASSUME NEW qs \in SUBSET Queue, WQ!WakeUp(qs)
      PROVE  WQ!TypeOK'
  BY <1>5 DEF WQ!WakeUp
<1> QED
  BY <1>1, <1>2, <1>3, <1>4, <1>5 DEF WaitSteps

(* The wait queues that are slept on.                                      *)
LEMMA QueuesAre == Buffer \subseteq Queue /\ buffer_wait \in Queue
                     /\ wait_for_request \in Queue
BY SizeAssumption DEF Buffer, Queue, buffer_wait, wait_for_request

(* Every step of the cache is one of them: buffers are only slept on and   *)
(* woken up in the ways of sched.c.                                        *)
LEMMA NextIsWaitStep ==
  ASSUME CacheInv, [Next]_vars
  PROVE  WaitSteps
<1>1. ASSUME NEW p \in Proc, Step(p) PROVE WaitSteps
  <2>1. CASE WaitOnBuffer(p)
    <3>1. WaitsFor(p) \in Buffer
      <4>1. task[p] \in Task /\ Target(p) = TargetOf(task[p])
        BY Here, HoldsIsHolding DEF CacheInv
      <4>2. WaitsFor(p) \in Buffer \cup {0}
        BY <4>1, TaskFields DEF WaitsFor, TargetOf
      <4> QED
        BY <2>1, <4>2 DEF WaitOnBuffer
    <3> QED
      BY <2>1, <3>1, QueuesAre DEF WaitOnBuffer, WaitSteps
  <2>2. CASE Return(p) \/ Fault(p)
    BY <2>2 DEF Return, Fault, WaitSteps
  <2>3. CASE SleepForBuffer(p) \/ SleepForRequest(p)
    BY <2>3, QueuesAre DEF SleepForBuffer, SleepForRequest, WaitSteps
  <2>4. CASE Brelse(p)
    BY <2>4, QueuesAre DEF Brelse, WaitSteps
  <2>5. CASE NoRequest(p)
    <3>1. Target(p) \in Buffer
      <4>1. task[p] \in Task /\ Target(p) = TargetOf(task[p])
              /\ task[p].pc = "ll_rw_block" /\ Fit(task[p])
        BY <2>5, Here, HoldsIsHolding DEF CacheInv, NoRequest, At
      <4> QED
        BY <4>1, TaskFields DEF TargetOf, Fit, Holding
    <3> QED
      BY <2>5, <3>1, QueuesAre DEF NoRequest, WaitSteps
  <2>6. CASE \/ FindHit(p) \/ GetHashTable(p) \/ FindVictim(p)
             \/ VictimUnfit(p) \/ Assign(p) \/ NextAhead(p) \/ Drop(p)
             \/ BreadDone(p) \/ Copy(p) \/ SyncBuffer(p)
             \/ ForgetReadAhead(p) \/ AddRequest(p) \/ NoneFree(p)
    BY <2>6 DEF FindHit, GetHashTable, FindVictim, VictimUnfit, Assign,
                NextAhead, Drop, BreadDone, Copy, SyncBuffer,
                ForgetReadAhead, AddRequest, NoneFree, Local, WaitSteps
  <2> QED
    BY <1>1, <2>1, <2>2, <2>3, <2>4, <2>5, <2>6 DEF Step
<1>2. ASSUME NEW p \in Proc, Resume(p) \/ FaultDone(p) \/ Enter(p)
      PROVE  WaitSteps
  BY <1>2 DEF Resume, FaultDone, Enter, WaitSteps
<1>3. CASE MoveData
  BY <1>3 DEF MoveData, WaitSteps
<1>4. ASSUME NEW u \in BOOLEAN, EndRequest(u) PROVE WaitSteps
  <2>1. WakesAtEnd(Head(queue)) \in SUBSET Queue
    BY <1>4, HeadTyped, QueuesAre DEF EndRequest, EL!EndRequest, WakesAtEnd
  <2> QED
    BY <1>4, <2>1 DEF EndRequest, WaitSteps
<1>5. CASE UNCHANGED vars
  BY <1>5 DEF vars, WaitSteps
<1> QED
  BY <1>1, <1>2, <1>3, <1>4, <1>5 DEF Next, GoesOn, Interrupt

(* At boot the buffers are free and no task is in the kernel.              *)
LEMMA CacheInvInit == Init => CacheInv
<1> SUFFICES ASSUME Init PROVE CacheInv
  OBVIOUS
<1> DEFINE h == [block |-> 0, count |-> 0, lock |-> FALSE, dirt |-> FALSE,
                 uptodate |-> FALSE, data |-> 0]
<1>1. /\ h \in BufferHead /\ h.block = 0 /\ h.count = 0 /\ h.lock = FALSE
      /\ h.dirt = FALSE
  BY ValAssumption DEF BufferHead
<1>2. buf = [b \in Buffer |-> h]
  BY DEF Init
<1> HIDE DEF h
<1>3. task = [p \in Proc |-> Idle] /\ queue = <<>>
  BY DEF Init, EL!Init
<1>4. TypeOK
  <2>1. WQ!TypeOK
    BY DEF Init, WQ!Init, WQ!TypeOK, WQ!State
  <2>2. disk \in [Block -> Val] /\ moved \in BOOLEAN
    BY ValAssumption DEF Init
  <2>3. buf \in [Buffer -> BufferHead] /\ task \in [Proc -> Task]
    BY <1>1, <1>2, <1>3, IdleIsTask
  <2>4. queue \in Seq(EL!Request)
    BY <1>3
  <2>5. missed \subseteq Proc
    BY DEF Init
  <2> QED
    BY <2>1, <2>2, <2>3, <2>4, <2>5 DEF TypeOK
<1>5. Held(Idle) = 0 /\ LockOf(Idle) = 0 /\ Fit(Idle) /\ Keeps(Idle, buf)
  <2> DEFINE m == Idle
  <2>1. /\ m \in Task /\ m.pc = "user" /\ m.op = "sync" /\ m.passes = 0
        /\ m.first = 0 /\ m.i = 0
    BY IdleIsTask
  <2> HIDE DEF m
  <2>2. Held(m) = 0 /\ LockOf(m) = 0 /\ Fit(m) /\ Keeps(m, buf)
    BY <2>1 DEF Held, Holding, LockOf, Fit, HasFirst, InSync, Keeps
  <2> QED
    BY <2>2 DEF m
<1>6. Counted
  <2> DEFINE f == [p \in Proc |-> Held(task[p])]
             g == [p \in Proc |-> task[p].first]
  <2> SUFFICES ASSUME NEW b \in Buffer
               PROVE  buf[b].count = Occurs(f, b) + Occurs(g, b)
    BY DEF Counted
  <2>1. b # 0 /\ buf[b].count = 0
    BY <1>1, <1>2, SizeAssumption DEF Buffer
  <2>2. /\ DOMAIN f = Proc /\ DOMAIN g = Proc
        /\ \A p \in Proc : f[p] = 0 /\ g[p] = 0
    BY <1>3, <1>5, IdleIsTask
  <2> HIDE DEF f, g
  <2>3. Occurs(f, b) = 0 /\ Occurs(g, b) = 0
    BY <2>1, <2>2, OccursNumber, ProcAssumption
  <2> QED
    BY <2>1, <2>3
<1>7. Placed(buf)
  BY <1>1, <1>2 DEF Placed
<1>8. Owned
  <2>1. DOMAIN queue = {}
    BY <1>3
  <2>2. \A p \in Proc : LockOf(task[p]) = 0
    BY <1>3, <1>5
  <2>3. \A b \in Buffer : ~buf[b].lock
    BY <1>1, <1>2
  <2> QED
    BY <2>1, <2>2, <2>3 DEF Owned
<1> QED
  BY <1>3, <1>4, <1>5, <1>6, <1>7, <1>8 DEF CacheInv

(* Every step keeps CacheInv.                                              *)
LEMMA CacheInvNext == CacheInv /\ [Next]_vars => CacheInv'
<1> SUFFICES ASSUME CacheInv, [Next]_vars PROVE CacheInv'
  OBVIOUS
<1>1. WQ!TypeOK'
  BY NextIsWaitStep, WaitStepsTyped DEF CacheInv, TypeOK
<1>2. ASSUME NEW p \in Proc, Step(p) PROVE CacheInv'
  <2>1. CASE WaitOnBuffer(p) \/ SleepForBuffer(p)
    BY <1>1, <2>1, SleepsKeep DEF WaitOnBuffer, SleepForBuffer, devvars
  <2>2. CASE \/ FindHit(p) \/ GetHashTable(p) \/ FindVictim(p)
             \/ VictimUnfit(p) \/ Assign(p) \/ NextAhead(p) \/ Drop(p)
             \/ BreadDone(p) \/ Copy(p) \/ SyncBuffer(p)
             \/ ForgetReadAhead(p)
    <3>1. SmallSteps
      BY <1>1, <2>2 DEF FindHit, GetHashTable, FindVictim, VictimUnfit,
                        Assign, NextAhead, Drop, BreadDone, Copy, SyncBuffer,
                        ForgetReadAhead, Local, devvars, SmallSteps,
                        CacheInv, TypeOK
    <3> QED
      BY <2>2, <3>1, FindHitKeeps, GetHashTableKeeps, FindVictimKeeps,
         VictimUnfitKeeps, AssignKeeps, NextAheadKeeps, DropKeeps,
         BreadDoneKeeps, CopyKeeps, SyncBufferKeeps, NeedlessKeeps
  <2>3. CASE \/ Return(p) \/ Fault(p) \/ Brelse(p) \/ NoRequest(p)
             \/ NoneFree(p) \/ SleepForRequest(p)
    <3>1. SmallSteps
      BY <1>1, <2>3 DEF Return, Fault, Brelse, NoRequest, NoneFree,
                        SleepForRequest, devvars, SmallSteps, CacheInv, TypeOK
    <3> QED
      BY <2>3, <3>1, ReturnKeeps, FaultKeeps, BrelseKeeps, NeedlessKeeps,
         NoneFreeKeeps, SleepForRequestKeeps
  <2>4. CASE AddRequest(p)
    BY <1>1, <2>4, AddRequestKeeps
  <2> QED
    BY <1>2, <2>1, <2>2, <2>3, <2>4 DEF Step
<1>3. ASSUME NEW p \in Proc, Resume(p) PROVE CacheInv'
  BY <1>1, <1>3, SleepsKeep DEF Resume, devvars
<1>4. ASSUME NEW p \in Proc, FaultDone(p) \/ Enter(p) PROVE CacheInv'
  <2>1. SmallSteps
    BY <1>1, <1>4 DEF FaultDone, Enter, devvars, SmallSteps, CacheInv, TypeOK
  <2> QED
    BY <1>4, <2>1, FaultDoneKeeps, EnterKeeps
<1>5. CASE Interrupt
  BY <1>1, <1>5, MoveDataKeeps, EndRequestKeeps DEF Interrupt
<1>6. CASE UNCHANGED vars
  BY <1>1, <1>6, SleepsKeep DEF vars, devvars
<1> QED
  BY <1>2, <1>3, <1>4, <1>5, <1>6 DEF Next, GoesOn

(* A locked buffer has exactly one owner who will unlock it, a request of  *)
(* the list or one task that waits for a free request, and an unlocked one *)
(* has none: the b_lock set in make_request() is not lost or set twice,    *)
(* whatever happens while the task sleeps for a request.                   *)
THEOREM LocksHaveOneOwner == Spec => []LockHasOneOwner
BY CacheInvInit, CacheInvNext, OwnedIsOneOwner, PTL DEF Spec

(* b_count is exact: the number of tasks that refer to the buffer, through *)
(* every sleep, retry and early exit of getblk(), bread() and breada(). So *)
(* no brelse() frees a free buffer and none is leaked.                     *)
THEOREM CountsAreReferences == Spec => []CountIsReferences
BY CacheInvInit, CacheInvNext, CountedIsCount, PTL DEF Spec

(* A buffer that a task refers to holds the block the task asked for: no   *)
(* other task in getblk() takes it over, however long the task sleeps.     *)
THEOREM IdentitiesAreStable == Spec => []IdentityStable
BY CacheInvInit, CacheInvNext, KeepsIsIdentity, PTL DEF Spec
-----------------------------------------------------------------------------
-----------------------------------------------------------------------------

(* The user memory of file_write() does not fault while a buffer is        *)
(* filled. Otherwise a sync, in the middle of the fault, may write the     *)
(* half filled buffer and clear b_dirt, which file_write() has set before  *)
(* the copy (file_dev.c:71).                                               *)
NoFaultyFill == Faults => "file_write" \notin Ops

(* The request i is still to write what its buffer holds.                  *)
ToWrite(i) == queue[i].cmd = WRITE /\ ~(i = 1 /\ moved)

(* The contents of a valid buffer are on the disk, or on their way, or the *)
(* buffer is dirty.                                                        *)
Saved ==
  \A b \in Buffer : buf[b].uptodate =>
    /\ buf[b].block # 0
    /\ \/ buf[b].dirt
       \/ buf[b].data = disk[buf[b].block]
       \/ \E i \in DOMAIN queue : queue[i].bh = b /\ ToWrite(i)

(* Once the data of the request at the head have crossed the bus, the      *)
(* buffer and the disk agree, unless the buffer has been written to since. *)
Crossed ==
  moved => /\ queue # <<>>
           /\ \/ buf[queue[1].bh].dirt
              \/ buf[queue[1].bh].data = disk[queue[1].sector]

(* A read is only asked for when the buffer is not valid, ...              *)
QueueStale ==
  \A i \in DOMAIN queue : queue[i].cmd = READ => ~buf[queue[i].bh].uptodate

(* ... also while the task waits for a free request; a task that entered   *)
(* the kernel is in one of the calls of Ops.                               *)
Lawful(t, bs) ==
  /\ LockOf(t) # 0 /\ t.passes = 0 => ~bs[LockOf(t)].uptodate
  /\ t.pc # "user" => t.op \in Ops
  /\ t.pc \in {"fault", "copy_rest"} => Faults

AllLawful == \A p \in Proc : Lawful(task[p], buf)

(* The cache, with nothing lost.                                           *)
StoreInv == /\ CacheInv /\ OneBufferPerBlock
            /\ Saved /\ Crossed /\ QueueStale /\ AllLawful

(* p stays inside its call, and is only let fill a buffer that it writes as *)
(* a whole or that is valid.                                               *)
StaysInCall(p) ==
  /\ task[p].pc \notin {"user", "return"}
  /\ \E n : /\ task' = [task EXCEPT ![p] = n] /\ SameCall(task[p], n)
            /\ task[p].pc = "brelse" => n.pc = "return"
            /\ \/ Plain(n)
               \/ /\ n.pc = "copy" /\ n.bh = task[p].bh
                  /\ \/ n.op = "block_write_full"
                     \/ UNCHANGED buf /\ buf[n.bh].uptodate

(* A task that goes to another label stays in its call.                    *)
LEMMA GoesTo ==
  ASSUME CacheInv, NEW p \in Proc, NEW l \in Label, Goto(p, l),
         task[p].pc \notin {"user", "return"},
         task[p].pc = "brelse" => l = "return",
         \/ l \notin {"user", "copy", "fault", "copy_rest"} \cup Requesting
         \/ l = "copy" /\ UNCHANGED buf /\ buf[task[p].bh].uptodate
  PROVE  StaysInCall(p)
<1> DEFINE t == task[p]
           n == [t EXCEPT !.pc = l]
<1>1. task' = [task EXCEPT ![p] = n] /\ t \in Task
  BY Here DEF Goto
<1>2. n.pc = l /\ SameCall(t, n) /\ n.bh = t.bh
  BY <1>1 DEF Task, SameCall
<1> HIDE DEF n
<1> QED
  BY <1>1, <1>2 DEF StaysInCall, Plain

(* All steps but those that copy, fault, wait for a request or leave stay  *)
(* in their call.                                                          *)
LEMMA StepsInCall ==
  ASSUME CacheInv, NEW p \in Proc,
         \/ FindHit(p) \/ GetHashTable(p) \/ FindVictim(p) \/ VictimUnfit(p)
         \/ Assign(p) \/ NextAhead(p) \/ Drop(p) \/ BreadDone(p) \/ Brelse(p)
         \/ SyncBuffer(p) \/ ForgetReadAhead(p) \/ NoRequest(p) \/ AddRequest(p)
  PROVE  StaysInCall(p)
<1> DEFINE t == task[p]
<1>0. t \in Task /\ Fit(t)
  BY Here
<1>1. {"find", "ahead", "copy", "brelse", "return"} \subseteq Label
  BY DEF Label
<1>2. CASE FindHit(p) \/ FindVictim(p)
  <2>1. t.pc = "find"
    BY <1>2 DEF FindHit, FindVictim, At
  <2> PICK l \in {"gh_wait", "gb_wait"} : \E b \in Buffer :
         task' = [task EXCEPT ![p].pc = l, ![p].bh = b]
    BY <1>2 DEF FindHit, FindVictim, Cached, Victims
  <2> PICK b \in Buffer : task' = [task EXCEPT ![p].pc = l, ![p].bh = b]
    OBVIOUS
  <2> DEFINE n == [t EXCEPT !.pc = l, !.bh = b]
  <2>2. task' = [task EXCEPT ![p] = n] /\ n.pc = l /\ SameCall(t, n)
    BY <1>0 DEF Task, SameCall
  <2> HIDE DEF n
  <2> QED
    BY <2>1, <2>2 DEF StaysInCall, Plain
<1>3. CASE GetHashTable(p) \/ Assign(p)
  <2>1. t.pc \in {"gh_wait", "gb_wait"}
    BY <1>3 DEF GetHashTable, Assign, At
  <2>2. CASE Goto(p, "find")
    BY <1>1, <2>1, <2>2, GoesTo
  <2>3. ASSUME NEW u, task' = [task EXCEPT ![p] = Got(t, t.bh, u)],
               u => UNCHANGED buf /\ buf[t.bh].uptodate
        PROVE  StaysInCall(p)
    <3> DEFINE n == Got(t, t.bh, u)
    <3>1. /\ Follows(t, n) /\ SameCall(t, n)
          /\ \/ Plain(n)
             \/ n.pc = "copy" /\ (t.op = "block_write_full" \/ u)
      BY <1>0, <2>1, GotFits
    <3>2. task' = [task EXCEPT ![p] = n]
      BY <2>3
    <3> HIDE DEF n
    <3>3. n.bh = t.bh /\ n.op = t.op
      BY <3>1 DEF Follows, Stands
    <3> QED
      BY <2>1, <2>3, <3>1, <3>2, <3>3 DEF StaysInCall
  <2>4. \/ Goto(p, "find")
        \/ /\ task' = [task EXCEPT ![p] = Got(t, t.bh, buf[t.bh].uptodate)]
           /\ UNCHANGED buf
        \/ task' = [task EXCEPT ![p] = Got(t, t.bh, FALSE)]
    BY <1>3 DEF GetHashTable, Assign
  <2> QED
    BY <2>2, <2>3, <2>4
<1>4. CASE VictimUnfit(p)
  <2>1. t.pc = "gb_wait"
    BY <1>4 DEF VictimUnfit, At
  <2> QED
    BY <1>4, <2>1, VictimUnfitFits DEF StaysInCall
<1>5. CASE NextAhead(p)
  <2>1. t.pc = "ahead"
    BY <1>5 DEF NextAhead, At
  <2> DEFINE n(l, w, b, f) ==
               [t EXCEPT !.pc = l, !.want = w, !.bh = b, !.first = f]
             first == IF t.first = 0 THEN t.bh ELSE t.first
  <2>2. ASSUME NEW l \in {"find", "bread_wait"}, NEW w, NEW b, NEW f
        PROVE  n(l, w, b, f).pc = l /\ SameCall(t, n(l, w, b, f))
    BY <1>0 DEF Task, SameCall
  <2>3. \/ task' = [task EXCEPT ![p] = n("find", t.want + 1, 0, first)]
        \/ task' = [task EXCEPT ![p] = n("bread_wait", t.blk, first, 0)]
    BY <1>5 DEF NextAhead
  <2> HIDE DEF n
  <2> QED
    BY <2>1, <2>2, <2>3 DEF StaysInCall, Plain
<1>6. CASE Drop(p)
  <2>1. t.pc = "drop" /\ Goto(p, "ahead")
    BY <1>6 DEF Drop, At
  <2> QED
    BY <1>1, <2>1, GoesTo
<1>7. CASE BreadDone(p)
  <2>1. /\ t.pc = "bread_wait" /\ UNCHANGED buf
        /\ \/ Goto(p, "brelse")
           \/ Goto(p, "copy") /\ buf[t.bh].uptodate
    BY <1>7 DEF BreadDone, At
  <2> QED
    BY <1>1, <2>1, GoesTo
<1>8. CASE Brelse(p)
  <2>1. t.pc = "brelse" /\ Goto(p, "return")
    BY <1>8 DEF Brelse, At
  <2> QED
    BY <1>1, <2>1, GoesTo
<1>9. CASE SyncBuffer(p)
  <2>1. t.pc = "sync_wait"
    BY <1>9 DEF SyncBuffer, At
  <2> QED
    BY <1>9, <2>1, SyncBufferFits DEF StaysInCall
<1>10. CASE ForgetReadAhead(p) \/ NoRequest(p) \/ AddRequest(p)
  <2>1. /\ t.pc \in {"ll_rw_block", "get_request"}
        /\ FromRequest(p, buf) \/ FromRequest(p, buf')
    BY <1>10 DEF ForgetReadAhead, NoRequest, AddRequest, HasLocked, At
  <2>2. \E n : /\ task' = [task EXCEPT ![p] = n]
               /\ Plain(n) /\ SameCall(task[p], n)
    BY <2>1, FromRequestFits
  <2> QED
    BY <2>1, <2>2 DEF StaysInCall
<1> QED
  BY <1>2, <1>3, <1>4, <1>5, <1>6, <1>7, <1>8, <1>9, <1>10

(* A step leaves the contents of the buffers alone, ...                    *)
SameContents == \A b \in Buffer : /\ buf'[b].block = buf[b].block
                                  /\ buf'[b].uptodate = buf[b].uptodate
                                  /\ buf'[b].data = buf[b].data

(* ... takes no dirty bit away ...                                         *)
NoLessDirty == \A b \in Buffer : buf[b].dirt => buf'[b].dirt

(* (The task is between getting its buffer and releasing it.)              *)
Filling(t) == t.pc \in {"copy", "fault", "copy_rest"}

(* ... or sets one of a buffer only that the task fills.                   *)
NewlyDirty(p) ==
  \A b \in Buffer : buf'[b].dirt /\ ~buf[b].dirt
                      => Filling(task[p]) /\ b = task[p].bh

(* So do all steps of a task but Copy and Assign.                          *)
LEMMA StepBufs ==
  ASSUME CacheInv, NEW p \in Proc, Step(p), ~Copy(p), ~Assign(p)
  PROVE  SameContents /\ NewlyDirty(p) /\ (AddRequest(p) \/ NoLessDirty)
<1> DEFINE v == task[p].bh
<1>0. buf \in [Buffer -> BufferHead]
  BY Here
<1>1. CASE UNCHANGED buf
  BY <1>1 DEF SameContents, NewlyDirty, NoLessDirty
<1>2. ASSUME NEW b, NEW x, buf' = [buf EXCEPT ![b].count = x]
      PROVE  SameContents /\ NewlyDirty(p) /\ NoLessDirty
  BY <1>0, <1>2 DEF SameContents, NewlyDirty, NoLessDirty, BufferHead
<1>3. ASSUME NEW x, buf' = [buf EXCEPT ![v].dirt = buf[v].dirt \/ x],
             Filling(task[p])
      PROVE  SameContents /\ NewlyDirty(p) /\ NoLessDirty
  BY <1>0, <1>3 DEF SameContents, NewlyDirty, NoLessDirty, BufferHead
<1>4. ASSUME NEW b, buf' = [buf EXCEPT ![b].lock = TRUE]
      PROVE  SameContents /\ NewlyDirty(p) /\ NoLessDirty
  BY <1>0, <1>4 DEF SameContents, NewlyDirty, NoLessDirty, BufferHead
<1>5. ASSUME NEW b, buf' = [buf EXCEPT ![b].lock = TRUE, ![b].dirt = FALSE]
      PROVE  SameContents /\ NewlyDirty(p)
  BY <1>0, <1>5 DEF SameContents, NewlyDirty, BufferHead
<1>6. CASE FindHit(p)
  <2> PICK b : buf' = [buf EXCEPT ![b].count = buf[b].count + 1]
    BY <1>6 DEF FindHit
  <2> QED
    BY <1>2
<1>7. CASE GetHashTable(p) \/ Drop(p) \/ Brelse(p)
  <2>1. UNCHANGED buf \/ buf' = [buf EXCEPT ![v].count = buf[v].count - 1]
    BY <1>7 DEF GetHashTable, Drop, Brelse
  <2> QED
    BY <1>1, <1>2, <2>1
<1>8. CASE Fault(p)
  <2>1. /\ buf' = [buf EXCEPT ![v].dirt = buf[v].dirt \/ task[p].op = "file_write"]
        /\ Filling(task[p])
    BY <1>8 DEF Fault, At, Filling
  <2> QED
    BY <1>3, <2>1
<1>9. CASE AddRequest(p)
  BY <1>5, <1>9 DEF AddRequest
<1>10. CASE NoneFree(p)
  BY <1>4, <1>10 DEF NoneFree
<1>11. CASE \/ WaitOnBuffer(p) \/ Return(p) \/ FindVictim(p)
            \/ SleepForBuffer(p) \/ VictimUnfit(p) \/ NextAhead(p)
            \/ BreadDone(p) \/ SyncBuffer(p) \/ ForgetReadAhead(p)
            \/ NoRequest(p) \/ SleepForRequest(p)
  <2>1. UNCHANGED buf
    BY <1>11 DEF WaitOnBuffer, Return, FindVictim, SleepForBuffer,
                 VictimUnfit, NextAhead, BreadDone, SyncBuffer,
                 ForgetReadAhead, NoRequest, SleepForRequest
  <2> QED
    BY <1>1, <2>1
<1> QED
  BY <1>6, <1>7, <1>8, <1>9, <1>10, <1>11 DEF Step
-----------------------------------------------------------------------------

(* No buffer becomes valid: only end_request() makes it so.                *)
NoneValid == \A b \in Buffer : buf'[b].uptodate => buf[b].uptodate

(* When one task steps, the others stay lawful.                            *)
LEMMA OneLawful ==
  ASSUME CacheInv, NoneValid, AllLawful, NEW p \in Proc, NEW n,
         task' = [task EXCEPT ![p] = n], Lawful(n, buf')
  PROVE  \A r \in Proc : Lawful(task'[r], buf')
<1>1. ASSUME NEW r \in Proc PROVE Lawful(task[r], buf')
  <2>1. LockOf(task[r]) \in Buffer \cup {0} /\ Lawful(task[r], buf)
    BY Here, HeldFields DEF AllLawful
  <2> QED
    BY <2>1 DEF Lawful, NoneValid
<1>2. \A r \in Proc : task'[r] = IF r = p THEN n ELSE task[r]
  BY Here
<1> QED
  BY <1>1, <1>2

(* The primed form.                                                        *)
LEMMA LawfulNext ==
  ASSUME \A r \in Proc : Lawful(task'[r], buf')
  PROVE  AllLawful'
<1>1. \A r \in Proc : Lawful(task[r], buf)'
  BY DEF Lawful, LockOf, TargetOf
<1> QED
  BY <1>1 DEF AllLawful

(* A copy completes the call of p, ...                                     *)
Copies(p, n) ==
  /\ n.pc = "brelse" /\ n.op = task[p].op /\ n.blk = task[p].blk /\ n.done
  /\ n.val = IF n.op \in Reads THEN buf[task[p].bh].data ELSE task[p].val

(* ... and a write puts the data of p into its buffer.                     *)
Fills(p) ==
  \A b \in Buffer :
    /\ buf'[b].block = buf[b].block /\ buf'[b].uptodate = buf[b].uptodate
    /\ buf'[b].lock = buf[b].lock
    /\ b # task[p].bh => buf'[b].data = buf[b].data /\ buf'[b].dirt = buf[b].dirt
    /\ b = task[p].bh => /\ buf'[b].data = task[p].val
                         /\ buf'[b].dirt = (buf[b].dirt \/ MarksDirty(task[p]))

(* What a copy does.                                                       *)
LEMMA CopyIs ==
  ASSUME CacheInv, NEW p \in Proc, Copy(p)
  PROVE  /\ Filling(task[p]) /\ task[p].op # "sync"
         /\ task[p].bh \in Buffer /\ task[p].first = 0
         /\ \E n : task' = [task EXCEPT ![p] = n] /\ Copies(p, n)
         /\ \/ task[p].op \in Reads /\ UNCHANGED buf
            \/ task[p].op \notin Reads /\ Fills(p)
<1> DEFINE t == task[p]
           g == buf[t.bh]
<1>0. /\ t \in Task /\ Fit(t) /\ t.pc \in {"copy", "copy_rest"}
      /\ t.bh \in Buffer /\ g \in BufferHead /\ buf \in [Buffer -> BufferHead]
  <2>1. t \in Task /\ Fit(t) /\ t.pc \in {"copy", "copy_rest"}
    BY Here DEF Copy
  <2>2. t.bh \in Buffer
    BY <2>1, TaskFields DEF Fit, Holding
  <2> QED
    BY <2>1, <2>2, Here
<1>1. Filling(t) /\ t.op # "sync" /\ t.first = 0
  BY <1>0 DEF Filling, Fit, InSync, HasFirst
<1>2. CASE t.op \in Reads
  <2> DEFINE d == g.data
             n == [t EXCEPT !.val = d, !.done = TRUE, !.pc = "brelse"]
  <2>1. task' = [task EXCEPT ![p] = n] /\ UNCHANGED buf
    BY <1>2 DEF Copy
  <2> HIDE DEF d
  <2>2. /\ n.pc = "brelse" /\ n.op = t.op /\ n.blk = t.blk /\ n.done
        /\ n.val = d
    BY <1>0 DEF Task
  <2> HIDE DEF n
  <2>3. Copies(p, n)
    BY <1>2, <2>2 DEF Copies, d
  <2> QED
    BY <1>0, <1>1, <1>2, <2>1, <2>3
<1>3. CASE t.op \notin Reads
  <2> DEFINE n == [t EXCEPT !.done = TRUE, !.pc = "brelse"]
             d == t.val
             x == g.dirt \/ MarksDirty(t)
             h == [g EXCEPT !.data = d, !.dirt = x]
  <2>1. task' = [task EXCEPT ![p] = n] /\ buf' = [buf EXCEPT ![t.bh] = h]
    BY <1>3 DEF Copy
  <2>2. /\ n.pc = "brelse" /\ n.op = t.op /\ n.blk = t.blk /\ n.done
        /\ n.val = t.val
    BY <1>0 DEF Task
  <2> HIDE DEF n
  <2>3. Copies(p, n)
    BY <1>3, <2>2 DEF Copies
  <2>4. /\ h.block = g.block /\ h.uptodate = g.uptodate /\ h.lock = g.lock
        /\ h.data = d /\ h.dirt = x
    <3> HIDE DEF d, x
    <3>1. g \in BufferHead
      BY <1>0
    <3> HIDE DEF g
    <3> QED
      BY <3>1 DEF BufferHead
  <2> HIDE DEF h
  <2>5. Fills(p)
    BY <1>0, <2>1, <2>4 DEF Fills
  <2> QED
    BY <1>0, <1>1, <1>3, <2>1, <2>3, <2>5
<1> QED
  BY <1>2, <1>3

(* What a task is after it has entered the kernel.                         *)
Entered(n) ==
  /\ n.pc \in {"find", "sync_wait", "return"} /\ n.op \in Ops
  /\ n.done = FALSE
  /\ n.op # "sync" => n.blk \in Block /\ n.val \in Val

(* What entering does.                                                     *)
LEMMA EnterIs ==
  ASSUME CacheInv, NEW p \in Proc, Enter(p)
  PROVE  \E n : task' = [task EXCEPT ![p] = n] /\ Entered(n)
<1>1. ASSUME NEW o \in Ops \ {"sync"}, NEW k \in Block, NEW v \in Val,
             task' = [task EXCEPT ![p] = [Idle EXCEPT !.pc = "find", !.op = o,
                                          !.blk = k, !.want = k, !.val = v]]
      PROVE  \E n : task' = [task EXCEPT ![p] = n] /\ Entered(n)
  <2> DEFINE m == Idle
             n == [m EXCEPT !.pc = "find", !.op = o, !.blk = k, !.want = k,
                            !.val = v]
  <2>1. task' = [task EXCEPT ![p] = n]
    BY <1>1
  <2>2. m \in Task /\ m.done = FALSE
    BY IdleIsTask DEF Idle
  <2> HIDE DEF m
  <2>3. n.pc = "find" /\ n.op = o /\ n.blk = k /\ n.val = v /\ n.done = m.done
    BY <2>2 DEF Task
  <2> HIDE DEF n
  <2> QED
    BY <2>1, <2>2, <2>3 DEF Entered
<1>2. CASE /\ "sync" \in Ops
           /\ task' = [task EXCEPT ![p] = NextSync([Idle EXCEPT !.passes = 1],
                                                   buf)]
  <2> DEFINE m == Idle
             s == [m EXCEPT !.passes = 1]
             n == NextSync(s, buf)
  <2>1. task' = [task EXCEPT ![p] = n]
    BY <1>2
  <2>2. m \in Task /\ m.op = "sync" /\ m.done = FALSE
    BY IdleIsTask DEF Idle
  <2> HIDE DEF m
  <2>3. s \in Task /\ s.passes = 1 /\ s.op = "sync" /\ s.done = m.done
    BY <2>2 DEF Task
  <2> HIDE DEF s
  <2>4. n.op = "sync" /\ n.pc \in {"sync_wait", "return"} /\ n.done = s.done
    BY <2>3, NextSyncIs DEF Like, Stands, SameCall
  <2> HIDE DEF n
  <2> QED
    BY <1>2, <2>1, <2>2, <2>3, <2>4 DEF Entered
<1>3. \/ \E o \in Ops \ {"sync"}, k \in Block, v \in Val :
           task' = [task EXCEPT ![p] = [Idle EXCEPT !.pc = "find", !.op = o,
                                        !.blk = k, !.want = k, !.val = v]]
      \/ /\ "sync" \in Ops
         /\ task' = [task EXCEPT ![p] = NextSync([Idle EXCEPT !.passes = 1],
                                                 buf)]
  BY ValAssumption DEF Enter
<1> QED
  BY <1>1, <1>2, <1>3

(* Steps inside a call keep the tasks lawful ...                           *)
LEMMA LawfulCalls ==
  ASSUME CacheInv, NoneValid, AllLawful, NEW p \in Proc, StaysInCall(p)
  PROVE  AllLawful'
<1> DEFINE t == task[p]
<1> PICK n : /\ task' = [task EXCEPT ![p] = n] /\ SameCall(t, n)
             /\ Plain(n) \/ n.pc = "copy"
  BY DEF StaysInCall
<1>1. Lawful(n, buf')
  BY DEF Lawful, AllLawful, StaysInCall, Plain, SameCall, LockOf
<1> QED
  BY <1>1, OneLawful, LawfulNext

(* make_request() is only reached for a read of a buffer that is not valid. *)
LEMMA ReadsWhatIsStale ==
  ASSUME CacheInv, AllLawful, NEW p \in Proc, HasLocked(p), task[p].passes = 0
  PROVE  ~buf[Target(p)].uptodate
<1> DEFINE t == task[p]
<1>0. t \in Task /\ Fit(t) /\ Lawful(t, buf)
  BY Here DEF AllLawful
<1>1. t.pc \in {"ll_rw_block", "get_request"} /\ Target(p) = TargetOf(t)
  BY HoldsIsHolding DEF HasLocked, At, CacheInv
<1>2. CASE t.pc = "get_request"
  BY <1>0, <1>1, <1>2 DEF Lawful, LockOf, Fit, Holding, TargetOf
<1>3. CASE t.pc = "ll_rw_block"
  <2>1. Command(p) = READ
    BY HoldsIsHolding DEF Command, CacheInv
  <2>2. Needed(p)
    BY <1>3 DEF HasLocked, At
  <2> QED
    BY <2>1, <2>2 DEF Needed, READ, WRITE, EL!READ, EL!WRITE
<1> QED
  BY <1>1, <1>2, <1>3

(* ... and so do the others.                                               *)
LEMMA LawfulSpecial ==
  ASSUME CacheInv, NoneValid, AllLawful, NEW p \in Proc,
         \/ Copy(p) \/ Fault(p) \/ FaultDone(p) \/ Return(p)
         \/ NoneFree(p) \/ SleepForRequest(p) \/ Enter(p)
  PROVE  AllLawful'
<1> DEFINE t == task[p]
<1>0. t \in Task /\ Fit(t) /\ Lawful(t, buf)
  BY Here DEF AllLawful
<1>1. CASE Copy(p)
  <2>1. PICK n : task' = [task EXCEPT ![p] = n] /\ Copies(p, n)
    BY <1>1, CopyIs
  <2>2. Lawful(n, buf')
    BY <1>0, <1>1, <2>1 DEF Lawful, Copies, LockOf, Copy
  <2> QED
    BY <2>1, <2>2, OneLawful, LawfulNext
<1>2. CASE Fault(p) \/ FaultDone(p)
  <2>1. PICK l \in {"fault", "copy_rest"} : Goto(p, l)
    BY <1>2 DEF Fault, FaultDone
  <2>2. t.pc # "user" /\ Faults
    BY <1>0, <1>2 DEF Fault, FaultDone, At, Lawful
  <2>3. PICK n : task' = [task EXCEPT ![p] = n] /\ n.pc = l /\ Like(t, n)
    BY <2>1, GotoIs DEF Label
  <2>4. Lawful(n, buf')
    BY <1>0, <2>2, <2>3 DEF Lawful, LockOf, Like, SameCall
  <2> QED
    BY <2>3, <2>4, OneLawful, LawfulNext
<1>3. CASE Return(p)
  <2>1. Lawful(Idle, buf')
    BY IdleIsTask DEF Lawful, LockOf
  <2> QED
    BY <1>3, <2>1, OneLawful, LawfulNext DEF Return
<1>4. CASE NoneFree(p)
  <2>1. Goto(p, "no_request") /\ HasLocked(p)
    BY <1>4 DEF NoneFree
  <2>2. t.pc \in {"ll_rw_block", "get_request"}
    BY <2>1 DEF HasLocked, At
  <2>3. PICK n : /\ task' = [task EXCEPT ![p] = n] /\ n.pc = "no_request"
                 /\ Like(t, n) /\ n.passes = t.passes /\ n.i = t.i
    BY <2>1, GotoIs DEF Label, Requesting, GoingToSleep
  <2>4. LockOf(n) = Target(p) /\ Target(p) = TargetOf(t)
    BY <2>3, HoldsIsHolding
    DEF LockOf, TargetOf, Like, Stands, CacheInv, Requesting, GoingToSleep
  <2>5. t.passes = 0 => ~buf[Target(p)].uptodate
    BY <2>1, ReadsWhatIsStale
  <2>6. Target(p) \in Buffer
    BY <2>1, WantsRequest
  <2>7. Lawful(n, buf')
    BY <1>0, <2>2, <2>3, <2>4, <2>5, <2>6
    DEF Lawful, Like, SameCall, NoneValid
  <2> QED
    BY <2>3, <2>7, OneLawful, LawfulNext
<1>6. CASE SleepForRequest(p)
  <2>1. t.pc \in GoingToSleep
    BY <1>6, SleepForRequestIs
  <2>2. PICK n : /\ task' = [task EXCEPT ![p] = n] /\ n.pc \in Requesting
                 /\ Like(t, n) /\ n.passes = t.passes /\ n.i = t.i
    BY <1>6, SleepForRequestIs
  <2>3. LockOf(n) = LockOf(t) /\ LockOf(t) \in Buffer \cup {0}
    BY <1>0, <2>1, <2>2, HeldFields
    DEF LockOf, TargetOf, Like, Stands, Requesting
  <2>4. Lawful(n, buf')
    BY <1>0, <2>1, <2>2, <2>3
    DEF Lawful, Like, SameCall, NoneValid, Requesting, GoingToSleep
  <2> QED
    BY <2>2, <2>4, OneLawful, LawfulNext
<1>5. CASE Enter(p)
  <2>1. PICK n : task' = [task EXCEPT ![p] = n] /\ Entered(n)
    BY <1>5, EnterIs
  <2>2. Lawful(n, buf')
    BY <2>1 DEF Lawful, Entered, LockOf
  <2> QED
    BY <2>1, <2>2, OneLawful, LawfulNext
<1> QED
  BY <1>1, <1>2, <1>3, <1>4, <1>5, <1>6
-----------------------------------------------------------------------------

(* What of StoreInv speaks of data.                                        *)
Stored == Saved /\ Crossed /\ QueueStale

(* A step that leaves contents alone, and takes no dirty bit away, keeps   *)
(* it.                                                                     *)
LEMMA QuietStores ==
  ASSUME CacheInv, Stored, SameContents, NoLessDirty,
         UNCHANGED <<queue, moved, disk>>
  PROVE  Stored'
<1>1. \A i \in DOMAIN queue : queue[i].bh \in Buffer
  BY QueueTyped
<1>2. \A i \in DOMAIN queue : ToWrite(i)' = ToWrite(i)
  BY DEF ToWrite
<1>3. Saved'
  BY <1>2 DEF Stored, Saved, SameContents, NoLessDirty
<1>4. Crossed'
  BY HeadTyped DEF Stored, Crossed, SameContents, NoLessDirty
<1>5. QueueStale'
  BY <1>1 DEF Stored, QueueStale, SameContents
<1> QED
  BY <1>3, <1>4, <1>5 DEF Stored

(* A copy dirties the buffer it writes to.                                 *)
LEMMA CopyStores ==
  ASSUME CacheInv, Stored, AllLawful, NoFaultyFill, NEW p \in Proc, Copy(p),
         UNCHANGED <<queue, moved, disk>>
  PROVE  Stored'
<1> DEFINE b == task[p].bh
<1>1. CASE UNCHANGED buf
  BY <1>1, QuietStores DEF SameContents, NoLessDirty
<1>2. CASE Fills(p)
  <2>1. MarksDirty(task[p])
    <3>1. task[p].pc \in {"copy", "copy_rest"}
      BY DEF Copy
    <3>2. Lawful(task[p], buf)
      BY DEF AllLawful
    <3> QED
      BY <3>1, <3>2 DEF MarksDirty, Lawful, NoFaultyFill
  <2>2. b \in Buffer /\ buf'[b].dirt
    BY <1>2, <2>1, CopyIs DEF Fills
  <2> HIDE DEF b
  <2>3. /\ \A c \in Buffer : /\ buf'[c].block = buf[c].block
                             /\ buf'[c].uptodate = buf[c].uptodate
        /\ \A c \in Buffer \ {b} : /\ buf'[c].data = buf[c].data
                                   /\ buf'[c].dirt = buf[c].dirt
    BY <1>2 DEF Fills, b
  <2>4. \A i \in DOMAIN queue : queue[i].bh \in Buffer /\ ToWrite(i)' = ToWrite(i)
    BY QueueTyped DEF ToWrite
  <2>5. Saved'
    BY <2>2, <2>3, <2>4 DEF Stored, Saved
  <2>6. Crossed'
    BY <2>2, <2>3, HeadTyped DEF Stored, Crossed
  <2>7. QueueStale'
    BY <2>3, <2>4 DEF Stored, QueueStale
  <2> QED
    BY <2>5, <2>6, <2>7 DEF Stored
<1> QED
  BY <1>1, <1>2, CopyIs

(* The victim of getblk() is clean, unlocked and without references, and   *)
(* becomes an invalid buffer of a block that no buffer has.                *)
LEMMA AssignIs ==
  ASSUME CacheInv, NEW p \in Proc, Assign(p)
  PROVE  LET b == task[p].bh IN
           /\ b \in Buffer /\ ~buf[b].lock /\ ~buf[b].dirt
           /\ \A r \in Proc : Held(task[r]) # b /\ task[r].first # b
           /\ task[p].want \in Block /\ Cached(task[p].want) = {}
           /\ buf'[b].block = task[p].want /\ ~buf'[b].uptodate
           /\ ~buf'[b].dirt
           /\ \A c \in Buffer \ {b} : buf'[c] = buf[c]
<1> DEFINE t == task[p]
           b == t.bh
           g == buf[b]
           k == t.want
           h == TakenOver(g, k)
<1>0. /\ t \in Task /\ Fit(t) /\ t.pc = "gb_wait"
      /\ buf \in [Buffer -> BufferHead]
  BY Here DEF Assign, At
<1>1. b \in Buffer /\ k \in Block
  BY <1>0, TaskFields DEF Holding, Fit, InSync
<1>2. g.count = 0 /\ ~g.lock /\ ~g.dirt /\ g \in BufferHead /\ Cached(k) = {}
  BY <1>0, <1>1 DEF Assign, Free
<1>3. \A r \in Proc : Held(task[r]) # b /\ task[r].first # b
  BY <1>1, <1>2, CountIsPositive
<1>4. buf' = [buf EXCEPT ![b] = h]
  BY DEF Assign
<1>5. h.block = k /\ ~h.uptodate /\ ~h.dirt
  <2> HIDE DEF g, k
  <2> QED
    BY <1>2 DEF TakenOver, BufferHead
<1> HIDE DEF h
<1> QED
  BY <1>0, <1>1, <1>2, <1>3, <1>4, <1>5

(* So taking it over loses nothing.                                        *)
LEMMA AssignStores ==
  ASSUME CacheInv, Stored, NEW p \in Proc, Assign(p),
         UNCHANGED <<queue, moved, disk>>
  PROVE  Stored'
<1> PICK b : b = task[p].bh
  OBVIOUS
<1>1. /\ b \in Buffer /\ ~buf[b].lock /\ ~buf'[b].uptodate
      /\ \A c \in Buffer \ {b} : buf'[c] = buf[c]
  BY AssignIs
<1>2. \A i \in DOMAIN queue : /\ queue[i].bh \in Buffer \ {b}
                              /\ ToWrite(i)' = ToWrite(i)
  <2>1. \A i \in DOMAIN queue : buf[queue[i].bh].lock
    BY DEF CacheInv, Owned
  <2> QED
    BY <1>1, <2>1, QueueTyped DEF ToWrite
<1>3. Saved'
  BY <1>1, <1>2 DEF Stored, Saved
<1>4. Crossed'
  BY <1>1, <1>2, HeadTyped DEF Stored, Crossed
<1>5. QueueStale'
  BY <1>1, <1>2 DEF Stored, QueueStale
<1> QED
  BY <1>3, <1>4, <1>5 DEF Stored

(* The data of the request at the head cross the bus, one way or the other. *)
LEMMA MoveDataIs ==
  ASSUME CacheInv, MoveData, NEW h, h = queue[1].bh, NEW s, s = queue[1].sector
  PROVE  /\ 1 \in DOMAIN queue /\ queue # <<>> /\ ~moved /\ moved'
         /\ UNCHANGED <<queue, task>>
         /\ h \in Buffer /\ s \in Block /\ s = buf[h].block
         /\ \A b \in Buffer : /\ buf'[b].block = buf[b].block
                              /\ buf'[b].uptodate = buf[b].uptodate
                              /\ buf'[b].dirt = buf[b].dirt
                              /\ b # h => buf'[b].data = buf[b].data
         /\ \A k \in Block \ {s} : disk'[k] = disk[k]
         /\ buf'[h].data = disk'[s]
         /\ queue[1].cmd = READ => UNCHANGED disk
         /\ queue[1].cmd = WRITE => UNCHANGED buf
<1>1. /\ 1 \in DOMAIN queue /\ queue # <<>> /\ ~moved /\ moved'
      /\ UNCHANGED <<queue, task>> /\ Head(queue) = queue[1]
      /\ h \in Buffer /\ s \in Block /\ s = buf[h].block
  BY HeadTyped DEF MoveData, CacheInv, Owned
<1>2. buf \in [Buffer -> BufferHead] /\ disk \in [Block -> Val]
  BY DEF CacheInv, TypeOK
<1>3. CASE queue[1].cmd = READ
  <2> DEFINE g == buf[h]
             d == disk[s]
             x == [g EXCEPT !.data = d]
  <2>1. buf' = [buf EXCEPT ![h] = x] /\ UNCHANGED disk
    BY <1>1, <1>3 DEF MoveData
  <2>2. g \in BufferHead
    BY <1>1, <1>2
  <2>3. /\ x.block = g.block /\ x.uptodate = g.uptodate /\ x.dirt = g.dirt
        /\ x.data = d
    <3> HIDE DEF g, d
    <3> QED
      BY <2>2 DEF BufferHead
  <2> HIDE DEF x
  <2> QED
    BY <1>1, <1>2, <1>3, <2>1, <2>3 DEF READ, WRITE, EL!READ, EL!WRITE
<1>4. CASE queue[1].cmd # READ
  <2>1. disk' = [disk EXCEPT ![s] = buf[h].data] /\ UNCHANGED buf
    BY <1>1, <1>4 DEF MoveData
  <2> QED
    BY <1>1, <1>2, <1>4, <2>1
<1> QED
  BY <1>3, <1>4

(* Afterwards they agree; other buffers are about other blocks.            *)
LEMMA MoveDataStores ==
  ASSUME CacheInv, OneBufferPerBlock, Stored, MoveData
  PROVE  Stored'
<1> PICK h, s : h = queue[1].bh /\ s = queue[1].sector
  OBVIOUS
<1>1. /\ 1 \in DOMAIN queue /\ queue # <<>> /\ ~moved /\ moved'
      /\ UNCHANGED <<queue, task>>
      /\ h \in Buffer /\ s \in Block /\ s = buf[h].block
      /\ \A b \in Buffer : /\ buf'[b].block = buf[b].block
                           /\ buf'[b].uptodate = buf[b].uptodate
                           /\ buf'[b].dirt = buf[b].dirt
                           /\ b # h => buf'[b].data = buf[b].data
      /\ \A k \in Block \ {s} : disk'[k] = disk[k]
      /\ buf'[h].data = disk'[s]
  BY MoveDataIs
<1>2. \A i \in DOMAIN queue : /\ queue[i].bh \in Buffer
                              /\ queue[i].bh # h /\ ToWrite(i) => ToWrite(i)'
  BY <1>1, QueueTyped DEF ToWrite
<1>3. Saved'
  <2> SUFFICES ASSUME NEW b \in Buffer, buf'[b].uptodate
               PROVE  /\ buf'[b].block # 0
                      /\ \/ buf'[b].dirt
                         \/ buf'[b].data = disk'[buf'[b].block]
                         \/ \E i \in DOMAIN queue' : queue'[i].bh = b /\ ToWrite(i)'
    BY DEF Saved
  <2>1. /\ buf[b].block # 0
        /\ \/ buf[b].dirt
           \/ buf[b].data = disk[buf[b].block]
           \/ \E i \in DOMAIN queue : queue[i].bh = b /\ ToWrite(i)
    BY <1>1 DEF Stored, Saved
  <2>2. CASE b = h
    BY <1>1, <2>1, <2>2
  <2>3. CASE b # h
    <3>1. buf[b].block # s
      BY <1>1, <2>1, <2>3 DEF OneBufferPerBlock
    <3>2. buf[b].block \in Block
      BY <2>1 DEF CacheInv, TypeOK, BufferHead
    <3> QED
      BY <1>1, <1>2, <2>1, <2>3, <3>1, <3>2
  <2> QED
    BY <2>2, <2>3
<1>4. Crossed'
  BY <1>1 DEF Crossed
<1>5. QueueStale'
  BY <1>1, <1>2 DEF Stored, QueueStale
<1> QED
  BY <1>3, <1>4, <1>5 DEF Stored

(* end_request(): the head leaves the list and its buffer is unlocked.     *)
LEMMA EndRequestIs ==
  ASSUME CacheInv, NEW u \in BOOLEAN, EndRequest(u), NEW h, h = queue[1].bh
  PROVE  /\ 1 \in DOMAIN queue /\ h \in Buffer
         /\ queue[1].sector = buf[h].block /\ buf[h].block \in Block
         /\ IF u THEN moved ELSE queue[1].cmd \in IOErrors
         /\ ~moved' /\ UNCHANGED <<disk, task>>
         /\ \A b \in Buffer : /\ buf'[b].block = buf[b].block
                              /\ buf'[b].data = buf[b].data
                              /\ buf'[b].dirt = buf[b].dirt
                              /\ b # h => buf'[b].uptodate = buf[b].uptodate
         /\ buf'[h].uptodate = u
         /\ \A i \in DOMAIN queue' : /\ i + 1 \in DOMAIN queue /\ i + 1 # 1
                                     /\ queue'[i] = queue[i + 1]
         /\ \A j \in DOMAIN queue : j # 1 =>
              \E i \in DOMAIN queue' : queue'[i] = queue[j]
<1>1. queue # <<>> /\ queue' = Tail(queue) /\ queue \in Seq(EL!Request)
  BY DEF EndRequest, EL!EndRequest, CacheInv, TypeOK
<1>2. /\ 1 \in DOMAIN queue /\ Head(queue) = queue[1] /\ h \in Buffer
      /\ queue[1].sector = buf[h].block /\ buf[h].block \in Block
  BY <1>1, HeadTyped DEF CacheInv, Owned
<1>3. buf \in [Buffer -> BufferHead]
  BY DEF CacheInv, TypeOK
<1> DEFINE g == buf[h]
           x == [g EXCEPT !.uptodate = u, !.lock = FALSE]
<1>4. buf' = [buf EXCEPT ![h] = x] /\ g \in BufferHead
  BY <1>2, <1>3 DEF EndRequest
<1>5. /\ x.block = g.block /\ x.data = g.data /\ x.dirt = g.dirt
      /\ x.uptodate = u
  <2> HIDE DEF g
  <2> QED
    BY <1>4 DEF BufferHead
<1> HIDE DEF x
<1>6. /\ \A b \in Buffer : /\ buf'[b].block = buf[b].block
                           /\ buf'[b].data = buf[b].data
                           /\ buf'[b].dirt = buf[b].dirt
                           /\ b # h => buf'[b].uptodate = buf[b].uptodate
      /\ buf'[h].uptodate = u
  BY <1>2, <1>3, <1>4, <1>5
<1>7. /\ \A i \in DOMAIN queue' : /\ i + 1 \in DOMAIN queue /\ i + 1 # 1
                                  /\ queue'[i] = queue[i + 1]
      /\ \A j \in DOMAIN queue : j # 1 =>
           \E i \in DOMAIN queue' : queue'[i] = queue[j]
  <2>1. /\ queue' \in Seq(EL!Request) /\ Len(queue') = Len(queue) - 1
        /\ \A i \in 1..Len(queue') : queue'[i] = queue[i + 1]
    BY <1>1, HeadTailProperties
  <2>2. /\ Len(queue) \in Nat /\ DOMAIN queue = 1..Len(queue)
        /\ DOMAIN queue' = 1..Len(queue')
    BY <1>1, <2>1, LenProperties
  <2>3. \A j \in DOMAIN queue : j # 1 =>
          j - 1 \in DOMAIN queue' /\ queue'[j - 1] = queue[j]
    BY <2>1, <2>2
  <2> QED
    BY <2>1, <2>2, <2>3
<1>8. /\ IF u THEN moved ELSE queue[1].cmd \in IOErrors
      /\ ~moved' /\ UNCHANGED <<disk, task>>
  BY <1>2 DEF EndRequest
<1> QED
  BY <1>2, <1>6, <1>7, <1>8

(* A buffer that becomes valid agrees with the disk, or is dirty again.    *)
LEMMA EndRequestStores ==
  ASSUME CacheInv, Stored, NEW u \in BOOLEAN, EndRequest(u)
  PROVE  Stored'
<1> PICK h : h = queue[1].bh
  OBVIOUS
<1>1. /\ 1 \in DOMAIN queue /\ h \in Buffer
      /\ queue[1].sector = buf[h].block /\ buf[h].block \in Block
      /\ u => moved
      /\ ~moved' /\ UNCHANGED <<disk, task>>
      /\ \A b \in Buffer : /\ buf'[b].block = buf[b].block
                           /\ buf'[b].data = buf[b].data
                           /\ buf'[b].dirt = buf[b].dirt
                           /\ b # h => buf'[b].uptodate = buf[b].uptodate
      /\ buf'[h].uptodate = u
      /\ \A i \in DOMAIN queue' : /\ i + 1 \in DOMAIN queue /\ i + 1 # 1
                                  /\ queue'[i] = queue[i + 1]
      /\ \A j \in DOMAIN queue : j # 1 =>
           \E i \in DOMAIN queue' : queue'[i] = queue[j]
  BY EndRequestIs
<1>2. Saved'
  <2> SUFFICES ASSUME NEW b \in Buffer, buf'[b].uptodate
               PROVE  /\ buf'[b].block # 0
                      /\ \/ buf'[b].dirt
                         \/ buf'[b].data = disk'[buf'[b].block]
                         \/ \E i \in DOMAIN queue' : queue'[i].bh = b /\ ToWrite(i)'
    BY DEF Saved
  <2>1. CASE b = h
    <3>1. buf[h].dirt \/ buf[h].data = disk[queue[1].sector]
      BY <1>1, <2>1 DEF Stored, Crossed
    <3> QED
      BY <1>1, <2>1, <3>1, BlockAssumption
  <2>2. CASE b # h
    <3>1. /\ buf[b].block # 0
          /\ \/ buf[b].dirt
             \/ buf[b].data = disk[buf[b].block]
             \/ \E i \in DOMAIN queue : queue[i].bh = b /\ ToWrite(i)
      BY <1>1, <2>2 DEF Stored, Saved
    <3>2. ASSUME NEW j \in DOMAIN queue, queue[j].bh = b, ToWrite(j)
          PROVE  \E i \in DOMAIN queue' : queue'[i].bh = b /\ ToWrite(i)'
      BY <1>1, <2>2, <3>2 DEF ToWrite
    <3> QED
      BY <1>1, <3>1, <3>2
  <2> QED
    BY <2>1, <2>2
<1>3. Crossed'
  BY <1>1 DEF Crossed
<1>4. QueueStale'
  <2> SUFFICES ASSUME NEW i \in DOMAIN queue', queue'[i].cmd = READ
               PROVE  ~buf'[queue'[i].bh].uptodate
    BY DEF QueueStale
  <2> PICK j \in DOMAIN queue : j # 1 /\ queue'[i] = queue[j]
    BY <1>1
  <2>1. queue[j].bh # h /\ queue[j].bh \in Buffer
    BY <1>1, QueueTyped DEF CacheInv, Owned
  <2> QED
    BY <1>1, <2>1 DEF Stored, QueueStale
<1> QED
  BY <1>2, <1>3, <1>4 DEF Stored

(* add_request(): one more request, for a buffer that is now clean.        *)
LEMMA AddRequestIs ==
  ASSUME CacheInv, AllLawful, NEW p \in Proc, AddRequest(p),
         NEW b, b = Target(p)
  PROVE  /\ b \in Buffer /\ b = TargetOf(task[p])
         /\ \A i \in DOMAIN queue : queue[i].bh # b
         /\ UNCHANGED <<moved, disk>>
         /\ \A c \in Buffer : /\ buf'[c].block = buf[c].block
                              /\ buf'[c].data = buf[c].data
                              /\ buf'[c].uptodate = buf[c].uptodate
                              /\ c # b => buf'[c].dirt = buf[c].dirt
         /\ ~buf'[b].dirt
         /\ \E k : /\ Links(queue, queue', k) /\ queue'[k].bh = b
                   /\ IF task[p].passes = 0
                        THEN queue'[k].cmd = READ /\ ~buf[b].uptodate
                        ELSE queue'[k].cmd = WRITE
<1> DEFINE g == buf[b]
           h == [g EXCEPT !.lock = TRUE, !.dirt = FALSE]
           rw == Command(p)
<1>0. buf \in [Buffer -> BufferHead] /\ queue \in Seq(EL!Request) /\ HasLocked(p)
  BY DEF CacheInv, TypeOK, AddRequest
<1>1. /\ b \in Buffer /\ b = TargetOf(task[p]) /\ g.block \in Block
      /\ \A i \in DOMAIN queue : queue[i].bh # b
  BY <1>0, WantsRequest
<1>2. /\ buf' = [buf EXCEPT ![b] = h] /\ UNCHANGED <<moved, disk>>
  BY DEF AddRequest
<1>3. /\ h.block = g.block /\ h.data = g.data /\ h.uptodate = g.uptodate
      /\ ~h.dirt
  <2>1. g \in BufferHead
    BY <1>0, <1>1
  <2> HIDE DEF g
  <2> QED
    BY <2>1 DEF BufferHead
<1>4. IF task[p].passes = 0 THEN rw = READ /\ ~buf[b].uptodate ELSE rw = WRITE
  BY <1>0, HoldsIsHolding, ReadsWhatIsStale DEF CacheInv, Command
<1>5. rw \in {READ, WRITE} /\ EL!MakeRequest(rw, g.block, b)
  BY DEF Command, AddRequest
<1> HIDE DEF rw, h
<1>6. \E k : Links(queue, queue', k) /\ queue'[k].bh = b /\ queue'[k].cmd = rw
  <2> HIDE DEF g
  <2> QED
    BY <1>0, <1>1, <1>5, MakeRequestLinks
<1> QED
  BY <1>0, <1>1, <1>2, <1>3, <1>4, <1>6

(* The dirty bit that is cleared is replaced by a request to write.        *)
LEMMA AddRequestStores ==
  ASSUME CacheInv, Stored, AllLawful, NEW p \in Proc, AddRequest(p)
  PROVE  Stored'
<1> PICK b : b = Target(p)
  OBVIOUS
<1>1. /\ b \in Buffer
      /\ \A i \in DOMAIN queue : queue[i].bh \in Buffer \ {b}
      /\ UNCHANGED <<moved, disk>>
      /\ \A c \in Buffer : /\ buf'[c].block = buf[c].block
                           /\ buf'[c].data = buf[c].data
                           /\ buf'[c].uptodate = buf[c].uptodate
                           /\ c # b => buf'[c].dirt = buf[c].dirt
  BY AddRequestIs, QueueTyped
<1>2. PICK k : /\ Links(queue, queue', k) /\ queue'[k].bh = b
               /\ queue'[k].cmd = READ => ~buf[b].uptodate
               /\ queue'[k].cmd \in {READ, WRITE}
  <2>1. \E k : /\ Links(queue, queue', k) /\ queue'[k].bh = b
               /\ IF task[p].passes = 0
                    THEN queue'[k].cmd = READ /\ ~buf[b].uptodate
                    ELSE queue'[k].cmd = WRITE
    BY AddRequestIs
  <2> QED
    BY <2>1 DEF READ, WRITE, EL!READ, EL!WRITE
<1>3. /\ k \in DOMAIN queue'
      /\ \A i \in DOMAIN queue' \ {k} :
           Before(i, k) \in DOMAIN queue /\ queue'[i] = queue[Before(i, k)]
      /\ \A j \in DOMAIN queue :
           \E i \in DOMAIN queue' \ {k} : Before(i, k) = j
      /\ queue # <<>> => k # 1
  BY <1>2 DEF Links
<1>4. queue' \in Seq(EL!Request) /\ queue \in Seq(EL!Request)
  <2>1. HasLocked(p) /\ EL!MakeRequest(Command(p), buf[b].block, b)
    BY DEF AddRequest
  <2>2. buf[b].block \in Block
    BY <2>1, WantsRequest
  <2>3. Command(p) \in {READ, WRITE}
    BY DEF Command
  <2> QED
    BY <1>1, <2>1, <2>2, <2>3, MakeRequestLinks DEF CacheInv, TypeOK
<1>5. /\ DOMAIN queue \subseteq Nat /\ DOMAIN queue' \subseteq Nat \ {0}
      /\ queue # <<>> => 1 \in DOMAIN queue /\ 1 \in DOMAIN queue'
                           /\ queue'[1] = queue[1]
  <2>1. /\ DOMAIN queue = 1..Len(queue) /\ Len(queue) \in Nat
        /\ DOMAIN queue' = 1..Len(queue') /\ Len(queue') \in Nat
    BY <1>4, LenProperties
  <2>2. queue # <<>> => 1 \in DOMAIN queue
    BY <1>4, <2>1, EmptySeq
  <2>3. ASSUME queue # <<>>
        PROVE  1 \in DOMAIN queue' \ {k} /\ Before(1, k) = 1
    BY <1>3, <2>1, <2>3 DEF Before
  <2> QED
    BY <1>3, <2>1, <2>2, <2>3
<1>6. ASSUME NEW j \in DOMAIN queue, ToWrite(j)
      PROVE  \E i \in DOMAIN queue' : queue'[i].bh = queue[j].bh /\ ToWrite(i)'
  <2>1. PICK i \in DOMAIN queue' \ {k} : Before(i, k) = j
    BY <1>3
  <2>2. queue'[i] = queue[j]
    BY <1>3, <2>1
  <2>3. i = 1 => j = 1
    BY <1>3, <1>5, <2>1 DEF Before
  <2> QED
    BY <1>1, <1>6, <2>2, <2>3 DEF ToWrite
<1>7. Saved'
  <2> SUFFICES ASSUME NEW c \in Buffer, buf'[c].uptodate
               PROVE  /\ buf'[c].block # 0
                      /\ \/ buf'[c].dirt
                         \/ buf'[c].data = disk'[buf'[c].block]
                         \/ \E i \in DOMAIN queue' : queue'[i].bh = c /\ ToWrite(i)'
    BY DEF Saved
  <2>1. /\ buf[c].block # 0
        /\ \/ buf[c].dirt
           \/ buf[c].data = disk[buf[c].block]
           \/ \E i \in DOMAIN queue : queue[i].bh = c /\ ToWrite(i)
    BY <1>1 DEF Stored, Saved
  <2>2. CASE c = b
    <3>1. queue'[k].cmd = WRITE
      BY <1>1, <1>2, <2>2
    <3>2. moved => queue # <<>>
      BY DEF Stored, Crossed
    <3>3. ToWrite(k)'
      BY <1>1, <1>3, <3>1, <3>2 DEF ToWrite
    <3> QED
      BY <1>1, <1>2, <1>3, <2>1, <2>2, <3>3
  <2>3. CASE c # b
    BY <1>1, <1>6, <2>1, <2>3
  <2> QED
    BY <2>2, <2>3
<1>8. Crossed'
  <2> SUFFICES ASSUME moved'
               PROVE  /\ queue' # <<>>
                      /\ \/ buf'[queue'[1].bh].dirt
                         \/ buf'[queue'[1].bh].data = disk'[queue'[1].sector]
    BY DEF Crossed
  <2>1. /\ queue # <<>>
        /\ buf[queue[1].bh].dirt \/ buf[queue[1].bh].data = disk[queue[1].sector]
    BY <1>1 DEF Stored, Crossed
  <2>2. queue' # <<>>
    BY <1>5, <2>1
  <2> QED
    BY <1>1, <1>5, <2>1, <2>2
<1>9. QueueStale'
  <2> SUFFICES ASSUME NEW i \in DOMAIN queue', queue'[i].cmd = READ
               PROVE  ~buf'[queue'[i].bh].uptodate
    BY DEF QueueStale
  <2>1. CASE i = k
    BY <1>1, <1>2, <2>1
  <2>2. CASE i # k
    <3>1. PICK j \in DOMAIN queue : queue'[i] = queue[j]
      BY <1>3, <2>2
    <3> QED
      BY <1>1, <3>1 DEF Stored, QueueStale
  <2> QED
    BY <2>1, <2>2
<1> QED
  BY <1>7, <1>8, <1>9 DEF Stored
-----------------------------------------------------------------------------

(* A step that is not Assign leaves the identity of every buffer alone.    *)
LEMMA BlocksStay ==
  ASSUME CacheInv, [Next]_vars, \A p \in Proc : ~Assign(p)
  PROVE  SameBlocks
<1>1. ASSUME NEW p \in Proc, Step(p) PROVE SameBlocks
  <2>1. CASE Copy(p)
    BY <2>1, CopyIs DEF SameBlocks, Fills
  <2>2. CASE ~Copy(p)
    BY <1>1, <2>2, StepBufs DEF SameBlocks, SameContents
  <2> QED
    BY <2>1, <2>2
<1>2. CASE MoveData
  <2> PICK h, s : h = queue[1].bh /\ s = queue[1].sector
    OBVIOUS
  <2> QED
    BY <1>2, MoveDataIs DEF SameBlocks
<1>3. ASSUME NEW u \in BOOLEAN, EndRequest(u) PROVE SameBlocks
  <2> PICK h : h = queue[1].bh
    OBVIOUS
  <2> QED
    BY <1>3, EndRequestIs DEF SameBlocks
<1>4. CASE \E p \in Proc : Resume(p) \/ FaultDone(p) \/ Enter(p)
  BY <1>4 DEF Resume, FaultDone, Enter, SameBlocks
<1>5. CASE UNCHANGED vars
  BY <1>5 DEF vars, SameBlocks
<1> QED
  BY <1>1, <1>2, <1>3, <1>4, <1>5 DEF Next, GoesOn, Interrupt

(* Assign gives its victim a block that no buffer has.                     *)
LEMMA UniqueNext ==
  ASSUME CacheInv, OneBufferPerBlock, [Next]_vars
  PROVE  OneBufferPerBlock'
<1>1. ASSUME NEW p \in Proc, Assign(p) PROVE OneBufferPerBlock'
  <2> PICK b, k : b = task[p].bh /\ k = task[p].want
    OBVIOUS
  <2>1. /\ Cached(k) = {} /\ buf'[b].block = k
        /\ \A c \in Buffer \ {b} : buf'[c] = buf[c]
    BY <1>1, AssignIs
  <2>2. \A c \in Buffer \ {b} : buf'[c].block # k
    BY <2>1 DEF Cached
  <2> QED
    BY <2>1, <2>2 DEF OneBufferPerBlock
<1>2. CASE SameBlocks
  BY <1>2 DEF SameBlocks, OneBufferPerBlock
<1> QED
  BY <1>1, <1>2, BlocksStay

(* At boot no buffer has a block.                                          *)
LEMMA UniqueInit == Init => OneBufferPerBlock
<1> SUFFICES ASSUME Init PROVE OneBufferPerBlock
  OBVIOUS
<1>1. \A b \in Buffer : buf[b].block = 0
  BY DEF Init
<1> QED
  BY <1>1 DEF OneBufferPerBlock

(* However many tasks look for the same block at once, and wherever they   *)
(* sleep in getblk(), no block is ever held by two buffers: the repeated   *)
(* look into the hash table after the last sleep is enough.                *)
THEOREM BlocksAreUnique == Spec => []OneBufferPerBlock
<1>1. CacheInv /\ OneBufferPerBlock /\ [Next]_vars
        => CacheInv' /\ OneBufferPerBlock'
  BY CacheInvNext, UniqueNext
<1> QED
  BY <1>1, CacheInvInit, UniqueInit, PTL DEF Spec
-----------------------------------------------------------------------------

(* Interrupts and sleeps keep the tasks lawful.                            *)
LEMMA LawfulStays ==
  ASSUME CacheInv, NoneValid, AllLawful, UNCHANGED task
  PROVE  AllLawful'
<1>1. ASSUME NEW r \in Proc PROVE Lawful(task[r], buf')
  <2>1. LockOf(task[r]) \in Buffer \cup {0} /\ Lawful(task[r], buf)
    BY Here, HeldFields DEF AllLawful
  <2> QED
    BY <2>1 DEF Lawful, NoneValid
<1> QED
  BY <1>1, LawfulNext

(* A step of a task loses nothing.                                         *)
LEMMA StepStores ==
  ASSUME StoreInv, NoFaultyFill, NEW p \in Proc, Step(p)
  PROVE  Stored' /\ AllLawful'
<1>0. CacheInv /\ Stored /\ AllLawful
  BY DEF StoreInv, Stored
<1>1. CASE AddRequest(p)
  <2>1. NoneValid
    BY <1>0, <1>1, AddRequestIs DEF NoneValid
  <2>2. StaysInCall(p)
    BY <1>0, <1>1, StepsInCall
  <2> QED
    BY <1>0, <1>1, <2>1, <2>2, AddRequestStores, LawfulCalls
<1>2. ASSUME ~AddRequest(p) PROVE UNCHANGED <<queue, moved, disk>>
  BY <1>2 DEF Step, Local, devvars, WaitOnBuffer, Return, FindHit,
     GetHashTable, FindVictim, SleepForBuffer, VictimUnfit, Assign, NextAhead,
     Drop, BreadDone, Copy, Fault, Brelse, SyncBuffer, ForgetReadAhead,
     NoRequest, NoneFree, SleepForRequest
<1>3. CASE Copy(p)
  <2>1. NoneValid
    BY <1>0, <1>3, CopyIs DEF NoneValid, Fills
  <2>2. UNCHANGED <<queue, moved, disk>>
    BY <1>3 DEF Copy, Local, devvars
  <2> QED
    BY <1>0, <1>3, <2>1, <2>2, CopyStores, LawfulSpecial
<1>4. CASE Assign(p)
  <2>1. NoneValid
    <3> PICK b : b = task[p].bh
      OBVIOUS
    <3>1. /\ ~buf'[b].uptodate
          /\ \A c \in Buffer \ {b} : buf'[c] = buf[c]
      BY <1>0, <1>4, AssignIs
    <3> QED
      BY <3>1 DEF NoneValid
  <2>2. UNCHANGED <<queue, moved, disk>> /\ StaysInCall(p)
    BY <1>0, <1>4, StepsInCall DEF Assign, Local, devvars
  <2> QED
    BY <1>0, <1>4, <2>1, <2>2, AssignStores, LawfulCalls
<1>5. CASE ~AddRequest(p) /\ ~Copy(p) /\ ~Assign(p)
  <2>1. SameContents /\ NoLessDirty
    BY <1>0, <1>5, StepBufs
  <2>2. NoneValid
    BY <2>1 DEF SameContents, NoneValid
  <2>3. Stored'
    BY <1>0, <1>2, <1>5, <2>1, QuietStores
  <2>4. CASE WaitOnBuffer(p) \/ SleepForBuffer(p)
    BY <1>0, <2>2, <2>3, <2>4, LawfulStays DEF WaitOnBuffer, SleepForBuffer
  <2>5. CASE Return(p) \/ Fault(p) \/ NoneFree(p) \/ SleepForRequest(p)
    BY <1>0, <2>2, <2>3, <2>5, LawfulSpecial
  <2>6. CASE \/ FindHit(p) \/ GetHashTable(p) \/ FindVictim(p)
             \/ VictimUnfit(p) \/ NextAhead(p) \/ Drop(p) \/ BreadDone(p)
             \/ Brelse(p) \/ SyncBuffer(p) \/ ForgetReadAhead(p)
             \/ NoRequest(p)
    <3>1. StaysInCall(p)
      BY <1>0, <2>6, StepsInCall
    <3> QED
      BY <1>0, <2>2, <2>3, <3>1, LawfulCalls
  <2> QED
    BY <1>5, <2>4, <2>5, <2>6 DEF Step
<1> QED
  BY <1>1, <1>3, <1>4, <1>5

(* An interrupt loses nothing.                                             *)
LEMMA InterruptStores ==
  ASSUME StoreInv, Interrupt
  PROVE  Stored' /\ AllLawful'
<1>0. CacheInv /\ Stored /\ AllLawful /\ OneBufferPerBlock
  BY DEF StoreInv, Stored
<1>1. CASE MoveData
  <2>1. NoneValid /\ UNCHANGED task
    <3> PICK h, s : h = queue[1].bh /\ s = queue[1].sector
      OBVIOUS
    <3> QED
      BY <1>0, <1>1, MoveDataIs DEF NoneValid
  <2> QED
    BY <1>0, <1>1, <2>1, MoveDataStores, LawfulStays
<1>2. ASSUME NEW u \in BOOLEAN, EndRequest(u)
      PROVE  Stored' /\ AllLawful'
  <2>1. \A r \in Proc : Lawful(task'[r], buf')
    <3> PICK h : h = queue[1].bh
      OBVIOUS
    <3>1. /\ UNCHANGED task /\ 1 \in DOMAIN queue
          /\ \A b \in Buffer : b # h => buf'[b].uptodate = buf[b].uptodate
      BY <1>0, <1>2, EndRequestIs
    <3> SUFFICES ASSUME NEW r \in Proc PROVE Lawful(task[r], buf')
      BY <3>1
    <3>2. /\ LockOf(task[r]) \in Buffer \cup {0} /\ Lawful(task[r], buf)
          /\ LockOf(task[r]) # h
      BY <1>0, <3>1, Here, HeldFields DEF AllLawful, CacheInv, Owned
    <3> QED
      BY <3>1, <3>2 DEF Lawful
  <2> QED
    BY <1>0, <1>2, <2>1, EndRequestStores, LawfulNext
<1> QED
  BY <1>1, <1>2 DEF Interrupt

(* Every step keeps StoreInv.                                              *)
LEMMA StoreInvNext ==
  ASSUME StoreInv, NoFaultyFill, [Next]_vars
  PROVE  StoreInv'
<1>0. CacheInv /\ Stored /\ AllLawful /\ OneBufferPerBlock
  BY DEF StoreInv, Stored
<1>1. CacheInv' /\ OneBufferPerBlock'
  BY <1>0, CacheInvNext, UniqueNext
<1>2. ASSUME NEW p \in Proc, Step(p) PROVE Stored' /\ AllLawful'
  BY <1>2, StepStores
<1>3. ASSUME Interrupt PROVE Stored' /\ AllLawful'
  BY <1>3, InterruptStores
<1>4. ASSUME UNCHANGED vars \/ \E p \in Proc : Resume(p)
      PROVE  Stored' /\ AllLawful'
  <2>1. UNCHANGED <<queue, moved, disk, buf, task>>
    BY <1>4 DEF Resume, devvars, vars
  <2>2. SameContents /\ NoLessDirty /\ NoneValid
    BY <2>1 DEF SameContents, NoLessDirty, NoneValid
  <2> QED
    BY <1>0, <2>1, <2>2, QuietStores, LawfulStays
<1>5. ASSUME NEW p \in Proc, FaultDone(p) \/ Enter(p)
      PROVE  Stored' /\ AllLawful'
  <2>1. UNCHANGED <<queue, moved, disk, buf>>
    BY <1>5 DEF FaultDone, Enter, devvars
  <2>2. SameContents /\ NoLessDirty /\ NoneValid
    BY <2>1 DEF SameContents, NoLessDirty, NoneValid
  <2> QED
    BY <1>0, <1>5, <2>1, <2>2, QuietStores, LawfulSpecial
<1>6. Stored' /\ AllLawful'
  BY <1>2, <1>3, <1>4, <1>5 DEF Next, GoesOn
<1> QED
  BY <1>1, <1>6 DEF StoreInv, Stored

(* No buffer is valid at boot.                                             *)
LEMMA StoreInvInit == Init => StoreInv
<1> SUFFICES ASSUME Init PROVE StoreInv
  OBVIOUS
<1>1. CacheInv /\ OneBufferPerBlock
  BY CacheInvInit, UniqueInit
<1>2. /\ queue = <<>> /\ moved = FALSE
      /\ task = [p \in Proc |-> Idle]
      /\ \A b \in Buffer : ~buf[b].uptodate
  BY DEF Init, EL!Init
<1>3. Saved /\ Crossed /\ QueueStale
  BY <1>2 DEF Saved, Crossed, QueueStale
<1>4. \A p \in Proc : task[p] = Idle
  BY <1>2
<1>5. AllLawful
  BY <1>4, IdleIsTask DEF AllLawful, Lawful, LockOf
<1> QED
  BY <1>1, <1>3, <1>5 DEF StoreInv

(* A valid buffer that is neither dirty nor locked has no request, so all  *)
(* that is left is that it agrees with the disk.                           *)
LEMMA StoreInvIsClean ==
  ASSUME StoreInv
  PROVE  CleanMatchesDisk
<1> SUFFICES ASSUME NEW b \in Buffer, buf[b].uptodate, ~buf[b].dirt,
                    ~buf[b].lock
             PROVE  buf[b].data = disk[buf[b].block]
  BY DEF CleanMatchesDisk
<1>1. \A i \in DOMAIN queue : queue[i].bh # b
  BY DEF StoreInv, CacheInv, Owned
<1> QED
  BY <1>1 DEF StoreInv, Saved

(* A valid, clean and unlocked buffer holds what the disk holds: whatever  *)
(* the order of writes, syncs, completions and failed transfers, b_dirt is *)
(* not cleared but for a request that will write the data. Stated for      *)
(* systems where file_write() fills buffers without page faults; see       *)
(* NoFaultyFill.                                                           *)
THEOREM CleanBuffersMatch == NoFaultyFill => (Spec => []CleanMatchesDisk)
<1> SUFFICES ASSUME NoFaultyFill PROVE Spec => []CleanMatchesDisk
  OBVIOUS
<1>1. StoreInv /\ [Next]_vars => StoreInv'
  BY StoreInvNext
<1> QED
  BY <1>1, StoreInvInit, StoreInvIsClean, PTL DEF Spec
-----------------------------------------------------------------------------

(* What is written to a buffer gets to the disk: no write fails            *)
(* (end_request(0) marks the buffer invalid and drops its contents), and   *)
(* no whole block is written into an invalid buffer (block_dev.c:28, where *)
(* the next bread() reads the old contents over it).                       *)
WritesBack ==
  NoFaultyFill /\ "block_write_full" \notin Ops /\ WRITE \notin IOErrors

(* Only valid buffers are dirty, ...                                       *)
DirtyValid == \A b \in Buffer : buf[b].dirt => buf[b].uptodate

(* ... or about to be written, ...                                         *)
QueueValid ==
  \A i \in DOMAIN queue : queue[i].cmd = WRITE => buf[queue[i].bh].uptodate

(* ... or waiting to be, or being filled. A call has taken effect only     *)
(* once its copy is done.                                                  *)
Valid(t, bs) ==
  /\ LockOf(t) # 0 /\ t.passes # 0 => bs[LockOf(t)].uptodate
  /\ Filling(t) => bs[t.bh].uptodate
  /\ t.done => t.pc \in {"brelse", "return"}

AllValid == \A p \in Proc : Valid(task[p], buf)

(* The cache, with every write on its way.                                 *)
WholeInv == StoreInv /\ DirtyValid /\ QueueValid /\ AllValid

(* No buffer becomes invalid.                                              *)
NoneInvalid == \A b \in Buffer : buf[b].uptodate => buf'[b].uptodate

(* When one task steps, the others stay valid.                             *)
LEMMA OneValid ==
  ASSUME CacheInv, NoneInvalid, AllValid, NEW p \in Proc, NEW n,
         task' = [task EXCEPT ![p] = n], Valid(n, buf')
  PROVE  \A r \in Proc : Valid(task'[r], buf')
<1>1. ASSUME NEW r \in Proc PROVE Valid(task[r], buf')
  <2>1. LockOf(task[r]) \in Buffer \cup {0} /\ Valid(task[r], buf)
    BY Here, HeldFields DEF AllValid
  <2>2. Filling(task[r]) => task[r].bh \in Buffer
    BY Here, TaskFields DEF Filling, Fit, Holding
  <2> QED
    BY <2>1, <2>2 DEF Valid, NoneInvalid
<1>2. \A r \in Proc : task'[r] = IF r = p THEN n ELSE task[r]
  BY Here
<1> QED
  BY <1>1, <1>2

(* The primed form.                                                        *)
LEMMA ValidNext ==
  ASSUME \A r \in Proc : Valid(task'[r], buf')
  PROVE  AllValid'
<1>1. \A r \in Proc : Valid(task[r], buf)'
  BY DEF Valid, LockOf, TargetOf, Filling
<1> QED
  BY <1>1 DEF AllValid

(* Interrupts and sleeps keep the tasks valid.                             *)
LEMMA ValidStays ==
  ASSUME CacheInv, NoneInvalid, AllValid, UNCHANGED task
  PROVE  AllValid'
<1>1. ASSUME NEW r \in Proc PROVE Valid(task[r], buf')
  <2>1. LockOf(task[r]) \in Buffer \cup {0} /\ Valid(task[r], buf)
    BY Here, HeldFields DEF AllValid
  <2>2. Filling(task[r]) => task[r].bh \in Buffer
    BY Here, TaskFields DEF Filling, Fit, Holding
  <2> QED
    BY <2>1, <2>2 DEF Valid, NoneInvalid
<1> QED
  BY <1>1, ValidNext

(* Steps inside a call keep the tasks valid ...                            *)
LEMMA ValidCalls ==
  ASSUME CacheInv, WritesBack, AllLawful, NoneInvalid, AllValid,
         NEW p \in Proc, StaysInCall(p)
  PROVE  AllValid'
<1> DEFINE t == task[p]
<1>1. PICK n : /\ task' = [task EXCEPT ![p] = n] /\ SameCall(t, n)
               /\ t.pc = "brelse" => n.pc = "return"
               /\ \/ Plain(n)
                  \/ /\ n.pc = "copy" /\ n.bh = t.bh
                     /\ \/ n.op = "block_write_full"
                        \/ UNCHANGED buf /\ buf[n.bh].uptodate
  BY DEF StaysInCall
<1>2. t.op \in Ops /\ t.pc # "return" /\ Valid(t, buf)
  BY DEF AllLawful, Lawful, StaysInCall, AllValid
<1>3. n.op = t.op /\ n.done = t.done
  BY <1>1 DEF SameCall
<1>4. Filling(n) => buf'[n.bh].uptodate
  BY <1>1, <1>2, <1>3 DEF Filling, Plain, WritesBack
<1>5. LockOf(n) = 0
  BY <1>1 DEF LockOf, Plain
<1>6. Valid(n, buf')
  BY <1>1, <1>2, <1>3, <1>4, <1>5 DEF Valid
<1> QED
  BY <1>1, <1>6, OneValid, ValidNext

(* A write is only asked for when the buffer is valid.                     *)
LEMMA WritesWhatIsValid ==
  ASSUME CacheInv, DirtyValid, AllValid, NEW p \in Proc, HasLocked(p),
         task[p].passes # 0
  PROVE  buf[Target(p)].uptodate
<1> DEFINE t == task[p]
<1>0. t \in Task /\ Fit(t) /\ Valid(t, buf)
  BY Here DEF AllValid
<1>1. /\ t.pc \in {"ll_rw_block", "get_request"} /\ Target(p) = TargetOf(t)
      /\ Target(p) \in Buffer /\ Target(p) # 0
  BY WantsRequest, HoldsIsHolding DEF CacheInv
<1>2. CASE t.pc = "get_request"
  BY <1>0, <1>1, <1>2 DEF Valid, LockOf
<1>3. CASE t.pc = "ll_rw_block"
  <2>1. Command(p) = WRITE
    BY HoldsIsHolding DEF Command, CacheInv
  <2>2. Needed(p)
    BY <1>3 DEF HasLocked, At
  <2> QED
    BY <1>1, <2>1, <2>2 DEF Needed, DirtyValid
<1> QED
  BY <1>1, <1>2, <1>3

(* ... and so do the others.                                               *)
LEMMA ValidSpecial ==
  ASSUME CacheInv, NoneInvalid, DirtyValid, AllValid, NEW p \in Proc,
         \/ Copy(p) \/ Fault(p) \/ FaultDone(p) \/ Return(p)
         \/ NoneFree(p) \/ SleepForRequest(p) \/ Enter(p)
  PROVE  AllValid'
<1> DEFINE t == task[p]
<1>0. t \in Task /\ Fit(t) /\ Valid(t, buf)
  BY Here DEF AllValid
<1>1. CASE Copy(p)
  <2>1. PICK n : task' = [task EXCEPT ![p] = n] /\ Copies(p, n)
    BY <1>1, CopyIs
  <2>2. Valid(n, buf')
    BY <2>1 DEF Valid, Copies, LockOf, Filling
  <2> QED
    BY <2>1, <2>2, OneValid, ValidNext
<1>2. CASE Fault(p) \/ FaultDone(p)
  <2>1. PICK l \in {"fault", "copy_rest"} : Goto(p, l)
    BY <1>2 DEF Fault, FaultDone
  <2>2. Filling(t) /\ ~t.done
    BY <1>0, <1>2 DEF Fault, FaultDone, At, Valid, Filling
  <2>3. PICK n : task' = [task EXCEPT ![p] = n] /\ n.pc = l /\ Like(t, n)
    BY <2>1, GotoIs DEF Label
  <2>4. n.bh = t.bh /\ n.bh \in Buffer /\ ~n.done
    BY <1>0, <2>2, <2>3, TaskFields
    DEF Like, Stands, SameCall, Filling, Fit, Holding
  <2>5. Valid(n, buf')
    BY <1>0, <2>2, <2>3, <2>4 DEF Valid, LockOf, NoneInvalid
  <2> QED
    BY <2>3, <2>5, OneValid, ValidNext
<1>3. CASE Return(p)
  <2>1. ~Idle.done
    BY DEF Idle
  <2>2. Valid(Idle, buf')
    BY <2>1, IdleIsTask DEF Valid, LockOf, Filling
  <2> QED
    BY <1>3, <2>2, OneValid, ValidNext DEF Return
<1>4. CASE NoneFree(p)
  <2>1. Goto(p, "no_request") /\ HasLocked(p)
    BY <1>4 DEF NoneFree
  <2>2. t.pc \in {"ll_rw_block", "get_request"} /\ Target(p) \in Buffer
    BY <2>1, WantsRequest
  <2>3. PICK n : /\ task' = [task EXCEPT ![p] = n] /\ n.pc = "no_request"
                 /\ Like(t, n) /\ n.passes = t.passes /\ n.i = t.i
    BY <2>1, GotoIs DEF Label, Requesting, GoingToSleep
  <2>4. LockOf(n) = Target(p)
    BY <2>3, HoldsIsHolding
    DEF LockOf, TargetOf, Like, Stands, CacheInv, Requesting, GoingToSleep
  <2>5. t.passes # 0 => buf[Target(p)].uptodate
    BY <2>1, WritesWhatIsValid
  <2>6. ~n.done /\ ~Filling(n)
    BY <1>0, <2>2, <2>3 DEF Valid, Like, SameCall, Filling
  <2>7. Valid(n, buf')
    BY <2>2, <2>3, <2>4, <2>5, <2>6 DEF Valid, NoneInvalid
  <2> QED
    BY <2>3, <2>7, OneValid, ValidNext
<1>6. CASE SleepForRequest(p)
  <2>1. t.pc \in GoingToSleep
    BY <1>6, SleepForRequestIs
  <2>2. PICK n : /\ task' = [task EXCEPT ![p] = n] /\ n.pc \in Requesting
                 /\ Like(t, n) /\ n.passes = t.passes /\ n.i = t.i
    BY <1>6, SleepForRequestIs
  <2>3. LockOf(n) = LockOf(t) /\ LockOf(t) \in Buffer \cup {0}
    BY <1>0, <2>1, <2>2, HeldFields
    DEF LockOf, TargetOf, Like, Stands, Requesting
  <2>4. Valid(n, buf')
    BY <1>0, <2>1, <2>2, <2>3
    DEF Valid, Like, SameCall, NoneInvalid, Filling, Requesting, GoingToSleep
  <2> QED
    BY <2>2, <2>4, OneValid, ValidNext
<1>5. CASE Enter(p)
  <2>1. PICK n : task' = [task EXCEPT ![p] = n] /\ Entered(n)
    BY <1>5, EnterIs
  <2>2. Valid(n, buf')
    BY <2>1 DEF Valid, Entered, LockOf, Filling
  <2> QED
    BY <2>1, <2>2, OneValid, ValidNext
<1> QED
  BY <1>1, <1>2, <1>3, <1>4, <1>5, <1>6

(* A step that leaves the list alone keeps QueueValid.                     *)
LEMMA SameQueueValid ==
  ASSUME CacheInv, QueueValid, NoneInvalid, UNCHANGED queue
  PROVE  QueueValid'
BY QueueTyped DEF QueueValid, NoneInvalid

(* A step of a task keeps the strengthening, ...                           *)
LEMMA StepValid ==
  ASSUME WholeInv, WritesBack, NEW p \in Proc, Step(p)
  PROVE  DirtyValid' /\ QueueValid' /\ AllValid'
<1>0. /\ CacheInv /\ AllLawful /\ DirtyValid /\ QueueValid /\ AllValid
      /\ Valid(task[p], buf)
  BY DEF WholeInv, StoreInv, AllValid
<1>1. CASE AddRequest(p)
  <2> PICK b : b = Target(p)
    OBVIOUS
  <2>1. /\ b \in Buffer
        /\ \A i \in DOMAIN queue : queue[i].bh \in Buffer
        /\ \A c \in Buffer : /\ buf'[c].uptodate = buf[c].uptodate
                             /\ c # b => buf'[c].dirt = buf[c].dirt
        /\ ~buf'[b].dirt
    BY <1>0, <1>1, AddRequestIs, QueueTyped
  <2>2. PICK k : /\ Links(queue, queue', k) /\ queue'[k].bh = b
                 /\ queue'[k].cmd = WRITE => task[p].passes # 0
    <3>1. \E k : /\ Links(queue, queue', k) /\ queue'[k].bh = b
                 /\ IF task[p].passes = 0
                      THEN queue'[k].cmd = READ /\ ~buf[b].uptodate
                      ELSE queue'[k].cmd = WRITE
      BY <1>0, <1>1, AddRequestIs
    <3> QED
      BY <3>1 DEF READ, WRITE, EL!READ, EL!WRITE
  <2>3. task[p].passes # 0 => buf[b].uptodate
    BY <1>0, <1>1, WritesWhatIsValid DEF AddRequest
  <2>4. \A i \in DOMAIN queue' \ {k} : \E j \in DOMAIN queue : queue'[i] = queue[j]
    BY <2>2 DEF Links
  <2>5. DirtyValid'
    BY <1>0, <2>1 DEF DirtyValid
  <2>6. QueueValid'
    <3> SUFFICES ASSUME NEW i \in DOMAIN queue', queue'[i].cmd = WRITE
                 PROVE  buf'[queue'[i].bh].uptodate
      BY DEF QueueValid
    <3>1. CASE i = k
      BY <2>1, <2>2, <2>3, <3>1
    <3>2. CASE i # k
      <4> PICK j \in DOMAIN queue : queue'[i] = queue[j]
        BY <2>4, <3>2
      <4> QED
        BY <1>0, <2>1 DEF QueueValid
    <3> QED
      BY <3>1, <3>2
  <2>7. NoneInvalid /\ StaysInCall(p)
    BY <1>0, <1>1, <2>1, StepsInCall DEF NoneInvalid
  <2> QED
    BY <1>0, <2>5, <2>6, <2>7, ValidCalls
<1>2. ASSUME ~AddRequest(p) PROVE UNCHANGED queue
  BY <1>2 DEF Step, Local, devvars, WaitOnBuffer, Return, FindHit,
     GetHashTable, FindVictim, SleepForBuffer, VictimUnfit, Assign, NextAhead,
     Drop, BreadDone, Copy, Fault, Brelse, SyncBuffer, ForgetReadAhead,
     NoRequest, NoneFree, SleepForRequest
<1>3. CASE Copy(p)
  <2>1. /\ \A b \in Buffer : buf'[b].uptodate = buf[b].uptodate
        /\ \A b \in Buffer : b # task[p].bh => buf'[b].dirt = buf[b].dirt
        /\ buf[task[p].bh].uptodate
    BY <1>0, <1>3, CopyIs DEF Fills, Valid
  <2>2. DirtyValid' /\ NoneInvalid
    BY <1>0, <2>1 DEF DirtyValid, NoneInvalid
  <2>3. UNCHANGED queue
    BY <1>3 DEF Copy, Local, devvars
  <2> QED
    BY <1>0, <1>3, <2>2, <2>3, SameQueueValid, ValidSpecial
<1>4. CASE Assign(p)
  <2> PICK b : b = task[p].bh
    OBVIOUS
  <2>1. /\ b \in Buffer /\ ~buf[b].lock /\ ~buf'[b].dirt
        /\ \A c \in Buffer \ {b} : buf'[c] = buf[c]
        /\ \A r \in Proc : Held(task[r]) # b
        /\ UNCHANGED queue /\ StaysInCall(p)
    BY <1>0, <1>2, <1>4, AssignIs, StepsInCall DEF Assign, Local, devvars
  <2>2. DirtyValid'
    BY <1>0, <2>1 DEF DirtyValid
  <2>3. QueueValid'
    <3>1. \A i \in DOMAIN queue : queue[i].bh \in Buffer \ {b}
      BY <1>0, <2>1, QueueTyped DEF CacheInv, Owned
    <3> QED
      BY <1>0, <2>1, <3>1 DEF QueueValid
  <2>4. ASSUME NEW r \in Proc PROVE Valid(task[r], buf')
    <3>1. /\ LockOf(task[r]) \in Buffer \cup {0}
          /\ LockOf(task[r]) # 0 => LockOf(task[r]) # b
      BY <1>0, <2>1, Here, HeldFields DEF CacheInv, Owned
    <3>2. Filling(task[r]) => task[r].bh \in Buffer \ {b}
      <4>1. Filling(task[r]) => /\ task[r].bh \in Buffer
                                /\ Held(task[r]) = task[r].bh
        BY <1>0, Here, TaskFields DEF Filling, Held, Holding, Fit
      <4> QED
        BY <2>1, <4>1
    <3>3. Valid(task[r], buf)
      BY <1>0 DEF AllValid
    <3> QED
      BY <2>1, <3>1, <3>2, <3>3 DEF Valid
  <2>5. PICK n : /\ task' = [task EXCEPT ![p] = n] /\ SameCall(task[p], n)
                 /\ Plain(n) \/ n.op = "block_write_full"
    <3>1. task[p].pc = "gb_wait" /\ task' = [task EXCEPT ![p] = Got(@, @.bh, FALSE)]
      BY <1>4 DEF Assign, At
    <3> DEFINE n == Got(task[p], task[p].bh, FALSE)
    <3>2. task' = [task EXCEPT ![p] = n]
      BY <3>1
    <3>3. /\ Follows(task[p], n) /\ SameCall(task[p], n)
          /\ \/ Plain(n)
             \/ n.pc = "copy" /\ task[p].op = "block_write_full"
      BY <1>0, <3>1, Here, GotFits
    <3> HIDE DEF n
    <3> QED
      BY <3>2, <3>3 DEF SameCall
  <2>6. task[p].op \in Ops /\ task[p].pc = "gb_wait" /\ ~task[p].done
    BY <1>0, <1>4 DEF AllLawful, Lawful, Assign, At, Valid
  <2>7. Valid(n, buf')
    BY <2>5, <2>6 DEF SameCall, WritesBack, Valid, Filling, LockOf, Plain
  <2>8. \A r \in Proc : task'[r] = IF r = p THEN n ELSE task[r]
    BY <1>0, <2>5, Here
  <2>9. \A r \in Proc : Valid(task'[r], buf')
    BY <2>4, <2>7, <2>8
  <2> QED
    BY <2>2, <2>3, <2>9, ValidNext
<1>5. CASE ~AddRequest(p) /\ ~Copy(p) /\ ~Assign(p)
  <2>1. SameContents /\ NewlyDirty(p)
    BY <1>0, <1>5, StepBufs
  <2>2. NoneInvalid
    BY <2>1 DEF SameContents, NoneInvalid
  <2>3. DirtyValid'
    BY <1>0, <2>1 DEF DirtyValid, SameContents, NewlyDirty, Valid
  <2>4. QueueValid'
    BY <1>0, <1>2, <1>5, <2>2, SameQueueValid
  <2>5. CASE WaitOnBuffer(p) \/ SleepForBuffer(p)
    BY <1>0, <2>2, <2>3, <2>4, <2>5, ValidStays
    DEF WaitOnBuffer, SleepForBuffer
  <2>6. CASE Return(p) \/ Fault(p) \/ NoneFree(p) \/ SleepForRequest(p)
    BY <1>0, <2>2, <2>3, <2>4, <2>6, ValidSpecial
  <2>7. CASE \/ FindHit(p) \/ GetHashTable(p) \/ FindVictim(p)
             \/ VictimUnfit(p) \/ NextAhead(p) \/ Drop(p) \/ BreadDone(p)
             \/ Brelse(p) \/ SyncBuffer(p) \/ ForgetReadAhead(p)
             \/ NoRequest(p)
    <3>1. StaysInCall(p)
      BY <1>0, <2>7, StepsInCall
    <3> QED
      BY <1>0, <2>2, <2>3, <2>4, <3>1, ValidCalls
  <2> QED
    BY <1>5, <2>5, <2>6, <2>7 DEF Step
<1> QED
  BY <1>1, <1>3, <1>4, <1>5

(* ... and so does an interrupt.                                           *)
LEMMA InterruptValid ==
  ASSUME WholeInv, WritesBack, Interrupt
  PROVE  DirtyValid' /\ QueueValid' /\ AllValid'
<1>0. /\ CacheInv /\ QueueStale /\ DirtyValid /\ QueueValid /\ AllValid
  BY DEF WholeInv, StoreInv
<1> PICK h, s : h = queue[1].bh /\ s = queue[1].sector
  OBVIOUS
<1>1. CASE MoveData
  <2>1. /\ \A b \in Buffer : /\ buf'[b].uptodate = buf[b].uptodate
                             /\ buf'[b].dirt = buf[b].dirt
        /\ UNCHANGED <<queue, task>>
    BY <1>0, <1>1, MoveDataIs
  <2>2. NoneInvalid /\ DirtyValid'
    BY <1>0, <2>1 DEF NoneInvalid, DirtyValid
  <2> QED
    BY <1>0, <2>1, <2>2, SameQueueValid, ValidStays
<1>2. ASSUME NEW u \in BOOLEAN, EndRequest(u)
      PROVE  DirtyValid' /\ QueueValid' /\ AllValid'
  <2>1. /\ 1 \in DOMAIN queue /\ h \in Buffer
        /\ u \/ queue[1].cmd \in IOErrors
        /\ UNCHANGED task
        /\ \A b \in Buffer : /\ buf'[b].dirt = buf[b].dirt
                             /\ b # h => buf'[b].uptodate = buf[b].uptodate
        /\ buf'[h].uptodate = u
        /\ \A i \in DOMAIN queue' : /\ i + 1 \in DOMAIN queue
                                    /\ queue'[i] = queue[i + 1]
    BY <1>0, <1>2, EndRequestIs
  <2>2. u \/ ~buf[h].uptodate
    <3>1. queue[1].cmd \in {READ, WRITE}
      BY <1>0, <2>1, QueueTyped DEF EL!Request, READ, WRITE
    <3> QED
      BY <1>0, <2>1, <3>1 DEF WritesBack, QueueStale
  <2>3. NoneInvalid
    BY <2>1, <2>2 DEF NoneInvalid
  <2>4. DirtyValid'
    BY <1>0, <2>1, <2>3 DEF DirtyValid, NoneInvalid
  <2>5. QueueValid'
    <3> SUFFICES ASSUME NEW i \in DOMAIN queue', queue'[i].cmd = WRITE
                 PROVE  buf'[queue'[i].bh].uptodate
      BY DEF QueueValid
    <3> PICK j \in DOMAIN queue : queue'[i] = queue[j]
      BY <2>1
    <3> QED
      BY <1>0, <2>3, QueueTyped DEF QueueValid, NoneInvalid
  <2> QED
    BY <1>0, <2>1, <2>3, <2>4, <2>5, ValidStays
<1> QED
  BY <1>1, <1>2 DEF Interrupt

(* Every step keeps WholeInv.                                              *)
LEMMA WholeInvNext ==
  ASSUME WholeInv, WritesBack, [Next]_vars
  PROVE  WholeInv'
<1>0. /\ CacheInv /\ StoreInv /\ DirtyValid /\ QueueValid /\ AllValid
  BY DEF WholeInv, StoreInv
<1>1. StoreInv'
  BY <1>0, StoreInvNext DEF WritesBack
<1>2. ASSUME NEW p \in Proc, Step(p)
      PROVE  DirtyValid' /\ QueueValid' /\ AllValid'
  BY <1>2, StepValid
<1>3. ASSUME Interrupt
      PROVE  DirtyValid' /\ QueueValid' /\ AllValid'
  BY <1>3, InterruptValid
<1>4. ASSUME UNCHANGED vars \/ \E p \in Proc : Resume(p)
      PROVE  DirtyValid' /\ QueueValid' /\ AllValid'
  <2>1. UNCHANGED <<queue, buf, task>>
    BY <1>4 DEF Resume, devvars, vars
  <2>2. NoneInvalid /\ DirtyValid'
    BY <1>0, <2>1 DEF NoneInvalid, DirtyValid
  <2> QED
    BY <1>0, <2>1, <2>2, SameQueueValid, ValidStays
<1>5. ASSUME NEW p \in Proc, FaultDone(p) \/ Enter(p)
      PROVE  DirtyValid' /\ QueueValid' /\ AllValid'
  <2>1. UNCHANGED <<queue, buf>>
    BY <1>5 DEF FaultDone, Enter, devvars
  <2>2. NoneInvalid /\ DirtyValid'
    BY <1>0, <2>1 DEF NoneInvalid, DirtyValid
  <2> QED
    BY <1>0, <1>5, <2>1, <2>2, SameQueueValid, ValidSpecial
<1>6. DirtyValid' /\ QueueValid' /\ AllValid'
  BY <1>2, <1>3, <1>4, <1>5 DEF Next, GoesOn
<1> QED
  BY <1>1, <1>6 DEF WholeInv

(* No buffer is dirty at boot.                                             *)
LEMMA WholeInvInit == Init => WholeInv
<1> SUFFICES ASSUME Init PROVE WholeInv
  OBVIOUS
<1>1. StoreInv
  BY StoreInvInit
<1>2. /\ queue = <<>> /\ task = [p \in Proc |-> Idle]
      /\ \A b \in Buffer : ~buf[b].dirt
  BY DEF Init, EL!Init
<1>3. DirtyValid /\ QueueValid
  BY <1>2 DEF DirtyValid, QueueValid
<1>4. (\A p \in Proc : task[p] = Idle) /\ ~Idle.done
  BY <1>2 DEF Idle
<1>5. AllValid
  BY <1>4, IdleIsTask DEF AllValid, Valid, LockOf, Filling
<1> QED
  BY <1>1, <1>3, <1>5 DEF WholeInv
-----------------------------------------------------------------------------

(* x is what a reader of block k should see.                               *)
Shows(k, x, bs, d) ==
  /\ \A b \in Buffer : bs[b].block = k /\ bs[b].uptodate => x = bs[b].data
  /\ (\A b \in Buffer : bs[b].block = k => ~bs[b].uptodate) => x = d[k]

(* StoreOf is what a reader should see: the refinement mapping chooses the *)
(* only valid buffer of the block, or the disk.                            *)
LEMMA StoreIs == WholeInv => \A k \in Block : Shows(k, StoreOf(k), buf, disk)
<1> SUFFICES ASSUME WholeInv, NEW k \in Block
             PROVE  Shows(k, StoreOf(k), buf, disk)
  OBVIOUS
<1>1. \A b \in Buffer : Current(b) <=> buf[b].uptodate
  BY DEF WholeInv, DirtyValid, QueueValid, Current
<1>2. \A b, c \in Buffer :
        buf[b].block = k /\ buf[c].block = k => b = c
  BY BlockAssumption DEF WholeInv, StoreInv, OneBufferPerBlock
<1>3. ASSUME NEW b \in Buffer, buf[b].block = k, buf[b].uptodate
      PROVE  StoreOf(k) = buf[b].data
  <2> DEFINE c == CHOOSE c \in Cached(k) : Current(c)
  <2>1. b \in Cached(k) /\ Current(b)
    BY <1>1, <1>3 DEF Cached
  <2>2. c \in Cached(k)
    BY <2>1
  <2>3. StoreOf(k) = buf[c].data
    BY <2>1 DEF StoreOf
  <2> HIDE DEF c
  <2>4. c = b
    BY <1>2, <1>3, <2>2 DEF Cached
  <2> QED
    BY <2>3, <2>4
<1>4. ASSUME \A b \in Buffer : buf[b].block = k => ~buf[b].uptodate
      PROVE  StoreOf(k) = disk[k]
  <2>1. ~\E b \in Cached(k) : Current(b)
    BY <1>1, <1>4 DEF Cached
  <2> QED
    BY <2>1 DEF StoreOf
<1> QED
  BY <1>3, <1>4 DEF Shows

(* So it is known after a step as well.                                    *)
LEMMA StoreNext ==
  WholeInv' => \A k \in Block : \A x : Shows(k, x, buf', disk') => StoreOf(k)' = x
<1>1. (WholeInv => \A k \in Block : Shows(k, StoreOf(k), buf, disk))'
  BY StoreIs, PTL
<1>2. WholeInv' => \A k \in Block : Shows(k, StoreOf(k)', buf', disk')
  BY <1>1 DEF Shows
<1> QED
  BY <1>2 DEF Shows

(* A step leaves the block store alone.                                    *)
StoreSame == \A k \in Block : StoreOf(k)' = StoreOf(k)

(* So does a step that leaves the contents alone, ...                      *)
LEMMA QuietSame ==
  ASSUME WholeInv, WholeInv', SameContents, UNCHANGED disk
  PROVE  StoreSame
<1>1. \A k \in Block : Shows(k, StoreOf(k), buf', disk')
  BY StoreIs DEF Shows, SameContents
<1> QED
  BY <1>1, StoreNext DEF StoreSame

(* ... a transfer, of an invalid buffer from the disk or of a valid one to *)
(* the disk, ...                                                           *)
LEMMA MoveDataSame ==
  ASSUME WholeInv, WholeInv', MoveData
  PROVE  StoreSame
<1>0. CacheInv /\ QueueStale /\ QueueValid
  BY DEF WholeInv, StoreInv
<1> PICK h, s : h = queue[1].bh /\ s = queue[1].sector
  OBVIOUS
<1>1. /\ 1 \in DOMAIN queue
      /\ h \in Buffer /\ s \in Block /\ s = buf[h].block
      /\ \A b \in Buffer : /\ buf'[b].block = buf[b].block
                           /\ buf'[b].uptodate = buf[b].uptodate
                           /\ b # h => buf'[b].data = buf[b].data
      /\ \A k \in Block \ {s} : disk'[k] = disk[k]
      /\ queue[1].cmd = READ => UNCHANGED disk
      /\ queue[1].cmd = WRITE => UNCHANGED buf
  BY <1>0, MoveDataIs
<1>2. queue[1].cmd \in {READ, WRITE}
  BY <1>0, <1>1, QueueTyped DEF EL!Request, READ, WRITE
<1>3. \/ ~buf[h].uptodate /\ UNCHANGED disk
      \/ buf[h].uptodate /\ UNCHANGED buf
  BY <1>0, <1>1, <1>2 DEF QueueStale, QueueValid
<1>4. ASSUME NEW k \in Block PROVE Shows(k, StoreOf(k), buf', disk')
  <2>1. Shows(k, StoreOf(k), buf, disk)
    BY StoreIs
  <2> QED
    BY <1>1, <1>3, <2>1 DEF Shows
<1> QED
  BY <1>4, StoreNext DEF StoreSame

(* ... its completion, which makes a buffer valid that agrees with the     *)
(* disk, ...                                                               *)
LEMMA EndRequestSame ==
  ASSUME WholeInv, WholeInv', WritesBack, NEW u \in BOOLEAN, EndRequest(u)
  PROVE  StoreSame
<1>0. /\ CacheInv /\ QueueStale /\ QueueValid /\ DirtyValid /\ Crossed
      /\ OneBufferPerBlock
  BY DEF WholeInv, StoreInv
<1> PICK h : h = queue[1].bh
  OBVIOUS
<1>1. /\ 1 \in DOMAIN queue /\ h \in Buffer
      /\ queue[1].sector = buf[h].block /\ buf[h].block \in Block
      /\ IF u THEN moved ELSE queue[1].cmd \in IOErrors
      /\ UNCHANGED disk
      /\ \A b \in Buffer : /\ buf'[b].block = buf[b].block
                           /\ buf'[b].data = buf[b].data
                           /\ b # h => buf'[b].uptodate = buf[b].uptodate
      /\ buf'[h].uptodate = u
  BY <1>0, EndRequestIs
<1>2. queue[1].cmd \in {READ, WRITE}
  BY <1>0, <1>1, QueueTyped DEF EL!Request, READ, WRITE
<1>3. CASE SameContents
  BY <1>1, <1>3, QuietSame
<1>4. CASE u /\ ~buf[h].uptodate
  <2>1. buf[h].data = disk[buf[h].block]
    BY <1>0, <1>1, <1>4 DEF Crossed, DirtyValid
  <2>2. \A b \in Buffer : buf[b].block = buf[h].block => b = h
    BY <1>0, <1>1, BlockAssumption DEF OneBufferPerBlock
  <2>3. ASSUME NEW k \in Block PROVE Shows(k, StoreOf(k), buf', disk')
    <3>1. Shows(k, StoreOf(k), buf, disk)
      BY StoreIs
    <3>2. CASE k = buf[h].block
      BY <1>1, <1>4, <2>1, <2>2, <3>1, <3>2 DEF Shows
    <3>3. CASE k # buf[h].block
      BY <1>1, <3>1, <3>3 DEF Shows
    <3> QED
      BY <3>2, <3>3
  <2> QED
    BY <2>3, StoreNext DEF StoreSame
<1>5. ~u => ~buf[h].uptodate
  BY <1>0, <1>1, <1>2 DEF WritesBack, QueueStale
<1>6. buf[h].uptodate \in BOOLEAN
  BY <1>0, <1>1 DEF CacheInv, TypeOK, BufferHead
<1> QED
  BY <1>1, <1>3, <1>4, <1>5, <1>6 DEF SameContents

(* ... and taking a victim over, whose contents are on the disk.           *)
LEMMA AssignSame ==
  ASSUME WholeInv, WholeInv', NEW p \in Proc, Assign(p), UNCHANGED disk
  PROVE  StoreSame
<1>0. CacheInv /\ OneBufferPerBlock /\ CleanMatchesDisk
  BY StoreInvIsClean DEF WholeInv, StoreInv
<1> PICK b, w : b = task[p].bh /\ w = task[p].want
  OBVIOUS
<1>1. /\ b \in Buffer /\ ~buf[b].lock /\ ~buf[b].dirt
      /\ w \in Block /\ Cached(w) = {}
      /\ buf'[b].block = w /\ ~buf'[b].uptodate
      /\ \A c \in Buffer \ {b} : buf'[c] = buf[c]
  BY <1>0, AssignIs
<1>2. buf[b].uptodate => buf[b].data = disk[buf[b].block]
  BY <1>0, <1>1 DEF CleanMatchesDisk
<1>3. ASSUME NEW k \in Block PROVE Shows(k, StoreOf(k), buf', disk')
  <2>1. Shows(k, StoreOf(k), buf, disk)
    BY StoreIs
  <2>2. \A c \in Buffer : buf[c].block = k /\ buf[b].block = k => c = b
    BY <1>0, <1>1, BlockAssumption DEF OneBufferPerBlock
  <2>3. \A c \in Buffer : buf[c].block # w
    BY <1>1 DEF Cached
  <2>4. CASE buf[b].block = k /\ buf[b].uptodate
    BY <1>1, <1>2, <2>1, <2>2, <2>3, <2>4 DEF Shows
  <2>5. CASE ~(buf[b].block = k /\ buf[b].uptodate)
    BY <1>1, <2>1, <2>3, <2>5 DEF Shows
  <2> QED
    BY <2>4, <2>5
<1> QED
  BY <1>3, StoreNext DEF StoreSame
-----------------------------------------------------------------------------

(* The call a task in state t is in.                                       *)
View(t) ==
  IF t.pc = "user" \/ t.op = "sync" THEN [op |-> "none"]
  ELSE [op |-> IF t.op \in Reads THEN "read" ELSE "write",
        blk |-> t.blk, val |-> t.val, done |-> t.done]

(* The variables of BlockStore.                                            *)
store == [k \in Block |-> StoreOf(k)]
call == [p \in Proc |-> CallOf(p)]

(* A step of one task changes its own call only.                           *)
LEMMA CallsChange ==
  ASSUME CacheInv, NEW p \in Proc, NEW n, task' = [task EXCEPT ![p] = n]
  PROVE  call' = [call EXCEPT ![p] = View(n)]
<1>1. \A q \in Proc : task'[q] = IF q = p THEN n ELSE task[q]
  BY Here
<1>2. \A q \in Proc : CallOf(q)' = View(task'[q]) /\ CallOf(q) = View(task[q])
  BY DEF CallOf, View
<1>3. \A q \in Proc : CallOf(q)' = IF q = p THEN View(n) ELSE CallOf(q)
  BY <1>1, <1>2
<1> QED
  BY <1>3 DEF call

(* A step that leaves the call alone.                                      *)
LEMMA SameView ==
  ASSUME CacheInv, NEW p \in Proc, NEW n, task' = [task EXCEPT ![p] = n],
         View(n) = View(task[p])
  PROVE  UNCHANGED call
<1>1. call' = [call EXCEPT ![p] = View(n)]
  BY CallsChange
<1>2. call[p] = View(n)
  BY DEF call, CallOf, View
<1> QED
  BY <1>1, <1>2 DEF call

(* The steps inside a call do.                                             *)
LEMMA StaysSameCall ==
  ASSUME CacheInv, NEW p \in Proc, NEW n, task' = [task EXCEPT ![p] = n],
         SameCall(task[p], n), n.pc # "user", task[p].pc # "user"
  PROVE  UNCHANGED call
<1>1. View(n) = View(task[p])
  BY DEF View, SameCall
<1> QED
  BY <1>1, SameView

(* Interrupts do.                                                          *)
LEMMA SameTasks ==
  ASSUME UNCHANGED task
  PROVE  UNCHANGED call
BY DEF call, CallOf

(* The store, as one variable.                                             *)
LEMMA SameBlockStore ==
  ASSUME StoreSame
  PROVE  UNCHANGED store
BY DEF StoreSame, store

(* Entering begins a call of BlockStore, unless it is a sync.              *)
LEMMA EnterBegins ==
  ASSUME CacheInv, NEW p \in Proc, Enter(p), UNCHANGED store
  PROVE  BS!Begin(p) \/ UNCHANGED <<store, call>>
<1>1. PICK n : task' = [task EXCEPT ![p] = n] /\ Entered(n)
  BY EnterIs
<1>2. View(task[p]) = BS!NoCall /\ call[p] = BS!NoCall
  BY DEF Enter, View, BS!NoCall, call, CallOf
<1>3. CASE n.op = "sync"
  <2>1. View(n) = View(task[p])
    BY <1>2, <1>3 DEF View, BS!NoCall
  <2> QED
    BY <1>1, <2>1, SameView
<1>4. CASE n.op # "sync"
  <2>1. View(n) \in BS!Calls /\ ~View(n).done
    BY <1>1, <1>4 DEF View, Entered, BS!Calls
  <2>2. call' = [call EXCEPT ![p] = View(n)]
    BY <1>1, CallsChange
  <2> QED
    BY <1>2, <2>1, <2>2 DEF BS!Begin, store, call
<1> QED
  BY <1>3, <1>4

(* Returning ends it.                                                      *)
LEMMA ReturnEnds ==
  ASSUME CacheInv, NEW p \in Proc, Return(p), UNCHANGED store
  PROVE  BS!End(p) \/ UNCHANGED <<store, call>>
<1>1. task' = [task EXCEPT ![p] = Idle] /\ View(Idle) = BS!NoCall
  BY IdleIsTask DEF Return, View, BS!NoCall
<1>2. call' = [call EXCEPT ![p] = BS!NoCall]
  BY <1>1, CallsChange
<1>3. CASE call[p] = BS!NoCall
  BY <1>2, <1>3 DEF call
<1>4. CASE call[p] # BS!NoCall
  BY <1>2, <1>4 DEF BS!End, store, call
<1> QED
  BY <1>3, <1>4

(* A call that has taken effect, and one that has been given its data.     *)
CallRecord(o, k, x, d) == [op |-> o, blk |-> k, val |-> x, done |-> d]
SetDone(c, d) == [c EXCEPT !.done = d]
SetVal(c, x) == [c EXCEPT !.val = x]

(* The ways of updating a call, as operators.                              *)
LEMMA CallUpdates ==
  /\ \A o, k, x, d, e : SetDone(CallRecord(o, k, x, d), e) = CallRecord(o, k, x, e)
  /\ \A o, k, x, d, y : SetVal(CallRecord(o, k, x, d), y) = CallRecord(o, k, y, d)
BY DEF CallRecord, SetDone, SetVal

(* The copy is where a call takes effect: a read sees the last write of    *)
(* its block, and a write is seen from then on.                            *)
LEMMA CopyReadsOrWrites ==
  ASSUME WholeInv, WholeInv', NEW p \in Proc, Copy(p), UNCHANGED disk
  PROVE  BS!Read(p) \/ BS!Write(p)
<1> PICK t, b, k : t = task[p] /\ b = t.bh /\ k = t.blk
  OBVIOUS
<1>9. PICK yes : yes = TRUE
  OBVIOUS
<1>0. CacheInv /\ AllValid /\ OneBufferPerBlock
  BY DEF WholeInv, StoreInv
<1>1. /\ Filling(t) /\ t.op # "sync" /\ b \in Buffer /\ t.first = 0
      /\ \/ t.op \in Reads /\ UNCHANGED buf
         \/ t.op \notin Reads /\ Fills(p)
  BY <1>0, CopyIs
<1>2. PICK n : task' = [task EXCEPT ![p] = n] /\ Copies(p, n)
  BY <1>0, CopyIs
<1>3. ~t.done /\ buf[b].uptodate /\ buf[b].block = k /\ k \in Block
  <2>1. Valid(t, buf) /\ Fit(t) /\ Keeps(t, buf)
    BY <1>0, Here DEF AllValid
  <2> QED
    BY <1>1, <2>1 DEF Valid, Filling, Fit, Keeps, Holding
<1>4. Shows(k, StoreOf(k), buf, disk)
  BY <1>3, StoreIs
<1>5. StoreOf(k) = buf[b].data
  BY <1>1, <1>3, <1>4 DEF Shows
<1>6. /\ call[p] = View(t) /\ call' = [call EXCEPT ![p] = View(n)]
      /\ View(t) = [op |-> IF t.op \in Reads THEN "read" ELSE "write",
                    blk |-> k, val |-> t.val, done |-> t.done]
      /\ View(n) = [op |-> IF t.op \in Reads THEN "read" ELSE "write",
                    blk |-> k, val |-> n.val, done |-> n.done]
      /\ n.done = TRUE
  <2>1. call[p] = View(t) /\ call' = [call EXCEPT ![p] = View(n)]
    BY <1>0, <1>2, CallsChange DEF call, CallOf, View
  <2>2. t.pc # "user" /\ n.pc # "user" /\ n.op = t.op /\ n.blk = k /\ n.done
    BY <1>1, <1>2 DEF Filling, Copies
  <2>3. n.done = TRUE
    BY <1>2 DEF Copies
  <2> QED
    BY <1>1, <2>1, <2>2, <2>3 DEF View
<1>7. CASE t.op \in Reads
  <2>1. StoreSame
    <3>1. SameContents
      BY <1>1, <1>7 DEF SameContents
    <3> QED
      BY <3>1, QuietSame
  <2>2. UNCHANGED store
    BY <2>1, SameBlockStore
  <2>3. n.val = store[k]
    BY <1>2, <1>3, <1>5, <1>7 DEF Copies, store
  <2> DEFINE v == CallRecord("read", k, t.val, t.done)
             d == store[k]
             w == CallRecord("read", k, d, yes)
  <2> HIDE DEF d
  <2>4. View(n) = w /\ call[p] = v
    BY <1>6, <1>7, <1>9, <2>3 DEF d, CallRecord
  <2>5. v.op = "read" /\ ~v.done /\ v.blk = k
    BY <1>3 DEF CallRecord
  <2>6. w = SetDone(SetVal(v, d), yes)
    BY CallUpdates
  <2> HIDE DEF v, w
  <2>7. [call EXCEPT ![p].val = d, ![p].done = TRUE] = [call EXCEPT ![p] = w]
    BY <1>9, <2>4, <2>6 DEF call, SetDone, SetVal
  <2>8. /\ call[p].op = "read" /\ ~call[p].done /\ call[p].blk = k
        /\ call' = [call EXCEPT ![p].val = store[k], ![p].done = TRUE]
    BY <1>6, <2>4, <2>5, <2>7 DEF d
  <2> QED
    BY <2>2, <2>8 DEF BS!Read, store, call
<1>8. CASE t.op \notin Reads
  <2>1. /\ \A c \in Buffer : /\ buf'[c].block = buf[c].block
                             /\ buf'[c].uptodate = buf[c].uptodate
                             /\ c # b => buf'[c].data = buf[c].data
        /\ buf'[b].data = t.val
    BY <1>1, <1>8 DEF Fills
  <2>2. \A c \in Buffer : buf[c].block = k => c = b
    BY <1>0, <1>1, <1>3, BlockAssumption DEF OneBufferPerBlock
  <2>3. StoreOf(k)' = t.val
    <3>1. Shows(k, t.val, buf', disk')
      BY <1>1, <1>3, <2>1, <2>2 DEF Shows
    <3> QED
      BY <1>3, <3>1, StoreNext
  <2>4. ASSUME NEW j \in Block \ {k} PROVE StoreOf(j)' = StoreOf(j)
    <3>1. Shows(j, StoreOf(j), buf, disk)
      BY StoreIs
    <3>2. Shows(j, StoreOf(j), buf', disk')
      BY <1>3, <2>1, <3>1 DEF Shows
    <3> QED
      BY <3>2, StoreNext
  <2>5. store' = [store EXCEPT ![k] = t.val]
    BY <1>3, <2>3, <2>4 DEF store
  <2>6. n.val = t.val
    BY <1>2, <1>8 DEF Copies
  <2> DEFINE v == CallRecord("write", k, t.val, t.done)
             w == CallRecord("write", k, t.val, yes)
  <2>7. View(n) = w /\ call[p] = v
    BY <1>6, <1>8, <1>9, <2>6 DEF CallRecord
  <2>8. v.op = "write" /\ ~v.done /\ v.blk = k /\ v.val = t.val
    BY <1>3 DEF CallRecord
  <2>9. w = SetDone(v, yes)
    BY CallUpdates
  <2> HIDE DEF v, w
  <2>10. [call EXCEPT ![p].done = TRUE] = [call EXCEPT ![p] = w]
    BY <1>9, <2>7, <2>9 DEF call, SetDone
  <2>11. /\ call[p].op = "write" /\ ~call[p].done /\ call[p].blk = k
         /\ call[p].val = t.val
         /\ call' = [call EXCEPT ![p].done = TRUE]
    BY <1>6, <2>7, <2>8, <2>10
  <2> QED
    BY <2>5, <2>11 DEF BS!Write, store, call
<1> QED
  BY <1>7, <1>8

(* A step of a task is a step of BlockStore or leaves it alone, ...        *)
LEMMA StepRefines ==
  ASSUME WholeInv, WholeInv', WritesBack, NEW p \in Proc, Step(p)
  PROVE  \/ UNCHANGED <<store, call>>
         \/ BS!Read(p) \/ BS!Write(p) \/ BS!End(p)
<1>0. CacheInv
  BY DEF WholeInv, StoreInv
<1>1. UNCHANGED disk
  BY DEF Step, Local, devvars, WaitOnBuffer, Return, FindHit,
     GetHashTable, FindVictim, SleepForBuffer, VictimUnfit, Assign, NextAhead,
     Drop, BreadDone, Copy, Fault, Brelse, SyncBuffer, ForgetReadAhead,
     NoRequest, AddRequest, NoneFree, SleepForRequest
<1>2. CASE Copy(p)
  BY <1>1, <1>2, CopyReadsOrWrites
<1>3. ASSUME ~Copy(p) PROVE UNCHANGED store
  <2>1. CASE Assign(p)
    BY <1>1, <2>1, AssignSame, SameBlockStore
  <2>2. CASE ~Assign(p)
    <3>1. SameContents
      BY <1>0, <1>3, <2>2, StepBufs
    <3> QED
      BY <1>1, <3>1, QuietSame, SameBlockStore
  <2> QED
    BY <2>1, <2>2
<1>4. CASE Return(p)
  <2>1. ~Copy(p)
    BY <1>4 DEF Return, At, Copy
  <2> QED
    BY <1>0, <1>3, <1>4, <2>1, ReturnEnds
<1>5. ASSUME NEW l \in {"fault"} \cup Requesting, Goto(p, l),
             task[p].pc # "user"
      PROVE  UNCHANGED call
  <2>1. l \in Label /\ l # "user"
    BY DEF Label, Requesting, GoingToSleep
  <2>2. PICK n : /\ task' = [task EXCEPT ![p] = n] /\ n.pc = l
                 /\ Like(task[p], n)
    BY <1>0, <1>5, <2>1, GotoIs
  <2> QED
    BY <1>0, <1>5, <2>1, <2>2, StaysSameCall DEF Like
<1>6. CASE Fault(p) \/ NoneFree(p) \/ SleepForRequest(p)
  <2>1. /\ \E l \in {"fault"} \cup Requesting : Goto(p, l)
        /\ task[p].pc # "user"
    BY <1>6 DEF Fault, NoneFree, SleepForRequest, HasLocked, At, Requesting,
                GoingToSleep
  <2>2. UNCHANGED call
    BY <1>5, <2>1
  <2>3. CASE ~Copy(p)
    BY <1>3, <2>2, <2>3
  <2> QED
    BY <1>2, <2>3
<1>7. CASE WaitOnBuffer(p) \/ SleepForBuffer(p)
  <2>1. UNCHANGED call
    BY <1>7, SameTasks DEF WaitOnBuffer, SleepForBuffer
  <2> QED
    BY <1>2, <1>3, <2>1
<1>8. CASE \/ FindHit(p) \/ GetHashTable(p) \/ FindVictim(p)
           \/ VictimUnfit(p) \/ Assign(p) \/ NextAhead(p) \/ Drop(p)
           \/ BreadDone(p) \/ Brelse(p) \/ SyncBuffer(p)
           \/ ForgetReadAhead(p) \/ NoRequest(p) \/ AddRequest(p)
  <2>1. StaysInCall(p)
    BY <1>0, <1>8, StepsInCall
  <2>2. PICK n : /\ task' = [task EXCEPT ![p] = n] /\ SameCall(task[p], n)
                 /\ n.pc # "user" /\ task[p].pc # "user"
    BY <2>1 DEF StaysInCall, Plain
  <2>3. UNCHANGED call
    BY <1>0, <2>2, StaysSameCall
  <2> QED
    BY <1>2, <1>3, <2>3
<1> QED
  BY <1>2, <1>4, <1>6, <1>7, <1>8 DEF Step

(* ... and so is every step.                                               *)
LEMMA NextRefines ==
  ASSUME WholeInv, WholeInv', WritesBack, [Next]_vars
  PROVE  BS!Next \/ UNCHANGED <<store, call>>
<1>0. CacheInv
  BY DEF WholeInv, StoreInv
<1>1. ASSUME NEW p \in Proc, Step(p)
      PROVE  BS!Next \/ UNCHANGED <<store, call>>
  BY <1>1, StepRefines DEF BS!Next
<1>2. CASE Interrupt
  <2>1. UNCHANGED task
    BY <1>2 DEF Interrupt, MoveData, EndRequest
  <2>2. StoreSame
    BY <1>2, MoveDataSame, EndRequestSame DEF Interrupt
  <2> QED
    BY <2>1, <2>2, SameTasks, SameBlockStore
<1>3. CASE UNCHANGED vars \/ \E p \in Proc : Resume(p)
  <2>1. UNCHANGED <<disk, buf, task>>
    BY <1>3 DEF Resume, devvars, vars
  <2>2. SameContents
    BY <2>1 DEF SameContents
  <2> QED
    BY <2>1, <2>2, QuietSame, SameTasks, SameBlockStore
<1>4. ASSUME NEW p \in Proc, FaultDone(p) \/ Enter(p)
      PROVE  BS!Next \/ UNCHANGED <<store, call>>
  <2>1. UNCHANGED <<disk, buf>>
    BY <1>4 DEF FaultDone, Enter, devvars
  <2>2. SameContents
    BY <2>1 DEF SameContents
  <2>3. UNCHANGED store
    BY <2>1, <2>2, QuietSame, SameBlockStore
  <2>4. CASE Enter(p)
    BY <1>0, <2>3, <2>4, EnterBegins DEF BS!Next
  <2>5. CASE FaultDone(p)
    <3>1. Goto(p, "copy_rest") /\ task[p].pc = "fault"
      BY <2>5 DEF FaultDone
    <3>2. PICK n : /\ task' = [task EXCEPT ![p] = n] /\ n.pc = "copy_rest"
                   /\ Like(task[p], n)
      BY <1>0, <3>1, GotoIs DEF Label
    <3> QED
      BY <1>0, <2>3, <3>1, <3>2, StaysSameCall DEF Like
  <2> QED
    BY <1>4, <2>4, <2>5
<1> QED
  BY <1>1, <1>2, <1>3, <1>4 DEF Next, GoesOn

(* The initial states are initial states of BlockStore.                    *)
LEMMA InitRefines ==
  ASSUME Init
  PROVE  BS!Init
<1>1. WholeInv /\ TypeOK
  BY WholeInvInit DEF WholeInv, StoreInv, CacheInv
<1>2. /\ \A b \in Buffer : ~buf[b].uptodate
      /\ disk \in [Block -> Val]
  BY <1>1 DEF Init, TypeOK
<1>3. ASSUME NEW k \in Block PROVE StoreOf(k) \in Val
  <2>1. StoreOf(k) = disk[k]
    BY <1>1, <1>2, StoreIs DEF Shows
  <2> QED
    BY <1>2, <2>1
<1>4. \A p \in Proc : CallOf(p) = BS!NoCall
  <2>1. \A p \in Proc : task[p] = Idle
    BY DEF Init
  <2> QED
    BY <2>1, IdleIsTask DEF CallOf, BS!NoCall
<1> QED
  BY <1>3, <1>4 DEF BS!Init

(* The cache is a plain array of blocks with atomic reads and writes:      *)
(* whatever is cached, evicted, read ahead, written back or waited for, a  *)
(* read returns what was last written to its block. Stated for systems     *)
(* where writes get to the disk; see WritesBack.                           *)
THEOREM CacheIsBlockStore == WritesBack => (Spec => ImplementsBlockStore)
<1> SUFFICES ASSUME WritesBack PROVE Spec => ImplementsBlockStore
  OBVIOUS
<1>1. WholeInv /\ [Next]_vars => WholeInv'
  BY WholeInvNext
<1>2. WholeInv /\ WholeInv' /\ [Next]_vars => [BS!Next]_<<store, call>>
  BY NextRefines
<1>3. Init => BS!Init
  BY InitRefines
<1> QED
  BY <1>1, <1>2, <1>3, WholeInvInit, PTL
  DEF Spec, ImplementsBlockStore, BS!Spec, store, call
=============================================================================
