----------------------------- MODULE BlockStore -----------------------------
(***************************************************************************)
(* What the buffer cache promises to the file system: block devices read   *)
(* and written by concurrent tasks as if there were no cache, no request   *)
(* queue and no disk behind it.  Every call takes effect at one instant    *)
(* between its begin and its end, or, when a read fails, not at all.       *)
(***************************************************************************)
CONSTANTS
  Proc,    \* tasks
  Block,   \* blocks of the devices
  Val      \* contents of a block

VARIABLES
  store,   \* store[k]: the contents of block k
  call     \* call[p]: the call task p is in

NoCall == [op |-> "none"]

(* An operation under way (done = FALSE) or one that has taken effect. *)
Calls == [op : {"read", "write"}, blk : Block, val : Val, done : BOOLEAN]

Init ==
  /\ store \in [Block -> Val]
  /\ call = [p \in Proc |-> NoCall]

Begin(p) ==
  /\ call[p] = NoCall
  /\ \E c \in Calls : ~c.done /\ call' = [call EXCEPT ![p] = c]
  /\ UNCHANGED store

Read(p) ==
  /\ call[p].op = "read" /\ ~call[p].done
  /\ call' = [call EXCEPT ![p].val = store[call[p].blk], ![p].done = TRUE]
  /\ UNCHANGED store

Write(p) ==
  /\ call[p].op = "write" /\ ~call[p].done
  /\ store' = [store EXCEPT ![call[p].blk] = call[p].val]
  /\ call' = [call EXCEPT ![p].done = TRUE]

(* A call that has not taken effect returns -EIO. *)
End(p) ==
  /\ call[p] # NoCall
  /\ call' = [call EXCEPT ![p] = NoCall]
  /\ UNCHANGED store

Next == \E p \in Proc : Begin(p) \/ Read(p) \/ Write(p) \/ End(p)

Spec == Init /\ [][Next]_<<store, call>>
=============================================================================
