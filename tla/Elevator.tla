------------------------------ MODULE Elevator ------------------------------
(***************************************************************************)
(* The request queue of one block device, kernel/blk_drv/ll_rw_blk.c and   *)
(* blk.h: the NR_REQUEST slots shared by reads and writes, the elevator    *)
(* order in which add_request() links a request into the list, and         *)
(* end_request(), which takes the head off.  A slot is in use (its dev is  *)
(* not -1) exactly while a request of the list occupies it.                *)
(***************************************************************************)
EXTENDS Naturals, SequencesExt, FiniteSetsExt

CONSTANTS
  NrRequest,   \* NR_REQUEST
  Sector,      \* the blocks of the device, numbered in head-travel order
  DevOf,       \* DevOf[s]: the minor device the block belongs to
  Handle       \* the buffer heads a request can be for

ASSUME NrRequestAssumption == NrRequest \in Nat \ {0}
ASSUME SectorAssumption == Sector \subseteq Nat
ASSUME DevOfAssumption == DevOf \in [Sector -> Nat]

VARIABLE queue    \* blk_dev[major].current_request and its next pointers

READ == 0
WRITE == 1
Slot == 1..NrRequest

Request == [slot : Slot, cmd : {READ, WRITE}, dev : Nat, sector : Sector,
            bh : Handle]

(* IN_ORDER(s1, s2) *)
InOrder(s1, s2) ==
  \/ s1.cmd < s2.cmd
  \/ /\ s1.cmd = s2.cmd
     /\ \/ s1.dev < s2.dev
        \/ s1.dev = s2.dev /\ s1.sector < s2.sector

(* Mutant: only places inside an ascending run are looked at, not the turn *)
(* between two.                                                            *)
AddInside(q, req) ==
  LET fits == {i \in 1..(Len(q) - 1) : /\ InOrder(q[i], req)
                                       /\ InOrder(req, q[i + 1])}
  IN InsertAt(q, (IF fits = {} THEN Len(q) ELSE Min(fits)) + 1, req)

(* add_request(): the first place after the head between two requests      *)
(* where the new one is in order, or the end of the list.                  *)
AddRequest(q, req) ==
  LET fits == {i \in 1..(Len(q) - 1) :
                 /\ InOrder(q[i], req) \/ ~InOrder(q[i], q[i + 1])
                 /\ InOrder(req, q[i + 1])}
  IN InsertAt(q, (IF fits = {} THEN Len(q) ELSE Min(fits)) + 1, req)

(* The slots make_request() may use: writes only the low two thirds. *)
SlotsFor(rw) == IF rw = READ THEN Slot ELSE 1..((NrRequest * 2) \div 3)

FreeSlots(rw) == SlotsFor(rw) \ {queue[i].slot : i \in DOMAIN queue}

(* make_request() from the search for a slot on, which runs from the top   *)
(* down, when there is one.                                                *)
MakeRequest(rw, s, b) ==
  /\ FreeSlots(rw) # {}
  /\ queue' = AddRequest(queue, [slot |-> Max(FreeSlots(rw)), cmd |-> rw,
                                 dev |-> DevOf[s], sector |-> s, bh |-> b])

(* end_request(): CURRENT = CURRENT->next and its slot is free again. *)
EndRequest ==
  /\ queue # <<>>
  /\ queue' = Tail(queue)

-----------------------------------------------------------------------------
(* The queue by itself.  Its user locks a buffer before it asks for a      *)
(* request and the buffer cache holds a block in one buffer only, so a     *)
(* block is asked for when it is not in the queue already.                 *)

Init == queue = <<>>

Add == \E rw \in {READ, WRITE}, s \in Sector, b \in Handle :
         /\ \A i \in DOMAIN queue : queue[i].sector # s
         /\ MakeRequest(rw, s, b)

Next == Add \/ EndRequest

Spec == Init /\ [][Next]_queue

-----------------------------------------------------------------------------

TypeOK == queue \in Seq(Request)

(* The requests behind the head form at most two ascending runs: the rest  *)
(* of this sweep of the arm and the next sweep.  Each insertion keeps it.  *)
TwoSweeps ==
  Cardinality({i \in 1..(Len(queue) - 1) :
                 ~InOrder(queue[i], queue[i + 1])}) <= 1
=============================================================================
