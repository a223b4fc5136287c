-------------------------- MODULE Interrupts_proofs --------------------------
(***************************************************************************)
(* Proofs about what interrupts drive: the hard disk, for any number of    *)
(* request slots, blocks, partitions and errors before it gives up; and    *)
(* time slices, for any number of tasks and any bound on the priorities.   *)
(***************************************************************************)
EXTENDS HardDisk, Scheduler, Numbers

(* The request list first.                                                 *)

(* IN_ORDER is a strict order on the requests, total on those for          *)
(* different blocks.                                                       *)
LEMMA Comparable ==
  ASSUME NEW r \in Request
  PROVE  r.cmd \in Nat /\ r.dev \in Nat /\ r.sector \in Nat
<1>1. r.cmd \in {READ, WRITE} /\ r.dev \in Nat /\ r.sector \in Sector
  BY DEF Request
<1>2. r.cmd \in Nat
  BY <1>1 DEF READ, WRITE
<1>3. r.sector \in Nat
  BY <1>1, SectorAssumption
<1> QED
  BY <1>1, <1>2, <1>3

LEMMA OrderTransitive ==
  ASSUME NEW r \in Request, NEW s \in Request, NEW t \in Request,
         InOrder(r, s), InOrder(s, t)
  PROVE  InOrder(r, t)
BY Comparable DEF InOrder

LEMMA OrderTotal ==
  ASSUME NEW r \in Request, NEW s \in Request, r.sector # s.sector
  PROVE  InOrder(r, s) \/ InOrder(s, r)
BY Comparable DEF InOrder

(* Two sweeps, without counting: the list turns at one place at most.      *)
Turns(q) == {i \in 1..(Len(q) - 1) : ~InOrder(q[i], q[i + 1])}

OneTurn(q) == \A i, j \in Turns(q) : i = j

(* The place add_request() chooses: behind the head, and either the list   *)
(* is in order there with the new request or it is the end of the list.    *)
Fits(q, req) == {i \in 1..(Len(q) - 1) :
                   /\ InOrder(q[i], req) \/ ~InOrder(q[i], q[i + 1])
                   /\ InOrder(req, q[i + 1])}

Place(q, req) == IF Fits(q, req) = {} THEN Len(q) ELSE Min(Fits(q, req))

(* That place is in the list, and behind the head if there is one.         *)
LEMMA PlaceIsRight ==
  ASSUME NEW q \in Seq(Request), NEW req \in Request
  PROVE  /\ Place(q, req) \in 0..Len(q)
         /\ q # <<>> => Place(q, req) # 0
         /\ \/ Place(q, req) \in Fits(q, req)
            \/ Fits(q, req) = {} /\ Place(q, req) = Len(q)
<1>1. Len(q) \in Nat /\ (q # <<>> => Len(q) # 0)
  BY LenProperties, EmptySeq
<1>2. CASE Fits(q, req) = {}
  BY <1>1, <1>2 DEF Place
<1>3. CASE Fits(q, req) # {}
  <2>1. Fits(q, req) \in SUBSET Nat
    BY <1>1 DEF Fits
  <2>2. Min(Fits(q, req)) \in Fits(q, req)
    BY <1>3, <2>1, MinIn
  <2>3. Place(q, req) \in Fits(q, req)
    BY <1>3, <2>2 DEF Place
  <2>4. Place(q, req) \in 1..(Len(q) - 1)
    BY <2>3 DEF Fits
  <2> QED
    BY <1>1, <2>3, <2>4
<1> QED
  BY <1>2, <1>3

(* When nothing fits, a request that goes to the end of a list with a turn *)
(* comes after its last: otherwise it would fit somewhere in the second    *)
(* sweep, before the first request that it precedes.                       *)
LEMMA EndIsRight ==
  ASSUME NEW q \in Seq(Request), NEW req \in Request, OneTurn(q),
         \A i \in 1..Len(q) : q[i].sector # req.sector,
         Fits(q, req) = {}, NEW j \in Turns(q)
  PROVE  InOrder(q[Len(q)], req)
<1>1. Len(q) \in Nat /\ \A i \in 1..Len(q) : q[i] \in Request
  BY LenProperties, ElementOfSeq
<1>2. j \in 1..(Len(q) - 1) /\ ~InOrder(q[j], q[j + 1])
  BY DEF Turns
<1> SUFFICES ASSUME ~InOrder(q[Len(q)], req) PROVE FALSE
  OBVIOUS
<1>3. Len(q) \in 1..Len(q) /\ j + 1 \in 1..Len(q)
  BY <1>1, <1>2
<1>4. InOrder(req, q[Len(q)])
  BY <1>1, <1>3, OrderTotal
<1>5. ~InOrder(req, q[j + 1])
  BY <1>1, <1>2 DEF Fits
<1> DEFINE Before == {k \in (j + 1)..Len(q) : InOrder(req, q[k])}
           first == Min(Before)
<1>6. Before \in SUBSET Nat /\ Len(q) \in Before
  BY <1>1, <1>2, <1>3, <1>4
<1>7. first \in Before /\ \A k \in Before : first <= k
  <2> HIDE DEF Before
  <2> QED
    BY <1>6, MinIn
<1>8. first \in (j + 2)..Len(q) /\ InOrder(req, q[first])
  <2> HIDE DEF first
  <2> QED
    BY <1>1, <1>2, <1>5, <1>7
<1> HIDE DEF first
<1>9. first - 1 \notin Before /\ first - 1 \in (j + 1)..(Len(q) - 1)
  <2>1. first \in Nat /\ ~(first <= first - 1)
    BY <1>1, <1>2, <1>8
  <2> QED
    BY <1>1, <1>2, <1>7, <1>8, <2>1
<1>10. ~InOrder(req, q[first - 1])
  BY <1>1, <1>2, <1>9
<1>11. first - 1 \in 1..Len(q) /\ first - 1 \in 1..(Len(q) - 1)
       /\ (first - 1) + 1 = first
  BY <1>1, <1>2, <1>8, <1>9
<1>12. InOrder(q[first - 1], req)
  BY <1>1, <1>10, <1>11, OrderTotal
<1>13. first - 1 \in Fits(q, req)
  BY <1>8, <1>11, <1>12 DEF Fits
<1> QED
  BY <1>13

(* add_request() adds one request, leaves the head where it is, and the    *)
(* list turns at one place as before.                                      *)
LEMMA AddedAt ==
  ASSUME NEW q \in Seq(Request), NEW req \in Request
  PROVE  LET r == AddRequest(q, req)
             p == Place(q, req)
         IN /\ r \in Seq(Request) /\ Len(r) = Len(q) + 1
            /\ \A k \in 1..p : r[k] = q[k]
            /\ r[p + 1] = req
            /\ \A k \in (p + 2)..(Len(q) + 1) : r[k] = q[k - 1]
<1> DEFINE p == Place(q, req)
           n == p + 1
           r == WithElement(q, n, req)
<1>1. AddRequest(q, req) = r
  BY DEF AddRequest, Place, Fits, InsertAt, WithElement
<1>2. p \in 0..Len(q) /\ Len(q) \in Nat
  BY PlaceIsRight, LenProperties
<1> HIDE DEF p
<1>3. n \in 1..(Len(q) + 1) /\ n - 1 = p /\ n + 1 = p + 2
  BY <1>2
<1> HIDE DEF n
<1>4. /\ r \in Seq(Request)
      /\ Len(r) = Len(q) + 1
      /\ \A k \in 1..(n - 1) : r[k] = q[k]
      /\ r[n] = req
      /\ \A k \in (n + 1)..(Len(q) + 1) : r[k] = q[k - 1]
  BY <1>3, Inserted
<1> HIDE DEF r
<1>5. /\ \A k \in 1..p : r[k] = q[k]
      /\ r[p + 1] = req
      /\ \A k \in (p + 2)..(Len(q) + 1) : r[k] = q[k - 1]
  BY <1>3, <1>4 DEF n
<1> QED
  BY <1>1, <1>4, <1>5 DEF p

(* The request the driver works on stays the head.                         *)
LEMMA AddKeepsHead ==
  ASSUME NEW q \in Seq(Request), NEW req \in Request
  PROVE  LET r == AddRequest(q, req)
         IN /\ r \in Seq(Request) /\ Len(r) = Len(q) + 1 /\ r # <<>>
            /\ q # <<>> => Head(r) = Head(q)
            /\ q = <<>> => Head(r) = req
<1> DEFINE r == AddRequest(q, req)
           p == Place(q, req)
<1>1. /\ r \in Seq(Request) /\ Len(r) = Len(q) + 1
      /\ \A k \in 1..p : r[k] = q[k]
      /\ r[p + 1] = req
  BY AddedAt
<1>2. /\ p \in 0..Len(q) /\ Len(q) \in Nat /\ (q # <<>> => p # 0)
      /\ (q = <<>> => Len(q) = 0)
  BY PlaceIsRight, LenProperties, EmptySeq
<1> HIDE DEF r, p
<1>3. r # <<>>
  BY <1>1, <1>2, EmptySeq
<1>4. Head(r) = r[1] /\ Head(q) = q[1]
  OBVIOUS
<1>5. q # <<>> => r[1] = q[1]
  BY <1>1, <1>2
<1>6. q = <<>> => r[1] = req
  BY <1>1, <1>2
<1> QED
  BY <1>1, <1>3, <1>4, <1>5, <1>6 DEF r

(* And wherever the new request goes, no second turn appears.              *)
LEMMA AddKeepsOneTurn ==
  ASSUME NEW q \in Seq(Request), NEW req \in Request, OneTurn(q),
         \A i \in 1..Len(q) : q[i].sector # req.sector
  PROVE  OneTurn(AddRequest(q, req))
<1> DEFINE r == AddRequest(q, req)
           p == Place(q, req)
<1>1. /\ Len(r) = Len(q) + 1
      /\ \A k \in 1..p : r[k] = q[k]
      /\ r[p + 1] = req
      /\ \A k \in (p + 2)..(Len(q) + 1) : r[k] = q[k - 1]
  BY AddedAt
<1>2. p \in 0..Len(q) /\ Len(q) \in Nat
  BY PlaceIsRight, LenProperties
<1>3. \/ p \in Fits(q, req)
      \/ Fits(q, req) = {} /\ p = Len(q)
  BY PlaceIsRight
<1> HIDE DEF r, p
<1>4. \A i \in Turns(r) : i < p => i \in Turns(q)
  BY <1>1, <1>2 DEF Turns
<1>5. p \in Turns(r) => p \in 1..Len(q) /\ ~InOrder(q[p], req)
  BY <1>1, <1>2 DEF Turns
<1>6. CASE p \in Fits(q, req)
  <2>1. /\ p \in 1..(Len(q) - 1)
        /\ InOrder(q[p], req) \/ ~InOrder(q[p], q[p + 1])
        /\ InOrder(req, q[p + 1])
    BY <1>6 DEF Fits
  <2>2. p \in Turns(r) => p \in Turns(q)
    BY <1>5, <2>1 DEF Turns
  <2>3. p + 1 \notin Turns(r)
    BY <1>1, <1>2, <2>1 DEF Turns
  <2>4. \A i \in Turns(r) : i >= p + 2 => i - 1 \in Turns(q)
    <3> SUFFICES ASSUME NEW i \in Turns(r), i >= p + 2
                 PROVE  i - 1 \in Turns(q)
      OBVIOUS
    <3>1. i \in (p + 2)..Len(q) /\ i + 1 \in (p + 2)..(Len(q) + 1)
      BY <1>1, <1>2 DEF Turns
    <3>2. r[i] = q[i - 1] /\ r[i + 1] = q[(i + 1) - 1]
      BY <1>1, <3>1
    <3>3. (i + 1) - 1 = (i - 1) + 1 /\ i - 1 \in 1..(Len(q) - 1)
      BY <1>2, <3>1
    <3> QED
      BY <3>2, <3>3 DEF Turns
  <2>5. SUFFICES ASSUME NEW i \in Turns(r), NEW j \in Turns(r), i < j
                 PROVE  FALSE
    <3>1. \A i \in Turns(r) : i \in Nat
      BY <1>1, <1>2 DEF Turns
    <3>2. \A i, j \in Turns(r) : i = j
      BY <2>5, <3>1
    <3> QED
      BY <3>2 DEF OneTurn, r
  <2>6. i \in Nat /\ j \in Nat /\ i # p + 1 /\ j # p + 1
    BY <1>1, <1>2, <2>3 DEF Turns
  <2>7. CASE j <= p
    <3>1. i \in Turns(q) /\ j \in Turns(q)
      BY <1>2, <1>4, <2>2, <2>5, <2>6, <2>7
    <3> QED
      BY <2>5, <2>6, <3>1 DEF OneTurn
  <2>8. CASE i <= p /\ j >= p + 2
    <3>1. i \in Turns(q) /\ j - 1 \in Turns(q)
      BY <1>2, <1>4, <2>2, <2>4, <2>6, <2>8
    <3>2. i # j - 1
      BY <1>2, <2>6, <2>8
    <3> QED
      BY <3>1, <3>2 DEF OneTurn
  <2>9. CASE i >= p + 2
    <3>1. i - 1 \in Turns(q) /\ j - 1 \in Turns(q)
      BY <1>2, <2>4, <2>5, <2>6, <2>9
    <3>2. i - 1 # j - 1
      BY <2>5, <2>6
    <3> QED
      BY <3>1, <3>2 DEF OneTurn
  <2> QED
    BY <1>2, <2>5, <2>6, <2>7, <2>8, <2>9
<1>7. CASE Fits(q, req) = {} /\ p = Len(q)
  <2>1. \A i \in Turns(r) : i <= p
    BY <1>1, <1>2, <1>7 DEF Turns
  <2>2. p \in Turns(r) => Turns(q) = {}
    BY <1>5, <1>7, EndIsRight
  <2>3. \A i \in Turns(r) : i \in Nat
    BY <1>1, <1>2 DEF Turns
  <2>4. \A i \in Turns(r) : i = p \/ i \in Turns(q)
    BY <1>2, <1>4, <2>1, <2>3
  <2> QED
    BY <2>2, <2>4 DEF OneTurn, r
<1> QED
  BY <1>3, <1>6, <1>7

(* So does end_request().                                                  *)
LEMMA TailKeepsOneTurn ==
  ASSUME NEW q \in Seq(Request), q # <<>>, OneTurn(q)
  PROVE  Tail(q) \in Seq(Request) /\ OneTurn(Tail(q))
<1>1. /\ Tail(q) \in Seq(Request) /\ Len(Tail(q)) = Len(q) - 1
      /\ \A i \in 1..Len(Tail(q)) : Tail(q)[i] = q[i + 1]
  BY HeadTailProperties
<1>2. Len(q) \in Nat
  BY LenProperties
<1>3. \A i \in Turns(Tail(q)) : i \in Nat /\ i + 1 \in Turns(q)
  BY <1>1, <1>2 DEF Turns
<1> QED
  BY <1>1, <1>3 DEF OneTurn

(* And a list that turns once has two ascending runs at most.              *)
LEMMA OneTurnIsTwoSweeps ==
  ASSUME OneTurn(queue)
  PROVE  TwoSweeps
<1>1. CASE Turns(queue) = {}
  BY <1>1, FS_EmptySet DEF TwoSweeps, Turns
<1>2. CASE Turns(queue) # {}
  <2>1. PICK t : Turns(queue) = {t}
    BY <1>2 DEF OneTurn
  <2>2. Cardinality(Turns(queue)) = 1
    BY <2>1, FS_Singleton
  <2> QED
    BY <2>2 DEF TwoSweeps, Turns
<1> QED
  BY <1>1, <1>2

-----------------------------------------------------------------------------
(* The invariant.  First the types: all that HdTypeOK says and that cur    *)
(* and drive are records.                                                  *)
Current == [off : {0, 1}, errors : 0..(MaxErrors - 1)]

Command == [cmd : {"none", "read", "write", "specify", "restore"},
            sector : Nat, left : Nat, data : Nat]

QueueOK == queue \in Seq(Request) /\ OneTurn(queue)

Types ==
  /\ QueueOK
  /\ at \in {"idle", "repeat"}
  /\ do_hd \in {"none", "read_intr", "write_intr", "recal_intr"}
  /\ reset \in BOOLEAN /\ recalibrate \in BOOLEAN /\ uptodate \in BOOLEAN
  /\ cur \in Current /\ drive \in Command

(* The drive has nothing to do while the loop runs, nor without requests,  *)
(* and a new request begins at its beginning.                              *)
Quiet ==
  /\ at = "repeat" \/ queue = <<>> => drive = NoCommand
  /\ queue = <<>> => cur = Fresh

(* Otherwise its command has its handler, and a transfer is in step.       *)
InStep ==
  /\ drive.cmd = "write" <=> Head(queue).cmd = WRITE
  /\ drive.sector = CurrentSector /\ drive.left = Left
  /\ drive.cmd = "write" => drive.data = cur.off
  /\ ~reset /\ ~recalibrate

Working ==
  at = "idle" /\ queue # <<>> =>
    \/ drive.cmd = "read" /\ do_hd = "read_intr" /\ InStep
    \/ drive.cmd = "write" /\ do_hd = "write_intr" /\ InStep
    \/ drive.cmd \in {"specify", "restore"} /\ do_hd = "recal_intr"

(* What was moved are the sectors before the place CURRENT has come to.    *)
Parts(s, n) == {<<SectorsPerBlock * s + part, part>> : part \in 0..(n - 1)}

MovedSoFar ==
  queue # <<>> /\ (cur.off > 0 \/ at = "idle") =>
    moved = Parts(Head(queue).sector, cur.off)

Inv == Types /\ Quiet /\ Working /\ MovedSoFar

-----------------------------------------------------------------------------
(* CURRENT is a request, for a block and with a command.                   *)
LEMMA HeadIsRequest ==
  ASSUME QueueOK, queue # <<>>
  PROVE  /\ Head(queue) \in Request
         /\ Head(queue).sector \in Nat
         /\ Head(queue).cmd \in {READ, WRITE}
<1>1. Head(queue) \in Request
  BY HeadTailProperties DEF QueueOK
<1>2. Head(queue).cmd \in {READ, WRITE}
  BY <1>1 DEF Request
<1> QED
  BY <1>1, <1>2, Comparable

(* One more sector of CURRENT moved is one more part of its block.         *)
LEMMA NextPart ==
  ASSUME NEW s \in Nat, NEW n \in Nat
  PROVE  Parts(s, n + 1) = Parts(s, n) \cup {<<SectorsPerBlock * s + n, n>>}
<1>1. 0..((n + 1) - 1) = 0..(n - 1) \cup {n}
  OBVIOUS
<1> QED
  BY <1>1 DEF Parts

(* A request that begins has moved nothing.                                *)
LEMMA NoParts ==
  ASSUME NEW s
  PROVE  Parts(s, 0) = {}
BY DEF Parts

(* The end of a request, with or without success.                          *)
LEMMA EndKeeps ==
  ASSUME Types, NEW ok \in BOOLEAN, HdEndRequest(ok)
  PROVE  /\ QueueOK' /\ cur' = Fresh /\ cur' \in Current
         /\ uptodate' = ok /\ queue # <<>>
<1>1. queue # <<>> /\ queue' = Tail(queue) /\ cur' = Fresh /\ uptodate' = ok
  BY DEF HdEndRequest, EndRequest
<1>2. QueueOK'
  BY <1>1, TailKeepsOneTurn DEF Types, QueueOK
<1>3. Fresh \in Current
  BY MaxErrorsAssumption DEF Fresh, Current
<1> QED
  BY <1>1, <1>2, <1>3

(* An error ends CURRENT or leaves it where it has come to.                *)
LEMMA BadKeeps ==
  ASSUME Types, BadRwIntr
  PROVE  /\ QueueOK' /\ cur' \in Current
         /\ reset' \in BOOLEAN /\ uptodate' \in BOOLEAN
         /\ \/ cur' = Fresh /\ ~uptodate' /\ queue # <<>>
            \/ queue' = queue /\ cur'.off = cur.off
<1> DEFINE errors == cur.errors + 1
<1>1. CASE /\ errors >= MaxErrors
           /\ HdEndRequest(FALSE)
           /\ reset' = (reset \/ Len(queue) = 1)
  BY <1>1, EndKeeps DEF Types
<1>2. CASE /\ errors < MaxErrors
           /\ cur' = [cur EXCEPT !.errors = errors]
           /\ reset' = (reset \/ errors > MaxErrors \div 2)
           /\ UNCHANGED <<queue, uptodate>>
  <2>1. cur' \in Current /\ cur'.off = cur.off
    BY <1>2, MaxErrorsAssumption DEF Types, Current
  <2>2. reset' \in BOOLEAN /\ uptodate' \in BOOLEAN
    BY <1>2 DEF Types
  <2>3. QueueOK'
    BY <1>2 DEF Types, QueueOK
  <2> QED
    BY <1>2, <2>1, <2>2, <2>3
<1> QED
  BY <1>1, <1>2 DEF BadRwIntr

-----------------------------------------------------------------------------
(* What add_request() does to the list.                                    *)
LEMMA Added ==
  ASSUME Types, HdAdd
  PROVE  /\ QueueOK' /\ queue' # <<>> /\ Len(queue') = Len(queue) + 1
         /\ queue # <<>> => Head(queue') = Head(queue)
<1>1. PICK rw \in {READ, WRITE}, s \in Sector, b \in Handle :
        /\ \A i \in DOMAIN queue : queue[i].sector # s
        /\ MakeRequest(rw, s, b)
  BY DEF HdAdd, Add
<1> DEFINE slot == Max(FreeSlots(rw))
           req == [slot |-> slot, cmd |-> rw, dev |-> DevOf[s],
                   sector |-> s, bh |-> b]
<1>2. slot \in Slot
  <2>1. FreeSlots(rw) \subseteq 0..NrRequest /\ FreeSlots(rw) \subseteq Slot
    BY NrRequestAssumption DEF FreeSlots, SlotsFor, Slot
  <2>2. FreeSlots(rw) # {}
    BY <1>1 DEF MakeRequest
  <2> QED
    BY <2>1, <2>2, MaxIn, NrRequestAssumption
<1>3. queue' = AddRequest(queue, req)
  BY <1>1 DEF MakeRequest
<1> HIDE DEF slot
<1>4. req \in Request /\ req.sector = s
  BY <1>2, DevOfAssumption DEF Request
<1> HIDE DEF req
<1>5. queue \in Seq(Request) /\ OneTurn(queue)
  BY DEF Types, QueueOK
<1>6. \A i \in 1..Len(queue) : queue[i].sector # req.sector
  BY <1>1, <1>4, <1>5, LenProperties
<1>7. /\ queue' \in Seq(Request) /\ queue' # <<>>
      /\ Len(queue') = Len(queue) + 1
      /\ queue # <<>> => Head(queue') = Head(queue)
  BY <1>3, <1>4, <1>5, AddKeepsHead
<1>8. OneTurn(queue')
  BY <1>3, <1>4, <1>5, <1>6, AddKeepsOneTurn
<1> QED
  BY <1>7, <1>8 DEF QueueOK

(* add_request() keeps the invariant.                                      *)
LEMMA AddPreserves == Inv /\ HdAdd => Inv'
<1> SUFFICES ASSUME Inv, HdAdd PROVE Inv'
  OBVIOUS
<1> USE DEF Inv
<1>1. /\ at = "idle" /\ at' = IF queue = <<>> THEN "repeat" ELSE "idle"
      /\ UNCHANGED <<do_hd, reset, recalibrate, cur, drive, moved, uptodate>>
  BY DEF HdAdd
<1>2. /\ QueueOK' /\ queue' # <<>>
      /\ queue # <<>> => Head(queue') = Head(queue)
  BY Added
<1>3. Types'
  BY <1>1, <1>2 DEF Types
<1>4. Quiet'
  BY <1>1, <1>2 DEF Quiet
<1>5. Working'
  BY <1>1, <1>2 DEF Working, InStep, CurrentSector, Left
<1>6. MovedSoFar'
  <2>1. CASE queue = <<>>
    BY <1>1, <2>1 DEF MovedSoFar, Quiet, Fresh
  <2>2. CASE queue # <<>>
    BY <1>1, <1>2, <2>2 DEF MovedSoFar
  <2> QED
    BY <2>1, <2>2
<1> QED
  BY <1>3, <1>4, <1>5, <1>6

-----------------------------------------------------------------------------
(* The loop turns again: no more needs to be shown than this.              *)
LEMMA Again ==
  ASSUME Types', at' = "repeat", drive' = NoCommand,
         queue' = <<>> => cur' = Fresh,
         queue' # <<>> /\ cur'.off > 0 =>
           moved' = Parts(Head(queue').sector, cur'.off)
  PROVE  Inv'
BY DEF Inv, Quiet, Working, MovedSoFar

(* A drive at rest.                                                        *)
LEMMA Nothing == NoCommand \in Command
BY DEF NoCommand, Command

(* One turn of the loop of do_hd_request().                                *)
LEMMA LoopPreserves == Inv /\ DoHdRequest => Inv'
<1> SUFFICES ASSUME Inv, DoHdRequest PROVE Inv'
  OBVIOUS
<1> USE DEF Inv
<1>1. at = "repeat" /\ drive = NoCommand
      /\ moved' = IF cur.off = 0 THEN {} ELSE moved
  BY DEF DoHdRequest, NothingToDo, FailOutOfRange, StartReset,
         StartRecalibrate, StartTransfer, WriteTimesOut, AtRepeat, Quiet
<1>2. queue # <<>> => moved' = Parts(Head(queue).sector, cur.off)
  <2>1. cur.off \in {0, 1}
    BY DEF Types, Current
  <2>2. CASE cur.off = 0
    BY <1>1, <2>2, NoParts
  <2>3. CASE cur.off = 1
    BY <1>1, <2>3 DEF MovedSoFar
  <2> QED
    BY <2>1, <2>2, <2>3
<1>3. CASE NothingToDo
  <2>1. /\ queue = <<>> /\ at' = "idle"
        /\ UNCHANGED <<queue, do_hd, reset, recalibrate, cur, drive, uptodate>>
    BY <1>3 DEF NothingToDo
  <2> QED
    BY <1>1, <2>1 DEF Types, QueueOK, Quiet, Working, MovedSoFar
<1>4. CASE FailOutOfRange
  <2>1. /\ HdEndRequest(FALSE)
        /\ UNCHANGED <<at, do_hd, reset, recalibrate, drive>>
    BY <1>4 DEF FailOutOfRange
  <2>2. QueueOK' /\ cur' = Fresh /\ cur' \in Current /\ uptodate' = FALSE
    BY <2>1, EndKeeps
  <2>3. Types'
    BY <2>1, <2>2 DEF Types
  <2> QED
    BY <1>1, <2>1, <2>2, <2>3, Again DEF Fresh
<1>5. CASE StartReset
  <2>1. /\ queue # <<>> /\ reset' = FALSE /\ recalibrate' = TRUE
        /\ do_hd' = "recal_intr" /\ at' = "idle"
        /\ drive' = [cmd |-> "specify", sector |-> 0, left |-> 0, data |-> 0]
        /\ UNCHANGED <<queue, cur, uptodate>>
    BY <1>5 DEF StartReset, HdOut
  <2>2. drive' \in Command /\ drive'.cmd = "specify"
    BY <2>1 DEF Command
  <2> QED
    BY <1>2, <2>1, <2>2 DEF Types, QueueOK, Quiet, Working, MovedSoFar
<1>6. CASE StartRecalibrate
  <2>1. /\ queue # <<>> /\ recalibrate' = FALSE
        /\ do_hd' = "recal_intr" /\ at' = "idle"
        /\ drive' = [cmd |-> "restore", sector |-> 0, left |-> 0, data |-> 0]
        /\ UNCHANGED <<queue, reset, cur, uptodate>>
    BY <1>6 DEF StartRecalibrate, HdOut
  <2>2. drive' \in Command /\ drive'.cmd = "restore"
    BY <2>1 DEF Command
  <2> QED
    BY <1>2, <2>1, <2>2 DEF Types, QueueOK, Quiet, Working, MovedSoFar
<1>7. CASE StartTransfer
  <2> DEFINE d(cmd, data) == [cmd |-> cmd, sector |-> CurrentSector,
                              left |-> Left, data |-> data]
  <2>1. /\ queue # <<>> /\ ~reset /\ ~recalibrate /\ at' = "idle"
        /\ UNCHANGED <<queue, reset, recalibrate, cur, uptodate>>
        /\ \/ /\ Head(queue).cmd = READ
              /\ do_hd' = "read_intr" /\ drive' = d("read", 0)
           \/ /\ Head(queue).cmd = WRITE
              /\ do_hd' = "write_intr" /\ drive' = d("write", cur.off)
    BY <1>7 DEF StartTransfer, HdOut
  <2>2. CurrentSector \in Nat /\ Left \in Nat /\ cur.off \in Nat
    <3>1. cur.off \in {0, 1} /\ Head(queue).sector \in Nat
      BY <2>1, HeadIsRequest DEF Types, Current
    <3> QED
      BY <3>1 DEF CurrentSector, Left, SectorsPerBlock
  <2>3. drive' \in Command
    BY <2>1, <2>2 DEF Command
  <2>4. InStep'
    BY <2>1 DEF InStep, CurrentSector, Left, READ, WRITE
  <2>5. Types' /\ Quiet' /\ MovedSoFar'
    BY <1>2, <2>1, <2>3 DEF Types, QueueOK, Quiet, MovedSoFar
  <2>6. Working'
    BY <2>1, <2>4 DEF Working
  <2> QED
    BY <2>5, <2>6
<1>8. CASE WriteTimesOut
  <2>1. /\ queue # <<>> /\ do_hd' = "write_intr" /\ drive' = NoCommand
        /\ BadRwIntr /\ UNCHANGED <<at, recalibrate>>
    BY <1>8 DEF WriteTimesOut
  <2>2. /\ QueueOK' /\ cur' \in Current
        /\ reset' \in BOOLEAN /\ uptodate' \in BOOLEAN
        /\ \/ cur' = Fresh
           \/ queue' = queue /\ cur'.off = cur.off
    BY <2>1, BadKeeps
  <2>3. Types'
    BY <2>1, <2>2, Nothing DEF Types
  <2> QED
    BY <1>1, <1>2, <2>1, <2>2, <2>3, Again DEF Fresh
<1> QED
  BY <1>3, <1>4, <1>5, <1>6, <1>7, <1>8 DEF DoHdRequest

-----------------------------------------------------------------------------
(* An interrupt finds the drive at work for CURRENT.                       *)
LEMMA Interrupted ==
  ASSUME Inv, NEW handler, Interrupt(handler)
  PROVE  /\ at = "idle" /\ queue # <<>> /\ do_hd = handler
         /\ cur.off \in {0, 1} /\ Head(queue).sector \in Nat
         /\ moved = Parts(Head(queue).sector, cur.off)
         /\ handler = "read_intr" => drive.cmd = "read" /\ InStep
         /\ handler = "write_intr" => drive.cmd = "write" /\ InStep
<1>1. at = "idle" /\ drive.cmd # "none" /\ do_hd = handler
  BY DEF Interrupt
<1>2. queue # <<>>
  BY <1>1 DEF Inv, Quiet, NoCommand
<1>3. cur.off \in {0, 1} /\ Head(queue).sector \in Nat
  BY <1>2, HeadIsRequest DEF Inv, Types, Current
<1> QED
  BY <1>1, <1>2, <1>3 DEF Inv, Working, MovedSoFar

(* An interrupt with an error, bad_rw_intr() and on.                       *)
LEMMA FailedPreserves ==
  ASSUME Inv, NEW handler, Failed(handler)
  PROVE  Inv'
<1>1. /\ Interrupt(handler)
      /\ do_hd' = "none" /\ drive' = NoCommand /\ BadRwIntr
      /\ at' = "repeat" /\ UNCHANGED <<recalibrate, moved>>
  BY DEF Failed
<1>2. queue # <<>> /\ moved = Parts(Head(queue).sector, cur.off)
  BY <1>1, Interrupted
<1>3. /\ QueueOK' /\ cur' \in Current
      /\ reset' \in BOOLEAN /\ uptodate' \in BOOLEAN
      /\ \/ cur' = Fresh
         \/ queue' = queue /\ cur'.off = cur.off
  BY <1>1, BadKeeps DEF Inv
<1>4. Types'
  BY <1>1, <1>3, Nothing DEF Inv, Types
<1> QED
  BY <1>1, <1>2, <1>3, <1>4, Again DEF Fresh

(* A sector has been moved, by read_intr() or write_intr(): the next one,  *)
(* or the end of the request.  ReadIntr and WriteIntr are such steps.      *)
SectorDone(handler) ==
  /\ Interrupt(handler)
  /\ moved' = moved \cup {<<drive.sector, cur.off>>}
  /\ \/ \E errors \in 0..(MaxErrors - 1) : MoreToCome(handler, errors)
     \/ AllDone
  /\ \E data \in Nat :
       /\ drive' = AfterSector(data)
       /\ handler = "write_intr" => data = cur.off + 1
  /\ UNCHANGED <<reset, recalibrate>>

(* A read_intr() or write_intr() without an error is such a step: the data *)
(* a write had out is that of the sector it was at.                        *)
LEMMA SectorDoneSteps ==
  ASSUME Inv, ReadIntr \/ WriteIntr
  PROVE  \E handler \in {"read_intr", "write_intr"} : SectorDone(handler)
<1>1. 0 \in 0..(MaxErrors - 1) /\ cur.errors \in 0..(MaxErrors - 1)
      /\ cur.off + 1 \in Nat
  BY MaxErrorsAssumption DEF Inv, Types, Current
<1>2. CASE ReadIntr
  BY <1>1, <1>2 DEF ReadIntr, SectorDone
<1>3. CASE WriteIntr
  <2>1. drive.data = cur.off
    BY <1>3, Interrupted DEF WriteIntr, InStep
  <2>2. SectorDone("write_intr")
    BY <1>1, <1>3, <2>1 DEF WriteIntr, SectorDone, NextData
  <2> QED
    BY <2>2
<1> QED
  BY <1>2, <1>3

(* Such a step keeps the invariant, and moves the last part of a request   *)
(* that it ends.                                                           *)
LEMMA SectorDonePreserves ==
  ASSUME Inv, NEW handler \in {"read_intr", "write_intr"}, SectorDone(handler)
  PROVE  /\ Inv'
         /\ \/ queue' = queue
            \/ moved' = Parts(Head(queue).sector, SectorsPerBlock)
<1> DEFINE s == Head(queue).sector
<1>1. PICK data \in Nat :
        /\ drive' = AfterSector(data)
        /\ handler = "write_intr" => data = cur.off + 1
  BY DEF SectorDone
<1>2. /\ at = "idle" /\ queue # <<>> /\ do_hd = handler
      /\ cur.off \in {0, 1} /\ s \in Nat
      /\ moved = Parts(s, cur.off)
      /\ handler = "read_intr" => drive.cmd = "read"
      /\ handler = "write_intr" => drive.cmd = "write"
      /\ InStep
  BY Interrupted DEF SectorDone
<1>3. drive.sector = SectorsPerBlock * s + cur.off /\ drive.left = Left
  BY <1>2 DEF InStep, CurrentSector
<1>4. moved' = Parts(s, cur.off + 1)
  BY <1>2, <1>3, NextPart DEF SectorDone
<1>5. CASE \E errors \in 0..(MaxErrors - 1) : MoreToCome(handler, errors)
  <2>1. PICK errors \in 0..(MaxErrors - 1) : MoreToCome(handler, errors)
    BY <1>5
  <2>2. /\ Left > 1 /\ cur' = [off |-> cur.off + 1, errors |-> errors]
        /\ do_hd' = handler
        /\ UNCHANGED <<queue, at, uptodate, reset, recalibrate>>
    BY <2>1 DEF MoreToCome, SectorDone
  <2>3. cur.off = 0 /\ cur'.off = 1 /\ drive.left = 2
    BY <1>2, <1>3, <2>2 DEF Left, SectorsPerBlock
  <2>4. cur' \in Current
    BY <2>2, <2>3 DEF Current
  <2>5. drive' = [drive EXCEPT !.sector = drive.sector + 1,
                               !.left = drive.left - 1, !.data = data]
    BY <1>1, <2>3 DEF AfterSector
  <2>6. /\ drive' \in Command /\ drive'.cmd = drive.cmd
        /\ drive'.sector = drive.sector + 1 /\ drive'.left = 1
        /\ drive'.data = data
    <3>1. drive \in Command
      BY DEF Inv, Types
    <3> DEFINE sector == drive.sector + 1
               left == drive.left - 1
    <3>2. sector \in Nat /\ left = 1 /\ left \in Nat
      BY <2>3, <3>1 DEF Command
    <3>3. drive' = [drive EXCEPT !.sector = sector, !.left = left,
                                 !.data = data]
      BY <2>5
    <3> HIDE DEF sector, left
    <3>4. drive' \in Command
      BY <3>1, <3>2, <3>3 DEF Command
    <3>5. drive'.cmd = drive.cmd
      BY <3>1, <3>3 DEF Command
    <3>6. drive'.sector = sector /\ drive'.left = left /\ drive'.data = data
      BY <3>1, <3>3 DEF Command
    <3> QED
      BY <3>2, <3>4, <3>5, <3>6 DEF sector
  <2>7. Types'
    BY <2>2, <2>4, <2>6 DEF Inv, Types, QueueOK
  <2>8. InStep'
    <3>1. CurrentSector' = SectorsPerBlock * s + 1 /\ Left' = 1
      BY <2>2, <2>3 DEF CurrentSector, Left, SectorsPerBlock
    <3>2. drive'.sector = SectorsPerBlock * s + 1
      BY <1>2, <1>3, <2>3, <2>6 DEF SectorsPerBlock
    <3>3. drive'.cmd = "write" <=> Head(queue').cmd = WRITE
      BY <1>2, <2>2, <2>6 DEF InStep
    <3>4. drive'.cmd = "write" => drive'.data = cur'.off
      BY <1>1, <1>2, <2>3, <2>6
    <3>5. ~reset' /\ ~recalibrate'
      BY <1>2, <2>2 DEF InStep
    <3> QED
      BY <2>6, <3>1, <3>2, <3>3, <3>4, <3>5 DEF InStep
  <2>9. Quiet' /\ Working' /\ MovedSoFar'
    BY <1>2, <1>4, <2>2, <2>3, <2>6, <2>8 DEF Quiet, Working, MovedSoFar
  <2> QED
    BY <2>2, <2>7, <2>9 DEF Inv
<1>6. CASE AllDone
  <2>1. /\ Left = 1 /\ HdEndRequest(TRUE) /\ do_hd' = "none" /\ at' = "repeat"
        /\ UNCHANGED <<reset, recalibrate>>
    BY <1>6 DEF AllDone, SectorDone
  <2>2. cur.off = 1 /\ drive.left = 1
    BY <1>2, <1>3, <2>1 DEF Left, SectorsPerBlock
  <2>3. drive' = NoCommand
    BY <1>1, <2>2 DEF AfterSector
  <2>4. QueueOK' /\ cur' = Fresh /\ cur' \in Current /\ uptodate' = TRUE
    BY <2>1, EndKeeps DEF Inv
  <2>5. Types'
    BY <2>1, <2>3, <2>4, Nothing DEF Inv, Types
  <2>6. Inv'
    BY <2>1, <2>3, <2>4, <2>5, Again DEF Fresh
  <2>7. moved' = Parts(s, SectorsPerBlock)
    BY <1>4, <2>2 DEF SectorsPerBlock
  <2> QED
    BY <2>6, <2>7
<1> QED
  BY <1>5, <1>6 DEF SectorDone

(* recal_intr() without an error.                                          *)
LEMMA RecalPreserves == Inv /\ RecalIntr => Inv'
<1> SUFFICES ASSUME Inv, RecalIntr PROVE Inv'
  OBVIOUS
<1>1. /\ Interrupt("recal_intr") /\ do_hd' = "none" /\ drive' = NoCommand
      /\ at' = "repeat"
      /\ UNCHANGED <<queue, reset, recalibrate, cur, moved, uptodate>>
  BY DEF RecalIntr
<1>2. queue # <<>> /\ moved = Parts(Head(queue).sector, cur.off)
  BY <1>1, Interrupted
<1>3. Types'
  BY <1>1, Nothing DEF Inv, Types, QueueOK
<1> QED
  BY <1>1, <1>2, <1>3, Again

-----------------------------------------------------------------------------
(* The invariant holds at the start and every step keeps it.               *)
LEMMA InvInit == HdInit => Inv
<1> SUFFICES ASSUME HdInit PROVE Inv
  OBVIOUS
<1>1. /\ queue = <<>> /\ at = "idle" /\ do_hd = "none"
      /\ reset = TRUE /\ recalibrate = TRUE
      /\ cur = Fresh /\ drive = NoCommand
      /\ moved = {} /\ uptodate = TRUE
  BY DEF HdInit, Init
<1>2. QueueOK
  <2>1. Turns(queue) = {}
    BY <1>1 DEF Turns
  <2> QED
    BY <1>1, <2>1 DEF QueueOK, OneTurn
<1>3. Fresh \in Current
  BY MaxErrorsAssumption DEF Fresh, Current
<1>4. Types
  BY <1>1, <1>2, <1>3, Nothing DEF Types
<1> QED
  BY <1>1, <1>4 DEF Inv, Quiet, Working, MovedSoFar

LEMMA InvNext == Inv /\ [HdNext]_vars => Inv'
<1> SUFFICES ASSUME Inv, [HdNext]_vars PROVE Inv'
  OBVIOUS
<1>1. CASE HdAdd
  BY <1>1, AddPreserves
<1>2. CASE DoHdRequest
  BY <1>2, LoopPreserves
<1>3. CASE \E handler \in {"read_intr", "write_intr", "recal_intr"} :
             Failed(handler)
  BY <1>3, FailedPreserves
<1>4. CASE ReadIntr \/ WriteIntr
  BY <1>4, SectorDoneSteps, SectorDonePreserves
<1>5. CASE RecalIntr
  BY <1>5, RecalPreserves
<1>6. CASE UNCHANGED vars
  BY <1>6 DEF vars, Inv, Types, QueueOK, Quiet, Working, InStep, MovedSoFar,
              CurrentSector, Left
<1> QED
  BY <1>1, <1>2, <1>3, <1>4, <1>5, <1>6 DEF HdNext, HdInterrupt

LEMMA InvAlways == HdSpec => []Inv
BY InvInit, InvNext, PTL DEF HdSpec

-----------------------------------------------------------------------------
(* The list the driver works through turns once at most, whatever          *)
(* add_request() puts where and in whatever state the driver is.           *)
THEOREM TwoSweepsHold == HdSpec => []TwoSweeps
<1>1. Inv => TwoSweeps
  BY OneTurnIsTwoSweeps DEF Inv, Types, QueueOK
<1> QED
  BY <1>1, InvAlways, PTL

(* While requests wait, the drive has a command and do_hd its handler, and *)
(* a transfer is where CURRENT has come to: no error, time-out, recali-    *)
(* bration or jump to the next request loses the interrupt or the place.   *)
THEOREM DriveIsAtWork == HdSpec => []DriveAtWork
<1>1. Inv => DriveAtWork
  <2> SUFFICES ASSUME Inv PROVE DriveAtWork
    OBVIOUS
  <2>1. HdTypeOK
    BY DEF Inv, Types, QueueOK, Current, Command, HdTypeOK, TypeOK,
           SectorsPerBlock
  <2>2. CASE at = "repeat"
    BY <2>1, <2>2 DEF DriveAtWork
  <2>3. CASE queue = <<>>
    BY <2>1, <2>3 DEF DriveAtWork, Inv, Quiet
  <2>4. CASE at = "idle" /\ queue # <<>>
    BY <2>1, <2>4 DEF DriveAtWork, Inv, Working, InStep
  <2> QED
    BY <2>2, <2>3, <2>4 DEF Inv, Types
<1> QED
  BY <1>1, InvAlways, PTL

(* A step that takes a request off the list, and says that it went well,   *)
(* is an interrupt for the last sector of its block.                       *)
LEMMA EndsWithAllMoved ==
  ASSUME Inv, [HdNext]_vars, Len(queue') < Len(queue), uptodate'
  PROVE  moved' = Parts(Head(queue).sector, SectorsPerBlock)
<1>1. queue' # queue
  <2>1. Len(queue) \in Nat
    BY LenProperties DEF Inv, Types, QueueOK
  <2> QED
    BY <2>1
<1>2. ~HdAdd
  <2>1. Len(queue) \in Nat
    BY LenProperties DEF Inv, Types, QueueOK
  <2>2. HdAdd => Len(queue') = Len(queue) + 1
    BY Added DEF Inv
  <2> QED
    BY <2>1, <2>2
<1>3. ~DoHdRequest
  <2>1. ~FailOutOfRange
    BY DEF FailOutOfRange, HdEndRequest
  <2>2. ~WriteTimesOut
    BY <1>1, BadKeeps DEF WriteTimesOut, Inv
  <2>3. ~NothingToDo /\ ~StartReset /\ ~StartRecalibrate /\ ~StartTransfer
    BY <1>1 DEF NothingToDo, StartReset, StartRecalibrate, StartTransfer
  <2> QED
    BY <2>1, <2>2, <2>3 DEF DoHdRequest
<1>4. CASE \E handler \in {"read_intr", "write_intr", "recal_intr"} :
             Failed(handler)
  BY <1>1, <1>4, BadKeeps DEF Failed, Inv
<1>5. CASE ReadIntr \/ WriteIntr
  BY <1>1, <1>5, SectorDoneSteps, SectorDonePreserves
<1>6. ~RecalIntr /\ ~(UNCHANGED vars)
  BY <1>1 DEF RecalIntr, vars
<1> QED
  BY <1>2, <1>3, <1>4, <1>5, <1>6 DEF HdNext, HdInterrupt

(* No request ends well before both sectors of its block were moved to or  *)
(* from their own half of the buffer, however often it was retried.        *)
THEOREM DoneWasMoved == HdSpec => DoneIsMoved
<1>1. Inv /\ [HdNext]_vars =>
        [Len(queue') < Len(queue) /\ uptodate' =>
           moved' = {<<SectorsPerBlock * Head(queue).sector + part, part>> :
                       part \in 0..(SectorsPerBlock - 1)}]_vars
  BY EndsWithAllMoved DEF Parts
<1> QED
  BY <1>1, InvAlways, PTL DEF HdSpec, DoneIsMoved

-----------------------------------------------------------------------------
(* schedule() and do_timer().                                              *)

(* Counters stay below the fixed point of c/2 + p.                         *)
SchedInv == SchedTypeOK /\ CountersBounded

(* Half of what is left and a new slice are again less than two slices.    *)
LEMMA HalfBound ==
  ASSUME NEW m \in Nat \ {0}, NEW c \in 0..(2 * m - 1), NEW q \in 1..m
  PROVE  /\ c \div 2 + q \in 0..(2 * m - 1)
         /\ c \div 2 + q > 0
OBVIOUS

(* What the caller hands to schedule(): a table and counters in range.     *)
Handed(st, cnt) ==
  /\ st \in [Task -> {"running", "sleeping", "none"}]
  /\ cnt \in [Task -> 0..(2 * MaxPriority - 1)]

(* schedule(), called with a table and counters in range, keeps them so.   *)
LEMMA ScheduleKeeps ==
  ASSUME SchedInv, NEW st, NEW cnt, Handed(st, cnt), Schedule(st, cnt),
         UNCHANGED priority
  PROVE  SchedInv'
<1> USE PriorityAssumption, TasksAssumption DEF SchedInv, SchedTypeOK, CountersBounded
<1>1. current' \in Task \cup {0}
  BY DEF Schedule, NextTask, Running
<1>2. counter' \in [Task -> 0..(2 * MaxPriority - 1)]
  <2>1. CASE SlicesUsedUp(st, cnt)
    <3>1. \A p \in Task : cnt[p] \div 2 + priority[p] \in 0..(2 * MaxPriority - 1)
      BY HalfBound DEF Handed
    <3> QED
      BY <2>1, <3>1 DEF Schedule, Recharge, Handed
  <2>2. CASE ~SlicesUsedUp(st, cnt)
    BY <2>2 DEF Schedule, Handed
  <2> QED
    BY <2>1, <2>2
<1>3. state' = st /\ mode' = "kernel"
  BY DEF Schedule
<1> QED
  BY <1>1, <1>2, <1>3 DEF Handed

(* And it picks a task that can run and has ticks left, after at most one  *)
(* recharge.                                                               *)
LEMMA SchedulePicksWell ==
  ASSUME SchedInv, NEW st, NEW cnt, Handed(st, cnt), Schedule(st, cnt)
  PROVE  IF current' = 0 THEN Running(state') = {}
         ELSE state'[current'] = "running" /\ counter'[current'] > 0
<1> DEFINE new == IF SlicesUsedUp(st, cnt) THEN Recharge(st, cnt) ELSE cnt
<1>1. state' = st /\ counter' = new /\ current' \in NextTask(st, new)
  BY DEF Schedule
<1>2. CASE Running(st) = {}
  BY <1>1, <1>2 DEF NextTask
<1>3. CASE Running(st) # {}
  <2>1. /\ current' \in Running(st) /\ current' \in Task /\ current' # 0
        /\ \A r \in Running(st) : new[r] < new[current'] \/ new[r] = new[current']
    BY <1>1, <1>3, TasksAssumption DEF NextTask, Running, Task
  <2>2. CASE SlicesUsedUp(st, cnt)
    <3>1. new[current'] = cnt[current'] \div 2 + priority[current']
      BY <2>1, <2>2 DEF Recharge, Running
    <3>2. new[current'] > 0
      BY <2>1, <3>1, HalfBound, PriorityAssumption
         DEF Handed, SchedInv, SchedTypeOK, CountersBounded
    <3> QED
      BY <1>1, <2>1, <3>2 DEF Running
  <2>3. CASE ~SlicesUsedUp(st, cnt)
    <3>1. PICK r \in Running(st) : cnt[r] # 0
      BY <1>3, <2>3 DEF SlicesUsedUp
    <3>2. cnt[r] > 0 /\ cnt[r] \in Int /\ cnt[current'] \in Int
      BY <2>1, <3>1, PriorityAssumption DEF Handed, Running
    <3> QED
      BY <1>1, <2>1, <2>3, <3>1, <3>2 DEF Running
  <2> QED
    BY <2>2, <2>3
<1> QED
  BY <1>2, <1>3

(* A step either calls schedule() in one of the ways Handed allows, or     *)
(* leaves the current task alone and keeps the counters in range.          *)
LEMMA StepCases ==
  ASSUME SchedInv, SchedNext
  PROVE  \/ \E st, cnt : /\ Handed(st, cnt) /\ Schedule(st, cnt)
                         /\ UNCHANGED priority
         \/ current' = current /\ SchedInv'
<1> USE PriorityAssumption, TasksAssumption
    DEF SchedInv, SchedTypeOK, CountersBounded, Handed
<1>1. Handed(state, counter)
  OBVIOUS
<1>2. CASE Idle
  BY <1>1, <1>2 DEF Idle
<1>3. CASE Tick
  <2> DEFINE left == IF counter[current] > 1 THEN counter[current] - 1 ELSE 0
             cnt == [counter EXCEPT ![current] = left]
  <2>1. current \in Task /\ left \in 0..(2 * MaxPriority - 1)
    BY <1>3 DEF Tick
  <2>2. Handed(state, cnt)
    BY <2>1
  <2>3. CASE left = 0 /\ mode = "user"
    <3>1. Schedule(state, cnt) /\ UNCHANGED priority
      BY <1>3, <2>3 DEF Tick
    <3> QED
      BY <2>2, <3>1
  <2>4. CASE ~(left = 0 /\ mode = "user")
    <3>1. counter' = cnt /\ UNCHANGED <<current, mode, state, priority>>
      BY <1>3, <2>4 DEF Tick
    <3> QED
      BY <2>2, <3>1
  <2> QED
    BY <2>3, <2>4
<1>4. CASE SystemCall
  BY <1>4 DEF SystemCall
<1>5. CASE ReturnToUser
  BY <1>1, <1>5 DEF ReturnToUser
<1>6. CASE Sleep
  <2>1. Handed([state EXCEPT ![current] = "sleeping"], counter)
    BY <1>1
  <2> QED
    BY <1>6, <2>1 DEF Sleep
<1>7. CASE \E p \in Task : WakeUp(p)
  BY <1>7 DEF WakeUp
<1>8. CASE Nice
  <2>1. current \in Task
    BY <1>8 DEF Nice
  <2>2. PICK i \in (-MaxPriority)..MaxPriority :
          /\ priority[current] - i > 0
          /\ priority[current] - i <= MaxPriority
          /\ priority' = [priority EXCEPT ![current] = @ - i]
    BY <1>8 DEF Nice, NiceAllowed
  <2>3. \A p \in Task : priority'[p] \in 1..MaxPriority
    BY <2>1, <2>2
  <2> QED
    BY <1>8, <2>1, <2>2, <2>3 DEF Nice
<1>9. CASE Fork
  <2>1. current \in Task
    BY <1>9 DEF Fork
  <2> QED
    BY <1>9, <2>1 DEF Fork
<1>10. CASE Exit
  <2>1. Handed([state EXCEPT ![current] = "none"], counter)
    BY <1>1
  <2> QED
    BY <1>10, <2>1 DEF Exit
<1> QED
  BY <1>2, <1>3, <1>4, <1>5, <1>6, <1>7, <1>8, <1>9, <1>10 DEF SchedNext

(* The invariant holds at first, and every step keeps it.                  *)
LEMMA SchedInvInit == SchedInit => SchedInv
BY PriorityAssumption, TasksAssumption
   DEF SchedInit, SchedInv, SchedTypeOK, CountersBounded

LEMMA SchedInvNext == SchedInv /\ [SchedNext]_schedVars => SchedInv'
<1> SUFFICES ASSUME SchedInv, [SchedNext]_schedVars PROVE SchedInv'
  OBVIOUS
<1>1. CASE UNCHANGED schedVars
  BY <1>1 DEF schedVars, SchedInv, SchedTypeOK, CountersBounded
<1>2. CASE SchedNext
  BY <1>2, StepCases, ScheduleKeeps
<1> QED
  BY <1>1, <1>2

(* Whatever tasks do, priorities stay positive, so schedule() recharges at *)
(* most once, and no counter reaches two full slices.                      *)
THEOREM CountersAreBounded == SchedSpec => []CountersBounded
<1>1. SchedInv => CountersBounded
  BY DEF SchedInv
<1> QED
  BY <1>1, SchedInvInit, SchedInvNext, PTL DEF SchedSpec

(* schedule() never idles while a task can run and never picks a task that *)
(* sleeps or has no ticks left.                                            *)
THEOREM ScheduleIsRight == SchedSpec => SchedulePicks
<1> DEFINE Picks == current' # current =>
             IF current' = 0 THEN Running(state') = {}
             ELSE state'[current'] = "running" /\ counter'[current'] > 0
<1>1. ASSUME SchedInv, [SchedNext]_schedVars PROVE [Picks]_schedVars
  <2>1. CASE UNCHANGED schedVars
    BY <2>1
  <2>2. CASE SchedNext
    <3>1. CASE current' = current
      BY <3>1
    <3>2. CASE current' # current
      <4>1. PICK st, cnt : Handed(st, cnt) /\ Schedule(st, cnt)
        BY <2>2, <3>2, <1>1, StepCases
      <4> HIDE DEF Picks
      <4> QED
        BY <4>1, <1>1, SchedulePicksWell DEF Picks
    <3> QED
      BY <3>1, <3>2
  <2> QED
    BY <1>1, <2>1, <2>2
<1> QED
  BY <1>1, SchedInvInit, SchedInvNext, PTL DEF SchedSpec, SchedulePicks
=============================================================================
