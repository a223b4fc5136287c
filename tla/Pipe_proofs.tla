----------------------------- MODULE Pipe_proofs -----------------------------
(***************************************************************************)
(* Proofs about open files and pipes, for any finite set of tasks and any  *)
(* number of descriptors, files and bytes of the ring.                     *)
(***************************************************************************)
EXTENDS Pipe, Numbers

(* Once around at most.                                                    *)
Around(x, n) == IF x < n THEN x ELSE x - n

(* A remainder by subtraction, for a sum of two that are smaller.          *)
LEMMA ModSum ==
  ASSUME NEW n \in Nat, NEW x \in Nat, x < 2 * n
  PROVE  x % n = Around(x, n)
BY DEF Around

(* There are twice as many numbers for bytes as the page has places.       *)
LEMMA ByteCount == Cardinality(Byte) = 2 * PageSize
BY SizesAssumption, FS_Interval DEF Byte

-----------------------------------------------------------------------------
(* The ring.                                                               *)

Place == 0..(PageSize - 1)

Pc == {"none", "user", "open", "pipe", "read", "write", "read_sleep",
       "write_sleep", "read_woken", "write_woken", "copy_out", "copy_in"}

Left(t) == at[t].left \in Nat

(* What is in the ring are the bytes from got to sent, in their order.     *)
RingTypes ==
  /\ head \in Place /\ tail \in Place
  /\ ring \in [Place -> Byte]
  /\ sent \in Byte /\ got \in Byte
  /\ inOrder = TRUE /\ slept \in BOOLEAN

Followed ==
  /\ sent = Numbered(got, PipeSize)
  /\ \A i \in Place :
       i < PipeSize => ring[(tail + i) % PageSize] = Numbered(got, i)

RingInv == RingTypes /\ (slept = FALSE => Followed)

(* PIPE_SIZE without the mask.                                             *)
LEMMA SizeIs ==
  ASSUME head \in Place, tail \in Place
  PROVE  /\ PipeSize \in Place
         /\ PipeSize = IF head >= tail THEN head - tail
                       ELSE head + PageSize - tail
<1>1. head + PageSize - tail \in Nat /\ head + PageSize - tail < 2 * PageSize
  BY SizesAssumption DEF Place
<1>2. PipeSize = Around(head + PageSize - tail, PageSize)
  BY <1>1, ModSum, SizesAssumption DEF PipeSize
<1> QED
  BY <1>2, SizesAssumption DEF Around, Place

(* The number of the i-th byte after another, without the remainder.       *)
LEMMA NumberedIs ==
  ASSUME NEW b \in Byte, NEW i \in 0..PageSize
  PROVE  /\ Numbered(b, i) \in Byte
         /\ Numbered(b, i) = Around(b + i, 2 * PageSize)
<1>1. b + i \in Nat /\ b + i < 2 * (2 * PageSize) /\ 2 * PageSize \in Nat
  BY SizesAssumption DEF Byte
<1>2. (b + i) % (2 * PageSize) = Around(b + i, 2 * PageSize)
  BY <1>1, ModSum
<1>3. Numbered(b, i) = Around(b + i, 2 * PageSize)
  BY <1>2, ByteCount DEF Numbered
<1> QED
  BY <1>3, SizesAssumption DEF Around, Byte

(* Least of three.                                                         *)
LEMMA MinThree ==
  ASSUME NEW a \in Nat, NEW b \in Nat, NEW c \in Nat
  PROVE  /\ Min({a, b, c}) \in {a, b, c}
         /\ Min({a, b, c}) <= a /\ Min({a, b, c}) <= b /\ Min({a, b, c}) <= c
<1> DEFINE S == {a, b, c}
<1>1. S \in SUBSET Nat /\ S # {}
  OBVIOUS
<1>2. Min(S) \in S /\ \A y \in S : Min(S) <= y
  <2> HIDE DEF S
  <2> QED
    BY <1>1, MinIn
<1> QED
  BY <1>2

(* A piece to read begins at the tail and does not turn.                   *)
LEMMA CharsIs ==
  ASSUME NEW t, NEW pos \in Place, NEW size \in Place, size > 0,
         Left(t), at[t].left > 0
  PROVE  /\ Chars(t, pos, size) \in Place \ {0}
         /\ Chars(t, pos, size) <= PageSize - pos
         /\ Chars(t, pos, size) <= size
         /\ Chars(t, pos, size) <= at[t].left
<1>1. PageSize - pos \in Nat /\ PageSize - pos > 0 /\ size \in Nat
  BY SizesAssumption DEF Place
<1> QED
  BY <1>1, MinThree, SizesAssumption DEF Chars, Left, Place

(* A piece of read_pipe(): tail and the reader go on by as many bytes, and *)
(* what is copied out is what was due.                                     *)
LEMMA ReadPieceKeeps ==
  ASSUME RingInv, NEW chars \in Place, chars <= PipeSize,
         chars <= PageSize - tail,
         slept' = FALSE, slept = FALSE,
         tail' = (tail + chars) % PageSize, head' = head,
         sent' = sent, got' = Numbered(got, chars), ring' = ring,
         CopyOut(tail, chars, got)
  PROVE  RingInv'
<1> DEFINE n == PipeSize
<1>1. RingTypes /\ Followed
  BY DEF RingInv
<1>2. n \in Place /\ n = IF head >= tail THEN head - tail
                         ELSE head + PageSize - tail
  BY <1>1, SizeIs DEF RingTypes
<1> HIDE DEF n
<1>3. tail \in Place /\ head \in Place /\ got \in Byte
  BY <1>1 DEF RingTypes
<1>4. tail' \in Place
      /\ tail' = IF tail + chars < PageSize THEN tail + chars ELSE 0
  <2>1. tail + chars \in Nat /\ tail + chars < 2 * PageSize
    BY <1>3, SizesAssumption DEF Place
  <2>2. (tail + chars) % PageSize = Around(tail + chars, PageSize)
    BY <2>1, ModSum, SizesAssumption
  <2> QED
    BY <1>3, <2>2, SizesAssumption DEF Place, Around
<1>5. PipeSize' = n - chars
  <2>1. PipeSize' = (head + PageSize - tail') % PageSize
    BY DEF PipeSize
  <2>2. head + PageSize - tail' \in Nat /\ head + PageSize - tail' < 2 * PageSize
    BY <1>3, <1>4, SizesAssumption DEF Place
  <2>3. PipeSize' = Around(head + PageSize - tail', PageSize)
    BY <2>1, <2>2, ModSum, SizesAssumption
  <2> QED
    BY <1>2, <1>3, <1>4, <2>3, SizesAssumption DEF Place, Around, n
<1>6. got' \in Byte /\ got' = Around(got + chars, 2 * PageSize)
  <2>1. chars \in 0..PageSize
    BY SizesAssumption DEF Place
  <2> QED
    BY <1>3, <2>1, NumberedIs
<1>7. ASSUME NEW i \in Place, i < n
      PROVE  ring[(tail + i) % PageSize] = Numbered(got, i)
  BY <1>1, <1>7 DEF Followed, n
<1>8. ASSUME NEW i \in 0..(chars - 1)
      PROVE  ring[tail + i] = Numbered(got, i)
  <2>1. i \in Place /\ i < n /\ tail + i < PageSize
        /\ tail + i \in Nat /\ tail + i < 2 * PageSize
    BY <1>2, <1>3, SizesAssumption DEF Place, n
  <2>2. (tail + i) % PageSize = Around(tail + i, PageSize)
    BY <2>1, ModSum, SizesAssumption
  <2>3. Around(tail + i, PageSize) = tail + i
    BY <2>1 DEF Around
  <2> QED
    BY <1>7, <2>1, <2>2, <2>3
<1>9. inOrder' = TRUE
  BY <1>1, <1>8 DEF CopyOut, RingTypes
<1>10. RingTypes'
  BY <1>1, <1>4, <1>6, <1>9 DEF RingTypes
<1>11. sent' = Numbered(got', PipeSize')
  <2>1. sent = Numbered(got, n)
    BY <1>1 DEF Followed, n
  <2>2. n \in 0..PageSize /\ n - chars \in 0..PageSize
    BY <1>2, SizesAssumption DEF Place, n
  <2>3. sent = Around(got + n, 2 * PageSize)
    BY <1>3, <2>1, <2>2, NumberedIs
  <2>4. Numbered(got', n - chars) = Around(got' + (n - chars), 2 * PageSize)
    BY <1>6, <2>2, NumberedIs
  <2>5. n \in Place /\ chars <= n
    BY <1>2 DEF n
  <2>6. Around(got + n, 2 * PageSize) = Around(got' + (n - chars), 2 * PageSize)
    <3> HIDE DEF n
    <3> QED
      BY <1>3, <1>6, <2>5, SizesAssumption DEF Place, Byte, Around
  <2> QED
    BY <1>5, <2>3, <2>4, <2>6
<1>12. ASSUME NEW i \in Place, i < n - chars
       PROVE  ring[(tail' + i) % PageSize] = Numbered(got', i)
  <2>1. i + chars \in Place /\ i + chars < n
    BY <1>2, <1>12, SizesAssumption DEF Place
  <2>2. ring[(tail + (i + chars)) % PageSize] = Numbered(got, i + chars)
    BY <1>7, <2>1
  <2>3. (tail + (i + chars)) % PageSize = (tail' + i) % PageSize
    <3>1. tail + (i + chars) \in Nat /\ tail + (i + chars) < 2 * PageSize
          /\ tail' + i \in Nat /\ tail' + i < 2 * PageSize
      BY <1>3, <1>4, <2>1, SizesAssumption DEF Place
    <3>2. (tail + (i + chars)) % PageSize
            = Around(tail + (i + chars), PageSize)
      BY <3>1, ModSum, SizesAssumption
    <3>3. (tail' + i) % PageSize = Around(tail' + i, PageSize)
      BY <3>1, ModSum, SizesAssumption
    <3> QED
      BY <1>3, <1>4, <2>1, <3>2, <3>3, SizesAssumption DEF Place, Around
  <2>4. Numbered(got, i + chars) = Numbered(got', i)
    <3>1. i \in 0..PageSize /\ i + chars \in 0..PageSize
      BY <2>1, SizesAssumption DEF Place
    <3>2. Numbered(got, i + chars) = Around(got + (i + chars), 2 * PageSize)
      BY <1>3, <3>1, NumberedIs
    <3>3. Numbered(got', i) = Around(got' + i, 2 * PageSize)
      BY <1>6, <3>1, NumberedIs
    <3> QED
      BY <1>3, <1>6, <2>1, <3>2, <3>3, SizesAssumption DEF Place, Byte, Around
  <2> QED
    BY <2>2, <2>3, <2>4
<1>13. Followed'
  BY <1>5, <1>11, <1>12 DEF Followed, Numbered
<1> QED
  BY <1>10, <1>13 DEF RingInv

(* A piece written goes behind what there is, and over nothing of it.      *)
LEMMA WritePieceKeeps ==
  ASSUME RingInv, NEW chars \in Place, chars <= Room,
         chars <= PageSize - head,
         slept' = FALSE, slept = FALSE,
         head' = (head + chars) % PageSize, tail' = tail,
         got' = got, sent' = Numbered(sent, chars), inOrder' = inOrder,
         CopyIn(head, chars, sent)
  PROVE  RingInv'
<1> DEFINE n == PipeSize
<1>1. RingTypes /\ Followed
  BY DEF RingInv
<1>2. n \in Place /\ n = IF head >= tail THEN head - tail
                         ELSE head + PageSize - tail
  BY <1>1, SizeIs DEF RingTypes
<1>3. tail \in Place /\ head \in Place /\ got \in Byte /\ sent \in Byte
  BY <1>1 DEF RingTypes
<1>4. n + chars \in Place
  BY <1>2, SizesAssumption DEF Place, Room
<1> HIDE DEF n
<1>5. head' \in Place
      /\ head' = IF head + chars < PageSize THEN head + chars ELSE 0
  <2>1. head + chars \in Nat /\ head + chars < 2 * PageSize
    BY <1>3, SizesAssumption DEF Place
  <2>2. (head + chars) % PageSize = Around(head + chars, PageSize)
    BY <2>1, ModSum, SizesAssumption
  <2> QED
    BY <1>3, <2>2, SizesAssumption DEF Place, Around
<1>6. PipeSize' = n + chars
  <2>1. PipeSize' = (head' + PageSize - tail) % PageSize
    BY DEF PipeSize
  <2>2. head' + PageSize - tail \in Nat /\ head' + PageSize - tail < 2 * PageSize
    BY <1>3, <1>5, SizesAssumption DEF Place
  <2>3. PipeSize' = Around(head' + PageSize - tail, PageSize)
    BY <2>1, <2>2, ModSum, SizesAssumption
  <2> QED
    BY <1>2, <1>3, <1>4, <1>5, <2>3, SizesAssumption DEF Place, Around
<1>7. sent = Around(got + n, 2 * PageSize)
  <2>1. sent = Numbered(got, n)
    BY <1>1 DEF Followed, n
  <2>2. n \in 0..PageSize
    BY <1>2, SizesAssumption DEF Place
  <2> QED
    BY <1>3, <2>1, <2>2, NumberedIs
<1>8. ASSUME NEW i \in 0..chars
      PROVE  /\ Numbered(sent, i) \in Byte
             /\ Numbered(sent, i) = Numbered(got, n + i)
  <2>1. i \in 0..PageSize /\ n + i \in 0..PageSize
    BY <1>2, <1>4, SizesAssumption DEF Place
  <2>2. Numbered(sent, i) \in Byte
        /\ Numbered(sent, i) = Around(sent + i, 2 * PageSize)
    BY <1>3, <2>1, NumberedIs
  <2>3. Numbered(got, n + i) = Around(got + (n + i), 2 * PageSize)
    BY <1>3, <2>1, NumberedIs
  <2>4. Around(sent + i, 2 * PageSize) = Around(got + (n + i), 2 * PageSize)
    BY <1>2, <1>3, <1>4, <1>7, SizesAssumption DEF Place, Byte, Around
  <2> QED
    BY <2>2, <2>3, <2>4
<1>9. chars \in 0..chars
  BY SizesAssumption DEF Place
<1>10. sent' \in Byte /\ sent' = Numbered(got', PipeSize')
  BY <1>6, <1>8, <1>9
<1>11. DOMAIN ring = Place
  BY <1>1 DEF RingTypes
<1>12. ASSUME NEW p \in Place
       PROVE  ring'[p] = IF p \in head..(head + chars - 1)
                         THEN Numbered(sent, p - head) ELSE ring[p]
  BY <1>11 DEF CopyIn
<1>13. ring' \in [Place -> Byte]
  <2>1. ASSUME NEW p \in Place
        PROVE  ring'[p] \in Byte
    <3>1. CASE p \in head..(head + chars - 1)
      <4>1. p - head \in 0..chars
        BY <3>1, <1>3, SizesAssumption DEF Place
      <4> QED
        BY <3>1, <4>1, <1>8, <1>12
    <3>2. CASE p \notin head..(head + chars - 1)
      BY <3>2, <1>1, <1>12 DEF RingTypes
    <3> QED
      BY <3>1, <3>2
  <2>2. ring' = [p \in Place |-> ring'[p]]
    BY <1>11 DEF CopyIn
  <2> QED
    BY <2>1, <2>2
<1>14. RingTypes'
  BY <1>1, <1>5, <1>10, <1>13 DEF RingTypes
<1>15. ASSUME NEW i \in Place, i < n + chars
       PROVE  ring'[(tail + i) % PageSize] = Numbered(got, i)
  <2> DEFINE p == (tail + i) % PageSize
  <2>1. tail + i \in Nat /\ tail + i < 2 * PageSize
    BY <1>3, SizesAssumption DEF Place
  <2>2. p = Around(tail + i, PageSize)
    BY <2>1, ModSum, SizesAssumption
  <2>3. p \in Place
    BY <2>1, <2>2, <1>3, SizesAssumption DEF Place, Around
  <2>4. CASE i < n
    <3>1. p \notin head..(head + chars - 1)
      <4> HIDE DEF p
      <4> QED
        BY <2>1, <2>2, <2>4, <1>2, <1>3, <1>4, SizesAssumption
           DEF Place, Around
    <3>2. ring'[p] = ring[p]
      <4> HIDE DEF p
      <4> QED
        BY <2>3, <3>1, <1>12
    <3>3. ring[p] = Numbered(got, i)
      BY <2>4, <1>1 DEF Followed, n
    <3> QED
      BY <3>2, <3>3
  <2>5. CASE ~(i < n)
    <3>1. p = head + (i - n) /\ i - n \in 0..(chars - 1)
      <4> HIDE DEF p
      <4> QED
        BY <2>1, <2>2, <2>5, <1>2, <1>3, <1>4, <1>15, SizesAssumption
           DEF Place, Around
    <3> HIDE DEF p
    <3>2. p \in head..(head + chars - 1) /\ p - head = i - n
          /\ i - n \in 0..chars /\ n + (i - n) = i
      BY <3>1, <1>2, <1>3, SizesAssumption DEF Place
    <3>3. ring'[p] = Numbered(sent, i - n)
      BY <2>3, <3>2, <1>12
    <3>4. Numbered(sent, i - n) = Numbered(got, n + (i - n))
      BY <3>2, <1>8
    <3> QED
      BY <3>2, <3>3, <3>4 DEF p
  <2> QED
    BY <2>4, <2>5
<1>16. Followed'
  BY <1>6, <1>10, <1>15 DEF Followed, Numbered
<1> QED
  BY <1>14, <1>16 DEF RingInv

(* There is no pipe at first, and no page.                                 *)
LEMMA RingInit == Init => RingInv
<1> SUFFICES ASSUME Init PROVE RingInv
  OBVIOUS
<1>1. 0 \in Place /\ 0 \in Byte
  BY SizesAssumption DEF Place, Byte
<1>2. RingTypes
  BY <1>1 DEF Init, NoBytes, RingTypes, Place
<1>3. PipeSize = 0
  <2>1. PipeSize = IF head >= tail THEN head - tail ELSE head + PageSize - tail
    BY <1>2, SizeIs DEF RingTypes
  <2> QED
    BY <2>1 DEF Init
<1>4. Numbered(0, 0) = 0
  <2>1. Numbered(0, 0) = Around(0 + 0, 2 * PageSize)
    BY <1>1, NumberedIs, SizesAssumption
  <2> QED
    BY <2>1, SizesAssumption DEF Around
<1>5. Followed
  BY <1>3, <1>4 DEF Followed, Place, Init
<1> QED
  BY <1>2, <1>5 DEF RingInv

(* A step that leaves the ring alone.                                      *)
LEMMA RingStays ==
  ASSUME RingInv, UNCHANGED ringvars
  PROVE  RingInv'
BY DEF RingInv, RingTypes, Followed, PipeSize, Numbered, ringvars

(* A new pipe is empty.                                                    *)
LEMMA RingBegins ==
  ASSUME RingInv, head' = 0, tail' = 0, sent' = 0, got' = 0, ring' = NoBytes,
         slept' = FALSE, inOrder' = inOrder
  PROVE  RingInv'
<1>1. 0 \in Place /\ 0 \in Byte
  BY SizesAssumption DEF Place, Byte
<1>2. RingTypes'
  BY <1>1 DEF NoBytes, RingTypes, RingInv, Place
<1>3. PipeSize' = 0
  <2>1. PipeSize' = (0 + PageSize - 0) % PageSize
    BY DEF PipeSize
  <2>2. 0 + PageSize - 0 \in Nat /\ 0 + PageSize - 0 < 2 * PageSize
    BY SizesAssumption
  <2>3. PipeSize' = Around(0 + PageSize - 0, PageSize)
    BY <2>1, <2>2, ModSum, SizesAssumption
  <2> QED
    BY <2>3, SizesAssumption DEF Around
<1>4. Numbered(0, 0) = 0
  <2>1. Numbered(0, 0) = Around(0 + 0, 2 * PageSize)
    BY <1>1, NumberedIs, SizesAssumption
  <2> QED
    BY <2>1, SizesAssumption DEF Around
<1>5. sent' = Numbered(got', PipeSize')
  BY <1>3, <1>4
<1>6. \A i \in Place : ~(i < PipeSize')
  BY <1>3 DEF Place
<1>7. Followed'
  BY <1>5, <1>6 DEF Followed, Numbered
<1> QED
  BY <1>2, <1>7 DEF RingInv

(* head and tail are masked to places of the page.                         *)
LEMMA TurnIsPlace ==
  ASSUME NEW p \in Place, NEW chars \in Place
  PROVE  (p + chars) % PageSize \in Place
<1>1. p + chars \in Nat /\ p + chars < 2 * PageSize
  BY SizesAssumption DEF Place
<1>2. (p + chars) % PageSize = Around(p + chars, PageSize)
  BY <1>1, ModSum, SizesAssumption
<1> QED
  BY <1>2, SizesAssumption DEF Around, Place

(* Where a copy sleeps the bytes are given up.                             *)
LEMMA RingGivenUp ==
  ASSUME RingInv, head' \in Place, tail' \in Place, slept' = TRUE,
         sent' = 0, got' = 0, ring' = NoBytes, inOrder' = inOrder
  PROVE  RingInv'
<1>1. 0 \in Place /\ 0 \in Byte
  BY SizesAssumption DEF Place, Byte
<1>2. RingTypes'
  BY <1>1 DEF NoBytes, RingTypes, RingInv, Place
<1> QED
  BY <1>2 DEF RingInv

(* read_pipe() keeps the ring: each way it can end, and each piece.        *)
LEMMA ReadPipeKeepsRing ==
  ASSUME RingInv, NEW t \in Task, Left(t), ReadPipe(t)
  PROVE  RingInv'
<1>1. CASE UNCHANGED ringvars
  BY <1>1, RingStays
<1> DEFINE chars == Chars(t, tail, PipeSize)
<1>2. CASE /\ at[t].left > 0 /\ PipeSize > 0
           /\ tail' = (tail + chars) % PageSize
           /\ Piece(t, "read", "copy_out", chars)
           /\ Follow(sent, Numbered(got, chars),
                     CopyOut(tail, chars, got) /\ UNCHANGED ring)
           /\ UNCHANGED <<filevars, head>>
  <2>1. RingTypes
    BY DEF RingInv
  <2>2. head \in Place /\ tail \in Place /\ slept \in BOOLEAN
    BY <2>1 DEF RingTypes
  <2>3. PipeSize \in Place
    BY <2>2, SizeIs
  <2>4. chars \in Place /\ chars <= PageSize - tail /\ chars <= PipeSize
    BY <1>2, <2>2, <2>3, CharsIs
  <2> HIDE DEF chars
  <2>5. tail' \in Place /\ head' = head
    BY <1>2, <2>2, <2>4, TurnIsPlace
  <2>6. slept' = slept \/ slept' = TRUE
    BY <1>2 DEF Piece
  <2>7. CASE slept' = TRUE
    <3>1. sent' = 0 /\ got' = 0 /\ ring' = NoBytes /\ inOrder' = inOrder
      BY <1>2, <2>7 DEF Follow
    <3> QED
      BY <2>2, <2>5, <2>7, <3>1, RingGivenUp
  <2>8. CASE slept' = FALSE
    <3>1. /\ sent' = sent /\ got' = Numbered(got, chars)
          /\ CopyOut(tail, chars, got) /\ ring' = ring
      BY <1>2, <2>8 DEF Follow
    <3>2. slept = FALSE
      BY <2>6, <2>8
    <3> QED
      BY <1>2, <2>4, <2>5, <2>8, <3>1, <3>2, ReadPieceKeeps
  <2> QED
    BY <2>2, <2>6, <2>7, <2>8
<1>3. \/ UNCHANGED ringvars
      \/ /\ at[t].left > 0 /\ PipeSize > 0
         /\ tail' = (tail + chars) % PageSize
         /\ Piece(t, "read", "copy_out", chars)
         /\ Follow(sent, Numbered(got, chars),
                   CopyOut(tail, chars, got) /\ UNCHANGED ring)
         /\ UNCHANGED <<filevars, head>>
  BY DEF ReadPipe, Return, WaitOrReturn
<1> QED
  BY <1>1, <1>2, <1>3

(* So does write_pipe().                                                   *)
LEMMA WritePipeKeepsRing ==
  ASSUME RingInv, NEW t \in Task, Left(t), WritePipe(t)
  PROVE  RingInv'
<1>1. CASE UNCHANGED ringvars
  BY <1>1, RingStays
<1> DEFINE chars == Chars(t, head, Room)
<1>2. CASE /\ at[t].left > 0 /\ Room > 0
           /\ head' = (head + chars) % PageSize
           /\ Piece(t, "write", "copy_in", chars)
           /\ Follow(Numbered(sent, chars), got,
                     CopyIn(head, chars, sent) /\ UNCHANGED inOrder)
           /\ UNCHANGED <<filevars, tail>>
  <2>1. RingTypes
    BY DEF RingInv
  <2>2. head \in Place /\ tail \in Place /\ slept \in BOOLEAN
    BY <2>1 DEF RingTypes
  <2>3. Room \in Place
    <3>1. PipeSize \in Place
      BY <2>2, SizeIs
    <3> QED
      BY <3>1, SizesAssumption DEF Room, Place
  <2>4. chars \in Place /\ chars <= PageSize - head /\ chars <= Room
    BY <1>2, <2>2, <2>3, CharsIs
  <2> HIDE DEF chars
  <2>5. head' \in Place /\ tail' = tail
    BY <1>2, <2>2, <2>4, TurnIsPlace
  <2>6. slept' = slept \/ slept' = TRUE
    BY <1>2 DEF Piece
  <2>7. CASE slept' = TRUE
    <3>1. sent' = 0 /\ got' = 0 /\ ring' = NoBytes /\ inOrder' = inOrder
      BY <1>2, <2>7 DEF Follow
    <3> QED
      BY <2>2, <2>5, <2>7, <3>1, RingGivenUp
  <2>8. CASE slept' = FALSE
    <3>1. /\ sent' = Numbered(sent, chars) /\ got' = got
          /\ CopyIn(head, chars, sent) /\ inOrder' = inOrder
      BY <1>2, <2>8 DEF Follow
    <3>2. slept = FALSE
      BY <2>6, <2>8
    <3> QED
      BY <1>2, <2>4, <2>5, <2>8, <3>1, <3>2, WritePieceKeeps
  <2> QED
    BY <2>2, <2>6, <2>7, <2>8
<1>3. \/ UNCHANGED ringvars
      \/ /\ at[t].left > 0 /\ Room > 0
         /\ head' = (head + chars) % PageSize
         /\ Piece(t, "write", "copy_in", chars)
         /\ Follow(Numbered(sent, chars), got,
                   CopyIn(head, chars, sent) /\ UNCHANGED inOrder)
         /\ UNCHANGED <<filevars, tail>>
  BY DEF WritePipe, Return, WaitOrReturn
<1> QED
  BY <1>1, <1>2, <1>3

(* So does every step of a task.                                           *)
LEMMA RingNext ==
  ASSUME RingInv, \A t \in Task : Left(t), [Next]_vars
  PROVE  RingInv'
<1>1. CASE UNCHANGED ringvars
  BY <1>1, RingStays
<1>2. ASSUME NEW t \in Task, ReadPipe(t)
      PROVE  RingInv'
  BY <1>2, ReadPipeKeepsRing
<1>3. ASSUME NEW t \in Task, WritePipe(t)
      PROVE  RingInv'
  BY <1>3, WritePipeKeepsRing
<1>4. ASSUME NEW t \in Task, PipeInode(t)
      PROVE  RingInv'
  <2>1. \/ UNCHANGED ringvars
        \/ /\ head' = 0 /\ tail' = 0 /\ sent' = 0 /\ got' = 0
           /\ ring' = NoBytes /\ slept' = FALSE /\ inOrder' = inOrder
    BY <1>4, Zenon DEF PipeInode
  <2>2. CASE UNCHANGED ringvars
    BY <2>2, RingStays
  <2>3. CASE ~UNCHANGED ringvars
    BY <2>1, <2>3, RingBegins
  <2> QED
    BY <2>2, <2>3
<1>5. ASSUME NEW t \in Task, Bounded(t) \/ Free(t)
      PROVE  UNCHANGED ringvars
  BY <1>5 DEF Bounded, Free, SysPipe, SysOpen, SysDup, SysDup2, SetCloseOnExec,
              Fork, SysClose, Execve, Exit, SysRead, SysWrite, Enter
<1>6. ASSUME NEW t \in Task, FaultDone(t) \/ Resume(t) \/ Opened(t)
      PROVE  UNCHANGED ringvars
  <2>1. CASE FaultDone(t)
    BY <2>1 DEF FaultDone
  <2>2. CASE Resume(t)
    BY <2>2 DEF Resume
  <2>3. CASE Opened(t)
    BY <2>3 DEF Opened
  <2> QED
    BY <1>6, <2>1, <2>2, <2>3
<1>7. CASE UNCHANGED vars
  BY <1>1, <1>7 DEF vars, ringvars
<1>8. CASE Next
  <2>1. PICK t \in Task : Bounded(t) \/ Kernel(t) \/ Free(t)
    BY <1>8 DEF Next
  <2> QED
    BY <2>1, <1>1, <1>2, <1>3, <1>4, <1>5, <1>6 DEF Kernel
<1> QED
  BY <1>7, <1>8

-----------------------------------------------------------------------------
(* Descriptors and files.                                                  *)

(* The descriptors of a call that sleeps with them, and their files.       *)
Pending(t) == {at[t].fds[i] : i \in DOMAIN at[t].fds}

IsReserved(f) == \E t \in Task : \E d \in Pending(t) : filp[t][d] = f

IsOn(f, n) == /\ file_table[f].count > 0 /\ file_table[f].inode = n
              /\ ~IsReserved(f)

OnInode(n) == {f \in File : IsOn(f, n)}

FileRecord == [count : Nat, inode : {"pipe", "reg"}, mode : {"r", "w", "rw"}]

AtTypes == at \in [Task -> [pc : Pc, left : Nat, fds : Seq(Fd)]]

Typed ==
  /\ filp \in [Task -> [Fd -> File \cup {NoFile}]]
  /\ close_on_exec \in [Task -> SUBSET Fd]
  /\ file_table \in [File -> FileRecord]
  /\ i_count \in [{"pipe", "reg"} -> Nat]
  /\ AtTypes

Refs(f) == Cardinality(Places(filp, Task, Fd, f))

Counted == \A f \in File : file_table[f].count = Refs(f)

InodeCounted(n) == i_count[n] = Cardinality(OnInode(n))

(* Only open descriptors are marked, and none of a call that sleeps.       *)
Marked ==
  \A t \in Task : \A d \in close_on_exec[t] :
    filp[t][d] # NoFile /\ d \notin Pending(t)

(* What a call that sleeps has taken nobody else has.                      *)
OnlyAt(t, d) ==
  /\ d \in Fd /\ filp[t][d] \in File
  /\ \A u \in Task, e \in Fd : filp[u][e] = filp[t][d] => u = t /\ e = d

Alone == \A t \in Task : \A d \in Pending(t) : OnlyAt(t, d)

Calls(t) ==
  /\ at[t].pc = "pipe" => \E d0, d1 \in Fd : d0 # d1 /\ at[t].fds = <<d0, d1>>
  /\ at[t].pc = "open" => \E d \in Fd : at[t].fds = <<d>>
  /\ at[t].pc \notin {"pipe", "open"} => at[t].fds = <<>>

(* No task, no files.                                                      *)
Gone(t) == at[t].pc = "none" => \A d \in Fd : filp[t][d] = NoFile

(* A file that is free or just taken is not yet on the pipe.               *)
Blank == \A f \in File : file_table[f].count = 0 \/ IsReserved(f)
                         => file_table[f].inode = "reg"

InPipe(pc) == pc \in {"read", "write", "read_sleep", "write_sleep", "read_woken",
                      "write_woken", "copy_out", "copy_in"}

(* Who reads or writes the pipe has it open.                               *)
Holder(t) ==
  InPipe(at[t].pc) =>
    \E d \in Fd : filp[t][d] \in File /\ file_table[filp[t][d]].inode = "pipe"

FilesInv ==
  /\ Typed /\ Counted
  /\ InodeCounted("pipe") /\ InodeCounted("reg")
  /\ Marked /\ Alone /\ Blank
  /\ \A t \in Task : Calls(t) /\ Gone(t) /\ Holder(t)

(* A file is reserved when a call that sleeps has it pending.              *)
LEMMA ReservedIs ==
  ASSUME NEW f
  PROVE  f \in Reserved <=> IsReserved(f)
<1> DEFINE S(t) == {filp[t][at[t].fds[i]] : i \in DOMAIN at[t].fds}
<1>1. f \in Reserved <=> \E t \in Task : f \in S(t)
  BY DEF Reserved
<1>2. ASSUME NEW t \in Task
      PROVE  f \in S(t) <=> \E d \in Pending(t) : filp[t][d] = f
  BY DEF Pending
<1> HIDE DEF S
<1> QED
  BY <1>1, <1>2 DEF IsReserved

(* The descriptors of a call, by how many it keeps.                        *)
LEMMA PendingIs ==
  ASSUME NEW t \in Task
  PROVE  /\ at[t].fds = <<>> => Pending(t) = {}
         /\ \A d : at[t].fds = <<d>> => Pending(t) = {d}
         /\ \A d0, d1 : at[t].fds = <<d0, d1>> => Pending(t) = {d0, d1}
<1>1. at[t].fds = <<>> => Pending(t) = {}
  BY DEF Pending
<1>2. ASSUME NEW d, at[t].fds = <<d>>
      PROVE  Pending(t) = {d}
  BY <1>2 DEF Pending
<1>3. ASSUME NEW d0, NEW d1, at[t].fds = <<d0, d1>>
      PROVE  Pending(t) = {d0, d1}
  <2>1. DOMAIN at[t].fds = {1, 2}
    BY <1>3
  <2>2. at[t].fds[1] = d0 /\ at[t].fds[2] = d1
    BY <1>3
  <2> QED
    BY <2>1, <2>2, Zenon DEF Pending
<1> QED
  BY <1>1, <1>2, <1>3

(* Both tables are finite.                                                 *)
LEMMA FdFinite == IsFiniteSet(Fd) /\ IsFiniteSet(File)
BY SizesAssumption, FS_Interval DEF Fd, File

(* A file that nobody counts nobody has.                                   *)
LEMMA FreeIsNowhere ==
  ASSUME Typed, Counted, NEW f \in File, file_table[f].count = 0,
         NEW t \in Task, NEW d \in Fd
  PROVE  filp[t][d] # f
<1>1. IsFiniteSet(Task \X Fd)
  BY FdFinite, TaskAssumption, FS_Product
<1>2. IsFiniteSet(Places(filp, Task, Fd, f))
  BY <1>1, FS_Subset DEF Places
<1>3. Places(filp, Task, Fd, f) = {}
  BY <1>2, FS_EmptySet DEF Counted, Refs
<1>4. filp[t][d] = f => <<t, d>> \in Places(filp, Task, Fd, f)
  BY DEF Places
<1> QED
  BY <1>3, <1>4

(* A file that a descriptor names is counted.                              *)
LEMMA UsedIsCounted ==
  ASSUME Typed, Counted, NEW t \in Task, NEW d \in Fd, filp[t][d] \in File
  PROVE  file_table[filp[t][d]].count > 0
<1>1. file_table[filp[t][d]].count \in Nat
  BY DEF Typed, FileRecord
<1> QED
  BY <1>1, FreeIsNowhere

(* A file that is in one place only is counted once.                       *)
LEMMA AloneIsOne ==
  ASSUME Typed, Counted, NEW t \in Task, NEW d, OnlyAt(t, d)
  PROVE  file_table[filp[t][d]].count = 1
<1> DEFINE f == filp[t][d]
<1>1. Places(filp, Task, Fd, f) = {<<t, d>>}
  BY DEF Places, OnlyAt
<1>2. Cardinality({<<t, d>>}) = 1
  BY FS_Singleton
<1> QED
  BY <1>1, <1>2 DEF Counted, Refs, OnlyAt

(* One row changes, and the counts with it.                                *)
InRowOf(t, f) == Cardinality(InRow(filp[t], Fd, f))

(* The counts stay right when one task changes its descriptors and each    *)
(* count changes by as much as the row of that task.                       *)
LEMMA RowStep ==
  ASSUME Counted, NEW t \in Task, SameBut(t, Task, filp, filp'),
         \A f \in File :
           file_table'[f].count = file_table[f].count - InRowOf(t, f)
                                    + InRowOf(t, f)'
  PROVE  Counted'
<1> SUFFICES ASSUME NEW f \in File
             PROVE  file_table'[f].count = Cardinality(Places(filp', Task, Fd, f))
  BY DEF Counted, Refs
<1>1. Cardinality(Places(filp', Task, Fd, f)) =
        Cardinality(Places(filp, Task, Fd, f))
          - Cardinality(InRow(filp[t], Fd, f))
          + Cardinality(InRow(filp'[t], Fd, f))
  BY FdFinite, TaskAssumption, PlacesChange
<1> QED
  BY <1>1 DEF Counted, Refs, InRowOf

(* What a step does to the other tasks: nothing, or it wakes them.         *)
AtRecord == [pc : Pc, left : Nat, fds : Seq(Fd)]

Alert(pc) == IF pc = "read_sleep" THEN "read_woken"
             ELSE IF pc = "write_sleep" THEN "write_woken" ELSE pc

Leaves(t) == \A u \in Task \ {t} : at'[u] = at[u]

Rouses(t) ==
  \A u \in Task \ {t} : at'[u].pc = Alert(at[u].pc) /\ at'[u].fds = at[u].fds

(* What a task is that has just come to a place.                           *)
LEMMA AtIs ==
  ASSUME NEW pc \in Pc
  PROVE  /\ At(pc) \in AtRecord
         /\ At(pc).pc = pc /\ At(pc).fds = <<>> /\ At(pc).left = 0
BY DEF At, AtRecord

(* wake_up() changes nothing but the place of those that sleep.            *)
LEMMA WokenIs ==
  ASSUME NEW a \in [Task -> AtRecord]
  PROVE  /\ Woken(a) \in [Task -> AtRecord]
         /\ \A u \in Task : /\ Woken(a)[u].pc = Alert(a[u].pc)
                            /\ Woken(a)[u].fds = a[u].fds
<1>1. ASSUME NEW u \in Task
      PROVE  /\ Woken(a)[u] \in AtRecord
             /\ Woken(a)[u].pc = Alert(a[u].pc)
             /\ Woken(a)[u].fds = a[u].fds
  <2>1. CASE a[u].pc = "read_sleep"
    <3>1. Woken(a)[u] = [a[u] EXCEPT !.pc = "read_woken"]
      BY <2>1 DEF Woken
    <3> QED
      BY <2>1, <3>1 DEF Alert, AtRecord, Pc
  <2>2. CASE a[u].pc = "write_sleep"
    <3>1. Woken(a)[u] = [a[u] EXCEPT !.pc = "write_woken"]
      BY <2>2 DEF Woken
    <3> QED
      BY <2>2, <3>1 DEF Alert, AtRecord, Pc
  <2>3. CASE a[u].pc \notin {"read_sleep", "write_sleep"}
    <3>1. Woken(a)[u] = a[u]
      BY <2>3 DEF Woken
    <3> QED
      BY <2>3, <3>1 DEF Alert
  <2> QED
    BY <2>1, <2>2, <2>3
<1>2. Woken(a) = [u \in Task |-> Woken(a)[u]]
  BY DEF Woken
<1> QED
  BY <1>1, <1>2

(* The step of t to r, alone, before waking the others, and after it.      *)
LEMMA OneMoves ==
  ASSUME AtTypes, NEW t \in Task, NEW r \in AtRecord,
         at' = [at EXCEPT ![t] = r]
  PROVE  AtTypes' /\ at'[t] = r /\ Leaves(t)
BY DEF AtTypes, AtRecord, Leaves

(* A step of one task that wakes the sleepers.                             *)
LEMMA MovesAndWakes ==
  ASSUME AtTypes, NEW t \in Task, NEW r \in AtRecord, Alert(r.pc) = r.pc,
         at' = Woken([at EXCEPT ![t] = r])
  PROVE  AtTypes' /\ at'[t].pc = r.pc /\ at'[t].fds = r.fds /\ Rouses(t)
<1> DEFINE a == [at EXCEPT ![t] = r]
<1>1. a \in [Task -> AtRecord] /\ a[t] = r /\ \A u \in Task \ {t} : a[u] = at[u]
  BY DEF AtTypes, AtRecord
<1> HIDE DEF a
<1>2. at' = Woken(a)
  BY DEF a
<1>3. at' \in [Task -> AtRecord]
      /\ \A u \in Task : at'[u].pc = Alert(a[u].pc) /\ at'[u].fds = a[u].fds
  <2>1. /\ Woken(a) \in [Task -> AtRecord]
        /\ \A u \in Task : /\ Woken(a)[u].pc = Alert(a[u].pc)
                           /\ Woken(a)[u].fds = a[u].fds
    BY <1>1, WokenIs
  <2> QED
    BY <1>2, <2>1
<1>4. AtTypes'
  BY <1>3 DEF AtTypes, AtRecord
<1>5. at'[t].pc = r.pc /\ at'[t].fds = r.fds
  BY <1>1, <1>3
<1>6. \A u \in Task \ {t} : at'[u].pc = Alert(at[u].pc) /\ at'[u].fds = at[u].fds
  BY <1>1, <1>3
<1> QED
  BY <1>4, <1>5, <1>6 DEF Rouses

(* A task that wakes the sleepers and then sleeps itself.                  *)
LEMMA WakesAndSleeps ==
  ASSUME AtTypes, NEW t \in Task, NEW pc \in Pc,
         at' = [Woken(at) EXCEPT ![t].pc = pc]
  PROVE  AtTypes' /\ at'[t].pc = pc /\ at'[t].fds = at[t].fds /\ Rouses(t)
<1>1. at \in [Task -> AtRecord]
  BY DEF AtTypes, AtRecord
<1> DEFINE a == Woken(at)
<1>2. a \in [Task -> AtRecord]
      /\ \A u \in Task : a[u].pc = Alert(at[u].pc) /\ a[u].fds = at[u].fds
  BY <1>1, WokenIs
<1>3. at' = [a EXCEPT ![t] = [a[t] EXCEPT !.pc = pc]]
  BY <1>2
<1> HIDE DEF a
<1>4. a[t] \in AtRecord
  BY <1>2
<1> DEFINE r == [a[t] EXCEPT !.pc = pc]
<1>5. r \in AtRecord /\ r.pc = pc /\ r.fds = at[t].fds
  BY <1>2, <1>4 DEF AtRecord
<1> HIDE DEF r
<1>6. at' = [a EXCEPT ![t] = r]
  BY <1>3 DEF r
<1> QED
  BY <1>2, <1>5, <1>6 DEF AtTypes, AtRecord, Rouses

(* What the calls on the pipe do to the tasks.                             *)
Woke(t, pcs) == Rouses(t) /\ at'[t].pc \in pcs

Went(t, pcs) == Leaves(t) /\ at'[t].pc \in pcs

(* A call that returns wakes the sleepers and has its task run on.         *)
LEMMA ReturnAt ==
  ASSUME AtTypes, NEW t \in Task, at[t].fds = <<>>, Return(t)
  PROVE  AtTypes' /\ at'[t].fds = at[t].fds /\ Woke(t, {"user"})
         /\ UNCHANGED filevars
<1>1. At("user") \in AtRecord /\ At("user").pc = "user" /\ At("user").fds = <<>>
  BY AtIs DEF Pc
<1>2. at' = Woken([at EXCEPT ![t] = At("user")]) /\ UNCHANGED filevars
  BY DEF Return
<1>3. Alert("user") = "user"
  BY DEF Alert
<1> QED
  BY <1>1, <1>2, <1>3, MovesAndWakes DEF Woke

(* The loop that waits: it wakes the others, then either the other end is  *)
(* gone and it returns, or it sleeps.                                      *)
LEMMA WaitOrReturnAt ==
  ASSUME AtTypes, NEW t \in Task, at[t].fds = <<>>, NEW sleep \in Pc,
         WaitOrReturn(t, sleep)
  PROVE  /\ AtTypes' /\ at'[t].fds = at[t].fds /\ UNCHANGED filevars
         /\ \/ Woke(t, {"user"})
            \/ Woke(t, {sleep}) /\ i_count["pipe"] = 2 /\ UNCHANGED ringvars
<1>1. CASE Return(t)
  BY <1>1, ReturnAt
<1>2. CASE /\ i_count["pipe"] = 2
           /\ at' = [Woken(at) EXCEPT ![t].pc = sleep]
           /\ UNCHANGED <<filevars, ringvars>>
  BY <1>2, WakesAndSleeps DEF Woke
<1> QED
  BY <1>1, <1>2 DEF WaitOrReturn

(* After a piece the task goes on or is at its page fault.                 *)
LEMMA PieceAt ==
  ASSUME AtTypes, NEW t \in Task, NEW now \in Pc, NEW later \in Pc,
         NEW chars \in Nat, chars <= at[t].left, Piece(t, now, later, chars)
  PROVE  AtTypes' /\ at'[t].fds = at[t].fds /\ Went(t, {now, later})
<1>1. at[t] \in AtRecord
  BY DEF AtTypes, AtRecord
<1>2. PICK pc \in {now, later} :
        at' = [at EXCEPT ![t].pc = pc, ![t].left = @ - chars]
  BY DEF Piece
<1> DEFINE r == [at[t] EXCEPT !.pc = pc, !.left = @ - chars]
<1>3. at' = [at EXCEPT ![t] = r]
  BY <1>2 DEF AtTypes
<1>4. at[t].left - chars \in Nat
  BY <1>1 DEF AtRecord
<1>5. r \in AtRecord /\ r.pc = pc /\ r.fds = at[t].fds
  BY <1>1, <1>4 DEF AtRecord
<1> HIDE DEF r
<1> QED
  BY <1>3, <1>5, OneMoves DEF Went

(* Where read_pipe() leaves its task: it sleeps on an empty pipe only      *)
(* while the pipe has both ends.                                           *)
LEMMA ReadPipeAt ==
  ASSUME AtTypes, RingInv, NEW t \in Task, Calls(t), ReadPipe(t)
  PROVE  /\ AtTypes' /\ at'[t].fds = at[t].fds /\ UNCHANGED filevars
         /\ at[t].pc = "read"
         /\ \/ Woke(t, {"user"})
            \/ /\ Woke(t, {"read_sleep"})
               /\ PipeSize = 0 /\ i_count["pipe"] = 2 /\ UNCHANGED ringvars
            \/ Went(t, {"read", "copy_out"})
<1>1. at[t].pc = "read" /\ at[t].fds = <<>> /\ at[t].left \in Nat
  BY DEF ReadPipe, Calls, AtTypes
<1>2. CASE Return(t)
  BY <1>1, <1>2, ReturnAt
<1>3. CASE PipeSize = 0 /\ WaitOrReturn(t, "read_sleep")
  <2>1. "read_sleep" \in Pc
    BY DEF Pc
  <2> QED
    BY <1>1, <1>3, <2>1, WaitOrReturnAt
<1> DEFINE chars == Chars(t, tail, PipeSize)
<1>4. CASE /\ at[t].left > 0 /\ PipeSize > 0
           /\ Piece(t, "read", "copy_out", chars)
           /\ UNCHANGED <<filevars, head>>
  <2>1. head \in Place /\ tail \in Place
    BY DEF RingInv, RingTypes
  <2>2. PipeSize \in Place
    BY <2>1, SizeIs
  <2>3. chars \in Place /\ chars <= at[t].left
    BY <1>1, <1>4, <2>1, <2>2, CharsIs DEF Left
  <2>4. chars \in Nat
    BY <2>3, SizesAssumption DEF Place
  <2> HIDE DEF chars
  <2>5. "read" \in Pc /\ "copy_out" \in Pc
    BY DEF Pc
  <2>6. AtTypes' /\ at'[t].fds = at[t].fds /\ Went(t, {"read", "copy_out"})
    BY <1>4, <2>3, <2>4, <2>5, PieceAt
  <2> QED
    BY <1>1, <1>4, <2>6
<1>5. \/ Return(t)
      \/ PipeSize = 0 /\ WaitOrReturn(t, "read_sleep")
      \/ /\ at[t].left > 0 /\ PipeSize > 0
         /\ Piece(t, "read", "copy_out", chars)
         /\ UNCHANGED <<filevars, head>>
  BY DEF ReadPipe
<1> QED
  BY <1>2, <1>3, <1>4, <1>5

(* Where write_pipe() leaves its task: it sleeps on a full pipe only while *)
(* the pipe has both ends.                                                 *)
LEMMA WritePipeAt ==
  ASSUME AtTypes, RingInv, NEW t \in Task, Calls(t), WritePipe(t)
  PROVE  /\ AtTypes' /\ at'[t].fds = at[t].fds /\ UNCHANGED filevars
         /\ at[t].pc = "write"
         /\ \/ Woke(t, {"user"})
            \/ /\ Woke(t, {"write_sleep"})
               /\ Room = 0 /\ i_count["pipe"] = 2 /\ UNCHANGED ringvars
            \/ Went(t, {"write", "copy_in"})
<1>1. at[t].pc = "write" /\ at[t].fds = <<>> /\ at[t].left \in Nat
  BY DEF WritePipe, Calls, AtTypes
<1>2. CASE Return(t)
  BY <1>1, <1>2, ReturnAt
<1>3. CASE Room = 0 /\ WaitOrReturn(t, "write_sleep")
  <2>1. "write_sleep" \in Pc
    BY DEF Pc
  <2> QED
    BY <1>1, <1>3, <2>1, WaitOrReturnAt
<1> DEFINE chars == Chars(t, head, Room)
<1>4. CASE /\ at[t].left > 0 /\ Room > 0
           /\ Piece(t, "write", "copy_in", chars)
           /\ UNCHANGED <<filevars, tail>>
  <2>1. head \in Place /\ tail \in Place
    BY DEF RingInv, RingTypes
  <2>2. Room \in Place
    <3>1. PipeSize \in Place
      BY <2>1, SizeIs
    <3> QED
      BY <3>1, SizesAssumption DEF Room, Place
  <2>3. chars \in Place /\ chars <= at[t].left
    BY <1>1, <1>4, <2>1, <2>2, CharsIs DEF Left
  <2>4. chars \in Nat
    BY <2>3, SizesAssumption DEF Place
  <2> HIDE DEF chars
  <2>5. "write" \in Pc /\ "copy_in" \in Pc
    BY DEF Pc
  <2>6. AtTypes' /\ at'[t].fds = at[t].fds /\ Went(t, {"write", "copy_in"})
    BY <1>4, <2>3, <2>4, <2>5, PieceAt
  <2> QED
    BY <1>1, <1>4, <2>6
<1>5. \/ Return(t)
      \/ Room = 0 /\ WaitOrReturn(t, "write_sleep")
      \/ /\ at[t].left > 0 /\ Room > 0
         /\ Piece(t, "write", "copy_in", chars)
         /\ UNCHANGED <<filevars, tail>>
  BY DEF WritePipe
<1> QED
  BY <1>2, <1>3, <1>4, <1>5

(* The end of a sleep, or of a page fault.                                 *)
LEMMA ResumeAt ==
  ASSUME AtTypes, NEW t \in Task, Resume(t) \/ FaultDone(t)
  PROVE  /\ AtTypes' /\ at'[t].fds = at[t].fds /\ UNCHANGED filevars
         /\ UNCHANGED ringvars
         /\ Running = {} /\ Went(t, {"read", "write"})
         /\ at[t].pc \in {"read_woken", "write_woken", "copy_out", "copy_in"}
<1>1. /\ Running = {} /\ UNCHANGED <<filevars, ringvars>>
      /\ at[t].pc \in {"read_woken", "write_woken", "copy_out", "copy_in"}
      /\ \E pc \in {"read", "write"} : at' = [at EXCEPT ![t].pc = pc]
  BY DEF Resume, FaultDone
<1>2. PICK pc \in {"read", "write"} : at' = [at EXCEPT ![t].pc = pc]
  BY <1>1
<1>3. at[t] \in AtRecord
  BY DEF AtTypes, AtRecord
<1> DEFINE r == [at[t] EXCEPT !.pc = pc]
<1>4. at' = [at EXCEPT ![t] = r]
  BY <1>2 DEF AtTypes
<1>5. r \in AtRecord /\ r.pc = pc /\ r.fds = at[t].fds
  BY <1>3 DEF AtRecord, Pc
<1> HIDE DEF r
<1> QED
  BY <1>1, <1>4, <1>5, OneMoves DEF Went

(* read() and write() begin on a descriptor for the pipe.                  *)
LEMMA EnterAt ==
  ASSUME AtTypes, NEW t \in Task, Calls(t), SysRead(t) \/ SysWrite(t)
  PROVE  /\ AtTypes' /\ at'[t].fds = at[t].fds /\ UNCHANGED filevars
         /\ UNCHANGED ringvars
         /\ Running = {} /\ Went(t, {"read", "write"}) /\ at[t].pc = "user"
         /\ \E d \in Fd : filp[t][d] # NoFile
                          /\ file_table[filp[t][d]].inode = "pipe"
<1>1. PICK pc \in {"read", "write"}, mode \in {"r", "w"} : Enter(t, pc, mode)
  BY DEF SysRead, SysWrite
<1>2. PICK fd \in Fd \ FreeFds(t), count \in Counts :
        /\ file_table[filp[t][fd]].inode = "pipe"
        /\ at' = [at EXCEPT ![t] = [At(pc) EXCEPT !.left = count]]
  BY <1>1 DEF Enter
<1>3. pc \in Pc
  BY DEF Pc
<1> DEFINE r == [At(pc) EXCEPT !.left = count]
<1>4. count \in Nat
  BY SizesAssumption
<1>5. r \in AtRecord /\ r.pc = pc /\ r.fds = <<>>
  BY <1>3, <1>4, AtIs DEF AtRecord, At
<1> HIDE DEF r
<1>6. at' = [at EXCEPT ![t] = r]
  BY <1>2 DEF r
<1>7. /\ at[t].pc = "user" /\ Running = {}
      /\ UNCHANGED filevars /\ UNCHANGED ringvars
  BY <1>1 DEF Enter, Call
<1>8. at[t].fds = <<>>
  BY <1>7 DEF Calls
<1> QED
  BY <1>2, <1>5, <1>6, <1>7, <1>8, OneMoves DEF Went, FreeFds

(* A step of a task in a call on the pipe, or into one, leaves the files   *)
(* as they are.                                                            *)
Sleeping == {"none", "open", "pipe"}

SameCall(u) == /\ at'[u].fds = at[u].fds
               /\ \A c \in Sleeping : at'[u].pc = c <=> at[u].pc = c

HasPipe(u) ==
  \E d \in Fd : filp[u][d] \in File /\ file_table[filp[u][d]].inode = "pipe"

(* The files stay right when only places change and whoever is in the pipe *)
(* still has it open.                                                      *)
LEMMA AtStep ==
  ASSUME FilesInv, UNCHANGED filevars, AtTypes',
         \A u \in Task : SameCall(u) /\ (InPipe(at'[u].pc) => HasPipe(u))
  PROVE  FilesInv'
<1>1. /\ filp' = filp /\ close_on_exec' = close_on_exec
      /\ file_table' = file_table /\ i_count' = i_count
  BY DEF filevars
<1>2. \A u \in Task : Pending(u)' = Pending(u)
  BY DEF SameCall, Pending
<1>3. \A f : IsReserved(f)' <=> IsReserved(f)
  BY <1>1, <1>2 DEF IsReserved
<1>4. Typed' /\ Counted'
  BY <1>1 DEF FilesInv, Typed, Counted, Refs
<1>5. \A n : OnInode(n)' = OnInode(n)
  BY <1>1, <1>3 DEF OnInode, IsOn
<1>6. InodeCounted("pipe")' /\ InodeCounted("reg")'
  BY <1>1, <1>5 DEF FilesInv, InodeCounted
<1>7. Marked' /\ Alone' /\ Blank'
  BY <1>1, <1>2, <1>3 DEF FilesInv, Marked, Alone, OnlyAt, Blank
<1>8. ASSUME NEW u \in Task
      PROVE  Calls(u)' /\ Gone(u)' /\ Holder(u)'
  <2>1. Calls(u)'
    BY DEF FilesInv, SameCall, Sleeping, Calls
  <2>2. Gone(u)'
    BY <1>1 DEF FilesInv, SameCall, Sleeping, Gone
  <2>3. Holder(u)'
    BY <1>1 DEF HasPipe, Holder
  <2> QED
    BY <2>1, <2>2, <2>3
<1> QED
  BY <1>4, <1>6, <1>7, <1>8 DEF FilesInv

(* The others, woken or not, stay where they were.                         *)
LEMMA OthersSame ==
  ASSUME NEW t \in Task, NEW u \in Task \ {t}, Leaves(t) \/ Rouses(t)
  PROVE  SameCall(u) /\ (InPipe(at'[u].pc) <=> InPipe(at[u].pc))
<1>1. CASE Leaves(t)
  BY <1>1 DEF Leaves, SameCall
<1>2. CASE Rouses(t)
  BY <1>2 DEF Rouses, SameCall, Sleeping, Alert, InPipe
<1> QED
  BY <1>1, <1>2

(* One task steps inside a call on the pipe, or in or out of one.          *)
LEMMA PipeStep ==
  ASSUME FilesInv, NEW t \in Task, UNCHANGED filevars, AtTypes',
         at'[t].fds = at[t].fds,
         Leaves(t) \/ Rouses(t),
         at[t].pc \notin Sleeping, at'[t].pc \notin Sleeping,
         InPipe(at'[t].pc) => HasPipe(t)
  PROVE  FilesInv'
<1>1. SameCall(t)
  BY DEF SameCall
<1>2. ASSUME NEW u \in Task, u # t
      PROVE  SameCall(u) /\ (InPipe(at'[u].pc) => HasPipe(u))
  BY <1>2, OthersSame DEF FilesInv, Holder, HasPipe
<1> QED
  BY <1>1, <1>2, AtStep

(* No step of read_pipe() or write_pipe() disturbs the files.              *)
LEMMA PipeStepsKeepFiles ==
  ASSUME FilesInv, RingInv, NEW t \in Task,
         \/ ReadPipe(t) \/ WritePipe(t) \/ Resume(t) \/ FaultDone(t)
         \/ SysRead(t) \/ SysWrite(t)
  PROVE  FilesInv'
<1>1. AtTypes /\ Calls(t) /\ Holder(t)
  BY DEF FilesInv, Typed
<1>2. CASE ReadPipe(t)
  <2>1. /\ AtTypes' /\ at'[t].fds = at[t].fds /\ UNCHANGED filevars
        /\ at[t].pc = "read" /\ (Leaves(t) \/ Rouses(t))
        /\ at'[t].pc \in {"user", "read_sleep", "read", "copy_out"}
    BY <1>1, <1>2, ReadPipeAt DEF Woke, Went
  <2>2. HasPipe(t)
    BY <1>1, <2>1 DEF Holder, HasPipe, InPipe
  <2> QED
    BY <2>1, <2>2, PipeStep DEF Sleeping
<1>3. CASE WritePipe(t)
  <2>1. /\ AtTypes' /\ at'[t].fds = at[t].fds /\ UNCHANGED filevars
        /\ at[t].pc = "write" /\ (Leaves(t) \/ Rouses(t))
        /\ at'[t].pc \in {"user", "write_sleep", "write", "copy_in"}
    BY <1>1, <1>3, WritePipeAt DEF Woke, Went
  <2>2. HasPipe(t)
    BY <1>1, <2>1 DEF Holder, HasPipe, InPipe
  <2> QED
    BY <2>1, <2>2, PipeStep DEF Sleeping
<1>4. CASE Resume(t) \/ FaultDone(t)
  <2>1. /\ AtTypes' /\ at'[t].fds = at[t].fds /\ UNCHANGED filevars
        /\ at[t].pc \in {"read_woken", "write_woken", "copy_out", "copy_in"}
        /\ Leaves(t) /\ at'[t].pc \in {"read", "write"}
    BY <1>1, <1>4, ResumeAt DEF Went
  <2>2. HasPipe(t)
    BY <1>1, <2>1 DEF Holder, HasPipe, InPipe
  <2> QED
    BY <2>1, <2>2, PipeStep DEF Sleeping
<1>5. CASE SysRead(t) \/ SysWrite(t)
  <2>1. /\ AtTypes' /\ at'[t].fds = at[t].fds /\ UNCHANGED filevars
        /\ at[t].pc = "user" /\ Leaves(t) /\ at'[t].pc \in {"read", "write"}
        /\ \E d \in Fd : filp[t][d] # NoFile
                         /\ file_table[filp[t][d]].inode = "pipe"
    BY <1>1, <1>5, EnterAt DEF Went
  <2>2. HasPipe(t)
    BY <2>1 DEF HasPipe, FilesInv, Typed
  <2> QED
    BY <2>1, <2>2, PipeStep DEF Sleeping
<1> QED
  BY <1>2, <1>3, <1>4, <1>5

-----------------------------------------------------------------------------
(* Closing.                                                                *)

(* A file held at none of some descriptors.                                *)
LEMMA HeldNone ==
  ASSUME NEW t \in Task, NEW D \in SUBSET Fd, NEW f
  PROVE  Held(t, D, f) = 0 <=> \A d \in D : filp[t][d] # f
<1> DEFINE X == {d \in D : filp[t][d] = f}
<1>1. IsFiniteSet(X)
  <2>1. IsFiniteSet(D)
    BY FdFinite, FS_Subset
  <2> QED
    BY <2>1, FS_Subset
<1>2. Cardinality(X) = 0 <=> X = {}
  BY <1>1, FS_EmptySet
<1> QED
  BY <1>2 DEF Held

(* The row of a task in two parts, neither with more than the count.       *)
LEMMA HeldIs ==
  ASSUME Counted, NEW t \in Task, NEW D \in SUBSET Fd, NEW f \in File
  PROVE  /\ Held(t, D, f) \in Nat /\ Held(t, Fd \ D, f) \in Nat
         /\ InRowOf(t, f) = Held(t, D, f) + Held(t, Fd \ D, f)
         /\ Held(t, D, f) + Held(t, Fd \ D, f) <= file_table[f].count
<1> DEFINE X == {d \in D : filp[t][d] = f}
           Y == {d \in Fd \ D : filp[t][d] = f}
           row == {d \in Fd : filp[t][d] = f}
<1>1. IsFiniteSet(X) /\ IsFiniteSet(Y)
  <2>1. IsFiniteSet(D) /\ IsFiniteSet(Fd \ D)
    BY FdFinite, FS_Subset
  <2> QED
    BY <2>1, FS_Subset
<1>2. Cardinality(X) \in Nat /\ Cardinality(Y) \in Nat
  BY <1>1, FS_CardinalityType
<1>3. row = X \cup Y /\ X \cap Y = {}
  OBVIOUS
<1>4. Cardinality(row) = Cardinality(X) + Cardinality(Y)
  <2> HIDE DEF X, Y, row
  <2>1. Cardinality(X \cap Y) = 0
    BY <1>3, FS_EmptySet
  <2>2. Cardinality(X \cup Y)
          = Cardinality(X) + Cardinality(Y) - Cardinality(X \cap Y)
    BY <1>1, FS_Union
  <2> QED
    BY <1>2, <1>3, <2>1, <2>2
<1>5. /\ Cardinality(OtherRows(filp, Task, Fd, f, t)) \in Nat
      /\ Cardinality(InRow(filp[t], Fd, f)) \in Nat
      /\ file_table[f].count =
           Cardinality(OtherRows(filp, Task, Fd, f, t))
             + Cardinality(InRow(filp[t], Fd, f))
  BY FdFinite, TaskAssumption, PlacesRow DEF Counted, Refs
<1>6. InRow(filp[t], Fd, f) = row
  BY DEF InRow
<1>7. Held(t, D, f) = Cardinality(X) /\ Held(t, Fd \ D, f) = Cardinality(Y)
  BY DEF Held
<1> HIDE DEF X, Y, row
<1> QED
  BY <1>2, <1>4, <1>5, <1>6, <1>7 DEF InRowOf

(* What the files are after it.                                            *)
ClosedTable(t, D) ==
  [f \in File |-> IF f \in LastClosed(t, D) THEN Unused
                  ELSE [file_table[f] EXCEPT !.count = @ - Held(t, D, f)]]

(* What closing the descriptors D makes of a file: its count is less by as *)
(* many as D held, and at 0 the inode is given up.                         *)
LEMMA ClosedFile ==
  ASSUME Typed, Counted, NEW t \in Task, NEW D \in SUBSET Fd, NEW f \in File
  PROVE  LET g == ClosedTable(t, D)[f]
         IN /\ g \in FileRecord
            /\ g.count = file_table[f].count - Held(t, D, f)
            /\ f \in LastClosed(t, D) =>
                 g.count = 0 /\ g.inode = "reg" /\ file_table[f].count > 0
            /\ f \notin LastClosed(t, D) =>
                 g.inode = file_table[f].inode
                 /\ (g.count > 0 <=> file_table[f].count > 0)
<1> DEFINE n == Held(t, D, f)
           g == ClosedTable(t, D)[f]
           e == file_table[f]
<1>1. n \in Nat /\ n <= e.count /\ e \in FileRecord /\ e.count \in Nat
  <2>1. e \in FileRecord /\ e.count \in Nat
    BY DEF Typed, FileRecord
  <2>2. /\ Held(t, D, f) \in Nat /\ Held(t, Fd \ D, f) \in Nat
        /\ Held(t, D, f) + Held(t, Fd \ D, f) <= file_table[f].count
    BY HeldIs
  <2> QED
    BY <2>1, <2>2
<1>2. CASE f \in LastClosed(t, D)
  <2>1. g = Unused /\ e.count = n /\ e.count > 0
    BY <1>2 DEF ClosedTable, LastClosed
  <2> HIDE DEF g, e, n
  <2>2. g.count = 0 /\ g.inode = "reg" /\ g \in FileRecord
    BY <2>1 DEF Unused, FileRecord
  <2> QED
    BY <1>1, <1>2, <2>1, <2>2 DEF g, e, n
<1>3. CASE f \notin LastClosed(t, D)
  <2>1. g = [e EXCEPT !.count = @ - n]
    BY <1>3 DEF ClosedTable
  <2>2. e.count > 0 => e.count # n
    BY <1>3 DEF LastClosed
  <2> HIDE DEF g, e, n
  <2>3. e.count - n \in Nat
    BY <1>1
  <2>4. g \in FileRecord /\ g.count = e.count - n /\ g.inode = e.inode
    BY <1>1, <2>1, <2>3 DEF FileRecord
  <2>5. g.count > 0 <=> e.count > 0
    BY <1>1, <2>2, <2>4
  <2> QED
    BY <1>3, <2>4, <2>5 DEF g, e, n
<1> QED
  BY <1>2, <1>3

(* The inodes that are given up with it.                                   *)
GivenUp(S, n) == {f \in S : file_table[f].inode = n}

(* The count of an inode after iput() for the files that went to 0.        *)
LEMMA InodesGivenUp ==
  ASSUME NEW n \in {"pipe", "reg"}, InodeCounted(n), NEW S \in SUBSET File,
         GivenUp(S, n) \subseteq OnInode(n),
         OnInode(n)' = OnInode(n) \ GivenUp(S, n),
         i_count'[n] = i_count[n] - Cardinality(GivenUp(S, n))
  PROVE  /\ InodeCounted(n)' /\ i_count'[n] \in Nat
         /\ GivenUp(S, n) = {} => i_count'[n] = i_count[n]
<1> DEFINE A == OnInode(n)
           B == GivenUp(S, n)
<1>1. IsFiniteSet(A) /\ IsFiniteSet(B)
  <2>1. A \subseteq File /\ B \subseteq File
    BY DEF OnInode, GivenUp
  <2> QED
    BY <2>1, FdFinite, FS_Subset
<1> HIDE DEF A, B
<1>2. Cardinality(A) \in Nat /\ Cardinality(B) \in Nat
  BY <1>1, FS_CardinalityType
<1>3. A \cap B = B
  BY DEF A, B
<1>4. Cardinality(A \ B) = Cardinality(A) - Cardinality(B)
  <2>1. Cardinality(A \ B) = Cardinality(A) - Cardinality(A \cap B)
    BY <1>1, FS_Difference
  <2> QED
    BY <1>3, <2>1
<1>5. i_count'[n] = i_count[n] - Cardinality(B)
      /\ OnInode(n)' = A \ B /\ i_count[n] = Cardinality(A)
  BY DEF A, B, InodeCounted
<1>6. InodeCounted(n)' /\ i_count'[n] \in Nat
  <2>1. IsFiniteSet(A \ B)
    BY <1>1, FS_Difference
  <2>2. Cardinality(A \ B) \in Nat
    BY <2>1, FS_CardinalityType
  <2> QED
    BY <1>4, <1>5, <2>2 DEF InodeCounted
<1>7. B = {} => i_count'[n] = i_count[n]
  <2>1. B = {} => Cardinality(B) = 0
    BY FS_EmptySet
  <2> QED
    BY <1>2, <1>5, <2>1
<1> QED
  BY <1>6, <1>7 DEF B

(* The same files are reserved when no pending descriptor changes.         *)
LEMMA ReservedSame ==
  ASSUME \A u \in Task : Pending(u)' = Pending(u),
         \A u \in Task : \A d \in Pending(u) : filp'[u][d] = filp[u][d]
  PROVE  \A f : IsReserved(f)' <=> IsReserved(f)
<1> SUFFICES ASSUME NEW f PROVE IsReserved(f)' <=> IsReserved(f)
  OBVIOUS
<1>1. IsReserved(f)' <=> \E u \in Task : \E d \in Pending(u)' : filp'[u][d] = f
  BY DEF IsReserved
<1>2. IsReserved(f) <=> \E u \in Task : \E d \in Pending(u) : filp[u][d] = f
  BY DEF IsReserved
<1>3. ASSUME NEW u \in Task
      PROVE  (\E d \in Pending(u)' : filp'[u][d] = f)
               <=> \E d \in Pending(u) : filp[u][d] = f
  <2>1. Pending(u)' = Pending(u)
        /\ \A d \in Pending(u) : filp'[u][d] = filp[u][d]
    OBVIOUS
  <2> QED
    BY <2>1
<1> QED
  BY <1>1, <1>2, <1>3

(* What somebody else has, too, is not closed for good.                    *)
LEMMA HeldElsewhere ==
  ASSUME Counted, NEW t \in Task, NEW D \in SUBSET Fd, NEW u \in Task \ {t},
         NEW d \in Fd, filp[u][d] \in File
  PROVE  filp[u][d] \notin LastClosed(t, D)
<1> DEFINE f == filp[u][d]
           others == OtherRows(filp, Task, Fd, f, t)
<1>1. /\ Held(t, D, f) \in Nat /\ Held(t, Fd \ D, f) \in Nat
      /\ InRowOf(t, f) = Held(t, D, f) + Held(t, Fd \ D, f)
  BY HeldIs
<1>2. /\ IsFiniteSet(Places(filp, Task, Fd, f))
      /\ Cardinality(others) \in Nat
      /\ file_table[f].count = Cardinality(others) + InRowOf(t, f)
  BY FdFinite, TaskAssumption, PlacesRow DEF Counted, Refs, InRowOf
<1>3. IsFiniteSet(others)
  BY <1>2, FS_Subset DEF OtherRows
<1>4. <<u, d>> \in others
  BY DEF OtherRows, Places
<1>5. Cardinality(others) # 0
  BY <1>3, <1>4, FS_EmptySet
<1> HIDE DEF f, others
<1>6. file_table[f].count # Held(t, D, f)
  BY <1>1, <1>2, <1>5
<1> QED
  BY <1>6 DEF LastClosed, f

(* What a call that sleeps has taken is nobody's to close.                 *)
LEMMA ClosedIsOpen ==
  ASSUME Typed, Counted, Alone, NEW t \in Task, Pending(t) = {},
         NEW D \in SUBSET Fd, NEW f \in LastClosed(t, D)
  PROVE  f \in File /\ ~IsReserved(f)
<1>1. f \in File /\ file_table[f].count > 0 /\ file_table[f].count = Held(t, D, f)
  BY DEF LastClosed
<1>2. ~\A d \in D : filp[t][d] # f
  <2>1. Held(t, D, f) = 0 <=> \A d \in D : filp[t][d] # f
    BY <1>1, HeldNone
  <2> QED
    BY <1>1, <2>1
<1>3. PICK d \in D : filp[t][d] = f
  BY <1>2
<1>4. ASSUME NEW u \in Task, NEW e \in Pending(u), filp[u][e] = f
      PROVE  FALSE
  <2>1. u = t
    BY <1>3, <1>4 DEF Alone, OnlyAt
  <2> QED
    BY <2>1, <1>4
<1> QED
  BY <1>1, <1>4 DEF IsReserved

(* A step that changes only who has what is held open.                     *)
SameFile(f) == /\ file_table'[f].inode = file_table[f].inode
               /\ (file_table'[f].count > 0 <=> file_table[f].count > 0)

(* What t has open and is not about to fill in nobody else is.             *)
LEMMA OpenIsFilled ==
  ASSUME FilesInv, NEW t \in Task, at[t].pc = "user", NEW d \in Fd,
         filp[t][d] # NoFile
  PROVE  /\ filp[t][d] \in File /\ file_table[filp[t][d]].count > 0
         /\ ~IsReserved(filp[t][d])
<1>1. Typed /\ Counted /\ Alone
  BY DEF FilesInv
<1>2. Pending(t) = {}
  BY PendingIs DEF FilesInv, Calls
<1>3. filp[t][d] \in File
  BY <1>1 DEF Typed
<1>4. ASSUME NEW u \in Task, NEW e \in Pending(u), filp[u][e] = filp[t][d]
      PROVE  FALSE
  BY <1>1, <1>2, <1>4 DEF Alone, OnlyAt
<1> QED
  BY <1>1, <1>3, <1>4, UsedIsCounted DEF IsReserved

(* The files of closed are gone, and t goes to a[t]; the others stay where *)
(* they are, or are woken.                                                 *)
FileCloses(f, closed) ==
  /\ f \in closed => /\ file_table'[f].count = 0 /\ file_table'[f].inode = "reg"
                     /\ file_table[f].count > 0
  /\ f \notin closed => SameFile(f)

RowCloses(t) ==
  /\ \A u \in Task \ {t} : filp'[u] = filp[u]
  /\ \A d \in Fd : filp'[t][d] = NoFile \/ ~IsReserved(filp'[t][d])

MarkCloses(t) ==
  /\ \A u \in Task \ {t} : close_on_exec'[u] = close_on_exec[u]
  /\ \A d \in close_on_exec'[t] : filp'[t][d] # NoFile

(* A task lets go of descriptors and the inodes of the files that nobody   *)
(* has any more: the files stay right, and closing the last end of a pipe  *)
(* wakes whoever waits at the other.                                       *)
LEMMA CloseStep ==
  ASSUME FilesInv, NEW t \in Task, at[t].pc = "user", NEW D \in SUBSET Fd,
         NEW a \in [Task -> AtRecord], a[t].fds = <<>>,
         a[t].pc \in {"user", "none"},
         a[t].pc = "none" => \A d \in Fd : filp'[t][d] = NoFile,
         \A u \in Task \ {t} : a[u] = at[u],
         Iput(LastClosed(t, D), a),
         filp' \in [Task -> [Fd -> File \cup {NoFile}]],
         file_table' \in [File -> FileRecord],
         close_on_exec' \in [Task -> SUBSET Fd],
         Counted', RowCloses(t), MarkCloses(t),
         \A f \in File : FileCloses(f, LastClosed(t, D))
  PROVE  /\ FilesInv' /\ at'[t].pc = a[t].pc
         /\ Rouses(t) \/ (Leaves(t) /\ i_count'["pipe"] = i_count["pipe"])
<1> DEFINE closed == LastClosed(t, D)
<1>1. Typed /\ Counted /\ Alone /\ AtTypes
  BY DEF FilesInv, Typed
<1>2. Pending(t) = {} /\ at[t].fds = <<>>
  BY PendingIs DEF FilesInv, Calls
<1>3. /\ i_count' = [n \in DOMAIN i_count |->
                       i_count[n] - Cardinality(GivenUp(closed, n))]
      /\ at' = IF \E f \in closed : file_table[f].inode = "pipe"
               THEN Woken(a) ELSE a
  BY Zenon DEF Iput, GivenUp
<1>4. /\ \A u \in Task \ {t} : filp'[u] = filp[u]
      /\ \A d \in Fd : filp'[t][d] = NoFile \/ ~IsReserved(filp'[t][d])
  BY DEF RowCloses
<1>5. ASSUME NEW u \in Task
      PROVE  /\ at'[u].fds = at[u].fds
             /\ u # t => at'[u].pc = at[u].pc \/ at'[u].pc = Alert(at[u].pc)
             /\ u = t => at'[u].pc = a[t].pc
  <2>1. a[u].fds = at[u].fds
    BY <1>2
  <2>2. u # t => a[u] = at[u]
    OBVIOUS
  <2>3. CASE at' = a
    BY <2>1, <2>2, <2>3
  <2>4. CASE at' = Woken(a)
    <3>1. at'[u].pc = Alert(a[u].pc) /\ at'[u].fds = a[u].fds
      BY <2>4, WokenIs
    <3>2. Alert(a[t].pc) = a[t].pc
      BY DEF Alert
    <3> QED
      BY <2>1, <2>2, <3>1, <3>2
  <2> QED
    BY <1>3, <2>3, <2>4
<1>6. AtTypes'
  BY <1>3, WokenIs DEF AtTypes, AtRecord
<1>7. ASSUME NEW f \in File
      PROVE  /\ f \in closed =>
                  file_table'[f].count = 0 /\ file_table'[f].inode = "reg"
                  /\ file_table[f].count > 0
             /\ f \notin closed =>
                  file_table'[f].inode = file_table[f].inode
                  /\ (file_table'[f].count > 0 <=> file_table[f].count > 0)
  BY DEF FileCloses, SameFile
<1>8. \A u \in Task : Pending(u)' = Pending(u)
  BY <1>5 DEF Pending
<1>9. \A f : IsReserved(f)' <=> IsReserved(f)
  <2>1. \A u \in Task : \A d \in Pending(u) : filp'[u][d] = filp[u][d]
    BY <1>2, <1>4
  <2> QED
    BY <1>8, <2>1, ReservedSame
<1>10. ASSUME NEW f \in closed
       PROVE  f \in File /\ ~IsReserved(f)
  BY <1>1, <1>2, ClosedIsOpen
<1>11. ASSUME NEW n \in {"pipe", "reg"}
       PROVE  /\ InodeCounted(n)' /\ i_count'[n] \in Nat
              /\ GivenUp(closed, n) = {} => i_count'[n] = i_count[n]
  <2>1. i_count'[n] = i_count[n] - Cardinality(GivenUp(closed, n))
    BY <1>1, <1>3 DEF Typed
  <2>2. closed \subseteq File
    BY DEF LastClosed
  <2> HIDE DEF closed
  <2>3. ASSUME NEW f \in File
        PROVE  /\ IsOn(f, n)' <=> IsOn(f, n) /\ f \notin closed
               /\ f \in closed => file_table[f].count > 0
    BY <1>7, <1>9 DEF IsOn
  <2>4. OnInode(n)' = OnInode(n) \ GivenUp(closed, n)
    BY <2>3 DEF OnInode, GivenUp, IsOn
  <2>5. GivenUp(closed, n) \subseteq OnInode(n)
    BY <1>10, <2>2, <2>3 DEF OnInode, GivenUp, IsOn
  <2>6. InodeCounted(n)
    BY DEF FilesInv
  <2> QED
    BY <2>1, <2>2, <2>4, <2>5, <2>6, InodesGivenUp
<1>12. Typed'
  <2>1. i_count' \in [{"pipe", "reg"} -> Nat]
    <3>1. i_count' = [n \in {"pipe", "reg"} |-> i_count'[n]]
      BY <1>1, <1>3 DEF Typed
    <3> QED
      BY <1>11, <3>1
  <2> QED
    BY <1>6, <2>1 DEF Typed
<1>13. Marked'
  <2> SUFFICES ASSUME NEW u \in Task, NEW d \in close_on_exec'[u]
               PROVE  filp'[u][d] # NoFile /\ d \notin Pending(u)
    BY <1>8 DEF Marked
  <2>1. CASE u # t
    BY <2>1, <1>4 DEF FilesInv, Marked, MarkCloses
  <2>2. CASE u = t
    BY <2>2, <1>2 DEF MarkCloses
  <2> QED
    BY <2>1, <2>2
<1>14. Alone'
  <2> SUFFICES ASSUME NEW u \in Task, NEW d \in Pending(u)
               PROVE  OnlyAt(u, d)'
    BY <1>8 DEF Alone
  <2>1. u # t /\ OnlyAt(u, d)
    BY <1>1, <1>2 DEF Alone
  <2>2. filp'[u][d] = filp[u][d] /\ filp[u][d] # NoFile /\ IsReserved(filp[u][d])
    BY <1>4, <2>1, SizesAssumption DEF OnlyAt, File, NoFile, IsReserved
  <2>3. ASSUME NEW e \in Fd
        PROVE  filp'[t][e] # filp[u][d]
    BY <1>4, <2>2
  <2> QED
    BY <1>4, <2>1, <2>2, <2>3 DEF OnlyAt
<1>15. Blank'
  <2> SUFFICES ASSUME NEW f \in File,
                      file_table'[f].count = 0 \/ IsReserved(f)
               PROVE  file_table'[f].inode = "reg"
    BY <1>9 DEF Blank
  <2>1. CASE f \in closed
    BY <2>1, <1>7
  <2>2. CASE f \notin closed
    <3>1. file_table[f].count \in Nat
      BY <1>1 DEF Typed, FileRecord
    <3>2. file_table[f].count = 0 \/ IsReserved(f)
      BY <2>2, <3>1, <1>7
    <3> QED
      BY <2>2, <3>2, <1>7 DEF FilesInv, Blank
  <2> QED
    BY <2>1, <2>2
<1>16. ASSUME NEW u \in Task
       PROVE  Calls(u)' /\ Gone(u)' /\ Holder(u)'
  <2>1. Calls(u) /\ Gone(u) /\ Holder(u)
    BY DEF FilesInv
  <2>2. CASE u = t
    <3>1. at'[u].pc = a[t].pc /\ at'[u].fds = <<>>
      BY <1>2, <1>5, <2>2
    <3> QED
      BY <2>2, <3>1 DEF Calls, Gone, Holder, InPipe
  <2>3. CASE u # t
    <3>1. /\ \A c \in Sleeping : at'[u].pc = c <=> at[u].pc = c
          /\ InPipe(at'[u].pc) <=> InPipe(at[u].pc)
      BY <1>5, <2>3 DEF Sleeping, Alert, InPipe
    <3>2. Calls(u)'
      BY <2>1, <3>1, <1>5 DEF Calls, Sleeping
    <3>3. Gone(u)'
      BY <2>1, <2>3, <3>1, <1>4 DEF Gone, Sleeping
    <3>4. Holder(u)'
      <4> SUFFICES ASSUME InPipe(at[u].pc)
                   PROVE  \E d \in Fd : /\ filp'[u][d] \in File
                                        /\ file_table'[filp'[u][d]].inode = "pipe"
        BY <3>1 DEF Holder
      <4>1. PICK d \in Fd : filp[u][d] \in File
                            /\ file_table[filp[u][d]].inode = "pipe"
        BY <2>1 DEF Holder
      <4>2. filp[u][d] \notin closed
        BY <1>1, <2>3, <4>1, HeldElsewhere
      <4>3. filp'[u][d] = filp[u][d]
        BY <1>4, <2>3
      <4> HIDE DEF closed
      <4> QED
        BY <1>7, <4>1, <4>2, <4>3
    <3> QED
      BY <3>2, <3>3, <3>4
  <2> QED
    BY <2>2, <2>3
<1>17. FilesInv'
  BY <1>11, <1>12, <1>13, <1>14, <1>15, <1>16 DEF FilesInv
<1>18. Rouses(t) \/ (Leaves(t) /\ i_count'["pipe"] = i_count["pipe"])
  <2>1. CASE GivenUp(closed, "pipe") = {}
    <3>1. at' = a
      BY <1>3, <2>1 DEF GivenUp
    <3> QED
      BY <1>11, <2>1, <3>1 DEF Leaves
  <2>2. CASE GivenUp(closed, "pipe") # {}
    <3>1. at' = Woken(a)
      BY <1>3, <2>2 DEF GivenUp
    <3>2. \A u \in Task : at'[u].pc = Alert(a[u].pc) /\ at'[u].fds = a[u].fds
      BY <3>1, WokenIs
    <3> QED
      BY <3>2 DEF Rouses
  <2> QED
    BY <2>1, <2>2
<1> QED
  BY <1>5, <1>17, <1>18

(* sys_close() of D by t: the tasks go to a, or on from there if woken.    *)
StaysOpen(t, D) ==
  /\ \A u \in Task \ {t} : close_on_exec'[u] = close_on_exec[u]
  /\ close_on_exec'[t] \subseteq close_on_exec[t] \ D

(* close(), execve() and exit() are such steps.                            *)
LEMMA CloseAllKeeps ==
  ASSUME FilesInv, NEW t \in Task, at[t].pc = "user", NEW D \in SUBSET Fd,
         NEW a \in [Task -> AtRecord], a[t].fds = <<>>,
         a[t].pc = "user" \/ (a[t].pc = "none" /\ D = Fd),
         \A u \in Task \ {t} : a[u] = at[u],
         CloseAll(t, D, a), close_on_exec' \in [Task -> SUBSET Fd],
         StaysOpen(t, D)
  PROVE  /\ FilesInv' /\ at'[t].pc = a[t].pc
         /\ Rouses(t) \/ (Leaves(t) /\ i_count'["pipe"] = i_count["pipe"])
<1> DEFINE closed == LastClosed(t, D)
<1>1. Typed /\ Counted /\ Alone
  BY DEF FilesInv, Typed
<1>2. Pending(t) = {}
  BY PendingIs DEF FilesInv, Calls
<1>3. /\ filp' = [filp EXCEPT ![t] = [d \in Fd |-> IF d \in D THEN NoFile
                                                    ELSE filp[t][d]]]
      /\ file_table' = ClosedTable(t, D)
      /\ Iput(closed, a)
  BY <1>1, Zenon DEF CloseAll, ClosedTable
<1>4. /\ filp' \in [Task -> [Fd -> File \cup {NoFile}]]
      /\ \A u \in Task \ {t} : filp'[u] = filp[u]
      /\ \A d \in Fd : filp'[t][d] = IF d \in D THEN NoFile ELSE filp[t][d]
  BY <1>1, <1>3 DEF Typed
<1>5. ASSUME NEW f \in File
      PROVE  /\ file_table'[f] \in FileRecord
             /\ file_table'[f].count = file_table[f].count - Held(t, D, f)
             /\ f \in closed =>
                  file_table'[f].count = 0 /\ file_table'[f].inode = "reg"
                  /\ file_table[f].count > 0
             /\ f \notin closed =>
                  file_table'[f].inode = file_table[f].inode
                  /\ (file_table'[f].count > 0 <=> file_table[f].count > 0)
  BY <1>1, <1>3, ClosedFile
<1>6. file_table' \in [File -> FileRecord]
  <2>1. file_table' = [f \in File |-> file_table'[f]]
    BY <1>3 DEF ClosedTable
  <2> QED
    BY <1>5, <2>1
<1>7. Counted'
  <2>1. ASSUME NEW f \in File
        PROVE  file_table'[f].count = file_table[f].count - InRowOf(t, f)
                                        + InRowOf(t, f)'
    <3>1. InRow(filp'[t], Fd, f) = {d \in Fd \ D : filp[t][d] = f}
      BY <1>4, SizesAssumption DEF InRow, File, NoFile
    <3>2. InRowOf(t, f)' = Held(t, Fd \ D, f)
      BY <3>1 DEF InRowOf, Held
    <3>3. /\ Held(t, D, f) \in Nat /\ Held(t, Fd \ D, f) \in Nat
          /\ InRowOf(t, f) = Held(t, D, f) + Held(t, Fd \ D, f)
      BY <1>1, HeldIs
    <3>4. file_table[f].count \in Nat
      BY <1>1 DEF Typed, FileRecord
    <3> QED
      BY <1>5, <3>2, <3>3, <3>4
  <2>2. SameBut(t, Task, filp, filp')
    BY <1>4 DEF SameBut
  <2> QED
    BY <1>1, <2>1, <2>2, RowStep
<1>8. RowCloses(t)
  <2>1. ASSUME NEW d \in Fd, filp[t][d] # NoFile
        PROVE  ~IsReserved(filp[t][d])
    BY <2>1, OpenIsFilled
  <2> QED
    BY <1>4, <2>1 DEF RowCloses
<1>9. MarkCloses(t)
  <2>1. ASSUME NEW d \in close_on_exec'[t]
        PROVE  filp'[t][d] # NoFile
    <3>1. d \in close_on_exec[t] /\ d \notin D /\ d \in Fd
      BY <1>1 DEF StaysOpen, Typed
    <3> QED
      BY <3>1, <1>4 DEF FilesInv, Marked
  <2> QED
    BY <2>1 DEF MarkCloses, StaysOpen
<1>10. \A f \in File : FileCloses(f, closed)
  BY <1>5 DEF FileCloses, SameFile
<1>11. a[t].pc \in {"user", "none"}
       /\ (a[t].pc = "none" => \A d \in Fd : filp'[t][d] = NoFile)
  BY <1>4
<1> HIDE DEF closed
<1>12. Iput(LastClosed(t, D), a) /\ \A f \in File : FileCloses(f, LastClosed(t, D))
  BY <1>3, <1>10 DEF closed
<1> QED
  BY <1>4, <1>6, <1>7, <1>8, <1>9, <1>11, <1>12, CloseStep

(* A step that changes only who has what is held open.                     *)
LEMMA KeepsInodes ==
  ASSUME FilesInv, Typed', i_count' = i_count,
         \A f : IsReserved(f)' <=> IsReserved(f),
         \A f \in File : SameFile(f)
  PROVE  InodeCounted("pipe")' /\ InodeCounted("reg")' /\ Blank'
<1>1. ASSUME NEW f \in File
      PROVE  /\ \A n : IsOn(f, n)' <=> IsOn(f, n)
             /\ file_table'[f].count = 0 <=> file_table[f].count = 0
  <2>1. file_table[f].count \in Nat /\ file_table'[f].count \in Nat
    BY DEF FilesInv, Typed, FileRecord
  <2> QED
    BY <2>1 DEF IsOn, SameFile
<1>2. \A n : OnInode(n)' = OnInode(n)
  BY <1>1 DEF OnInode
<1>3. InodeCounted("pipe")' /\ InodeCounted("reg")'
  BY <1>2 DEF FilesInv, InodeCounted
<1>4. Blank'
  BY <1>1 DEF FilesInv, Blank, SameFile
<1> QED
  BY <1>3, <1>4

(* One descriptor changes from one file to another.                        *)
SameElse(r, h, P) == \A e \in Fd \ P : h[e] = r[e]

(* How often a file is in a row after one place has changed.               *)
LEMMA RowChange ==
  ASSUME NEW r, NEW h, NEW d \in Fd, SameElse(r, h, {d}), NEW f
  PROVE  Cardinality(InRow(h, Fd, f)) =
           Cardinality(InRow(r, Fd, f)) - One(r[d], f) + One(h[d], f)
<1> DEFINE rr == [e \in Fd |-> r[e]]
           hh == [e \in Fd |-> h[e]]
<1>1. Occurs(rr, f) = Cardinality(InRow(r, Fd, f))
  <2>1. {x \in DOMAIN rr : rr[x] = f} = InRow(r, Fd, f)
    BY DEF InRow
  <2> QED
    BY <2>1 DEF Occurs
<1>2. Occurs(hh, f) = Cardinality(InRow(h, Fd, f))
  <2>1. {x \in DOMAIN hh : hh[x] = f} = InRow(h, Fd, f)
    BY DEF InRow
  <2> QED
    BY <2>1 DEF Occurs
<1>3. /\ DOMAIN rr = Fd /\ DOMAIN hh = Fd
      /\ \A e \in Fd \ {d} : hh[e] = rr[e]
      /\ rr[d] = r[d] /\ hh[d] = h[d]
  BY DEF SameElse
<1> HIDE DEF rr, hh
<1>4. Occurs(hh, f) = Occurs(rr, f) - One(rr[d], f) + One(hh[d], f)
  BY <1>3, FdFinite, OccursChange
<1> QED
  BY <1>1, <1>2, <1>3, <1>4

(* The counts stay right when one descriptor changes and the counts of its *)
(* two files with it.                                                      *)
LEMMA DescriptorStep ==
  ASSUME Typed, Counted, NEW t \in Task, NEW d \in Fd,
         SameBut(t, Task, filp, filp'),
         \A e \in Fd \ {d} : filp'[t][e] = filp[t][e],
         \A f \in File : file_table'[f].count =
           file_table[f].count - One(filp[t][d], f) + One(filp'[t][d], f)
  PROVE  Counted'
<1>1. ASSUME NEW f \in File
      PROVE  file_table'[f].count = file_table[f].count - InRowOf(t, f)
                                      + InRowOf(t, f)'
  <2>1. InRowOf(t, f)' = InRowOf(t, f) - One(filp[t][d], f) + One(filp'[t][d], f)
    <3>1. Cardinality(InRow(filp'[t], Fd, f)) =
            Cardinality(InRow(filp[t], Fd, f))
              - One(filp[t][d], f) + One(filp'[t][d], f)
      <4> DEFINE r == filp[t]
                 h == filp'[t]
      <4>1. SameElse(r, h, {d})
        BY DEF SameElse
      <4> HIDE DEF r, h
      <4>2. Cardinality(InRow(h, Fd, f)) =
              Cardinality(InRow(r, Fd, f)) - One(r[d], f) + One(h[d], f)
        BY <4>1, RowChange
      <4> QED
        BY <4>2 DEF r, h
    <3> QED
      BY <3>1 DEF InRowOf, InRow
  <2>2. InRowOf(t, f) \in Nat
    BY FdFinite, TaskAssumption, PlacesRow DEF InRowOf
  <2>3. One(filp[t][d], f) \in Nat /\ One(filp'[t][d], f) \in Nat
    BY DEF One
  <2>4. file_table[f].count \in Nat
    BY DEF Typed, FileRecord
  <2> QED
    BY <2>1, <2>2, <2>3, <2>4
<1> QED
  BY <1>1, RowStep

(* The lowest free descriptor is free.                                     *)
LEMMA FreeFdIs ==
  ASSUME NEW t, NEW S \in SUBSET FreeFds(t), S # {}
  PROVE  Min(S) \in Fd /\ filp[t][Min(S)] = NoFile
<1>1. S \in SUBSET Nat
  BY SizesAssumption DEF FreeFds, Fd
<1>2. Min(S) \in S
  BY <1>1, MinIn
<1> QED
  BY <1>2 DEF FreeFds

(* sys_close(), do_execve() and do_exit()                                  *)
CloseEffect(t, to) ==
  /\ FilesInv' /\ at'[t].pc = to
  /\ Rouses(t) \/ (Leaves(t) /\ i_count'["pipe"] = i_count["pipe"])

(* close() is such a step, and so are execve() and exit().                 *)
LEMMA ClosesKeepFiles ==
  ASSUME FilesInv, NEW t \in Task, SysClose(t) \/ Execve(t) \/ Exit(t)
  PROVE  /\ at[t].pc = "user" /\ Running = {}
         /\ CloseEffect(t, "user") \/ CloseEffect(t, "none")
<1>1. at[t].pc = "user" /\ Running = {}
  BY DEF SysClose, Execve, Exit, Call
<1>2. /\ at \in [Task -> AtRecord] /\ at[t].fds = <<>>
      /\ close_on_exec \in [Task -> SUBSET Fd]
  BY <1>1 DEF FilesInv, Typed, AtTypes, AtRecord, Calls
<1>3. CASE SysClose(t)
  <2>1. PICK fd \in Fd : /\ CloseAll(t, {fd}, at)
                         /\ close_on_exec' = [close_on_exec EXCEPT ![t] = @ \ {fd}]
    BY <1>3, Zenon DEF SysClose
  <2>2. StaysOpen(t, {fd}) /\ close_on_exec' \in [Task -> SUBSET Fd]
    BY <1>2, <2>1 DEF StaysOpen
  <2> QED
    BY <1>1, <1>2, <2>1, <2>2, CloseAllKeeps DEF CloseEffect
<1>4. CASE Execve(t)
  <2>1. /\ CloseAll(t, close_on_exec[t], at)
        /\ close_on_exec' = [close_on_exec EXCEPT ![t] = {}]
    BY <1>4 DEF Execve
  <2>2. close_on_exec[t] \in SUBSET Fd
    BY <1>2
  <2>3. StaysOpen(t, close_on_exec[t]) /\ close_on_exec' \in [Task -> SUBSET Fd]
    BY <1>2, <2>1 DEF StaysOpen
  <2> QED
    BY <1>1, <1>2, <2>1, <2>2, <2>3, CloseAllKeeps DEF CloseEffect
<1>5. CASE Exit(t)
  <2> DEFINE a == [at EXCEPT ![t] = At("none")]
  <2>1. /\ CloseAll(t, Fd, a)
        /\ close_on_exec' = [close_on_exec EXCEPT ![t] = {}]
    BY <1>5 DEF Exit
  <2>2. /\ a \in [Task -> AtRecord] /\ a[t].fds = <<>> /\ a[t].pc = "none"
        /\ \A u \in Task \ {t} : a[u] = at[u]
    <3>1. At("none") \in AtRecord /\ At("none").pc = "none" /\ At("none").fds = <<>>
      BY AtIs DEF Pc
    <3> QED
      BY <1>2, <3>1
  <2> HIDE DEF a
  <2>3. StaysOpen(t, Fd) /\ close_on_exec' \in [Task -> SUBSET Fd]
    BY <1>2, <2>1 DEF StaysOpen
  <2> QED
    BY <1>1, <2>1, <2>2, <2>3, CloseAllKeeps DEF CloseEffect
<1> QED
  BY <1>1, <1>3, <1>4, <1>5

(* A call that gives t one more descriptor, d, for a file f it has open.   *)
LEMMA DupKeepsFiles ==
  ASSUME FilesInv, NEW t \in Task, at[t].pc = "user", NEW d \in Fd,
         filp[t][d] = NoFile, NEW f \in File, file_table[f].count > 0,
         ~IsReserved(f),
         filp' = [filp EXCEPT ![t][d] = f],
         file_table' = [file_table EXCEPT ![f].count = @ + 1],
         close_on_exec' = [close_on_exec EXCEPT ![t] = @ \ {d}],
         i_count' = i_count, at' = at
  PROVE  FilesInv'
<1>1. Typed /\ Counted /\ Alone /\ Marked
  BY DEF FilesInv
<1>2. Pending(t) = {}
  BY PendingIs DEF FilesInv, Calls
<1>3. /\ filp' \in [Task -> [Fd -> File \cup {NoFile}]]
      /\ \A u \in Task \ {t} : filp'[u] = filp[u]
      /\ \A e \in Fd \ {d} : filp'[t][e] = filp[t][e]
      /\ filp'[t][d] = f
  BY <1>1 DEF Typed
<1>4. /\ file_table' \in [File -> FileRecord]
      /\ \A g \in File : /\ file_table'[g].inode = file_table[g].inode
                         /\ file_table'[g].count = file_table[g].count + One(f, g)
  BY <1>1 DEF Typed, FileRecord, One
<1>5. close_on_exec' \in [Task -> SUBSET Fd]
      /\ close_on_exec'[t] = close_on_exec[t] \ {d}
      /\ \A u \in Task \ {t} : close_on_exec'[u] = close_on_exec[u]
  BY <1>1 DEF Typed
<1>6. Typed'
  BY <1>1, <1>3, <1>4, <1>5 DEF Typed, AtTypes
<1>7. Counted'
  <2>1. ASSUME NEW g \in File
        PROVE  file_table'[g].count = file_table[g].count
                 - One(filp[t][d], g) + One(filp'[t][d], g)
    <3>1. One(filp[t][d], g) = 0
      BY SizesAssumption DEF One, NoFile, File
    <3>2. file_table[g].count \in Nat /\ One(f, g) \in Nat
      BY <1>1 DEF Typed, FileRecord, One
    <3> QED
      BY <1>3, <1>4, <3>1, <3>2
  <2>2. SameBut(t, Task, filp, filp')
    BY <1>3 DEF SameBut
  <2> QED
    BY <1>1, <1>3, <2>1, <2>2, DescriptorStep
<1>8. \A u : Pending(u)' = Pending(u)
  BY DEF Pending
<1>9. ASSUME NEW g
      PROVE  IsReserved(g)' <=> IsReserved(g)
  <2>1. \A u \in Task : \A e \in Pending(u) : filp'[u][e] = filp[u][e]
    BY <1>2, <1>3
  <2> QED
    BY <1>8, <2>1, ReservedSame
<1>10. InodeCounted("pipe")' /\ InodeCounted("reg")' /\ Blank'
  <2>1. ASSUME NEW g \in File
        PROVE  SameFile(g)
    <3>1. file_table[g].count \in Nat /\ file_table[f].count > 0
      BY <1>1 DEF Typed, FileRecord
    <3> QED
      BY <1>4, <3>1 DEF SameFile, One
  <2> QED
    BY <1>6, <1>9, <2>1, KeepsInodes
<1>11. Marked'
  <2> SUFFICES ASSUME NEW u \in Task, NEW e \in close_on_exec'[u]
               PROVE  filp'[u][e] # NoFile /\ e \notin Pending(u)
    BY <1>8 DEF Marked
  <2>1. e \in close_on_exec[u] /\ e \in Fd /\ (u = t => e # d)
    BY <1>1, <1>5 DEF Typed
  <2> QED
    BY <1>1, <1>3, <2>1 DEF Marked
<1>12. Alone'
  <2> SUFFICES ASSUME NEW u \in Task, NEW e \in Pending(u)
               PROVE  OnlyAt(u, e)'
    BY <1>8 DEF Alone
  <2>1. u # t /\ OnlyAt(u, e) /\ filp[u][e] # f
    BY <1>1, <1>2 DEF Alone, IsReserved
  <2>2. filp'[u][e] = filp[u][e]
    BY <1>3, <2>1
  <2> QED
    BY <1>3, <2>1, <2>2 DEF OnlyAt
<1>13. ASSUME NEW u \in Task
       PROVE  Calls(u)' /\ Gone(u)' /\ Holder(u)'
  <2>1. Calls(u) /\ Gone(u) /\ Holder(u)
    BY DEF FilesInv
  <2>2. u = t => at[u].pc = "user"
    OBVIOUS
  <2>3. Calls(u)'
    BY <2>1 DEF Calls
  <2>4. Gone(u)'
    BY <1>3, <2>1, <2>2 DEF Gone
  <2>5. Holder(u)'
    BY <1>3, <1>4, <2>1, <2>2 DEF Holder, InPipe
  <2> QED
    BY <2>3, <2>4, <2>5
<1> QED
  BY <1>6, <1>7, <1>10, <1>11, <1>12, <1>13 DEF FilesInv

(* dup() and fcntl(F_DUPFD) are.                                           *)
LEMMA SysDupKeepsFiles ==
  ASSUME FilesInv, NEW t \in Task, SysDup(t)
  PROVE  FilesInv'
<1>1. PICK fd \in Fd \ FreeFds(t), least \in Fd :
        LET args == {d \in FreeFds(t) : d >= least}
        IN args # {} /\ Dupfd(t, fd, Min(args))
  BY DEF SysDup
<1> DEFINE args == {d \in FreeFds(t) : d >= least}
           arg == Min(args)
           f == filp[t][fd]
<1>2. arg \in Fd /\ filp[t][arg] = NoFile
  BY <1>1, FreeFdIs
<1>3. at[t].pc = "user" /\ UNCHANGED <<i_count, at>>
  BY DEF SysDup, Call
<1>4. f \in File /\ file_table[f].count > 0 /\ ~IsReserved(f)
  <2>1. filp[t][fd] # NoFile
    BY DEF FreeFds
  <2> QED
    BY <1>3, <2>1, OpenIsFilled
<1>5. /\ filp' = [filp EXCEPT ![t][arg] = f]
      /\ file_table' = [file_table EXCEPT ![f].count = @ + 1]
      /\ close_on_exec' = [close_on_exec EXCEPT ![t] = @ \ {arg}]
  BY <1>1 DEF Dupfd
<1> HIDE DEF args, arg, f
<1> QED
  BY <1>2, <1>3, <1>4, <1>5, DupKeepsFiles

(* Only the marks of close_on_exec change.                                 *)
LEMMA MarksKeepFiles ==
  ASSUME FilesInv, UNCHANGED <<filp, file_table, i_count, at>>,
         close_on_exec' \in [Task -> SUBSET Fd],
         \A u \in Task : \A d \in close_on_exec'[u] :
           filp[u][d] # NoFile /\ d \notin Pending(u)
  PROVE  FilesInv'
<1>1. Typed'
  BY DEF FilesInv, Typed, AtTypes
<1>2. \A u : Pending(u)' = Pending(u)
  BY DEF Pending
<1>3. \A f : IsReserved(f)' <=> IsReserved(f)
  BY <1>2, ReservedSame
<1>4. InodeCounted("pipe")' /\ InodeCounted("reg")' /\ Blank'
  BY <1>1, <1>3, KeepsInodes DEF SameFile
<1>5. Marked'
  BY <1>2 DEF Marked
<1>6. Counted'
  BY DEF FilesInv, Counted, Refs
<1>7. Alone'
  BY <1>2 DEF FilesInv, Alone, OnlyAt
<1>8. \A u \in Task : Calls(u)' /\ Gone(u)' /\ Holder(u)'
  BY DEF FilesInv, Calls, Gone, Holder
<1> QED
  BY <1>1, <1>4, <1>5, <1>6, <1>7, <1>8 DEF FilesInv

(* fcntl(F_SETFD) is.                                                      *)
LEMMA SetCloseOnExecKeepsFiles ==
  ASSUME FilesInv, NEW t \in Task, SetCloseOnExec(t)
  PROVE  FilesInv'
<1>1. PICK fd \in Fd \ FreeFds(t) :
        close_on_exec' = [close_on_exec EXCEPT ![t] = @ \cup {fd}]
  BY DEF SetCloseOnExec
<1>2. at[t].pc = "user" /\ UNCHANGED <<filp, file_table, i_count, at>>
  BY DEF SetCloseOnExec, Call
<1>3. /\ close_on_exec' \in [Task -> SUBSET Fd]
      /\ \A u \in Task : close_on_exec'[u] =
           IF u = t THEN close_on_exec[u] \cup {fd} ELSE close_on_exec[u]
  BY <1>1 DEF FilesInv, Typed
<1>4. Pending(t) = {} /\ filp[t][fd] # NoFile
  BY <1>2, PendingIs DEF FilesInv, Calls, FreeFds
<1>5. \A u \in Task : \A d \in close_on_exec'[u] :
        filp[u][d] # NoFile /\ d \notin Pending(u)
  BY <1>3, <1>4 DEF FilesInv, Marked
<1> QED
  BY <1>2, <1>3, <1>5, MarksKeepFiles

(* sys_dup2() over a descriptor that is open: one file is closed, and the  *)
(* other has one more descriptor.                                          *)
OneMore(t, d, f) ==
  [g \in File |->
     IF g \in LastClosed(t, {d}) \ {f} THEN Unused
     ELSE [file_table[g] EXCEPT !.count = @ - Held(t, {d}, g) + One(g, f)]]

(* How often one descriptor holds a file.                                  *)
LEMMA HeldOne ==
  ASSUME NEW t, NEW d, NEW g
  PROVE  Held(t, {d}, g) = One(filp[t][d], g)
<1>1. CASE filp[t][d] = g
  <2>1. {e \in {d} : filp[t][e] = g} = {d}
    BY <1>1
  <2> QED
    BY <1>1, <2>1, FS_Singleton DEF Held, One
<1>2. CASE filp[t][d] # g
  <2>1. {e \in {d} : filp[t][e] = g} = {}
    BY <1>2
  <2> QED
    BY <1>2, <2>1, FS_EmptySet DEF Held, One
<1> QED
  BY <1>1, <1>2

(* What dup2() makes of a file: one less for the descriptor it closes, one *)
(* more for the one it copies.                                             *)
LEMMA OneMoreFile ==
  ASSUME Typed, Counted, NEW t \in Task, NEW d \in Fd, NEW old \in Fd \ {d},
         filp[t][old] \in File, NEW g \in File
  PROVE  LET h == OneMore(t, d, filp[t][old])[g]
         IN /\ h \in FileRecord
            /\ h.count = file_table[g].count - One(filp[t][d], g)
                           + One(filp[t][old], g)
            /\ g \in LastClosed(t, {d}) =>
                 h.count = 0 /\ h.inode = "reg" /\ file_table[g].count > 0
            /\ g \notin LastClosed(t, {d}) =>
                 h.inode = file_table[g].inode
                 /\ (h.count > 0 <=> file_table[g].count > 0)
<1> DEFINE f == filp[t][old]
           n == Held(t, {d}, g)
           h == OneMore(t, d, f)[g]
           e == file_table[g]
           o == One(g, f)
<1>1. n \in Nat /\ n <= e.count /\ e \in FileRecord /\ e.count \in Nat
  <2>1. e \in FileRecord /\ e.count \in Nat
    BY DEF Typed, FileRecord
  <2>2. /\ n \in Nat /\ Held(t, Fd \ {d}, g) \in Nat
        /\ n + Held(t, Fd \ {d}, g) <= e.count
    BY HeldIs
  <2> QED
    BY <2>1, <2>2
<1>2. g = f => g \notin LastClosed(t, {d}) /\ e.count > 0
  <2>1. /\ Held(t, Fd \ {d}, f) \in Nat /\ Held(t, {d}, f) \in Nat
        /\ Held(t, {d}, f) + Held(t, Fd \ {d}, f) <= file_table[f].count
    <3>1. f \in File
      OBVIOUS
    <3> HIDE DEF f
    <3> QED
      BY <3>1, HeldIs
  <2>2. Held(t, Fd \ {d}, f) # 0
    <3>1. IsFiniteSet({x \in Fd \ {d} : filp[t][x] = f})
      BY FdFinite, FS_Subset
    <3>2. {x \in Fd \ {d} : filp[t][x] = f} # {}
      OBVIOUS
    <3> QED
      BY <3>1, <3>2, FS_EmptySet DEF Held
  <2>3. file_table[f].count \in Nat
    BY DEF Typed, FileRecord
  <2>4. file_table[f].count # Held(t, {d}, f) /\ file_table[f].count > 0
    BY <2>1, <2>2, <2>3
  <2> QED
    BY <2>4 DEF LastClosed
<1>3. n = One(filp[t][d], g)
  BY HeldOne
<1>4. o = One(f, g) /\ o \in {0, 1} /\ (o = 1 <=> g = f)
  BY DEF One
<1>5. CASE g \in LastClosed(t, {d})
  <2>1. h = Unused /\ e.count = n /\ e.count > 0 /\ o = 0
    BY <1>2, <1>4, <1>5 DEF OneMore, LastClosed
  <2> HIDE DEF h, e, n, o, f
  <2>2. h.count = 0 /\ h.inode = "reg" /\ h \in FileRecord
    BY <2>1 DEF Unused, FileRecord
  <2>3. h.count = e.count - n + o
    BY <1>1, <2>1, <2>2
  <2> QED
    BY <1>3, <1>4, <1>5, <2>1, <2>2, <2>3 DEF f, h, e
<1>6. CASE g \notin LastClosed(t, {d})
  <2>1. h = [e EXCEPT !.count = @ - n + o]
    BY <1>6 DEF OneMore
  <2>2. e.count > 0 => e.count # n
    BY <1>6 DEF LastClosed
  <2>3. o = 1 => e.count > 0
    BY <1>2, <1>4
  <2> HIDE DEF h, e, n, o, f
  <2>4. e.count - n + o \in Nat
    BY <1>1, <1>4
  <2>5. h \in FileRecord /\ h.count = e.count - n + o /\ h.inode = e.inode
    BY <1>1, <2>1, <2>4 DEF FileRecord
  <2>6. h.count > 0 <=> e.count > 0
    BY <1>1, <1>4, <2>2, <2>3, <2>5
  <2> QED
    BY <1>3, <1>4, <1>6, <2>5, <2>6 DEF f, h, e
<1> QED
  BY <1>5, <1>6

(* dup2() closes one descriptor and fills it again in one step.            *)
LEMMA SysDup2KeepsFiles ==
  ASSUME FilesInv, NEW t \in Task, SysDup2(t)
  PROVE  at[t].pc = "user" /\ Running = {} /\ CloseEffect(t, "user")
<1>1. at[t].pc = "user" /\ Running = {}
  BY DEF SysDup2, Call
<1>2. /\ at \in [Task -> AtRecord] /\ at[t].fds = <<>>
      /\ close_on_exec \in [Task -> SUBSET Fd] /\ Typed /\ Counted
  BY <1>1 DEF FilesInv, Typed, AtTypes, AtRecord, Calls
<1>3. PICK old, new \in Fd \ FreeFds(t) :
        /\ LET f == filp[t][old]
               closed == LastClosed(t, {new})
           IN IF old = new THEN CloseAll(t, {new}, at)
              ELSE /\ filp' = [filp EXCEPT ![t][new] = f]
                   /\ file_table' = OneMore(t, new, f)
                   /\ Iput(closed, at)
        /\ close_on_exec' = [close_on_exec EXCEPT ![t] = @ \ {new}]
  BY Zenon DEF SysDup2, OneMore, One
<1>4. old \in Fd /\ new \in Fd /\ filp[t][old] # NoFile
  BY DEF FreeFds
<1>5. close_on_exec' \in [Task -> SUBSET Fd]
      /\ close_on_exec'[t] = close_on_exec[t] \ {new}
      /\ \A u \in Task \ {t} : close_on_exec'[u] = close_on_exec[u]
  BY <1>2, <1>3
<1>6. CASE old = new
  <2>1. CloseAll(t, {new}, at) /\ StaysOpen(t, {new})
    BY <1>3, <1>5, <1>6 DEF StaysOpen
  <2> QED
    BY <1>1, <1>2, <1>4, <1>5, <2>1, CloseAllKeeps DEF CloseEffect
<1>7. CASE old # new
  <2> DEFINE f == filp[t][old]
  <2>1. /\ filp' = [filp EXCEPT ![t][new] = f]
        /\ file_table' = OneMore(t, new, f)
        /\ Iput(LastClosed(t, {new}), at)
    BY <1>3, <1>7
  <2>2. f \in File /\ ~IsReserved(f)
    BY <1>1, <1>4, OpenIsFilled
  <2>3. /\ filp' \in [Task -> [Fd -> File \cup {NoFile}]]
        /\ \A u \in Task \ {t} : filp'[u] = filp[u]
        /\ \A e \in Fd \ {new} : filp'[t][e] = filp[t][e]
        /\ filp'[t][new] = f
    BY <1>2, <2>1, <2>2 DEF Typed
  <2>4. ASSUME NEW g \in File
        PROVE  /\ file_table'[g] \in FileRecord
               /\ file_table'[g].count =
                    file_table[g].count - One(filp[t][new], g) + One(f, g)
               /\ FileCloses(g, LastClosed(t, {new}))
    BY <1>2, <1>4, <1>7, <2>1, <2>2, OneMoreFile DEF FileCloses, SameFile
  <2>5. file_table' \in [File -> FileRecord]
    <3>1. file_table' = [g \in File |-> file_table'[g]]
      BY <2>1 DEF OneMore
    <3> QED
      BY <2>4, <3>1
  <2>6. Counted'
    <3>1. SameBut(t, Task, filp, filp')
      BY <2>3 DEF SameBut
    <3> QED
      BY <1>2, <1>4, <2>3, <2>4, <3>1, DescriptorStep
  <2>7. RowCloses(t)
    <3>1. ASSUME NEW e \in Fd, filp'[t][e] # NoFile
          PROVE  ~IsReserved(filp'[t][e])
      <4>1. CASE e = new
        BY <2>2, <2>3, <4>1
      <4>2. CASE e # new
        BY <1>1, <2>3, <3>1, <4>2, OpenIsFilled
      <4> QED
        BY <4>1, <4>2
    <3> QED
      BY <2>3, <3>1 DEF RowCloses
  <2>8. MarkCloses(t)
    <3>1. ASSUME NEW e \in close_on_exec'[t]
          PROVE  filp'[t][e] # NoFile
      <4>1. e \in close_on_exec[t] /\ e # new /\ e \in Fd
        BY <1>2, <1>5
      <4> QED
        BY <2>3, <4>1 DEF FilesInv, Marked
    <3> QED
      BY <1>5, <3>1 DEF MarkCloses
  <2> DEFINE D == {new}
  <2>9. /\ D \in SUBSET Fd /\ Iput(LastClosed(t, D), at)
        /\ \A g \in File : FileCloses(g, LastClosed(t, D))
    BY <1>4, <2>1, <2>4
  <2>10. /\ at[t].pc \in {"user", "none"}
         /\ at[t].pc = "none" => \A e \in Fd : filp'[t][e] = NoFile
    BY <1>1
  <2> HIDE DEF f, D
  <2>11. /\ FilesInv' /\ at'[t].pc = at[t].pc
         /\ Rouses(t) \/ (Leaves(t) /\ i_count'["pipe"] = i_count["pipe"])
    BY <1>1, <1>2, <1>5, <2>3, <2>5, <2>6, <2>7, <2>8, <2>9, <2>10, CloseStep
  <2> QED
    BY <1>1, <2>11 DEF CloseEffect
<1> QED
  BY <1>1, <1>6, <1>7

(* copy_process(): the child has what the parent has.                      *)
LEMMA ForkKeepsFiles ==
  ASSUME FilesInv, NEW t \in Task, Fork(t)
  PROVE  /\ FilesInv' /\ Running = {} /\ i_count' = i_count
         /\ \E u \in Task : at[u].pc = "none" /\ Leaves(u) /\ at'[u].pc = "user"
<1>1. /\ at[t].pc = "user" /\ Running = {} /\ i_count' = i_count
      /\ file_table' = [f \in File |->
           [file_table[f] EXCEPT !.count = @ + Held(t, Fd, f)]]
  BY DEF Fork, Call
<1>2. Typed /\ Counted /\ Alone /\ Marked /\ AtTypes
  BY DEF FilesInv, Typed
<1>3. PICK u \in Task :
        /\ at[u].pc = "none"
        /\ filp' = [filp EXCEPT ![u] = filp[t]]
        /\ close_on_exec' = [close_on_exec EXCEPT ![u] = close_on_exec[t]]
        /\ at' = [at EXCEPT ![u] = At("user")]
  BY DEF Fork
<1>4. /\ At("user") \in AtRecord /\ At("user").pc = "user"
      /\ At("user").fds = <<>>
  BY AtIs DEF Pc
<1>5. AtTypes' /\ at'[u] = At("user") /\ Leaves(u)
  BY <1>2, <1>3, <1>4, OneMoves
<1>6. /\ filp' \in [Task -> [Fd -> File \cup {NoFile}]]
      /\ \A w \in Task \ {u} : filp'[w] = filp[w]
      /\ filp'[u] = filp[t] /\ u # t
      /\ \A d \in Fd : filp[u][d] = NoFile
  BY <1>1, <1>2, <1>3 DEF Typed, FilesInv, Gone
<1>7. /\ close_on_exec' \in [Task -> SUBSET Fd]
      /\ close_on_exec'[u] = close_on_exec[t]
      /\ \A w \in Task \ {u} : close_on_exec'[w] = close_on_exec[w]
  BY <1>2, <1>3 DEF Typed
<1>8. Pending(t) = {} /\ Pending(u) = {} /\ at[u].fds = <<>> /\ at[t].fds = <<>>
  <2>1. at[u].fds = <<>> /\ at[t].fds = <<>>
    BY <1>1, <1>3 DEF FilesInv, Calls
  <2> QED
    BY <2>1, PendingIs
<1>9. \A w \in Task : at'[w].fds = at[w].fds
  BY <1>4, <1>5, <1>8 DEF Leaves
<1>10. ASSUME NEW f \in File
       PROVE  /\ file_table'[f] \in FileRecord
              /\ file_table'[f].inode = file_table[f].inode
              /\ file_table'[f].count = file_table[f].count + InRowOf(t, f)
              /\ SameFile(f)
  <2>1. /\ InRowOf(t, f) = Held(t, Fd, f) /\ InRowOf(t, f) \in Nat
        /\ InRowOf(t, f) <= file_table[f].count
    <3>1. InRowOf(t, f) = Held(t, Fd, f)
      BY DEF InRowOf, InRow, Held
    <3>2. /\ Cardinality(OtherRows(filp, Task, Fd, f, t)) \in Nat
          /\ Cardinality(InRow(filp[t], Fd, f)) \in Nat
          /\ file_table[f].count =
               Cardinality(OtherRows(filp, Task, Fd, f, t))
                 + Cardinality(InRow(filp[t], Fd, f))
      BY <1>2, FdFinite, TaskAssumption, PlacesRow DEF Counted, Refs
    <3> QED
      BY <3>1, <3>2 DEF InRowOf
  <2>2. file_table[f] \in FileRecord /\ file_table[f].count \in Nat
    BY <1>2 DEF Typed, FileRecord
  <2>3. file_table'[f] = [file_table[f] EXCEPT !.count = @ + Held(t, Fd, f)]
    BY <1>1
  <2>4. /\ file_table'[f] \in FileRecord
        /\ file_table'[f].inode = file_table[f].inode
        /\ file_table'[f].count = file_table[f].count + InRowOf(t, f)
    BY <2>1, <2>2, <2>3 DEF FileRecord
  <2> QED
    BY <2>1, <2>2, <2>4 DEF SameFile
<1>11. Typed'
  <2>1. file_table' = [f \in File |-> file_table'[f]]
    BY <1>1
  <2>2. file_table' \in [File -> FileRecord]
    BY <1>10, <2>1
  <2> QED
    BY <1>1, <1>2, <1>5, <1>6, <1>7, <2>2 DEF Typed
<1>12. Counted'
  <2>1. ASSUME NEW f \in File
        PROVE  file_table'[f].count = file_table[f].count - InRowOf(u, f)
                                        + InRowOf(u, f)'
    <3>1. InRow(filp[u], Fd, f) = {}
      BY <1>6, SizesAssumption DEF InRow, File, NoFile
    <3>2. InRowOf(u, f) = 0
      BY <3>1, FS_EmptySet DEF InRowOf
    <3>3. InRowOf(u, f)' = InRowOf(t, f)
      BY <1>6 DEF InRowOf, InRow
    <3>4. file_table[f].count \in Nat /\ InRowOf(t, f) \in Nat
      BY <1>2, FdFinite, TaskAssumption, PlacesRow DEF Typed, FileRecord, InRowOf
    <3> QED
      BY <1>10, <3>2, <3>3, <3>4
  <2>2. SameBut(u, Task, filp, filp')
    BY <1>6 DEF SameBut
  <2> QED
    BY <1>2, <2>1, <2>2, RowStep
<1>13. \A w \in Task : Pending(w)' = Pending(w)
  BY <1>9 DEF Pending
<1>14. \A f : IsReserved(f)' <=> IsReserved(f)
  <2>1. \A w \in Task : \A d \in Pending(w) : filp'[w][d] = filp[w][d]
    BY <1>6, <1>8
  <2> QED
    BY <1>13, <2>1, ReservedSame
<1>15. InodeCounted("pipe")' /\ InodeCounted("reg")' /\ Blank'
  BY <1>1, <1>10, <1>11, <1>14, KeepsInodes
<1>16. Marked'
  <2> SUFFICES ASSUME NEW w \in Task, NEW d \in close_on_exec'[w]
               PROVE  filp'[w][d] # NoFile /\ d \notin Pending(w)
    BY <1>13 DEF Marked
  <2>1. CASE w = u
    BY <1>2, <1>6, <1>7, <1>8, <2>1 DEF Marked
  <2>2. CASE w # u
    BY <1>2, <1>6, <1>7, <2>2 DEF Marked
  <2> QED
    BY <2>1, <2>2
<1>17. Alone'
  <2> SUFFICES ASSUME NEW w \in Task, NEW d \in Pending(w)
               PROVE  OnlyAt(w, d)'
    BY <1>13 DEF Alone
  <2>1. w # u /\ w # t /\ OnlyAt(w, d)
    BY <1>2, <1>8 DEF Alone
  <2>2. \A e \in Fd : filp[t][e] # filp[w][d]
    BY <2>1 DEF OnlyAt
  <2>3. filp'[w] = filp[w] /\ \A e \in Fd : filp'[u][e] # filp[w][d]
    BY <1>6, <2>1, <2>2
  <2> QED
    BY <1>6, <2>1, <2>3 DEF OnlyAt
<1>18. ASSUME NEW w \in Task
       PROVE  Calls(w)' /\ Gone(w)' /\ Holder(w)'
  <2>1. Calls(w) /\ Gone(w) /\ Holder(w)
    BY DEF FilesInv
  <2>2. CASE w = u
    BY <1>4, <1>5, <2>2 DEF Calls, Gone, Holder, InPipe
  <2>3. CASE w # u
    <3>1. at'[w] = at[w] /\ filp'[w] = filp[w]
      BY <1>5, <1>6, <2>3 DEF Leaves
    <3> QED
      BY <1>10, <2>1, <3>1 DEF Calls, Gone, Holder
  <2> QED
    BY <2>2, <2>3
<1> QED
  BY <1>1, <1>3, <1>4, <1>5, <1>11, <1>12, <1>15, <1>16, <1>17, <1>18 DEF FilesInv

-----------------------------------------------------------------------------
(* Calls that take files and sleep before they fill them in.               *)

(* t has taken free files for its free descriptors P.                      *)
Takes(t, P) ==
  /\ \A u \in Task \ {t} : filp'[u] = filp[u]
  /\ \A d \in Fd \ P : filp'[t][d] = filp[t][d]
  /\ \A d \in P : /\ d \in Fd /\ filp[t][d] = NoFile /\ filp'[t][d] \in File
                  /\ file_table[filp'[t][d]].count = 0
  /\ \A d, e \in P : filp'[t][d] = filp'[t][e] => d = e

(* Their counts are 1.                                                     *)
TakesFile(t, P, f) ==
  /\ file_table'[f] \in FileRecord
  /\ file_table'[f].inode = file_table[f].inode
  /\ file_table'[f].count =
       IF \E d \in P : filp'[t][d] = f THEN 1 ELSE file_table[f].count

(* open() and pipe() reserve files and descriptors before they sleep: they *)
(* are counted as files on no inode.                                       *)
LEMMA TakeStep ==
  ASSUME FilesInv, NEW t \in Task, at[t].pc = "user", NEW P \in SUBSET Fd,
         AtTypes', Leaves(t), at'[t].pc \in {"open", "pipe"},
         Pending(t)' = P, Calls(t)', Takes(t, P),
         filp' \in [Task -> [Fd -> File \cup {NoFile}]],
         file_table' \in [File -> FileRecord],
         \A f \in File : TakesFile(t, P, f),
         close_on_exec' \in [Task -> SUBSET Fd],
         \A u \in Task : close_on_exec'[u] \subseteq close_on_exec[u],
         close_on_exec'[t] \cap P = {},
         i_count' = i_count, Counted'
  PROVE  FilesInv'
<1>1. Typed /\ Counted /\ Alone /\ Marked /\ Blank
  BY DEF FilesInv
<1>2. Pending(t) = {}
  BY PendingIs DEF FilesInv, Calls
<1>3. \A u \in Task \ {t} : Pending(u)' = Pending(u)
  BY DEF Pending, Leaves
<1>4. /\ \A u \in Task \ {t} : filp'[u] = filp[u]
      /\ \A d \in Fd \ P : filp'[t][d] = filp[t][d]
      /\ \A d \in P : /\ d \in Fd /\ filp[t][d] = NoFile /\ filp'[t][d] \in File
                      /\ file_table[filp'[t][d]].count = 0
      /\ \A d, e \in P : filp'[t][d] = filp'[t][e] => d = e
  BY DEF Takes
<1> DEFINE New(f) == \E d \in P : filp'[t][d] = f
<1>5. ASSUME NEW f \in File
      PROVE  /\ file_table'[f].inode = file_table[f].inode
             /\ New(f) => file_table'[f].count = 1 /\ file_table[f].count = 0
             /\ ~New(f) => file_table'[f].count = file_table[f].count
             /\ file_table[f].count \in Nat
  <2>1. TakesFile(t, P, f) /\ file_table[f].count \in Nat
    BY <1>1 DEF Typed, FileRecord
  <2> QED
    BY <1>4, <2>1 DEF TakesFile
<1>6. ASSUME NEW f
      PROVE  IsReserved(f)' <=> IsReserved(f) \/ New(f)
  <2>1. IsReserved(f)' <=> \E u \in Task : \E d \in Pending(u)' : filp'[u][d] = f
    BY DEF IsReserved
  <2>2. IsReserved(f) <=> \E u \in Task : \E d \in Pending(u) : filp[u][d] = f
    BY DEF IsReserved
  <2>3. ASSUME NEW u \in Task \ {t}
        PROVE  (\E d \in Pending(u)' : filp'[u][d] = f)
                 <=> \E d \in Pending(u) : filp[u][d] = f
    <3>1. Pending(u)' = Pending(u) /\ filp'[u] = filp[u]
      BY <1>3, <1>4
    <3> QED
      BY <3>1
  <2>4. (\E d \in Pending(t)' : filp'[t][d] = f) <=> New(f)
    OBVIOUS
  <2>5. ~\E d \in Pending(t) : filp[t][d] = f
    BY <1>2
  <2> HIDE DEF New
  <2> QED
    BY <2>1, <2>2, <2>3, <2>4, <2>5
<1>7. ASSUME NEW f \in File, IsReserved(f)
      PROVE  ~New(f) /\ file_table[f].count > 0
  <2> PICK u \in Task : \E d \in Pending(u) : filp[u][d] = f
    BY <1>7 DEF IsReserved
  <2>1. PICK d \in Pending(u) : filp[u][d] = f
    OBVIOUS
  <2>2. d \in Fd
    BY <1>1 DEF Alone, OnlyAt
  <2>3. file_table[f].count > 0
    BY <1>1, <2>1, <2>2, UsedIsCounted
  <2> HIDE DEF New
  <2> QED
    BY <1>5, <2>3
<1>8. Typed'
  BY <1>1 DEF Typed
<1>9. InodeCounted("pipe")' /\ InodeCounted("reg")'
  <2>1. ASSUME NEW f \in File, NEW n
        PROVE  IsOn(f, n)' <=> IsOn(f, n)
    <3> HIDE DEF New
    <3>1. IsOn(f, n)' <=> /\ file_table'[f].count > 0 /\ file_table'[f].inode = n
                          /\ ~IsReserved(f)'
      BY DEF IsOn
    <3> QED
      BY <1>5, <1>6, <3>1 DEF IsOn
  <2>2. \A n : OnInode(n)' = OnInode(n)
    BY <2>1 DEF OnInode
  <2> QED
    BY <2>2 DEF FilesInv, InodeCounted
<1>10. Blank'
  <2> SUFFICES ASSUME NEW f \in File, file_table'[f].count = 0 \/ IsReserved(f)'
               PROVE  file_table'[f].inode = "reg"
    BY DEF Blank
  <2> HIDE DEF New
  <2>1. file_table[f].count = 0 \/ IsReserved(f)
    BY <1>5, <1>6
  <2> QED
    BY <1>1, <1>5, <2>1 DEF Blank
<1>11. Marked'
  <2> SUFFICES ASSUME NEW u \in Task, NEW d \in close_on_exec'[u]
               PROVE  filp'[u][d] # NoFile /\ d \notin Pending(u)'
    BY DEF Marked
  <2>1. filp[u][d] # NoFile /\ d \notin Pending(u) /\ d \in Fd
    BY <1>1 DEF Marked, Typed
  <2>2. CASE u = t
    BY <1>4, <2>1, <2>2
  <2>3. CASE u # t
    BY <1>3, <1>4, <2>1, <2>3
  <2> QED
    BY <2>2, <2>3
<1>12. Alone'
  <2> SUFFICES ASSUME NEW u \in Task, NEW d \in Pending(u)'
               PROVE  OnlyAt(u, d)'
    BY DEF Alone
  <2>1. CASE u = t
    <3>1. d \in P /\ d \in Fd /\ filp'[t][d] \in File
          /\ file_table[filp'[t][d]].count = 0
      BY <1>4, <2>1
    <3>2. ASSUME NEW w \in Task, NEW e \in Fd, filp'[w][e] = filp'[t][d]
          PROVE  w = t /\ e = d
      <4>1. filp[w][e] # filp'[t][d]
        BY <1>1, <3>1, FreeIsNowhere
      <4>2. w = t /\ e \in P
        BY <1>4, <3>2, <4>1
      <4> QED
        BY <1>4, <3>1, <3>2, <4>2
    <3> QED
      BY <2>1, <3>1, <3>2 DEF OnlyAt
  <2>2. CASE u # t
    <3>1. d \in Pending(u) /\ OnlyAt(u, d) /\ filp'[u] = filp[u] /\ d \in Fd
      BY <1>1, <1>3, <1>4, <2>2 DEF Alone, OnlyAt
    <3>2. file_table[filp[u][d]].count > 0
      BY <1>1, <3>1, UsedIsCounted DEF OnlyAt
    <3>3. ASSUME NEW w \in Task, NEW e \in Fd, filp'[w][e] = filp[u][d]
          PROVE  w = u /\ e = d
      <4>1. ~(w = t /\ e \in P)
        BY <1>4, <3>2, <3>3
      <4>2. filp'[w][e] = filp[w][e]
        BY <1>4, <4>1
      <4> QED
        BY <3>1, <3>3, <4>2 DEF OnlyAt
    <3> QED
      BY <3>1, <3>3 DEF OnlyAt
  <2> QED
    BY <2>1, <2>2
<1>13. ASSUME NEW u \in Task
       PROVE  Calls(u)' /\ Gone(u)' /\ Holder(u)'
  <2>1. CASE u = t
    BY <2>1 DEF Gone, Holder, InPipe
  <2>2. CASE u # t
    <3>1. Calls(u) /\ Gone(u) /\ Holder(u) /\ at'[u] = at[u] /\ filp'[u] = filp[u]
      BY <1>4, <2>2 DEF FilesInv, Leaves
    <3>2. Calls(u)' /\ Gone(u)'
      BY <3>1 DEF Calls, Gone
    <3>3. Holder(u)'
      BY <1>5, <3>1 DEF Holder
    <3> QED
      BY <3>2, <3>3
  <2> QED
    BY <2>1, <2>2
<1> QED
  BY <1>8, <1>9, <1>10, <1>11, <1>12, <1>13 DEF FilesInv

(* A place with descriptors kept.                                          *)
LEMMA AtWith ==
  ASSUME NEW pc \in Pc, NEW s \in Seq(Fd)
  PROVE  LET r == [At(pc) EXCEPT !.fds = s]
         IN r \in AtRecord /\ r.pc = pc /\ r.fds = s
<1>1. [At(pc) EXCEPT !.fds = s] = [pc |-> pc, left |-> 0, fds |-> s]
  BY DEF At
<1> QED
  BY <1>1 DEF AtRecord

(* The first free file is free.                                            *)
LEMMA FreeFileIs ==
  ASSUME NEW S \in SUBSET FreeFiles, S # {}
  PROVE  Min(S) \in S /\ Min(S) \in File /\ file_table[Min(S)].count = 0
<1>1. S \in SUBSET Nat
  BY SizesAssumption DEF FreeFiles, File
<1>2. Min(S) \in S
  BY <1>1, MinIn
<1> QED
  BY <1>2 DEF FreeFiles

(* Of two there is one left.                                               *)
LEMMA TwoLeft ==
  ASSUME NEW S, IsFiniteSet(S), Cardinality(S) >= 2, NEW x \in S
  PROVE  S \ {x} # {}
<1>1. Cardinality(S \ {x}) = Cardinality(S) - 1
  BY FS_RemoveElement
<1>2. Cardinality(S) \in Nat
  BY FS_CardinalityType
<1> QED
  BY <1>1, <1>2, FS_EmptySet

(* open(), as far as it goes before it may sleep.                          *)
LEMMA SysOpenKeepsFiles ==
  ASSUME FilesInv, NEW t \in Task, SysOpen(t)
  PROVE  /\ FilesInv' /\ Running = {} /\ i_count' = i_count
         /\ at[t].pc = "user" /\ Leaves(t) /\ at'[t].pc \in {"user", "open"}
<1> DEFINE fd == Min(FreeFds(t))
           f == Min(FreeFiles)
<1>1. at[t].pc = "user" /\ Running = {} /\ i_count' = i_count
      /\ FreeFds(t) # {}
      /\ close_on_exec' = [close_on_exec EXCEPT ![t] = @ \ {fd}]
  BY DEF SysOpen, Call
<1>2. Typed /\ Counted /\ Marked /\ AtTypes
  BY DEF FilesInv, Typed
<1>3. fd \in Fd /\ filp[t][fd] = NoFile
  BY <1>1, FreeFdIs
<1>4. CASE FreeFiles = {}
  <2>1. UNCHANGED <<filp, file_table, at>>
    BY <1>4 DEF SysOpen
  <2>2. /\ close_on_exec' \in [Task -> SUBSET Fd]
        /\ \A u \in Task : close_on_exec'[u] \subseteq close_on_exec[u]
    BY <1>1, <1>2 DEF Typed
  <2>3. \A u \in Task : \A d \in close_on_exec'[u] :
          filp[u][d] # NoFile /\ d \notin Pending(u)
    BY <1>2, <2>2 DEF Marked
  <2>4. FilesInv'
    BY <1>1, <2>1, <2>2, <2>3, MarksKeepFiles
  <2> QED
    BY <1>1, <2>1, <2>4 DEF Leaves
<1>5. CASE FreeFiles # {}
  <2>1. f \in File /\ file_table[f].count = 0
    BY <1>5, FreeFileIs
  <2>2. /\ filp' = [filp EXCEPT ![t][fd] = f]
        /\ file_table' = [file_table EXCEPT ![f].count = @ + 1]
        /\ at' = [at EXCEPT ![t] = [At("open") EXCEPT !.fds = <<fd>>]]
    BY <1>5 DEF SysOpen
  <2> HIDE DEF fd, f
  <2> DEFINE r == [At("open") EXCEPT !.fds = <<fd>>]
  <2>3. r \in AtRecord /\ r.pc = "open" /\ r.fds = <<fd>>
    <3>1. <<fd>> \in Seq(Fd)
      BY <1>3
    <3>2. "open" \in Pc
      BY DEF Pc
    <3> QED
      BY <3>1, <3>2, AtWith
  <2>4. at' = [at EXCEPT ![t] = r]
    BY <2>2
  <2> HIDE DEF r
  <2>5. AtTypes' /\ at'[t] = r /\ Leaves(t)
    BY <1>2, <2>3, <2>4, OneMoves
  <2>6. Calls(t)'
    BY <1>3, <2>3, <2>5 DEF Calls
  <2> DEFINE P == {fd}
  <2>7. Pending(t)' = P
    <3>1. DOMAIN r.fds = {1} /\ r.fds[1] = fd
      BY <2>3
    <3> QED
      BY <2>5, <3>1 DEF Pending
  <2>8. /\ filp' \in [Task -> [Fd -> File \cup {NoFile}]]
        /\ \A u \in Task \ {t} : filp'[u] = filp[u]
        /\ \A d \in Fd \ {fd} : filp'[t][d] = filp[t][d]
        /\ filp'[t][fd] = f
    BY <1>2, <1>3, <2>1, <2>2 DEF Typed
  <2>9. Takes(t, P)
    BY <1>3, <2>1, <2>8 DEF Takes
  <2>10. ASSUME NEW g \in File
         PROVE  /\ file_table'[g] \in FileRecord
                /\ file_table'[g].inode = file_table[g].inode
                /\ file_table'[g].count =
                     IF g = f THEN 1 ELSE file_table[g].count
    BY <1>2, <2>1, <2>2 DEF Typed, FileRecord
  <2>11. \A g \in File : TakesFile(t, P, g)
    BY <2>8, <2>10 DEF TakesFile
  <2>12. file_table' \in [File -> FileRecord]
    BY <1>2, <2>1, <2>2 DEF Typed, FileRecord
  <2>13. Counted'
    <3>1. ASSUME NEW g \in File
          PROVE  file_table'[g].count = file_table[g].count
                   - One(filp[t][fd], g) + One(filp'[t][fd], g)
      <4>1. One(filp[t][fd], g) = 0
        BY <1>3, SizesAssumption DEF One, NoFile, File
      <4>2. file_table[g].count \in Nat
        BY <1>2 DEF Typed, FileRecord
      <4> QED
        BY <2>1, <2>8, <2>10, <4>1, <4>2 DEF One
    <3>2. SameBut(t, Task, filp, filp')
      BY <2>8 DEF SameBut
    <3> QED
      BY <1>2, <1>3, <2>8, <3>1, <3>2, DescriptorStep
  <2>14. /\ close_on_exec' \in [Task -> SUBSET Fd]
         /\ \A u \in Task : close_on_exec'[u] \subseteq close_on_exec[u]
         /\ close_on_exec'[t] \cap P = {}
    BY <1>1, <1>2 DEF Typed, fd
  <2>15. P \in SUBSET Fd
    BY <1>3
  <2>16. at'[t].pc = "open"
    BY <2>3, <2>5
  <2> HIDE DEF P
  <2>17. FilesInv'
    BY <1>1, <2>5, <2>6, <2>7, <2>8, <2>9, <2>11, <2>12, <2>13, <2>14, <2>15,
       <2>16, TakeStep
  <2> QED
    BY <1>1, <2>5, <2>16, <2>17
<1> QED
  BY <1>4, <1>5

(* How often a file is in a row after two places have changed.             *)
LEMMA RowTwice ==
  ASSUME NEW r, NEW h, NEW d0 \in Fd, NEW d1 \in Fd, d0 # d1,
         SameElse(r, h, {d0, d1}), NEW f
  PROVE  Cardinality(InRow(h, Fd, f)) =
           Cardinality(InRow(r, Fd, f)) - One(r[d0], f) + One(h[d0], f)
             - One(r[d1], f) + One(h[d1], f)
<1> DEFINE m == [e \in Fd |-> IF e = d0 THEN h[d0] ELSE r[e]]
<1>1. /\ SameElse(r, m, {d0}) /\ SameElse(m, h, {d1})
      /\ m[d0] = h[d0] /\ m[d1] = r[d1]
  BY DEF SameElse
<1> HIDE DEF m
<1>2. Cardinality(InRow(m, Fd, f)) =
        Cardinality(InRow(r, Fd, f)) - One(r[d0], f) + One(m[d0], f)
  BY <1>1, RowChange
<1>3. Cardinality(InRow(h, Fd, f)) =
        Cardinality(InRow(m, Fd, f)) - One(m[d1], f) + One(h[d1], f)
  BY <1>1, RowChange
<1>4. ASSUME NEW q
      PROVE  Cardinality(InRow(q, Fd, f)) \in Nat
  <2>1. IsFiniteSet(InRow(q, Fd, f))
    BY FdFinite, FS_Subset DEF InRow
  <2> QED
    BY <2>1, FS_CardinalityType
<1>5. \A x : One(x, f) \in Nat
  BY DEF One
<1>6. /\ Cardinality(InRow(r, Fd, f)) \in Nat
      /\ One(r[d0], f) \in Nat /\ One(h[d0], f) \in Nat
      /\ One(r[d1], f) \in Nat /\ One(h[d1], f) \in Nat
  BY <1>4, <1>5
<1> QED
  BY <1>1, <1>2, <1>3, <1>6

(* The two descriptors of pipe() change.                                   *)
LEMMA TwoDescriptors ==
  ASSUME Typed, Counted, NEW t \in Task, NEW d0 \in Fd, NEW d1 \in Fd, d0 # d1,
         SameBut(t, Task, filp, filp'),
         \A e \in Fd \ {d0, d1} : filp'[t][e] = filp[t][e],
         \A f \in File : file_table'[f].count = file_table[f].count
           - One(filp[t][d0], f) + One(filp'[t][d0], f)
           - One(filp[t][d1], f) + One(filp'[t][d1], f)
  PROVE  Counted'
<1>1. ASSUME NEW f \in File
      PROVE  file_table'[f].count = file_table[f].count - InRowOf(t, f)
                                      + InRowOf(t, f)'
  <2>1. InRowOf(t, f)' = InRowOf(t, f)
          - One(filp[t][d0], f) + One(filp'[t][d0], f)
          - One(filp[t][d1], f) + One(filp'[t][d1], f)
    <3> DEFINE r == filp[t]
               h == filp'[t]
    <3>1. SameElse(r, h, {d0, d1})
      BY DEF SameElse
    <3> HIDE DEF r, h
    <3>2. Cardinality(InRow(h, Fd, f)) =
            Cardinality(InRow(r, Fd, f)) - One(r[d0], f) + One(h[d0], f)
              - One(r[d1], f) + One(h[d1], f)
      BY <3>1, RowTwice
    <3>3. Cardinality(InRow(r, Fd, f)) = InRowOf(t, f)
          /\ Cardinality(InRow(h, Fd, f)) = InRowOf(t, f)'
      BY DEF r, h, InRowOf, InRow
    <3> QED
      BY <3>2, <3>3 DEF r, h
  <2>2. InRowOf(t, f) \in Nat
    BY FdFinite, TaskAssumption, PlacesRow DEF InRowOf
  <2>3. /\ One(filp[t][d0], f) \in Nat /\ One(filp'[t][d0], f) \in Nat
        /\ One(filp[t][d1], f) \in Nat /\ One(filp'[t][d1], f) \in Nat
    BY DEF One
  <2>4. file_table[f].count \in Nat
    BY DEF Typed, FileRecord
  <2> QED
    BY <2>1, <2>2, <2>3, <2>4
<1> QED
  BY <1>1, RowStep

(* pipe(), as far as it goes before it may sleep.                          *)
LEMMA SysPipeKeepsFiles ==
  ASSUME FilesInv, NEW t \in Task, SysPipe(t)
  PROVE  /\ FilesInv' /\ Running = {} /\ i_count' = i_count
         /\ at[t].pc = "user" /\ Leaves(t) /\ at'[t].pc = "pipe"
<1> DEFINE f0 == Min(FreeFiles)
           f1 == Min(FreeFiles \ {f0})
           d0 == Min(FreeFds(t))
           d1 == Min(FreeFds(t) \ {d0})
<1>1. /\ at[t].pc = "user" /\ Running = {} /\ i_count' = i_count
      /\ Cardinality(FreeFiles) >= 2 /\ Cardinality(FreeFds(t)) >= 2
      /\ close_on_exec' = close_on_exec
  BY DEF SysPipe, Call
<1>2. /\ file_table' = [file_table EXCEPT ![f0].count = 1, ![f1].count = 1]
      /\ filp' = [filp EXCEPT ![t][d0] = f0, ![t][d1] = f1]
      /\ at' = [at EXCEPT ![t] = [At("pipe") EXCEPT !.fds = <<d0, d1>>]]
  BY Zenon DEF SysPipe
<1>3. Typed /\ Counted /\ Marked /\ AtTypes
  BY DEF FilesInv, Typed
<1>4. /\ f0 \in File /\ file_table[f0].count = 0
      /\ f1 \in File /\ file_table[f1].count = 0 /\ f0 # f1
  <2>1. IsFiniteSet(FreeFiles)
    BY FdFinite, FS_Subset DEF FreeFiles
  <2>2. FreeFiles # {}
    BY <1>1, FS_EmptySet
  <2>3. f0 \in FreeFiles /\ f0 \in File /\ file_table[f0].count = 0
    BY <2>2, FreeFileIs
  <2> HIDE DEF f0
  <2>4. FreeFiles \ {f0} # {}
    BY <1>1, <2>1, <2>3, TwoLeft
  <2>5. /\ f1 \in FreeFiles \ {f0} /\ f1 \in File /\ file_table[f1].count = 0
    BY <2>4, FreeFileIs
  <2> QED
    BY <2>3, <2>5
<1>5. /\ d0 \in Fd /\ filp[t][d0] = NoFile
      /\ d1 \in Fd /\ filp[t][d1] = NoFile /\ d0 # d1
  <2>1. IsFiniteSet(FreeFds(t))
    BY FdFinite, FS_Subset DEF FreeFds
  <2>2. FreeFds(t) # {}
    BY <1>1, FS_EmptySet
  <2>3. d0 \in Fd /\ filp[t][d0] = NoFile
    BY <2>2, FreeFdIs
  <2>4. d0 \in FreeFds(t)
    BY <2>3 DEF FreeFds
  <2> HIDE DEF d0
  <2>5. FreeFds(t) \ {d0} # {}
    BY <1>1, <2>1, <2>4, TwoLeft
  <2>6. d1 \in FreeFds(t) \ {d0}
    <3>1. FreeFds(t) \ {d0} \in SUBSET Nat
      BY SizesAssumption DEF FreeFds, Fd
    <3> QED
      BY <2>5, <3>1, MinIn
  <2> QED
    BY <2>3, <2>6 DEF FreeFds
<1> HIDE DEF f0, f1, d0, d1
<1> DEFINE r == [At("pipe") EXCEPT !.fds = <<d0, d1>>]
<1>6. r \in AtRecord /\ r.pc = "pipe" /\ r.fds = <<d0, d1>>
  <2>1. <<d0, d1>> \in Seq(Fd)
    BY <1>5
  <2>2. "pipe" \in Pc
    BY DEF Pc
  <2> QED
    BY <2>1, <2>2, AtWith
<1>7. at' = [at EXCEPT ![t] = r]
  BY <1>2
<1> HIDE DEF r
<1>8. AtTypes' /\ at'[t] = r /\ Leaves(t) /\ at'[t].pc = "pipe"
  BY <1>3, <1>6, <1>7, OneMoves
<1>9. Calls(t)'
  BY <1>5, <1>6, <1>8 DEF Calls
<1> DEFINE P == {d0, d1}
<1>10. Pending(t)' = P
  <2>1. DOMAIN r.fds = {1, 2} /\ r.fds[1] = d0 /\ r.fds[2] = d1
    BY <1>6
  <2>2. Pending(t)' = {r.fds[i] : i \in DOMAIN r.fds}
    BY <1>8 DEF Pending
  <2> QED
    BY <2>1, <2>2, Zenon
<1>11. /\ filp' \in [Task -> [Fd -> File \cup {NoFile}]]
       /\ \A u \in Task \ {t} : filp'[u] = filp[u]
       /\ \A d \in Fd \ {d0, d1} : filp'[t][d] = filp[t][d]
       /\ filp'[t][d0] = f0 /\ filp'[t][d1] = f1
  BY <1>2, <1>3, <1>4, <1>5 DEF Typed
<1>12. Takes(t, P)
  BY <1>4, <1>5, <1>11 DEF Takes
<1>13. ASSUME NEW g \in File
       PROVE  /\ file_table'[g] \in FileRecord
              /\ file_table'[g].inode = file_table[g].inode
              /\ file_table'[g].count =
                   IF g \in {f0, f1} THEN 1 ELSE file_table[g].count
  BY <1>2, <1>3, <1>4 DEF Typed, FileRecord
<1>14. \A g \in File : TakesFile(t, P, g)
  BY <1>11, <1>13 DEF TakesFile
<1>15. file_table' \in [File -> FileRecord]
  <2> DEFINE m == [file_table EXCEPT ![f0].count = 1]
  <2>1. m \in [File -> FileRecord]
    BY <1>3, <1>4 DEF Typed, FileRecord
  <2>2. file_table' = [m EXCEPT ![f1].count = 1]
    BY <1>2, Zenon
  <2> HIDE DEF m
  <2> QED
    BY <1>4, <2>1, <2>2 DEF FileRecord
<1>16. Counted'
  <2>1. ASSUME NEW g \in File
        PROVE  file_table'[g].count = file_table[g].count
                 - One(filp[t][d0], g) + One(filp'[t][d0], g)
                 - One(filp[t][d1], g) + One(filp'[t][d1], g)
    <3>1. One(filp[t][d0], g) = 0 /\ One(filp[t][d1], g) = 0
      BY <1>5, SizesAssumption DEF One, NoFile, File
    <3>2. file_table[g].count \in Nat
      BY <1>3 DEF Typed, FileRecord
    <3>3. One(filp'[t][d0], g) = (IF g = f0 THEN 1 ELSE 0)
          /\ One(filp'[t][d1], g) = (IF g = f1 THEN 1 ELSE 0)
      BY <1>11 DEF One
    <3> QED
      BY <1>4, <1>13, <3>1, <3>2, <3>3
  <2>2. SameBut(t, Task, filp, filp')
    BY <1>11 DEF SameBut
  <2> QED
    BY <1>3, <1>5, <1>11, <2>1, <2>2, TwoDescriptors
<1>17. /\ close_on_exec' \in [Task -> SUBSET Fd]
       /\ \A u \in Task : close_on_exec'[u] \subseteq close_on_exec[u]
       /\ close_on_exec'[t] \cap P = {}
  BY <1>1, <1>3, <1>5 DEF Typed, Marked
<1>18. P \in SUBSET Fd
  BY <1>5
<1> HIDE DEF P
<1>19. FilesInv'
  BY <1>1, <1>8, <1>9, <1>10, <1>11, <1>12, <1>14, <1>15, <1>16, <1>17, <1>18,
     TakeStep
<1> QED
  BY <1>1, <1>8, <1>19

(* What t has taken: the files, and the end of the call.                   *)
Taken(t) == {filp[t][d] : d \in Pending(t)}

(* What a call has reserved is counted once, has no inode and is named at  *)
(* the descriptors of the call alone.                                      *)
LEMMA TakenIs ==
  ASSUME FilesInv, NEW t \in Task, NEW f \in Taken(t)
  PROVE  /\ f \in File /\ IsReserved(f) /\ file_table[f].count = 1
         /\ file_table[f].inode = "reg"
         /\ \A u \in Task, e \in Fd : filp[u][e] = f => u = t /\ e \in Pending(t)
<1>1. PICK d \in Pending(t) : f = filp[t][d]
  BY DEF Taken
<1>2. OnlyAt(t, d) /\ IsReserved(f)
  BY <1>1 DEF FilesInv, Alone, IsReserved
<1>3. f \in File /\ file_table[f].count = 1
  BY <1>1, <1>2, AloneIsOne DEF FilesInv, OnlyAt
<1> QED
  BY <1>1, <1>2, <1>3 DEF FilesInv, Blank, OnlyAt

(* A call that ends reserves nothing any more.                             *)
LEMMA ReservedDone ==
  ASSUME FilesInv, NEW t \in Task, Leaves(t), at'[t].fds = <<>>,
         \A u \in Task \ {t} : filp'[u] = filp[u]
  PROVE  /\ Pending(t)' = {} /\ \A u \in Task \ {t} : Pending(u)' = Pending(u)
         /\ \A f : IsReserved(f)' <=> IsReserved(f) /\ f \notin Taken(t)
<1>1. Pending(t)' = {} /\ \A u \in Task \ {t} : Pending(u)' = Pending(u)
  BY DEF Pending, Leaves
<1>2. ASSUME NEW f
      PROVE  IsReserved(f)' <=> IsReserved(f) /\ f \notin Taken(t)
  <2>1. IsReserved(f)' <=> \E u \in Task : \E d \in Pending(u)' : filp'[u][d] = f
    BY DEF IsReserved
  <2>2. IsReserved(f)' <=>
          \E u \in Task \ {t} : \E d \in Pending(u) : filp[u][d] = f
    BY <1>1, <2>1
  <2>3. ASSUME NEW u \in Task \ {t}, NEW d \in Pending(u), filp[u][d] = f
        PROVE  f \notin Taken(t)
    BY <2>3, TakenIs DEF FilesInv, Alone, OnlyAt
  <2>4. f \in Taken(t) <=> \E d \in Pending(t) : filp[t][d] = f
    BY DEF Taken
  <2> QED
    BY <2>2, <2>3, <2>4 DEF IsReserved
<1> QED
  BY <1>1, <1>2

(* The call has its inode: the files are on it.                            *)
Fills(t, n, f) ==
  /\ file_table'[f].count = file_table[f].count
  /\ file_table'[f].inode = IF f \in Taken(t) THEN n ELSE file_table[f].inode

(* A call gets its inode and fills the files it has reserved.              *)
LEMMA FillStep ==
  ASSUME FilesInv, NEW t \in Task, NEW n \in {"pipe", "reg"},
         Leaves(t), AtTypes', at'[t].pc = "user", at'[t].fds = <<>>,
         filp' = filp, close_on_exec' = close_on_exec,
         file_table' \in [File -> FileRecord],
         \A f \in File : Fills(t, n, f),
         i_count' = [i_count EXCEPT ![n] = i_count[n] + Cardinality(Taken(t))]
  PROVE  FilesInv'
<1>1. Typed /\ Counted /\ Alone /\ Marked /\ Blank
  BY DEF FilesInv
<1>2. /\ Pending(t)' = {} /\ \A u \in Task \ {t} : Pending(u)' = Pending(u)
      /\ \A f : IsReserved(f)' <=> IsReserved(f) /\ f \notin Taken(t)
  BY ReservedDone
<1>3. \A f \in File : /\ file_table'[f].count = file_table[f].count
                      /\ file_table'[f].inode =
                           IF f \in Taken(t) THEN n ELSE file_table[f].inode
  BY DEF Fills
<1>4. \A f \in Taken(t) :
        /\ f \in File /\ IsReserved(f) /\ file_table[f].count = 1
        /\ \A u \in Task, e \in Fd : filp[u][e] = f => u = t /\ e \in Pending(t)
  BY TakenIs
<1>5. IsFiniteSet(Taken(t)) /\ Cardinality(Taken(t)) \in Nat
  <2>1. Taken(t) \subseteq File
    BY <1>4
  <2> QED
    BY <2>1, FdFinite, FS_Subset, FS_CardinalityType
<1>6. Typed'
  BY <1>1, <1>5 DEF Typed
<1>7. Counted'
  BY <1>1, <1>3 DEF Counted, Refs
<1>8. ASSUME NEW m \in {"pipe", "reg"}
      PROVE  InodeCounted(m)'
  <2>1. ASSUME NEW f \in File
        PROVE  IsOn(f, m)' <=> IsOn(f, m) \/ (m = n /\ f \in Taken(t))
    <3>1. IsOn(f, m)' <=> /\ file_table'[f].count > 0 /\ file_table'[f].inode = m
                          /\ ~IsReserved(f)'
      BY DEF IsOn
    <3> QED
      BY <1>2, <1>3, <1>4, <3>1 DEF IsOn
  <2>2. InodeCounted(m) /\ i_count[m] \in Nat
    BY <1>1 DEF FilesInv, Typed
  <2>3. CASE m # n
    <3>1. OnInode(m)' = OnInode(m)
      BY <2>1, <2>3 DEF OnInode
    <3>2. i_count'[m] = i_count[m]
      BY <1>1, <2>3 DEF Typed
    <3> QED
      BY <2>2, <3>1, <3>2 DEF InodeCounted
  <2>4. CASE m = n
    <3>1. OnInode(m)' = OnInode(m) \cup Taken(t) /\ OnInode(m) \cap Taken(t) = {}
      BY <1>4, <2>1, <2>4 DEF OnInode, IsOn
    <3>2. i_count'[m] = i_count[m] + Cardinality(Taken(t))
      BY <1>1, <2>4 DEF Typed
    <3>3. IsFiniteSet(OnInode(m))
      BY FdFinite, FS_Subset DEF OnInode
    <3> DEFINE A == OnInode(m)
               B == Taken(t)
    <3> HIDE DEF A, B
    <3>4. Cardinality(A \cup B) = Cardinality(A) + Cardinality(B)
      <4>1. Cardinality(A \cup B)
              = Cardinality(A) + Cardinality(B) - Cardinality(A \cap B)
        BY <1>5, <3>3, FS_Union DEF A, B
      <4>2. Cardinality(A \cap B) = 0
        BY <3>1, FS_EmptySet DEF A, B
      <4>3. Cardinality(A) \in Nat /\ Cardinality(B) \in Nat
        BY <1>5, <3>3, FS_CardinalityType DEF A, B
      <4> QED
        BY <4>1, <4>2, <4>3
    <3> QED
      BY <2>2, <3>1, <3>2, <3>4 DEF InodeCounted, A, B
  <2> QED
    BY <2>3, <2>4
<1>9. Marked'
  BY <1>1, <1>2 DEF Marked
<1>10. Alone'
  BY <1>1, <1>2 DEF Alone, OnlyAt
<1>11. Blank'
  <2> SUFFICES ASSUME NEW f \in File, file_table'[f].count = 0 \/ IsReserved(f)'
               PROVE  file_table'[f].inode = "reg"
    BY DEF Blank
  <2> QED
    BY <1>1, <1>2, <1>3, <1>4 DEF Blank
<1>12. ASSUME NEW u \in Task
       PROVE  Calls(u)' /\ Gone(u)' /\ Holder(u)'
  <2>1. CASE u = t
    BY <2>1 DEF Calls, Gone, Holder, InPipe
  <2>2. CASE u # t
    <3>1. Calls(u) /\ Gone(u) /\ Holder(u) /\ at'[u] = at[u]
      BY <2>2 DEF FilesInv, Leaves
    <3>2. Calls(u)' /\ Gone(u)'
      BY <3>1 DEF Calls, Gone
    <3>3. \A d \in Fd : filp[u][d] \in File
                          => file_table'[filp[u][d]].inode = file_table[filp[u][d]].inode
      BY <1>3, <1>4, <2>2
    <3>4. Holder(u)'
      BY <3>1, <3>3 DEF Holder
    <3> QED
      BY <3>2, <3>4
  <2> QED
    BY <2>1, <2>2
<1> QED
  BY <1>6, <1>7, <1>8, <1>9, <1>10, <1>11, <1>12 DEF FilesInv

(* The call has not got its inode: what it had taken is given back.        *)
GivesBack(t) ==
  /\ \A u \in Task \ {t} : filp'[u] = filp[u]
  /\ \A d \in Fd : filp'[t][d] = IF d \in Pending(t) THEN NoFile ELSE filp[t][d]

Gives(t, f) ==
  /\ file_table'[f].count = IF f \in Taken(t) THEN 0 ELSE file_table[f].count
  /\ file_table'[f].inode = file_table[f].inode

(* A call fails and gives its files and descriptors back.                  *)
LEMMA GiveStep ==
  ASSUME FilesInv, NEW t \in Task,
         Leaves(t), AtTypes', at'[t].pc = "user", at'[t].fds = <<>>,
         filp' \in [Task -> [Fd -> File \cup {NoFile}]],
         GivesBack(t), close_on_exec' = close_on_exec,
         file_table' \in [File -> FileRecord],
         \A f \in File : Gives(t, f), i_count' = i_count, Counted'
  PROVE  FilesInv'
<1>1. Typed /\ Counted /\ Alone /\ Marked /\ Blank
  BY DEF FilesInv
<1>2. /\ \A u \in Task \ {t} : filp'[u] = filp[u]
      /\ \A d \in Fd :
           filp'[t][d] = IF d \in Pending(t) THEN NoFile ELSE filp[t][d]
  BY DEF GivesBack
<1>3. /\ Pending(t)' = {} /\ \A u \in Task \ {t} : Pending(u)' = Pending(u)
      /\ \A f : IsReserved(f)' <=> IsReserved(f) /\ f \notin Taken(t)
  BY <1>2, ReservedDone
<1>4. \A f \in File : /\ file_table'[f].count =
                           IF f \in Taken(t) THEN 0 ELSE file_table[f].count
                      /\ file_table'[f].inode = file_table[f].inode
  BY DEF Gives
<1>5. \A f \in Taken(t) :
        /\ f \in File /\ IsReserved(f) /\ file_table[f].inode = "reg"
  BY TakenIs
<1>6. Typed'
  BY <1>1 DEF Typed
<1>7. ASSUME NEW m \in {"pipe", "reg"}
      PROVE  InodeCounted(m)'
  <2>1. ASSUME NEW f \in File
        PROVE  IsOn(f, m)' <=> IsOn(f, m)
    <3>1. IsOn(f, m)' <=> /\ file_table'[f].count > 0 /\ file_table'[f].inode = m
                          /\ ~IsReserved(f)'
      BY DEF IsOn
    <3> QED
      BY <1>3, <1>4, <1>5, <3>1 DEF IsOn
  <2>2. OnInode(m)' = OnInode(m)
    BY <2>1 DEF OnInode
  <2> QED
    BY <2>2 DEF FilesInv, InodeCounted
<1>8. Marked'
  <2> SUFFICES ASSUME NEW u \in Task, NEW d \in close_on_exec[u]
               PROVE  filp'[u][d] # NoFile /\ d \notin Pending(u)'
    BY DEF Marked
  <2>1. filp[u][d] # NoFile /\ d \notin Pending(u) /\ d \in Fd
    BY <1>1 DEF Marked, Typed
  <2>2. CASE u = t
    BY <1>2, <1>3, <2>1, <2>2
  <2>3. CASE u # t
    BY <1>2, <1>3, <2>1, <2>3
  <2> QED
    BY <2>2, <2>3
<1>9. Alone'
  <2> SUFFICES ASSUME NEW u \in Task, NEW d \in Pending(u)'
               PROVE  OnlyAt(u, d)'
    BY DEF Alone
  <2>1. u # t /\ OnlyAt(u, d) /\ filp'[u] = filp[u]
    BY <1>1, <1>2, <1>3 DEF Alone
  <2>2. filp[u][d] # NoFile
    BY <2>1, SizesAssumption DEF OnlyAt, File, NoFile
  <2>3. ASSUME NEW w \in Task, NEW e \in Fd
        PROVE  filp'[w][e] \in {filp[w][e], NoFile}
    BY <1>2
  <2> QED
    BY <2>1, <2>2, <2>3 DEF OnlyAt
<1>10. Blank'
  <2> SUFFICES ASSUME NEW f \in File, file_table'[f].count = 0 \/ IsReserved(f)'
               PROVE  file_table'[f].inode = "reg"
    BY DEF Blank
  <2> QED
    BY <1>1, <1>3, <1>4, <1>5 DEF Blank
<1>11. ASSUME NEW u \in Task
       PROVE  Calls(u)' /\ Gone(u)' /\ Holder(u)'
  <2>1. CASE u = t
    BY <2>1 DEF Calls, Gone, Holder, InPipe
  <2>2. CASE u # t
    <3>1. Calls(u) /\ Gone(u) /\ Holder(u) /\ at'[u] = at[u] /\ filp'[u] = filp[u]
      BY <1>2, <2>2 DEF FilesInv, Leaves
    <3>2. Calls(u)' /\ Gone(u)'
      BY <3>1 DEF Calls, Gone
    <3>3. Holder(u)'
      BY <1>4, <3>1 DEF Holder
    <3> QED
      BY <3>2, <3>3
  <2> QED
    BY <2>1, <2>2
<1> QED
  BY <1>6, <1>7, <1>8, <1>9, <1>10, <1>11 DEF FilesInv

ToUser(t) == at' = [at EXCEPT ![t] = At("user")]

(* A call that ends has its task run on.                                   *)
LEMMA UserAt ==
  ASSUME AtTypes, NEW t \in Task, ToUser(t)
  PROVE  AtTypes' /\ Leaves(t) /\ at'[t].pc = "user" /\ at'[t].fds = <<>>
<1>1. /\ At("user") \in AtRecord /\ At("user").pc = "user"
      /\ At("user").fds = <<>>
  BY AtIs DEF Pc
<1>2. AtTypes' /\ at'[t] = At("user") /\ Leaves(t)
  BY <1>1, OneMoves DEF ToUser
<1> QED
  BY <1>1, <1>2

(* open() after it slept, with its inode or without.                       *)
LEMMA OpenedKeepsFiles ==
  ASSUME FilesInv, NEW t \in Task, Opened(t)
  PROVE  /\ FilesInv' /\ Running = {} /\ i_count'["pipe"] = i_count["pipe"]
         /\ at[t].pc = "open" /\ Leaves(t) /\ at'[t].pc = "user"
<1> DEFINE fd == at[t].fds[1]
           f == filp[t][fd]
<1>1. at[t].pc = "open" /\ Running = {} /\ close_on_exec' = close_on_exec
      /\ ToUser(t)
  BY DEF Opened, ToUser
<1>2. Typed /\ Counted /\ Alone /\ AtTypes
  BY DEF FilesInv, Typed
<1>3. AtTypes' /\ Leaves(t) /\ at'[t].pc = "user" /\ at'[t].fds = <<>>
  BY <1>1, <1>2, UserAt
<1>4. fd \in Fd /\ Pending(t) = {fd}
  <2>1. PICK d \in Fd : at[t].fds = <<d>>
    BY <1>1 DEF FilesInv, Calls
  <2> QED
    BY <2>1, PendingIs
<1>5. \/ /\ i_count' = [i_count EXCEPT !["reg"] = @ + 1]
         /\ file_table' = [file_table EXCEPT
              ![f] = [count |-> 1, inode |-> "reg", mode |-> "rw"]]
         /\ UNCHANGED filp
      \/ /\ filp' = [filp EXCEPT ![t][fd] = NoFile]
         /\ file_table' = [file_table EXCEPT ![f].count = 0]
         /\ UNCHANGED i_count
  BY Zenon DEF Opened
<1> HIDE DEF fd
<1>6. OnlyAt(t, fd) /\ f \in File /\ file_table[f].count = 1 /\ Taken(t) = {f}
  <2>1. OnlyAt(t, fd)
    BY <1>2, <1>4 DEF Alone
  <2>2. file_table[f].count = 1
    BY <1>2, <2>1, AloneIsOne
  <2> QED
    BY <1>4, <2>1, <2>2 DEF OnlyAt, Taken
<1> HIDE DEF f
<1>7. CASE /\ i_count' = [i_count EXCEPT !["reg"] = @ + 1]
           /\ file_table' = [file_table EXCEPT
                ![f] = [count |-> 1, inode |-> "reg", mode |-> "rw"]]
           /\ UNCHANGED filp
  <2>1. file_table' \in [File -> FileRecord]
    BY <1>2, <1>6, <1>7 DEF Typed, FileRecord
  <2>2. \A g \in File : Fills(t, "reg", g)
    BY <1>2, <1>6, <1>7 DEF Typed, Fills
  <2>3. i_count' = [i_count EXCEPT !["reg"] = i_count["reg"] + Cardinality(Taken(t))]
    <3>1. Cardinality({f}) = 1
      BY FS_Singleton
    <3> QED
      BY <1>6, <1>7, <3>1
  <2>4. i_count'["pipe"] = i_count["pipe"]
    BY <1>2, <1>7 DEF Typed
  <2>5. FilesInv'
    BY <1>1, <1>3, <1>7, <2>1, <2>2, <2>3, FillStep
  <2> QED
    BY <1>1, <1>3, <2>4, <2>5
<1>8. CASE /\ filp' = [filp EXCEPT ![t][fd] = NoFile]
           /\ file_table' = [file_table EXCEPT ![f].count = 0]
           /\ UNCHANGED i_count
  <2>1. file_table' \in [File -> FileRecord]
    BY <1>2, <1>6, <1>8 DEF Typed, FileRecord
  <2>2. \A g \in File : Gives(t, g)
    BY <1>2, <1>6, <1>8 DEF Typed, FileRecord, Gives
  <2>3. /\ filp' \in [Task -> [Fd -> File \cup {NoFile}]]
        /\ \A u \in Task \ {t} : filp'[u] = filp[u]
        /\ \A d \in Fd \ {fd} : filp'[t][d] = filp[t][d]
        /\ filp'[t][fd] = NoFile
    BY <1>2, <1>4, <1>8 DEF Typed
  <2>4. GivesBack(t)
    BY <1>4, <2>3 DEF GivesBack
  <2>5. Counted'
    <3>1. ASSUME NEW g \in File
          PROVE  file_table'[g].count = file_table[g].count
                   - One(filp[t][fd], g) + One(filp'[t][fd], g)
      <4>1. One(filp'[t][fd], g) = 0
        BY <2>3, SizesAssumption DEF One, NoFile, File
      <4>2. One(filp[t][fd], g) = IF g = f THEN 1 ELSE 0
        BY DEF One, f
      <4>3. file_table[g].count \in Nat
        BY <1>2 DEF Typed, FileRecord
      <4>4. file_table'[g].count = IF g = f THEN 0 ELSE file_table[g].count
        BY <1>6, <2>2 DEF Gives
      <4> QED
        BY <1>6, <4>1, <4>2, <4>3, <4>4
    <3>2. SameBut(t, Task, filp, filp')
      BY <2>3 DEF SameBut
    <3> QED
      BY <1>2, <1>4, <2>3, <3>1, <3>2, DescriptorStep
  <2>6. FilesInv'
    BY <1>1, <1>3, <1>8, <2>1, <2>2, <2>3, <2>4, <2>5, GiveStep
  <2> QED
    BY <1>1, <1>3, <1>8, <2>6
<1> QED
  BY <1>5, <1>7, <1>8

(* No files on the pipe, no one in it.                                     *)
LEMMA NobodyInPipe ==
  ASSUME FilesInv, i_count["pipe"] = 0, NEW u \in Task
  PROVE  ~InPipe(at[u].pc)
<1> SUFFICES ASSUME InPipe(at[u].pc) PROVE FALSE
  OBVIOUS
<1>1. PICK d \in Fd : filp[u][d] \in File /\ file_table[filp[u][d]].inode = "pipe"
  BY DEF FilesInv, Holder
<1>2. file_table[filp[u][d]].count > 0
  BY <1>1, UsedIsCounted DEF FilesInv
<1>3. filp[u][d] \in OnInode("pipe")
  BY <1>1, <1>2 DEF FilesInv, Blank, OnInode, IsOn
<1>4. IsFiniteSet(OnInode("pipe"))
  BY FdFinite, FS_Subset DEF OnInode
<1> QED
  BY <1>3, <1>4, FS_EmptySet DEF FilesInv, InodeCounted

PipeBegins ==
  /\ i_count["pipe"] = 0 /\ i_count'["pipe"] = 2

(* pipe() after it slept: without an inode, with the page, or with an      *)
(* inode and no page for it.                                               *)
LEMMA PipeInodeKeepsFiles ==
  ASSUME FilesInv, NEW t \in Task, PipeInode(t)
  PROVE  /\ FilesInv' /\ Running = {}
         /\ PipeBegins \/ (i_count' = i_count /\ UNCHANGED ringvars)
         /\ at[t].pc = "pipe" /\ Leaves(t) /\ at'[t].pc = "user"
<1> DEFINE d0 == at[t].fds[1]
           d1 == at[t].fds[2]
           f0 == filp[t][d0]
           f1 == filp[t][d1]
<1>1. at[t].pc = "pipe" /\ Running = {} /\ close_on_exec' = close_on_exec
      /\ ToUser(t)
  BY Zenon DEF PipeInode, ToUser
<1>2. Typed /\ Counted /\ Alone /\ AtTypes
  BY DEF FilesInv, Typed
<1>3. AtTypes' /\ Leaves(t) /\ at'[t].pc = "user" /\ at'[t].fds = <<>>
  BY <1>1, <1>2, UserAt
<1>4. d0 \in Fd /\ d1 \in Fd /\ d0 # d1 /\ Pending(t) = {d0, d1}
  <2>1. PICK e0 \in Fd, e1 \in Fd : e0 # e1 /\ at[t].fds = <<e0, e1>>
    BY <1>1 DEF FilesInv, Calls
  <2>2. Pending(t) = {e0, e1}
    BY <2>1, PendingIs
  <2>3. d0 = e0 /\ d1 = e1
    BY <2>1
  <2> QED
    BY <2>1, <2>2, <2>3
<1>5. \/ /\ i_count["pipe"] = 0
         /\ i_count' = [i_count EXCEPT !["pipe"] = 2]
         /\ file_table' = [file_table EXCEPT
              ![f0] = [count |-> 1, inode |-> "pipe", mode |-> "r"],
              ![f1] = [count |-> 1, inode |-> "pipe", mode |-> "w"]]
         /\ filp' = filp
      \/ /\ file_table' = [file_table EXCEPT ![f0].count = 0, ![f1].count = 0]
         /\ filp' = [filp EXCEPT ![t][d0] = NoFile, ![t][d1] = NoFile]
         /\ i_count' = i_count /\ UNCHANGED ringvars
  BY Zenon DEF PipeInode
<1> HIDE DEF d0, d1
<1>6. /\ f0 \in File /\ file_table[f0].count = 1
      /\ f1 \in File /\ file_table[f1].count = 1
      /\ f0 # f1 /\ Taken(t) = {f0, f1}
  <2>1. OnlyAt(t, d0) /\ OnlyAt(t, d1)
    BY <1>2, <1>4 DEF Alone
  <2>2. file_table[f0].count = 1 /\ file_table[f1].count = 1
    BY <1>2, <2>1, AloneIsOne
  <2>3. f0 # f1
    BY <1>4, <2>1 DEF OnlyAt
  <2>4. Taken(t) = {f0, f1}
    BY <1>4 DEF Taken
  <2> QED
    BY <2>1, <2>2, <2>3, <2>4 DEF OnlyAt
<1> HIDE DEF f0, f1
<1>7. CASE /\ i_count["pipe"] = 0
           /\ i_count' = [i_count EXCEPT !["pipe"] = 2]
           /\ file_table' = [file_table EXCEPT
                ![f0] = [count |-> 1, inode |-> "pipe", mode |-> "r"],
                ![f1] = [count |-> 1, inode |-> "pipe", mode |-> "w"]]
           /\ filp' = filp
  <2> DEFINE r0 == [count |-> 1, inode |-> "pipe", mode |-> "r"]
             r1 == [count |-> 1, inode |-> "pipe", mode |-> "w"]
             m == [file_table EXCEPT ![f0] = r0]
  <2>1. /\ r0 \in FileRecord /\ r0.count = 1 /\ r0.inode = "pipe"
        /\ r1 \in FileRecord /\ r1.count = 1 /\ r1.inode = "pipe"
    BY DEF FileRecord
  <2>2. file_table' = [m EXCEPT ![f1] = r1]
    BY <1>7, Zenon
  <2> HIDE DEF r0, r1
  <2>3. /\ file_table' \in [File -> FileRecord]
        /\ \A g \in File : file_table'[g] =
             IF g = f1 THEN r1 ELSE IF g = f0 THEN r0 ELSE file_table[g]
    BY <1>2, <1>6, <2>1, <2>2 DEF Typed
  <2>4. \A g \in File : Fills(t, "pipe", g)
    BY <1>6, <2>1, <2>3 DEF Fills
  <2>5. i_count' = [i_count EXCEPT !["pipe"] = i_count["pipe"] + Cardinality(Taken(t))]
    <3>1. Cardinality({f0, f1}) = 2
      <4>1. Cardinality({f0}) = 1 /\ IsFiniteSet({f0})
        BY FS_Singleton
      <4>2. Cardinality({f0} \cup {f1}) = Cardinality({f0}) + 1
        BY <1>6, <4>1, FS_AddElement
      <4>3. {f0} \cup {f1} = {f0, f1}
        OBVIOUS
      <4> QED
        BY <4>1, <4>2, <4>3
    <3>2. i_count["pipe"] + Cardinality(Taken(t)) = 2
      BY <1>6, <1>7, <3>1
    <3> QED
      BY <1>7, <3>2
  <2>6. i_count'["pipe"] = 2
    BY <1>2, <1>7 DEF Typed
  <2>7. filp' = filp /\ i_count["pipe"] = 0
    BY <1>7
  <2>8. FilesInv'
    BY <1>1, <1>3, <2>3, <2>4, <2>5, <2>7, FillStep
  <2> QED
    BY <1>1, <1>3, <2>6, <2>7, <2>8 DEF PipeBegins
<1>8. CASE /\ file_table' = [file_table EXCEPT ![f0].count = 0, ![f1].count = 0]
           /\ filp' = [filp EXCEPT ![t][d0] = NoFile, ![t][d1] = NoFile]
           /\ i_count' = i_count /\ UNCHANGED ringvars
  <2>1. /\ file_table' \in [File -> FileRecord]
        /\ \A g \in File :
             /\ file_table'[g].inode = file_table[g].inode
             /\ file_table'[g].count =
                  IF g \in {f0, f1} THEN 0 ELSE file_table[g].count
    <3> DEFINE m == [file_table EXCEPT ![f0].count = 0]
    <3>1. m \in [File -> FileRecord]
          /\ \A g \in File : /\ m[g].inode = file_table[g].inode
                             /\ m[g].count = IF g = f0 THEN 0 ELSE file_table[g].count
      BY <1>2, <1>6 DEF Typed, FileRecord
    <3>2. file_table' = [m EXCEPT ![f1].count = 0]
      BY <1>8, Zenon
    <3> HIDE DEF m
    <3> QED
      BY <1>6, <3>1, <3>2 DEF FileRecord
  <2>2. \A g \in File : Gives(t, g)
    BY <1>6, <2>1 DEF Gives
  <2>3. /\ filp' \in [Task -> [Fd -> File \cup {NoFile}]]
        /\ \A u \in Task \ {t} : filp'[u] = filp[u]
        /\ \A d \in Fd : filp'[t][d] =
             IF d \in {d0, d1} THEN NoFile ELSE filp[t][d]
    BY <1>2, <1>4, <1>8 DEF Typed
  <2>4. GivesBack(t)
    BY <1>4, <2>3 DEF GivesBack
  <2>5. Counted'
    <3>1. ASSUME NEW g \in File
          PROVE  file_table'[g].count = file_table[g].count
                   - One(filp[t][d0], g) + One(filp'[t][d0], g)
                   - One(filp[t][d1], g) + One(filp'[t][d1], g)
      <4>1. One(filp'[t][d0], g) = 0 /\ One(filp'[t][d1], g) = 0
        BY <1>4, <2>3, SizesAssumption DEF One, NoFile, File
      <4>2. /\ One(filp[t][d0], g) = (IF g = f0 THEN 1 ELSE 0)
            /\ One(filp[t][d1], g) = (IF g = f1 THEN 1 ELSE 0)
        BY DEF One, f0, f1
      <4>3. file_table[g].count \in Nat
        BY <1>2 DEF Typed, FileRecord
      <4> QED
        BY <1>6, <2>1, <4>1, <4>2, <4>3
    <3>2. SameBut(t, Task, filp, filp')
      BY <2>3 DEF SameBut
    <3>3. \A e \in Fd \ {d0, d1} : filp'[t][e] = filp[t][e]
      BY <2>3
    <3> QED
      BY <1>2, <1>4, <3>1, <3>2, <3>3, TwoDescriptors
  <2>6. i_count' = i_count /\ UNCHANGED ringvars
    BY <1>8
  <2>7. FilesInv'
    BY <1>1, <1>3, <2>1, <2>2, <2>3, <2>4, <2>5, <2>6, GiveStep
  <2> QED
    BY <1>1, <1>3, <2>6, <2>7
<1> QED
  BY <1>5, <1>7, <1>8

(* At first every file is free and no descriptor is open.                  *)
LEMMA FilesInit == Init => FilesInv
<1> SUFFICES ASSUME Init PROVE FilesInv
  OBVIOUS
<1>1. /\ \A t \in Task : \A d \in Fd : filp[t][d] = NoFile
      /\ filp \in [Task -> [Fd -> File \cup {NoFile}]]
      /\ close_on_exec = [t \in Task |-> {}]
      /\ file_table = [f \in File |-> Unused]
      /\ i_count = [pipe |-> 0, reg |-> 0]
      /\ at = [t \in Task |-> At(IF t = First THEN "user" ELSE "none")]
  BY DEF Init
<1>2. \A t \in Task : at[t] \in AtRecord /\ at[t].fds = <<>>
                      /\ at[t].pc \in {"user", "none"}
  <2>1. /\ At("user") \in AtRecord /\ At("user").pc = "user"
        /\ At("user").fds = <<>>
        /\ At("none") \in AtRecord /\ At("none").pc = "none"
        /\ At("none").fds = <<>>
    BY AtIs DEF Pc
  <2> QED
    BY <1>1, <2>1
<1>3. AtTypes
  BY <1>1, <1>2 DEF AtTypes, AtRecord
<1>4. Unused \in FileRecord /\ Unused.count = 0 /\ Unused.inode = "reg"
  BY DEF Unused, FileRecord
<1>5. Typed
  <2>1. i_count \in [{"pipe", "reg"} -> Nat]
    BY <1>1
  <2>2. file_table \in [File -> FileRecord]
    BY <1>1, <1>4
  <2> QED
    BY <1>1, <1>3, <2>1, <2>2 DEF Typed
<1>6. Counted
  <2> SUFFICES ASSUME NEW f \in File
               PROVE  file_table[f].count = Refs(f)
    BY DEF Counted
  <2>1. Places(filp, Task, Fd, f) = {}
    BY <1>1, SizesAssumption DEF Places, File, NoFile
  <2> QED
    BY <1>1, <1>4, <2>1, FS_EmptySet DEF Refs
<1>7. \A n \in {"pipe", "reg"} : InodeCounted(n)
  <2>1. \A n : OnInode(n) = {}
    BY <1>1, <1>4 DEF OnInode, IsOn
  <2>2. i_count["pipe"] = 0 /\ i_count["reg"] = 0
    BY <1>1
  <2> QED
    BY <2>1, <2>2, FS_EmptySet DEF InodeCounted
<1>8. \A t \in Task : Pending(t) = {}
  BY <1>2, PendingIs
<1>9. Marked /\ Alone /\ Blank
  BY <1>1, <1>4, <1>8 DEF Marked, Alone, Blank
<1>10. \A t \in Task : Calls(t) /\ Gone(t) /\ Holder(t)
  BY <1>1, <1>2 DEF Calls, Gone, Holder, InPipe
<1> QED
  BY <1>5, <1>6, <1>7, <1>9, <1>10 DEF FilesInv

-----------------------------------------------------------------------------
(* Who sleeps, and who is on his way.                                      *)

Runs(pc) == pc \in {"read", "write"}

Works(pc) == pc \in {"read", "write", "copy_out", "copy_in",
                     "read_woken", "write_woken"}

Calm(pc) == pc \in {"none", "user", "open", "pipe"}

OneRuns == \A t, u \in Task : Runs(at[t].pc) /\ Runs(at[u].pc) => t = u

OnTheWay == \E u \in Task : Works(at[u].pc)

BothEnds == i_count["pipe"] = 2

(* A sleeper has reason to sleep, or somebody is still on the way who will *)
(* wake him, or sleep with reason.                                         *)
Waits(t) ==
  /\ at[t].pc = "read_sleep" => OnTheWay \/ (PipeSize = 0 /\ BothEnds)
  /\ at[t].pc = "write_sleep" => OnTheWay \/ (Room = 0 /\ BothEnds)

WaitInv == OneRuns /\ \A t \in Task : Waits(t)

(* At first nobody is in a call.                                           *)
LEMMA WaitInit == Init => WaitInv
<1> SUFFICES ASSUME Init PROVE WaitInv
  OBVIOUS
<1>1. \A t \in Task : at[t].pc \in {"user", "none"}
  <2>1. At("user").pc = "user" /\ At("none").pc = "none"
    BY DEF At
  <2> QED
    BY <2>1 DEF Init
<1> QED
  BY <1>1 DEF WaitInv, OneRuns, Runs, Waits

(* The others, woken or not, run only if they did before.                  *)
LEMMA OthersRun ==
  ASSUME NEW t \in Task, NEW u \in Task \ {t}, Leaves(t) \/ Rouses(t)
  PROVE  /\ Runs(at'[u].pc) => Runs(at[u].pc)
         /\ Rouses(t) => at'[u].pc \notin {"read_sleep", "write_sleep"}
<1>1. CASE Leaves(t)
  <2>1. at'[u] = at[u]
    BY <1>1 DEF Leaves
  <2>2. Rouses(t) => at'[u].pc = Alert(at[u].pc)
    BY DEF Rouses
  <2> QED
    BY <2>1, <2>2 DEF Alert
<1>2. CASE Rouses(t)
  BY <1>2 DEF Rouses, Alert, Runs
<1> QED
  BY <1>1, <1>2

(* One task runs in the kernel at most: the others did not before.         *)
LEMMA StillOne ==
  ASSUME NEW t \in Task, Leaves(t) \/ Rouses(t),
         \A u \in Task \ {t} : ~Runs(at[u].pc)
  PROVE  OneRuns'
<1>1. \A u \in Task \ {t} : ~Runs(at'[u].pc)
  BY OthersRun
<1> QED
  BY <1>1 DEF OneRuns

(* A task goes to work.                                                    *)
LEMMA WorkStep ==
  ASSUME NEW t \in Task, Leaves(t) \/ Rouses(t),
         \A u \in Task \ {t} : ~Runs(at[u].pc), Works(at'[t].pc)
  PROVE  WaitInv'
<1>1. OnTheWay'
  BY DEF OnTheWay
<1> QED
  BY <1>1, StillOne DEF WaitInv, Waits

(* A task wakes the others, and sleeps with reason or not at all.          *)
LEMMA RouseStep ==
  ASSUME NEW t \in Task, Rouses(t), \A u \in Task \ {t} : ~Runs(at[u].pc),
         \/ Calm(at'[t].pc)
         \/ at'[t].pc = "read_sleep" /\ (PipeSize = 0)' /\ BothEnds'
         \/ at'[t].pc = "write_sleep" /\ (Room = 0)' /\ BothEnds'
  PROVE  WaitInv'
<1>1. \A u \in Task \ {t} : Waits(u)'
  BY OthersRun DEF Waits
<1>2. Waits(t)'
  BY DEF Waits, Calm
<1> QED
  BY <1>1, <1>2, StillOne DEF WaitInv

(* A task does something else.                                             *)
LEMMA CalmStep ==
  ASSUME WaitInv, NEW t \in Task, Leaves(t), Running = {},
         Calm(at[t].pc), Calm(at'[t].pc),
         i_count'["pipe"] = i_count["pipe"], UNCHANGED ringvars
  PROVE  WaitInv'
<1>1. \A u \in Task : ~Runs(at[u].pc)
  BY DEF Running, Runs
<1>2. OnTheWay => OnTheWay'
  <2>1. ~Works(at[t].pc)
    BY DEF Calm, Works
  <2> QED
    BY <2>1 DEF OnTheWay, Leaves
<1>3. PipeSize' = PipeSize /\ Room' = Room /\ (BothEnds' <=> BothEnds)
  BY DEF PipeSize, Room, BothEnds, ringvars
<1>4. ASSUME NEW u \in Task
      PROVE  Waits(u)'
  <2>1. CASE u = t
    BY <2>1 DEF Waits, Calm
  <2>2. CASE u # t
    <3>1. at'[u] = at[u] /\ Waits(u)
      BY <2>2 DEF Leaves, WaitInv
    <3> QED
      BY <1>2, <1>3, <3>1 DEF Waits
  <2> QED
    BY <2>1, <2>2
<1> QED
  BY <1>1, <1>4, StillOne DEF WaitInv

(* Nobody runs when the set of those who run is empty.                     *)
LEMMA NoneRuns ==
  ASSUME Running = {}
  PROVE  \A u \in Task : ~Runs(at[u].pc)
BY DEF Running, Runs

(* The inductive invariant: the ring, the files and who waits.             *)
PipeInv == RingInv /\ FilesInv /\ WaitInv

(* The steps of a task in a call keep the files and who waits.             *)
LEMMA KernelKeeps ==
  ASSUME PipeInv, NEW t \in Task, Kernel(t)
  PROVE  FilesInv' /\ WaitInv'
<1>1. RingInv /\ FilesInv /\ WaitInv /\ AtTypes /\ Calls(t)
  BY DEF PipeInv, FilesInv, Typed
<1>2. Runs(at[t].pc) => \A u \in Task \ {t} : ~Runs(at[u].pc)
  BY <1>1 DEF WaitInv, OneRuns
<1>3. CASE ReadPipe(t)
  <2>1. FilesInv'
    BY <1>1, <1>3, PipeStepsKeepFiles
  <2>2. /\ UNCHANGED filevars /\ at[t].pc = "read"
        /\ \/ Woke(t, {"user"})
           \/ /\ Woke(t, {"read_sleep"})
              /\ PipeSize = 0 /\ i_count["pipe"] = 2 /\ UNCHANGED ringvars
           \/ Went(t, {"read", "copy_out"})
    BY <1>1, <1>3, ReadPipeAt
  <2>3. \A u \in Task \ {t} : ~Runs(at[u].pc)
    BY <1>2, <2>2 DEF Runs
  <2>4. CASE Woke(t, {"user"})
    BY <2>1, <2>3, <2>4, RouseStep DEF Woke, Calm
  <2>5. CASE /\ Woke(t, {"read_sleep"})
             /\ PipeSize = 0 /\ i_count["pipe"] = 2 /\ UNCHANGED ringvars
    <3>1. (PipeSize = 0)' /\ BothEnds'
      BY <2>2, <2>5 DEF ringvars, filevars, PipeSize, BothEnds
    <3> QED
      BY <2>1, <2>3, <2>5, <3>1, RouseStep DEF Woke
  <2>6. CASE Went(t, {"read", "copy_out"})
    BY <2>1, <2>3, <2>6, WorkStep DEF Went, Works
  <2> QED
    BY <2>1, <2>2, <2>4, <2>5, <2>6
<1>4. CASE WritePipe(t)
  <2>1. FilesInv'
    BY <1>1, <1>4, PipeStepsKeepFiles
  <2>2. /\ UNCHANGED filevars /\ at[t].pc = "write"
        /\ \/ Woke(t, {"user"})
           \/ /\ Woke(t, {"write_sleep"})
              /\ Room = 0 /\ i_count["pipe"] = 2 /\ UNCHANGED ringvars
           \/ Went(t, {"write", "copy_in"})
    BY <1>1, <1>4, WritePipeAt
  <2>3. \A u \in Task \ {t} : ~Runs(at[u].pc)
    BY <1>2, <2>2 DEF Runs
  <2>4. CASE Woke(t, {"user"})
    BY <2>1, <2>3, <2>4, RouseStep DEF Woke, Calm
  <2>5. CASE /\ Woke(t, {"write_sleep"})
             /\ Room = 0 /\ i_count["pipe"] = 2 /\ UNCHANGED ringvars
    <3>1. (Room = 0)' /\ BothEnds'
      BY <2>2, <2>5 DEF ringvars, filevars, PipeSize, Room, BothEnds
    <3> QED
      BY <2>1, <2>3, <2>5, <3>1, RouseStep DEF Woke
  <2>6. CASE Went(t, {"write", "copy_in"})
    BY <2>1, <2>3, <2>6, WorkStep DEF Went, Works
  <2> QED
    BY <2>1, <2>2, <2>4, <2>5, <2>6
<1>5. CASE Resume(t) \/ FaultDone(t)
  <2>1. FilesInv'
    BY <1>1, <1>5, PipeStepsKeepFiles
  <2>2. Running = {} /\ Leaves(t) /\ Works(at'[t].pc)
    BY <1>1, <1>5, ResumeAt DEF Went, Works
  <2> QED
    BY <2>1, <2>2, NoneRuns, WorkStep
<1>6. CASE Opened(t)
  <2>1. /\ FilesInv' /\ Running = {} /\ i_count'["pipe"] = i_count["pipe"]
        /\ at[t].pc = "open" /\ Leaves(t) /\ at'[t].pc = "user"
    BY <1>1, <1>6, OpenedKeepsFiles
  <2>2. UNCHANGED ringvars
    BY <1>6 DEF Opened
  <2> QED
    BY <1>1, <2>1, <2>2, CalmStep DEF Calm
<1>7. CASE PipeInode(t)
  <2>1. /\ FilesInv' /\ Running = {}
        /\ PipeBegins \/ (i_count' = i_count /\ UNCHANGED ringvars)
        /\ at[t].pc = "pipe" /\ Leaves(t) /\ at'[t].pc = "user"
    BY <1>1, <1>7, PipeInodeKeepsFiles
  <2>2. CASE PipeBegins
    <3>1. ASSUME NEW u \in Task
          PROVE  ~InPipe(at[u].pc)
      BY <1>1, <2>2, NobodyInPipe DEF PipeBegins
    <3>2. ASSUME NEW u \in Task
          PROVE  at'[u].pc \notin {"read_sleep", "write_sleep"}
      <4>1. at'[u] = at[u] \/ at'[u].pc = "user"
        BY <2>1 DEF Leaves
      <4> QED
        BY <3>1, <4>1 DEF InPipe
    <3>3. OneRuns'
      BY <2>1, NoneRuns, StillOne
    <3> QED
      BY <2>1, <3>2, <3>3 DEF WaitInv, Waits
  <2>3. CASE i_count' = i_count /\ UNCHANGED ringvars
    BY <1>1, <2>1, <2>3, CalmStep DEF Calm
  <2> QED
    BY <2>1, <2>2, <2>3
<1> QED
  BY <1>3, <1>4, <1>5, <1>6, <1>7 DEF Kernel

(* So do the calls that begin.                                             *)
LEMMA CallsKeep ==
  ASSUME PipeInv, NEW t \in Task, Bounded(t) \/ Free(t)
  PROVE  FilesInv' /\ WaitInv'
<1>1. RingInv /\ FilesInv /\ WaitInv /\ AtTypes /\ Calls(t)
  BY DEF PipeInv, FilesInv, Typed
<1>2. CASE SysPipe(t)
  <2>1. /\ FilesInv' /\ Running = {} /\ i_count' = i_count
        /\ at[t].pc = "user" /\ Leaves(t) /\ at'[t].pc = "pipe"
    BY <1>1, <1>2, SysPipeKeepsFiles
  <2>2. UNCHANGED ringvars
    BY <1>2, Zenon DEF SysPipe
  <2> QED
    BY <1>1, <2>1, <2>2, CalmStep DEF Calm
<1>3. CASE SysOpen(t)
  <2>1. /\ FilesInv' /\ Running = {} /\ i_count' = i_count
        /\ at[t].pc = "user" /\ Leaves(t) /\ at'[t].pc \in {"user", "open"}
    BY <1>1, <1>3, SysOpenKeepsFiles
  <2>2. UNCHANGED ringvars
    BY <1>3 DEF SysOpen
  <2> QED
    BY <1>1, <2>1, <2>2, CalmStep DEF Calm
<1>4. CASE SysDup(t) \/ SetCloseOnExec(t)
  <2>1. FilesInv'
    BY <1>1, <1>4, SysDupKeepsFiles, SetCloseOnExecKeepsFiles
  <2>2. /\ at[t].pc = "user" /\ Running = {}
        /\ UNCHANGED at /\ UNCHANGED i_count /\ UNCHANGED ringvars
    BY <1>4 DEF SysDup, SetCloseOnExec, Call
  <2>3. Leaves(t) /\ at'[t].pc = "user"
    BY <2>2 DEF Leaves
  <2> QED
    BY <1>1, <2>1, <2>2, <2>3, CalmStep DEF Calm
<1>5. CASE SysDup2(t) \/ SysClose(t) \/ Execve(t) \/ Exit(t)
  <2>1. /\ at[t].pc = "user" /\ Running = {}
        /\ CloseEffect(t, "user") \/ CloseEffect(t, "none")
    BY <1>1, <1>5, SysDup2KeepsFiles, ClosesKeepFiles
  <2>2. /\ FilesInv' /\ Calm(at'[t].pc)
        /\ Rouses(t) \/ (Leaves(t) /\ i_count'["pipe"] = i_count["pipe"])
    BY <2>1 DEF CloseEffect, Calm
  <2>3. UNCHANGED ringvars
    BY <1>5, Zenon DEF SysDup2, SysClose, Execve, Exit
  <2>4. CASE Rouses(t)
    BY <2>1, <2>2, <2>4, NoneRuns, RouseStep
  <2>5. CASE Leaves(t) /\ i_count'["pipe"] = i_count["pipe"]
    BY <1>1, <2>1, <2>2, <2>3, <2>5, CalmStep DEF Calm
  <2> QED
    BY <2>2, <2>4, <2>5
<1>6. CASE Fork(t)
  <2>1. /\ FilesInv' /\ Running = {} /\ i_count' = i_count
        /\ \E u \in Task : at[u].pc = "none" /\ Leaves(u) /\ at'[u].pc = "user"
    BY <1>1, <1>6, ForkKeepsFiles
  <2>2. PICK u \in Task : at[u].pc = "none" /\ Leaves(u) /\ at'[u].pc = "user"
    BY <2>1
  <2>3. UNCHANGED ringvars
    BY <1>6 DEF Fork
  <2> QED
    BY <1>1, <2>1, <2>2, <2>3, CalmStep DEF Calm
<1>7. CASE SysRead(t) \/ SysWrite(t)
  <2>1. FilesInv'
    BY <1>1, <1>7, PipeStepsKeepFiles
  <2>2. Running = {} /\ Leaves(t) /\ Works(at'[t].pc)
    BY <1>1, <1>7, EnterAt DEF Went, Works
  <2> QED
    BY <2>1, <2>2, NoneRuns, WorkStep
<1> QED
  BY <1>2, <1>3, <1>4, <1>5, <1>6, <1>7 DEF Bounded, Free

(* The invariant is inductive.                                             *)
LEMMA PipeInvNext ==
  ASSUME PipeInv, [Next]_vars
  PROVE  PipeInv'
<1>1. RingInv'
  <2>1. \A t \in Task : Left(t)
    BY DEF PipeInv, FilesInv, Typed, AtTypes, Left
  <2> QED
    BY <2>1, RingNext DEF PipeInv
<1>2. CASE Next
  <2>1. PICK t \in Task : Kernel(t) \/ Bounded(t) \/ Free(t)
    BY <1>2 DEF Next
  <2>2. FilesInv' /\ WaitInv'
    BY <2>1, KernelKeeps, CallsKeep
  <2> QED
    BY <1>1, <2>2 DEF PipeInv
<1>3. CASE UNCHANGED vars
  <2>1. UNCHANGED filevars /\ UNCHANGED ringvars /\ UNCHANGED at
    BY <1>3 DEF vars, filevars, ringvars
  <2>2. AtTypes' /\ \A u \in Task : SameCall(u) /\ (InPipe(at'[u].pc) => HasPipe(u))
    BY <2>1 DEF PipeInv, FilesInv, Typed, AtTypes, SameCall, Holder, HasPipe
  <2>3. FilesInv'
    BY <2>1, <2>2, AtStep DEF PipeInv
  <2>4. WaitInv'
    BY <2>1 DEF PipeInv, WaitInv, OneRuns, Waits, OnTheWay, BothEnds, Room,
                PipeSize, filevars, ringvars
  <2> QED
    BY <1>1, <2>3, <2>4 DEF PipeInv
<1> QED
  BY <1>2, <1>3

(* And so it always holds.                                                 *)
LEMMA PipeAlways == Spec => []PipeInv
<1>1. Init => PipeInv
  BY RingInit, FilesInit, WaitInit DEF PipeInv
<1>2. PipeInv /\ [Next]_vars => PipeInv'
  BY PipeInvNext
<1> QED
  BY <1>1, <1>2, PTL DEF Spec

(* Every count of a file and of an inode is that of who refers to it, for  *)
(* any tasks, descriptors and files, through every call (fs/open.c,        *)
(* fs/fcntl.c, fs/pipe.c, kernel/fork.c and kernel/exit.c).                *)
THEOREM FilesAreCounted == Spec => []FilesCounted
<1>1. PipeInv => FilesCounted
  <2> SUFFICES ASSUME PipeInv PROVE FilesCounted
    OBVIOUS
  <2>1. RingInv /\ FilesInv /\ Typed /\ Counted /\ Marked /\ OneRuns
    BY DEF PipeInv, FilesInv, WaitInv
  <2>2. TypeOK
    <3>1. Cardinality(Running) <= 1
      <4>1. CASE Running = {}
        <5>1. Cardinality(Running) = 0
          BY <4>1, FS_EmptySet
        <5> QED
          BY <5>1
      <4>2. CASE Running # {}
        <5>1. PICK t : t \in Running
          BY <4>2
        <5>2. Running = {t}
          BY <2>1, <5>1 DEF OneRuns, Runs, Running
        <5> QED
          BY <5>2, FS_Singleton
      <4> QED
        BY <4>1, <4>2
    <3>2. \A f \in File : file_table[f].count \in Nat
      BY <2>1 DEF Typed, FileRecord
    <3> QED
      BY <2>1, <3>1, <3>2 DEF TypeOK, Typed, RingInv, RingTypes, Place
  <2>3. \A f \in File : file_table[f].count =
          Cardinality({x \in Task \X Fd : filp[x[1]][x[2]] = f})
    BY <2>1 DEF Counted, Refs, Places
  <2>4. ASSUME NEW n \in {"pipe", "reg"}
        PROVE  i_count[n] = Cardinality({f \in File \ Reserved :
                 file_table[f].count > 0 /\ file_table[f].inode = n})
    <3>1. {f \in File \ Reserved : file_table[f].count > 0
                                   /\ file_table[f].inode = n} = OnInode(n)
      BY ReservedIs DEF OnInode, IsOn
    <3>2. InodeCounted(n)
      BY <2>1 DEF FilesInv
    <3> QED
      BY <3>1, <3>2 DEF InodeCounted
  <2>5. \A t \in Task : close_on_exec[t] \subseteq Fd \ FreeFds(t)
    BY <2>1 DEF Marked, Typed, FreeFds
  <2> QED
    BY <2>2, <2>3, <2>4, <2>5 DEF FilesCounted
<1> QED
  BY <1>1, PipeAlways, PTL

(* While no copy has slept, every byte comes out of the pipe once and in   *)
(* the order in which the bytes went in, for any page and any counts       *)
(* (read_pipe, write_pipe).                                                *)
THEOREM BytesComeInOrder == Spec => []BytesInOrder
<1>1. PipeInv => BytesInOrder
  BY DEF PipeInv, RingInv, RingTypes, BytesInOrder
<1> QED
  BY <1>1, PipeAlways, PTL

(* Nobody is left asleep on bytes or room that is there, nor on an end     *)
(* that is closed, with any number of readers and writers on one queue.    *)
THEOREM NobodyIsLeftAsleep == Spec => []NobodyLeftAsleep
<1>1. PipeInv => NobodyLeftAsleep
  <2> SUFFICES ASSUME PipeInv,
                      \A t \in Task : at[t].pc \in {"none", "user", "open", "pipe",
                                                    "read_sleep", "write_sleep"},
                      NEW t \in Task
               PROVE  /\ at[t].pc = "read_sleep" => PipeSize = 0 /\ i_count["pipe"] = 2
                      /\ at[t].pc = "write_sleep" => Room = 0 /\ i_count["pipe"] = 2
    BY Zenon DEF NobodyLeftAsleep
  <2>1. ~OnTheWay
    BY DEF OnTheWay, Works
  <2> QED
    BY <2>1 DEF PipeInv, WaitInv, Waits, BothEnds
<1> QED
  BY <1>1, PipeAlways, PTL

=============================================================================
