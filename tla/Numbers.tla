------------------------------- MODULE Numbers -------------------------------
(***************************************************************************)
(* For the proofs: least and greatest elements of sets of numbers, what is *)
(* computed step by step, and how often something occurs in a table.       *)
(***************************************************************************)
EXTENDS Integers, FiniteSetsExt, FiniteSetTheorems, WellFoundedInduction,
        SequenceTheorems, TLAPS

(* A set of numbers has a least one: its initial segments are finite sets, *)
(* of which strict inclusion is well founded.                              *)
LEMMA MinIn ==
  ASSUME NEW S \in SUBSET Nat, S # {}
  PROVE  Min(S) \in S /\ \A y \in S : Min(S) <= y
<1> PICK n \in S : TRUE
  OBVIOUS
<1> DEFINE Below(x) == S \cap 0..x
           T == {Below(x) : x \in S \cap 0..n}
<1>1. IsFiniteSet(0..n)
  BY FS_Interval
<1>2. IsWellFoundedOn(StrictSubsetOrdering(0..n), FiniteSubsetsOf(0..n))
  BY FS_StrictSubsetOrderingWellFounded
<1>3. T \subseteq FiniteSubsetsOf(0..n)
  <2> SUFFICES ASSUME NEW x \in S \cap 0..n
               PROVE  Below(x) \in FiniteSubsetsOf(0..n)
    OBVIOUS
  <2>1. Below(x) \in SUBSET (0..n)
    OBVIOUS
  <2>2. IsFiniteSet(Below(x))
    BY <1>1, <2>1, FS_Subset
  <2> QED
    BY <2>1, <2>2 DEF FiniteSubsetsOf
<1>4. T # {}
  <2>1. n \in S \cap 0..n
    OBVIOUS
  <2> QED
    BY <2>1
<1>5. PICK t \in T : \A u \in T : <<u, t>> \notin StrictSubsetOrdering(0..n)
  BY <1>2, <1>3, <1>4, WFMin
<1>6. PICK x \in S \cap 0..n : t = Below(x)
  OBVIOUS
<1>7. ASSUME NEW y \in S, y < x
      PROVE  FALSE
  <2>1. Below(y) \in T /\ Below(y) \subseteq Below(x)
    BY <1>7
  <2>2. x \in Below(x) /\ x \notin Below(y)
    BY <1>7
  <2>3. <<Below(y), t>> \in StrictSubsetOrdering(0..n)
    BY <2>1, <2>2, <1>6 DEF StrictSubsetOrdering
  <2> QED
    BY <2>1, <2>3, <1>5
<1>8. \A y \in S : x <= y
  BY <1>7
<1> QED
  BY <1>8 DEF Min

(* So has a set of numbers with a bound a greatest.                        *)
LEMMA MaxIn ==
  ASSUME NEW n \in Nat, NEW S \in SUBSET (0..n), S # {}
  PROVE  Max(S) \in S /\ \A y \in S : Max(S) >= y
<1> DEFINE N == {n - x : x \in S}
<1>1. N \in SUBSET Nat /\ N # {}
  OBVIOUS
<1>2. Min(N) \in N /\ \A z \in N : Min(N) <= z
  <2> HIDE DEF N
  <2> QED
    BY <1>1, MinIn
<1>3. PICK x \in S : Min(N) = n - x
  BY <1>2
<1>4. ASSUME NEW y \in S
      PROVE  x >= y
  <2>1. n - x <= n - y
    BY <1>2, <1>3
  <2> QED
    BY <2>1
<1> QED
  BY <1>4 DEF Max

-----------------------------------------------------------------------------
(* Induction up to n, on a set instead of a predicate.                     *)
LEMMA UpTo ==
  ASSUME NEW n \in Nat, NEW S, 0 \in S, \A d \in 1..n : d - 1 \in S => d \in S
  PROVE  \A d \in 0..n : d \in S
<1> DEFINE Bad == {d \in 0..n : d \notin S}
<1> SUFFICES ASSUME Bad # {} PROVE FALSE
  OBVIOUS
<1>1. Min(Bad) \in Bad /\ \A y \in Bad : Min(Bad) <= y
  <2>1. Bad \in SUBSET Nat
    OBVIOUS
  <2> HIDE DEF Bad
  <2> QED
    BY <2>1, MinIn
<1> DEFINE m == Min(Bad)
<1> HIDE DEF m
<1>2. m \in 1..n /\ m \notin S
  BY <1>1 DEF m
<1>3. m - 1 \in 0..n /\ ~(m <= m - 1)
  BY <1>2
<1>4. m - 1 \notin Bad
  BY <1>1, <1>3 DEF m
<1> QED
  BY <1>2, <1>3, <1>4

(* What is computed in n steps from a exists.                              *)
IsStep(step, V, n) == step \in [V \X (1..n) -> V]

IsComputed(f, step, V, n, a) ==
  /\ f \in [0..n -> V] /\ f[0] = a
  /\ \A d \in 1..n : f[d] = step[<<f[d - 1], d>>]

LEMMA StepsExist ==
  ASSUME NEW n \in Nat, NEW V, NEW a \in V, NEW step, IsStep(step, V, n)
  PROVE  \E f : IsComputed(f, step, V, n, a)
<1> USE DEF IsStep
<1> DEFINE Good(f, k) == f[0] = a /\ \A d \in 1..k : f[d] = step[<<f[d - 1], d>>]
           S == {k \in 0..n : \E f \in [0..k -> V] : Good(f, k)}
<1>1. 0 \in S
  <2> DEFINE f == [d \in 0..0 |-> a]
  <2>1. f \in [0..0 -> V] /\ Good(f, 0)
    OBVIOUS
  <2>2. 0 \in 0..n
    OBVIOUS
  <2> QED
    BY <2>1, <2>2
<1>2. ASSUME NEW k \in 1..n, k - 1 \in S
      PROVE  k \in S
  <2>1. PICK f \in [0..(k - 1) -> V] : Good(f, k - 1)
    BY <1>2
  <2> DEFINE h == [d \in 0..k |-> IF d = k THEN step[<<f[k - 1], k>>] ELSE f[d]]
  <2>2. f[k - 1] \in V /\ \A d \in 0..k : d # k => d \in 0..(k - 1)
    OBVIOUS
  <2>3. h \in [0..k -> V]
    BY <2>2
  <2>4. h[0] = a
    BY <2>1
  <2>5. ASSUME NEW d \in 1..k PROVE h[d] = step[<<h[d - 1], d>>]
    <3>1. d - 1 \in 0..k /\ d - 1 # k /\ d \in 0..k
      OBVIOUS
    <3>2. h[d - 1] = f[d - 1]
      BY <3>1
    <3>3. CASE d = k
      BY <3>1, <3>2, <3>3
    <3>4. CASE d # k
      <4>1. d \in 1..(k - 1)
        BY <3>4
      <4> QED
        BY <2>1, <3>1, <3>2, <3>4, <4>1
    <3> QED
      BY <3>3, <3>4
  <2>6. Good(h, k)
    BY <2>4, <2>5
  <2> HIDE DEF h, Good
  <2> QED
    BY <2>3, <2>6
<1>3. n \in S
  <2> HIDE DEF S
  <2> QED
    BY <1>1, <1>2, UpTo
<1>4. PICK f \in [0..n -> V] : Good(f, n)
  BY <1>3
<1>5. IsComputed(f, step, V, n, a)
  BY <1>4 DEF IsComputed
<1> QED
  BY <1>5

-----------------------------------------------------------------------------
(* How often v is in a table f; and whether once, in one place of it.      *)
Occurs(f, v) == Cardinality({x \in DOMAIN f : f[x] = v})

One(x, v) == IF x = v THEN 1 ELSE 0

LEMMA OccursNumber ==
  ASSUME NEW f, IsFiniteSet(DOMAIN f), NEW v
  PROVE  /\ Occurs(f, v) \in Nat
         /\ Occurs(f, v) = 0 <=> \A x \in DOMAIN f : f[x] # v
         /\ Occurs(f, v) = 1 =>
              \A x, y \in DOMAIN f : f[x] = v /\ f[y] = v => x = y
<1> DEFINE X == {x \in DOMAIN f : f[x] = v}
<1>1. IsFiniteSet(X)
  BY FS_Subset
<1>2. Cardinality(X) \in Nat /\ (Cardinality(X) = 0 <=> X = {})
  BY <1>1, FS_CardinalityType, FS_EmptySet
<1>3. Cardinality(X) = 1 => \E x : X = {x}
  BY <1>1, FS_Singleton
<1> QED
  BY <1>2, <1>3 DEF Occurs

(* One place changes.                                                      *)
LEMMA OccursChange ==
  ASSUME NEW f, IsFiniteSet(DOMAIN f), NEW h, DOMAIN h = DOMAIN f,
         NEW s \in DOMAIN f, \A x \in DOMAIN f \ {s} : h[x] = f[x], NEW v
  PROVE  Occurs(h, v) = Occurs(f, v) - One(f[s], v) + One(h[s], v)
<1> DEFINE X == {x \in DOMAIN f : f[x] = v}
           Y == {x \in DOMAIN f : h[x] = v}
           rest == X \ {s}
<1>1. IsFiniteSet(X) /\ IsFiniteSet(rest) /\ IsFiniteSet(Y)
  BY FS_Subset, FS_RemoveElement
<1>2. Cardinality(rest) = Cardinality(X) - One(f[s], v)
  <2>1. s \in X <=> f[s] = v
    OBVIOUS
  <2> HIDE DEF X
  <2>2. Cardinality(X) \in Nat
    BY <1>1, FS_CardinalityType
  <2> QED
    BY <1>1, <2>1, <2>2, FS_RemoveElement DEF One
<1>3. Y = IF h[s] = v THEN rest \cup {s} ELSE rest
  OBVIOUS
<1>4. Cardinality(Y) = Cardinality(rest) + One(h[s], v)
  <2>1. s \notin rest
    OBVIOUS
  <2> HIDE DEF X, Y, rest
  <2>2. Cardinality(rest) \in Nat
    BY <1>1, FS_CardinalityType
  <2> QED
    BY <1>1, <1>3, <2>1, <2>2, FS_AddElement DEF One
<1> QED
  BY <1>2, <1>4 DEF Occurs

(* The same of a table with two indices, of which one row changes.         *)
Places(f, T, A, v) == {x \in T \X A : f[x[1]][x[2]] = v}

InRow(r, A, v) == {a \in A : r[a] = v}

OtherRows(f, T, A, v, t) == {x \in Places(f, T, A, v) : x[1] # t}

LEMMA PlacesRow ==
  ASSUME NEW T, NEW A, IsFiniteSet(T), IsFiniteSet(A),
         NEW f, NEW t \in T, NEW v
  PROVE  /\ IsFiniteSet(Places(f, T, A, v))
         /\ Cardinality(OtherRows(f, T, A, v, t)) \in Nat
         /\ Cardinality(InRow(f[t], A, v)) \in Nat
         /\ Cardinality(Places(f, T, A, v)) =
              Cardinality(OtherRows(f, T, A, v, t))
                + Cardinality(InRow(f[t], A, v))
<1> DEFINE all == Places(f, T, A, v)
           rest == OtherRows(f, T, A, v, t)
           row == InRow(f[t], A, v)
           mine == {t} \X row
<1>1. IsFiniteSet(T \X A)
  BY FS_Product
<1>2. IsFiniteSet(all)
  BY <1>1, FS_Subset DEF Places
<1>3. IsFiniteSet(rest)
  BY <1>2, FS_Subset DEF OtherRows
<1>4. IsFiniteSet(row)
  BY FS_Subset DEF InRow
<1>5. IsFiniteSet(mine) /\ Cardinality(mine) = Cardinality(row)
  <2>1. IsFiniteSet({t}) /\ Cardinality({t}) = 1
    BY FS_Singleton
  <2>2. Cardinality(row) \in Nat
    BY <1>4, FS_CardinalityType
  <2> HIDE DEF row
  <2> QED
    BY <1>4, <2>1, <2>2, FS_Product
<1>6. all = rest \cup mine /\ rest \cap mine = {}
  BY DEF Places, OtherRows, InRow
<1>7. Cardinality(rest) \in Nat /\ Cardinality(row) \in Nat
  BY <1>3, <1>4, FS_CardinalityType
<1> HIDE DEF all, rest, row, mine
<1>8. Cardinality(rest \cup mine) = Cardinality(rest) + Cardinality(mine)
  <2>1. Cardinality(rest \cap mine) = 0
    BY <1>6, FS_EmptySet
  <2>2. Cardinality(rest \cup mine)
          = Cardinality(rest) + Cardinality(mine) - Cardinality(rest \cap mine)
    BY <1>3, <1>5, FS_Union
  <2> QED
    BY <1>5, <1>7, <2>1, <2>2
<1> QED
  BY <1>2, <1>3, <1>4, <1>5, <1>6, <1>7, <1>8 DEF all, rest, row

SameBut(t, T, f, h) == \A u \in T \ {t} : h[u] = f[u]

LEMMA PlacesChange ==
  ASSUME NEW T, NEW A, IsFiniteSet(T), IsFiniteSet(A), NEW f, NEW h,
         NEW t \in T, SameBut(t, T, f, h), NEW v
  PROVE  Cardinality(Places(h, T, A, v)) =
           Cardinality(Places(f, T, A, v))
             - Cardinality(InRow(f[t], A, v)) + Cardinality(InRow(h[t], A, v))
<1>1. OtherRows(h, T, A, v, t) = OtherRows(f, T, A, v, t)
  BY DEF Places, OtherRows, SameBut
<1>2. /\ Cardinality(OtherRows(f, T, A, v, t)) \in Nat
      /\ Cardinality(InRow(f[t], A, v)) \in Nat
      /\ Cardinality(Places(f, T, A, v)) =
           Cardinality(OtherRows(f, T, A, v, t))
             + Cardinality(InRow(f[t], A, v))
  BY PlacesRow
<1>3. /\ Cardinality(InRow(h[t], A, v)) \in Nat
      /\ Cardinality(Places(h, T, A, v)) =
           Cardinality(OtherRows(h, T, A, v, t))
             + Cardinality(InRow(h[t], A, v))
  BY PlacesRow
<1> QED
  BY <1>1, <1>2, <1>3

-----------------------------------------------------------------------------
(* A sequence with e put before its i-th element (InsertAt()).             *)
WithElement(q, i, e) == (SubSeq(q, 1, i - 1) \o <<e>>) \o SubSeq(q, i, Len(q))

(* What inserting does to a sequence.                                      *)
LEMMA Inserted ==
  ASSUME NEW S, NEW q \in Seq(S), NEW e \in S, NEW i \in 1..(Len(q) + 1)
  PROVE  /\ WithElement(q, i, e) \in Seq(S)
         /\ Len(WithElement(q, i, e)) = Len(q) + 1
         /\ \A k \in 1..(i - 1) : WithElement(q, i, e)[k] = q[k]
         /\ WithElement(q, i, e)[i] = e
         /\ \A k \in (i + 1)..(Len(q) + 1) : WithElement(q, i, e)[k] = q[k - 1]
<1> DEFINE a == SubSeq(q, 1, i - 1)
           b == SubSeq(q, i, Len(q))
           c == a \o <<e>>
<1>1. Len(q) \in Nat /\ i \in Nat /\ i >= 1
  BY LenProperties
<1>2. /\ a \in Seq(S) /\ Len(a) = i - 1
      /\ \A k \in 1..(i - 1) : a[k] = q[k]
  BY <1>1, SubSeqProperties, ElementOfSeq
<1>3. /\ b \in Seq(S) /\ Len(b) = Len(q) - i + 1
      /\ \A k \in 1..(Len(q) - i + 1) : b[k] = q[i + k - 1]
  BY <1>1, SubSeqProperties, ElementOfSeq
<1>4. <<e>> \in Seq(S) /\ Len(<<e>>) = 1 /\ <<e>>[1] = e
  OBVIOUS
<1> HIDE DEF a, b
<1>5. /\ c \in Seq(S) /\ Len(c) = i
      /\ \A k \in 1..(i - 1) : c[k] = q[k]
      /\ c[i] = e
  BY <1>1, <1>2, <1>4, ConcatProperties
<1> HIDE DEF c
<1>6. /\ c \o b \in Seq(S) /\ Len(c \o b) = Len(q) + 1
      /\ \A k \in 1..i : (c \o b)[k] = c[k]
      /\ \A k \in (i + 1)..(Len(q) + 1) : (c \o b)[k] = b[k - i]
  <2>1. Len(c) = i /\ Len(c) + Len(b) = Len(q) + 1
    BY <1>1, <1>3, <1>5
  <2>2. /\ c \o b \in Seq(S) /\ Len(c \o b) = Len(c) + Len(b)
        /\ \A k \in 1..(Len(c) + Len(b)) :
             (c \o b)[k] = IF k <= Len(c) THEN c[k] ELSE b[k - Len(c)]
    BY <1>3, <1>5, ConcatProperties
  <2>3. \A k \in 1..(Len(q) + 1) :
          (c \o b)[k] = IF k <= i THEN c[k] ELSE b[k - i]
    BY <2>1, <2>2
  <2> QED
    BY <1>1, <2>1, <2>2, <2>3
<1>7. \A k \in (i + 1)..(Len(q) + 1) : (c \o b)[k] = q[k - 1]
  BY <1>1, <1>3, <1>6
<1>8. WithElement(q, i, e) = c \o b
  BY DEF WithElement, a, b, c
<1> QED
  BY <1>1, <1>5, <1>6, <1>7, <1>8
=============================================================================
