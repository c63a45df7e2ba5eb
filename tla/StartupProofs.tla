---------------------------- MODULE StartupProofs ----------------------------
(***************************************************************************)
(* What holds of a start, for any configurations, any number of mapping    *)
(* columns, names that MySQL takes for the same, and anything the operator *)
(* does to the table.                                                      *)
(***************************************************************************)
EXTENDS Startup, WellFoundedInduction, TLAPS

-----------------------------------------------------------------------------
(* Sequences of columns                                                      *)

\* A set of numbers has a least.
LEMMA LeastNumber ==
  ASSUME NEW S \in SUBSET Nat, S # {}
  PROVE  \E x \in S : \A y \in S : x <= y
<1> DEFINE R == OpToRel(<, Nat)
<1>1. IsWellFoundedOn(R, Nat)
  BY NatLessThanWellFounded
<1> HIDE DEF R
<1>2. PICK x \in S : \A y \in S : ~ (<<y, x>> \in R)
  BY <1>1, WFMin
<1> USE DEF R
<1>3. \A y \in S : ~ (y < x)
  BY <1>2 DEF OpToRel
<1>4. QED
  BY <1>3

\* The first of some positions is one of them.
LEMMA FirstPosition ==
  ASSUME NEW n \in Nat, NEW I \in SUBSET (1 .. n), I # {}
  PROVE  Min(I) \in I
<1>1. I \in SUBSET Nat
  OBVIOUS
<1>2. \E x \in I : \A y \in I : x =< y
  BY <1>1, LeastNumber
<1>3. QED
  BY <1>2 DEF Min

\* Sequence r is s with e put at position p; where position j of s is then.
Moved(j, p) == IF j < p THEN j ELSE j + 1

Put(r, s, p, e) ==
  /\ Len(s) \in Nat /\ DOMAIN s = 1 .. Len(s)
  /\ DOMAIN r = 1 .. Len(s) + 1 /\ p \in 1 .. Len(s) + 1
  /\ r[p] = e /\ \A j \in 1 .. Len(s) : r[Moved(j, p)] = s[j]

\* An element put into a sequence, at its end or before one of its positions.
LEMMA AppendPuts ==
  ASSUME NEW X, NEW s \in Seq(X), NEW e \in X
  PROVE  Append(s, e) \in Seq(X) /\ Put(Append(s, e), s, Len(s) + 1, e)
<1> DEFINE r == Append(s, e)
<1>1. /\ r \in Seq(X) /\ Len(s) \in Nat /\ DOMAIN s = 1 .. Len(s)
      /\ DOMAIN r = 1 .. Len(s) + 1 /\ r[Len(s) + 1] = e
      /\ \A i \in 1 .. Len(s) : r[i] = s[i]
  OBVIOUS
<1> HIDE DEF r
<1>2. \A j \in 1 .. Len(s) : Moved(j, Len(s) + 1) = j
  BY <1>1 DEF Moved
<1>3. Len(s) + 1 \in 1 .. Len(s) + 1
  BY <1>1
<1>4. Put(r, s, Len(s) + 1, e)
  BY <1>1, <1>2, <1>3 DEF Put
<1>5. QED
  BY <1>1, <1>4 DEF r

\* Vec::insert puts an element in.
LEMMA InsertPuts ==
  ASSUME NEW X, NEW s \in Seq(X), NEW e \in X, NEW p \in 1 .. Len(s) + 1
  PROVE  InsertAt(s, p, e) \in Seq(X) /\ Put(InsertAt(s, p, e), s, p, e)
<1> DEFINE a == SubSeq(s, 1, p - 1)
           b == SubSeq(s, p, Len(s))
           r == InsertAt(s, p, e)
<1>1. Len(s) \in Nat /\ DOMAIN s = 1 .. Len(s) /\ p \in Nat /\ p - 1 \in Nat
  OBVIOUS
<1>2. /\ a \in Seq(X) /\ Len(a) = p - 1 /\ \A i \in 1 .. p - 1 : a[i] = s[i]
      /\ b \in Seq(X) /\ Len(b) = Len(s) + 1 - p
      /\ \A i \in 1 .. Len(s) + 1 - p : b[i] = s[p + i - 1]
  BY <1>1
<1>3. r = (a \o <<e>>) \o b
  BY DEF InsertAt
<1> HIDE DEF a, b, r
<1>4. /\ a \o <<e>> \in Seq(X) /\ Len(a \o <<e>>) = p
      /\ (a \o <<e>>)[p] = e /\ \A i \in 1 .. p - 1 : (a \o <<e>>)[i] = s[i]
  <2>1. <<e>> \in Seq(X) /\ Len(<<e>>) = 1 /\ <<e>>[1] = e
    OBVIOUS
  <2>2. a \o <<e>> \in Seq(X) /\ Len(a \o <<e>>) = Len(a) + 1
    BY <1>2, <2>1
  <2>3. \A i \in 1 .. Len(a) : (a \o <<e>>)[i] = a[i]
    BY <1>2, <2>1
  <2>4. (a \o <<e>>)[Len(a) + 1] = <<e>>[1]
    BY <1>1, <1>2, <2>1
  <2>5. QED
    BY <1>1, <1>2, <2>1, <2>2, <2>3, <2>4
<1>5. /\ r \in Seq(X) /\ Len(r) = Len(s) + 1
      /\ \A i \in 1 .. p : r[i] = (a \o <<e>>)[i]
      /\ \A i \in p + 1 .. Len(s) + 1 : r[i] = b[i - p]
  <2> DEFINE d == a \o <<e>>
  <2>1. d \in Seq(X) /\ b \in Seq(X) /\ r = d \o b /\ Len(d) = p
    BY <1>2, <1>3, <1>4
  <2> HIDE DEF d
  <2>2. r \in Seq(X) /\ Len(r) = Len(d) + Len(b)
    <3>1. d \o b \in Seq(X)
      BY <2>1
    <3>2. Len(d \o b) = Len(d) + Len(b)
      <4>1. Len(d) \in Nat /\ Len(b) \in Nat /\ d \in Seq(X) /\ b \in Seq(X)
        BY <2>1
      <4>2. QED
        BY <4>1, SMTT(30)
    <3>3. QED
      BY <2>1, <3>1, <3>2
  <2>3. \A i \in 1 .. Len(d) : r[i] = d[i]
    BY <2>1
  <2>4. \A i \in Len(d) + 1 .. Len(d) + Len(b) : r[i] = b[i - Len(d)]
    BY <2>1
  <2>5. Len(d) + Len(b) = Len(s) + 1
    BY <1>1, <1>2, <2>1
  <2>6. QED
    BY <2>1, <2>2, <2>3, <2>4, <2>5 DEF d
<1>6. DOMAIN r = 1 .. Len(s) + 1 /\ p \in 1 .. p
  BY <1>1, <1>5
<1>7. ASSUME NEW j \in 1 .. Len(s)
      PROVE  r[Moved(j, p)] = s[j]
  <2>1. CASE j < p
    <3>1. j \in 1 .. p - 1 /\ j \in 1 .. p
      BY <1>1, <2>1
    <3>2. QED
      BY <1>4, <1>5, <2>1, <3>1 DEF Moved
  <2>2. CASE ~(j < p)
    <3>1. /\ j + 1 \in p + 1 .. Len(s) + 1 /\ (j + 1) - p = j + 1 - p
          /\ j + 1 - p \in 1 .. Len(s) + 1 - p /\ p + (j + 1 - p) - 1 = j
      BY <1>1, <2>2
    <3>2. r[j + 1] = s[j]
      BY <1>2, <1>5, <3>1
    <3>3. QED
      BY <2>2, <3>2 DEF Moved
  <2>3. QED
    BY <2>1, <2>2
<1>8. Put(r, s, p, e)
  BY <1>1, <1>4, <1>5, <1>6, <1>7 DEF Put
<1>9. QED
  BY <1>5, <1>8 DEF r

\* What was there stays in its order, and moves to positions that were all there are.
LEMMA PutMoves ==
  ASSUME NEW r, NEW s, NEW p, NEW e, Put(r, s, p, e)
  PROVE  /\ p \in DOMAIN r /\ r[p] = e
         /\ \A j \in DOMAIN s : Moved(j, p) \in DOMAIN r /\ Moved(j, p) # p
                                /\ r[Moved(j, p)] = s[j]
         /\ \A i \in DOMAIN r : i = p \/ \E j \in DOMAIN s : i = Moved(j, p)
         /\ \A j, k \in DOMAIN s : j < k <=> Moved(j, p) < Moved(k, p)
<1>1. /\ Len(s) \in Nat /\ DOMAIN s = 1 .. Len(s)
      /\ DOMAIN r = 1 .. Len(s) + 1 /\ p \in 1 .. Len(s) + 1
  BY DEF Put
<1>2. ASSUME NEW j \in DOMAIN s
      PROVE  Moved(j, p) \in DOMAIN r /\ Moved(j, p) # p
  BY <1>1 DEF Moved
<1>3. ASSUME NEW i \in DOMAIN r, i # p
      PROVE  \E j \in DOMAIN s : i = Moved(j, p)
  <2>1. CASE i < p
    <3>1. i \in DOMAIN s /\ i = Moved(i, p)
      BY <1>1, <2>1 DEF Moved
    <3>2. QED
      BY <3>1
  <2>2. CASE ~(i < p)
    <3>1. i - 1 \in DOMAIN s /\ ~(i - 1 < p) /\ i = (i - 1) + 1
      BY <1>1, <1>3, <2>2
    <3>2. i = Moved(i - 1, p)
      BY <3>1 DEF Moved
    <3>3. QED
      BY <3>1, <3>2
  <2>3. QED
    BY <2>1, <2>2
<1>4. ASSUME NEW j \in DOMAIN s, NEW k \in DOMAIN s
      PROVE  j < k <=> Moved(j, p) < Moved(k, p)
  BY <1>1 DEF Moved
<1>5. /\ p \in DOMAIN r /\ r[p] = e
      /\ \A j \in DOMAIN s : r[Moved(j, p)] = s[j]
  BY <1>1 DEF Put
<1>6. QED
  BY <1>2, <1>3, <1>4, <1>5

\* It is there beside what was there; if it was not, no element is there twice.
LEMMA PutSet ==
  ASSUME NEW r, NEW s, NEW p, NEW e, Put(r, s, p, e)
  PROVE  ToSet(r) = ToSet(s) \cup {e}
<1>1. p \in DOMAIN r /\ r[p] = e
  BY PutMoves
<1>2. \A j \in DOMAIN s : \E i \in DOMAIN r : r[i] = s[j]
  BY PutMoves
<1>3. \A i \in DOMAIN r : r[i] = e \/ \E j \in DOMAIN s : r[i] = s[j]
  BY PutMoves
<1>4. QED
  BY <1>1, <1>2, <1>3 DEF ToSet

\* Putting in an element that is not there yet makes no duplicate.
LEMMA PutDistinct ==
  ASSUME NEW r, NEW s, NEW p, NEW e, Put(r, s, p, e), Distinct(s), e \notin ToSet(s)
  PROVE  Distinct(r)
<1> SUFFICES ASSUME NEW i \in DOMAIN r, NEW k \in DOMAIN r, r[i] = r[k]
             PROVE  i = k
  BY DEF Distinct
<1>1. \A j \in DOMAIN s : s[j] # e
  BY DEF ToSet
<1>2. CASE i = p \/ k = p
  BY <1>1, <1>2, PutMoves
<1>3. CASE i # p /\ k # p
  <2>1. PICK j \in DOMAIN s : i = Moved(j, p)
    BY <1>3, PutMoves
  <2>2. PICK l \in DOMAIN s : k = Moved(l, p)
    BY <1>3, PutMoves
  <2>3. s[j] = s[l]
    BY <2>1, <2>2, PutMoves
  <2>4. j = l
    BY <2>3 DEF Distinct
  <2>5. QED
    BY <2>1, <2>2, <2>4
<1>4. QED
  BY <1>2, <1>3

\* A mapping column is put beside its anchor, or at the end if there is none.
LEMMA PlacedPut ==
  ASSUME NEW X, NEW columns \in Seq(X), NEW m, FinalName(m) \in X
  PROVE  LET r == InsertByPosition(columns, m) IN
         /\ r \in Seq(X)
         /\ \E p : /\ Put(r, columns, p, FinalName(m))
                   /\ m.anchor \in ToSet(columns) =>
                        \E at \in DOMAIN columns :
                          /\ columns[at] = m.anchor
                          /\ p = IF m.direction = "before" THEN at ELSE at + 1
<1> DEFINE r  == InsertByPosition(columns, m)
           I  == {i \in 1 .. Len(columns) : columns[i] = m.anchor}
           at == SelectInSeq(columns, LAMBDA c : c = m.anchor)
           p  == IF m.direction = "before" THEN at ELSE at + 1
<1>1. at = IF I # {} THEN Min(I) ELSE 0
  BY DEF SelectInSeq
<1>2. /\ Len(columns) \in Nat /\ DOMAIN columns = 1 .. Len(columns)
      /\ I \in SUBSET (1 .. Len(columns))
  OBVIOUS
<1>3. I = {} <=> m.anchor \notin ToSet(columns)
  BY <1>2 DEF ToSet
<1>4. r = IF at = 0 THEN Append(columns, FinalName(m))
          ELSE InsertAt(columns, p, FinalName(m))
  BY DEF InsertByPosition
<1>5. \A i \in I : i \in 1 .. Len(columns) /\ columns[i] = m.anchor
  OBVIOUS
<1> HIDE DEF at, I, r
<1>6. CASE I = {}
  <2>1. at = 0
    BY <1>1, <1>6
  <2>2. r \in Seq(X) /\ Put(r, columns, Len(columns) + 1, FinalName(m))
    BY <1>4, <2>1, AppendPuts
  <2>3. QED
    BY <1>3, <1>6, <2>2 DEF r
<1>7. CASE I # {}
  <2>1. at \in I
    BY <1>1, <1>2, <1>7, FirstPosition
  <2>2. at \in 1 .. Len(columns) /\ columns[at] = m.anchor
    BY <1>5, <2>1
  <2>3. at # 0 /\ p \in 1 .. Len(columns) + 1
    BY <1>2, <2>2
  <2>4. p = IF m.direction = "before" THEN at ELSE at + 1
    OBVIOUS
  <2> HIDE DEF p
  <2>5. r \in Seq(X) /\ Put(r, columns, p, FinalName(m))
    BY <1>4, <2>3, InsertPuts
  <2>6. QED
    BY <1>2, <2>2, <2>4, <2>5 DEF r
<1>8. QED
  BY <1>6, <1>7

-----------------------------------------------------------------------------
(* The three lists of columns                                                *)

\* The fixed columns are a sequence.
LEMMA FixedIsSeq ==
  FixedColumns \in Seq(ToSet(FixedColumns)) /\ FixedColumns # <<>>
<1>1. DOMAIN FixedColumns = 1 .. 14
  BY DEF FixedColumns, FIXED_COLUMNS
<1>2. FixedColumns = [i \in 1 .. 14 |-> FixedColumns[i]]
  BY <1>1 DEF FixedColumns
<1>3. \A i \in 1 .. 14 : FixedColumns[i] \in ToSet(FixedColumns)
  BY <1>1 DEF ToSet
<1> HIDE DEF FixedColumns
<1>4. FixedColumns \in Seq(ToSet(FixedColumns))
  BY <1>2, <1>3
<1>5. QED
  BY <1>1, <1>4

\* CREATE TABLE's list comes about in steps: the mapping columns are placed one by one.
LEMMA ColumnListSteps ==
  ASSUME NEW c \in Config
  PROVE  \E u : /\ u[0] = FixedColumns /\ ColumnList(c) = u[Len(c.mapping)]
                /\ \A k \in 1 .. Len(c.mapping) :
                     u[k] = InsertByPosition(u[k - 1], c.mapping[k])
<1> DEFINE m == c.mapping
           N == Len(m)
           Is(f, n) == f = [k \in 0 .. n |-> IF k = 0 THEN FixedColumns
                                            ELSE InsertByPosition(f[k - 1], m[k])]
<1>1. N \in Nat /\ DOMAIN m = 1 .. N
  BY DEF Config
<1>2. ASSUME NEW n \in Nat
      PROVE  \E f : Is(f, n)
  <2> DEFINE Bad == {k \in Nat : ~ \E f : Is(f, k)}
  <2>1. ASSUME NEW k \in Bad, \A j \in Bad : k <= j
        PROVE  FALSE
    <3>1. CASE k = 0
      <4> DEFINE f == [j \in 0 .. 0 |-> FixedColumns]
      <4>1. Is(f, 0)
        OBVIOUS
      <4>2. QED
        BY <2>1, <3>1, <4>1
    <3>2. CASE k # 0
      <4>1. k \in Nat /\ k - 1 \in Nat /\ ~(k <= k - 1)
        BY <3>2
      <4>2. k - 1 \notin Bad
        BY <2>1, <4>1
      <4>3. PICK f : Is(f, k - 1)
        BY <4>1, <4>2
      <4> DEFINE g == [j \in 0 .. k |-> IF j = k THEN InsertByPosition(f[k - 1], m[k]) ELSE f[j]]
      <4>4. ASSUME NEW j \in 0 .. k
            PROVE  g[j] = IF j = 0 THEN FixedColumns ELSE InsertByPosition(g[j - 1], m[j])
        <5>1. CASE j = k
          <6>1. k - 1 \in 0 .. k /\ k - 1 # k
            BY <4>1
          <6>2. g[k - 1] = f[k - 1]
            BY <6>1
          <6>3. QED
            BY <3>2, <5>1, <6>2
        <5>2. CASE j # k /\ j # 0
          <6>1. j \in 0 .. k - 1 /\ j - 1 \in 0 .. k /\ j - 1 # k
            BY <4>1, <5>2
          <6>2. g[j - 1] = f[j - 1] /\ g[j] = f[j]
            BY <5>2, <6>1
          <6>3. f[j] = InsertByPosition(f[j - 1], m[j])
            BY <4>3, <5>2, <6>1
          <6>4. QED
            BY <5>2, <6>2, <6>3
        <5>3. CASE j = 0
          <6>1. g[0] = f[0] /\ 0 \in 0 .. k - 1
            BY <3>2, <4>1
          <6>2. QED
            BY <4>3, <5>3, <6>1
        <5>4. QED
          BY <5>1, <5>2, <5>3
      <4> HIDE DEF m
      <4>5. Is(g, k)
        BY <4>4
      <4>6. QED
        BY <2>1, <4>5
    <3>3. QED
      BY <3>1, <3>2
  <2> HIDE DEF Is
  <2>2. Bad = {}
    <3>1. Bad \in SUBSET Nat
      OBVIOUS
    <3> HIDE DEF Bad
    <3>2. QED
      BY <2>1, <3>1, LeastNumber
  <2>3. QED
    BY <2>2
<1> DEFINE u == CHOOSE f : Is(f, N)
<1>3. Is(u, N) /\ ColumnList(c) = u[N]
  <2>1. ColumnList(c) = u[N]
    BY DEF ColumnList
  <2> HIDE DEF Is, N
  <2>2. QED
    BY <1>1, <1>2, <2>1
<1>4. \A k \in 0 .. N : u[k] = IF k = 0 THEN FixedColumns ELSE InsertByPosition(u[k - 1], m[k])
  <2> HIDE DEF u, m
  <2>1. QED
    BY <1>3
<1> HIDE DEF u, Is
<1>5. 0 \in 0 .. N /\ \A k \in 1 .. N : k \in 0 .. N /\ k # 0
  BY <1>1
<1>6. u[0] = FixedColumns /\ \A k \in 1 .. N : u[k] = InsertByPosition(u[k - 1], m[k])
  BY <1>4, <1>5
<1>7. QED
  BY <1>3, <1>6

\* A mapping column n is beside its anchor a, on the side asked for, with nothing but
\* columns of O between them.
Beside(s, n, a, before, O) ==
  \E i, j \in DOMAIN s :
    /\ s[i] = n /\ s[j] = a
    /\ IF before THEN i < j ELSE j < i
    /\ \A k \in DOMAIN s : (i < k /\ k < j) \/ (j < k /\ k < i) => s[k] \in O

\* Beside it is where a column is put, and it stays there when another one is put.
LEMMA PutBeside ==
  ASSUME NEW r, NEW s, NEW n, NEW at \in DOMAIN s, NEW before \in BOOLEAN, NEW O,
         Put(r, s, IF before THEN at ELSE at + 1, n)
  PROVE  Beside(r, n, s[at], before, O)
<1> DEFINE p == IF before THEN at ELSE at + 1
<1>1. Len(s) \in Nat /\ DOMAIN s = 1 .. Len(s) /\ DOMAIN r = 1 .. Len(s) + 1
  BY DEF Put
<1>2. p \in DOMAIN r /\ r[p] = n /\ Moved(at, p) \in DOMAIN r /\ r[Moved(at, p)] = s[at]
  BY PutMoves
<1>3. Moved(at, p) = IF before THEN p + 1 ELSE p - 1
  BY <1>1 DEF Moved
<1>4. p \in Nat
  BY <1>1
<1> HIDE DEF p
<1>5. IF before THEN p < Moved(at, p) ELSE Moved(at, p) < p
  BY <1>3, <1>4
<1>6. \A k \in DOMAIN r : ~(p < k /\ k < Moved(at, p)) /\ ~(Moved(at, p) < k /\ k < p)
  BY <1>1, <1>3, <1>4
<1>7. QED
  BY <1>2, <1>5, <1>6 DEF Beside

\* What stands beside an anchor stays there, but for elements of O between them.
LEMMA PutKeepsBeside ==
  ASSUME NEW r, NEW s, NEW p, NEW e, Put(r, s, p, e),
         NEW n, NEW a, NEW before \in BOOLEAN, NEW O, Beside(s, n, a, before, O), e \in O
  PROVE  Beside(r, n, a, before, O)
<1>1. PICK i \in DOMAIN s, j \in DOMAIN s :
        /\ s[i] = n /\ s[j] = a
        /\ IF before THEN i < j ELSE j < i
        /\ \A k \in DOMAIN s : (i < k /\ k < j) \/ (j < k /\ k < i) => s[k] \in O
  BY DEF Beside
<1> DEFINE x == Moved(i, p)
           y == Moved(j, p)
<1>2. x \in DOMAIN r /\ y \in DOMAIN r /\ r[x] = n /\ r[y] = a
  BY <1>1, PutMoves
<1>3. IF before THEN x < y ELSE y < x
  BY <1>1, PutMoves
<1>4. ASSUME NEW k \in DOMAIN r, (x < k /\ k < y) \/ (y < k /\ k < x)
      PROVE  r[k] \in O
  <2>1. CASE k = p
    BY <2>1, PutMoves
  <2>2. CASE k # p
    <3>1. PICK l \in DOMAIN s : k = Moved(l, p)
      BY <2>2, PutMoves
    <3>2. (i < l /\ l < j) \/ (j < l /\ l < i)
      BY <1>4, <3>1, PutMoves
    <3>3. s[l] \in O
      BY <1>1, <3>2
    <3>4. QED
      BY <3>1, <3>3, PutMoves
  <2>3. QED
    BY <2>1, <2>2
<1> HIDE DEF x, y
<1>5. QED
  BY <1>2, <1>3, <1>4 DEF Beside

\* After k steps, u[k] of them is a list of the fixed columns and k mapping columns.
Placed(u, c, k) ==
  /\ u[k] \in Seq(Expected(c))
  /\ ToSet(u[k]) = ToSet(FixedColumns) \cup {FinalName(c.mapping[i]) : i \in 1 .. k}

\* What CREATE TABLE gives columns to is what the check expects, for any mapping, none
\* being lost on the way.
LEMMA StepsArePlaced ==
  ASSUME NEW c \in Config, NEW u, u[0] = FixedColumns,
         \A k \in 1 .. Len(c.mapping) : u[k] = InsertByPosition(u[k - 1], c.mapping[k])
  PROVE  \A k \in 0 .. Len(c.mapping) : Placed(u, c, k)
<1> DEFINE N == Len(c.mapping)
           X == Expected(c)
           Bad == {j \in 0 .. N : ~Placed(u, c, j)}
<1>1. N \in Nat /\ DOMAIN c.mapping = 1 .. N
  BY DEF Config
<1>2. X = ToSet(FixedColumns) \cup {FinalName(c.mapping[i]) : i \in 1 .. N}
  BY <1>1 DEF Expected, FinalNames, ToSet
<1>3. ASSUME NEW j \in Bad, \A i \in Bad : j <= i
      PROVE  FALSE
  <2>1. CASE j = 0
    <3>1. FixedColumns \in Seq(X)
      BY <1>2, FixedIsSeq
    <3>2. {FinalName(c.mapping[i]) : i \in 1 .. 0} = {}
      OBVIOUS
    <3>3. QED
      BY <1>3, <2>1, <3>1, <3>2 DEF Placed
  <2>2. CASE j # 0
    <3>1. j \in 1 .. N /\ j - 1 \in 0 .. N /\ ~(j <= j - 1)
      BY <1>1, <2>2
    <3>2. Placed(u, c, j - 1)
      BY <1>3, <3>1
    <3>3. FinalName(c.mapping[j]) \in X
      BY <1>2, <3>1
    <3>4. PICK p : Put(u[j], u[j - 1], p, FinalName(c.mapping[j])) /\ u[j] \in Seq(X)
      BY <3>1, <3>2, <3>3, PlacedPut DEF Placed
    <3>5. ToSet(u[j]) = ToSet(u[j - 1]) \cup {FinalName(c.mapping[j])}
      BY <3>4, PutSet
    <3>6. {FinalName(c.mapping[i]) : i \in 1 .. j} =
            {FinalName(c.mapping[i]) : i \in 1 .. j - 1} \cup {FinalName(c.mapping[j])}
      <4>1. 1 .. j = (1 .. j - 1) \cup {j}
        BY <3>1
      <4>2. QED
        BY <4>1
    <3>7. Placed(u, c, j)
      BY <3>2, <3>4, <3>5, <3>6 DEF Placed
    <3>8. QED
      BY <1>3, <3>7
  <2>3. QED
    BY <2>1, <2>2
<1>4. Bad = {}
  <2>1. Bad \in SUBSET Nat
    BY <1>1
  <2> HIDE DEF Bad
  <2>2. QED
    BY <1>3, <2>1, LeastNumber
<1>5. QED
  BY <1>4

\* The columns of the file are those the check expects.
LEMMA ColumnListIsExpected ==
  ASSUME NEW c \in Config
  PROVE  ToSet(ColumnList(c)) = Expected(c)
<1> DEFINE N == Len(c.mapping)
<1>1. N \in Nat /\ N \in 0 .. N /\ DOMAIN c.mapping = 1 .. N
  BY DEF Config
<1>2. PICK u : /\ u[0] = FixedColumns /\ ColumnList(c) = u[N]
               /\ \A k \in 1 .. N : u[k] = InsertByPosition(u[k - 1], c.mapping[k])
  BY ColumnListSteps
<1>3. Placed(u, c, N)
  BY <1>1, <1>2, StepsArePlaced
<1>4. Expected(c) = ToSet(FixedColumns) \cup {FinalName(c.mapping[i]) : i \in 1 .. N}
  BY <1>1 DEF Expected, FinalNames, ToSet
<1>5. QED
  BY <1>2, <1>3, <1>4 DEF Placed

\* Column by column, the list of the table and the two lists of the INSERT; no name twice.
LEMMA FixedLists ==
  /\ FixedColumns = <<"id", "ts", "ip", "card_id", "namespace", "pod", "gpu_util", "mem_util",
                      "temp", "power", "host_cpu", "host_mem", "host_fds", "source">>
  /\ Len(FixedColumns) = 14 /\ DOMAIN FixedColumns = 1 .. 14
  /\ \A p, q \in 1 .. 14 : FixedColumns[p] = FixedColumns[q] => p = q
  /\ Len(FixedWriteValues) = 13 /\ DOMAIN FixedWriteValues = 1 .. 13
  /\ \A p \in 1 .. 13 : FixedWriteValues[p][2] = FixedColumns[p + 1]
<1>1. FixedColumns = <<"id", "ts", "ip", "card_id", "namespace", "pod", "gpu_util", "mem_util",
                      "temp", "power", "host_cpu", "host_mem", "host_fds", "source">>
  BY DEF FixedColumns, FIXED_COLUMNS
<1>2. Len(FixedColumns) = 14 /\ DOMAIN FixedColumns = 1 .. 14
  BY <1>1
<1>3. \A p, q \in 1 .. 14 : FixedColumns[p] = FixedColumns[q] => p = q
  BY <1>1
<1>4. Len(FixedWriteValues) = 13 /\ DOMAIN FixedWriteValues = 1 .. 13
  BY DEF FixedWriteValues
<1>5. \A p \in 1 .. 13 : FixedWriteValues[p][2] = FixedColumns[p + 1]
  BY <1>1 DEF FixedWriteValues
<1>6. QED
  BY <1>1, <1>2, <1>3, <1>4, <1>5

\* The columns a source may write, by their types.
LEMMA WritableNames ==
  /\ WritableNumeric = {"gpu_util", "mem_util", "temp", "power", "host_cpu", "host_mem",
                        "host_fds"}
  /\ WritableString = {"namespace", "pod"}
<1>1. ToSet(FIXED_COLUMNS) =
       {<<"id", "BIGINT">>, <<"ts", "DATETIME">>, <<"ip", "VARCHAR">>, <<"card_id", "VARCHAR">>,
        <<"namespace", "VARCHAR">>, <<"pod", "VARCHAR">>, <<"gpu_util", "DOUBLE">>,
        <<"mem_util", "DOUBLE">>, <<"temp", "DOUBLE">>, <<"power", "DOUBLE">>,
        <<"host_cpu", "DOUBLE">>, <<"host_mem", "DOUBLE">>, <<"host_fds", "DOUBLE">>,
        <<"source", "VARCHAR">>}
  BY DEF FIXED_COLUMNS, ToSet
<1>2. {c \in ToSet(FIXED_COLUMNS) : c[2] = "VARCHAR"} =
       {<<"ip", "VARCHAR">>, <<"card_id", "VARCHAR">>, <<"namespace", "VARCHAR">>,
        <<"pod", "VARCHAR">>, <<"source", "VARCHAR">>}
  BY <1>1
<1>3. {c \in ToSet(FIXED_COLUMNS) : c[2] = "DOUBLE"} =
       {<<"gpu_util", "DOUBLE">>, <<"mem_util", "DOUBLE">>, <<"temp", "DOUBLE">>,
        <<"power", "DOUBLE">>, <<"host_cpu", "DOUBLE">>, <<"host_mem", "DOUBLE">>,
        <<"host_fds", "DOUBLE">>}
  BY <1>1
<1>4. {c[1] : c \in {c \in ToSet(FIXED_COLUMNS) : c[2] = "VARCHAR"}} =
       {"ip", "card_id", "namespace", "pod", "source"}
  <2> DEFINE S == {c \in ToSet(FIXED_COLUMNS) : c[2] = "VARCHAR"}
             T == {"ip", "card_id", "namespace", "pod", "source"}
  <2>1. \A c \in S : c[1] \in T
    BY <1>2
  <2>2. \A n \in T : \E c \in S : c[1] = n
    <3>1. \A n \in T : <<n, "VARCHAR">> \in S /\ <<n, "VARCHAR">>[1] = n
      BY <1>2
    <3> HIDE DEF S, T
    <3>2. QED
      BY <3>1
  <2> HIDE DEF S, T
  <2>3. {c[1] : c \in S} = T
    BY <2>1, <2>2, Zenon
  <2>4. QED
    BY <2>3 DEF S, T
<1>5. {c[1] : c \in {c \in ToSet(FIXED_COLUMNS) : c[2] = "DOUBLE"}} =
       {"gpu_util", "mem_util", "temp", "power", "host_cpu", "host_mem", "host_fds"}
  <2> DEFINE S == {c \in ToSet(FIXED_COLUMNS) : c[2] = "DOUBLE"}
             T == {"gpu_util", "mem_util", "temp", "power", "host_cpu", "host_mem", "host_fds"}
  <2>1. \A c \in S : c[1] \in T
    BY <1>3
  <2>2. \A n \in T : \E c \in S : c[1] = n
    <3>1. \A n \in T : <<n, "DOUBLE">> \in S /\ <<n, "DOUBLE">>[1] = n
      BY <1>3
    <3> HIDE DEF S, T
    <3>2. QED
      BY <3>1
  <2> HIDE DEF S, T
  <2>3. {c[1] : c \in S} = T
    BY <2>1, <2>2, Zenon
  <2>4. QED
    BY <2>3 DEF S, T
<1>6. WritableString = {"namespace", "pod"}
  BY <1>4 DEF WritableString, Writable, Structural
<1>7. WritableNumeric = {"gpu_util", "mem_util", "temp", "power", "host_cpu", "host_mem",
                         "host_fds"}
  BY <1>5 DEF WritableNumeric, Writable, Structural
<1>8. QED
  BY <1>6, <1>7

\* The INSERT names only columns that are expected, enabled or not.
LEMMA InsertIsExpected ==
  ASSUME NEW c \in Config
  PROVE  ToSet(InsertColumns(c)) \subseteq Expected(c)
<1> DEFINE X == Expected(c)
           tail == Tail(FixedColumns)
           rest == IF c.enabled THEN FinalNames(c.mapping) ELSE <<>>
<1>1. tail \in Seq(X)
  <2>1. FixedColumns \in Seq(X)
    BY FixedIsSeq DEF Expected
  <2> HIDE DEF X
  <2>2. QED
    BY <2>1, FixedIsSeq
<1>2. rest \in Seq(X)
  <2>1. Len(c.mapping) \in Nat /\ DOMAIN c.mapping = 1 .. Len(c.mapping)
    BY DEF Config
  <2>2. FinalNames(c.mapping) = [i \in 1 .. Len(c.mapping) |-> FinalName(c.mapping[i])]
    BY <2>1 DEF FinalNames
  <2>3. \A i \in 1 .. Len(c.mapping) : FinalName(c.mapping[i]) \in X
    BY <2>1 DEF Expected, FinalNames, ToSet
  <2> HIDE DEF X
  <2>4. FinalNames(c.mapping) \in Seq(X)
    BY <2>1, <2>2, <2>3
  <2>5. QED
    BY <2>4
<1>3. InsertColumns(c) = tail \o rest
  BY DEF InsertColumns
<1> HIDE DEF X, tail, rest
<1>4. InsertColumns(c) \in Seq(X)
  BY <1>1, <1>2, <1>3
<1>5. \A i \in DOMAIN InsertColumns(c) : InsertColumns(c)[i] \in X
  BY <1>4
<1>6. QED
  BY <1>5 DEF ToSet, X

-----------------------------------------------------------------------------
(***************************************************************************)
(* The invariant.  A configuration in use is one validate let through; a   *)
(* table that is as --init made it has the columns of that configuration;  *)
(* past the check nothing is missing, and what is too many is agreed to.   *)
(***************************************************************************)
ConfigInv == cfg # NONE => cfg \in Configs /\ Valid(cfg)

MadeInv == made # NONE => made \in Configs /\ table = ToSet(ColumnList(made))

CheckedInv ==
  /\ phase \in {"ask", "assets", "spawn", "running"} => Missing(cfg, actual) = {}
  /\ phase = "ask" => cfg.onExtraColumns = "ask"
  /\ phase \in {"assets", "spawn", "running"} =>
       \/ Extra(cfg, actual) = {} \/ cfg.onExtraColumns = "continue"
       \/ cfg.onExtraColumns = "ask" /\ (agreed \/ ~tty)

StartInv == TypeOK /\ ConfigInv /\ MadeInv /\ CheckedInv

\* The steps that end a process.
LEMMA ExitKeeps ==
  ASSUME StartInv, Exit, UNCHANGED disk
  PROVE  StartInv'
  BY DEF StartInv, TypeOK, ConfigInv, MadeInv, CheckedInv, Exit, disk

\* Those that go on to the check of the table, or on from the asset tables.
LEMMA PhaseKeeps ==
  ASSUME StartInv, NEW next, phase' = next, cfg # NONE,
         next \in {"check", "spawn", "running"},
         next = "check" => phase = "connect",
         next \in {"spawn", "running"} => phase \in {"assets", "spawn"},
         UNCHANGED <<cfg, actual, tty, agreed>>, UNCHANGED disk
  PROVE  StartInv'
<1>1. TypeOK'
  BY DEF StartInv, TypeOK, disk
<1>2. ConfigInv' /\ MadeInv'
  BY DEF StartInv, ConfigInv, MadeInv, disk
<1>3. CheckedInv'
  BY DEF StartInv, CheckedInv
<1>4. QED
  BY <1>1, <1>2, <1>3 DEF StartInv

\* The operator's steps.
LEMMA OperatorKeeps ==
  ASSUME StartInv, RunSqlFile \/ AlterTable \/ DropTable
  PROVE  StartInv'
<1>0. UNCHANGED <<sqlFile, memory>>
  BY DEF RunSqlFile, AlterTable, DropTable
<1>1. ConfigInv' /\ CheckedInv'
  BY <1>0 DEF StartInv, ConfigInv, CheckedInv, memory
<1>2. MadeInv' /\ made' \in Configs \cup {NONE}
  BY DEF StartInv, TypeOK, MadeInv, RunSqlFile, AlterTable, DropTable
<1>3. table' = NONE \/ \A n \in table' : \A m \in table' : Fold(n) = Fold(m) => n = m
  <2>1. CASE RunSqlFile
    BY <2>1 DEF RunSqlFile, Distinct, ToSet
  <2>2. CASE AlterTable
    <3>1. /\ table # NONE
          /\ \/ \E n \in Strangers : Fold(n) \notin Folded(table) /\ table' = table \cup {n}
             \/ \E n \in Droppable \cap table : table' = table \ {n}
      BY <2>2 DEF AlterTable
    <3>2. \A n \in table : \A m \in table : Fold(n) = Fold(m) => n = m
      BY <3>1 DEF StartInv, TypeOK
    <3>3. QED
      BY <3>1, <3>2 DEF Folded
  <2>3. CASE DropTable
    BY <2>3 DEF DropTable
  <2>4. QED
    BY <2>1, <2>2, <2>3
<1>4. TypeOK'
  BY <1>0, <1>2, <1>3 DEF StartInv, TypeOK, memory
<1>5. QED
  BY <1>1, <1>2, <1>4 DEF StartInv

\* The steps of the process.
LEMMA ProcessKeeps ==
  ASSUME StartupAssumption, StartInv, Start \/ Process \/ Answer \/ Stop
  PROVE  StartInv'
<1>1. CASE Start
  BY <1>1 DEF Start, GoOn, StartInv, TypeOK, ConfigInv, MadeInv, CheckedInv, disk
<1>2. CASE WriteExample
  BY <1>2, ExitKeeps DEF WriteExample
<1>3. CASE LoadConfig
  <2>1. PICK c \in Configs, init \in BOOLEAN :
          IF Valid(c)
          THEN /\ cfg' = c /\ phase' = IF init THEN "init" ELSE "connect"
               /\ UNCHANGED <<actual, tty, agreed>>
          ELSE Exit
    BY <1>3 DEF LoadConfig
  <2>2. UNCHANGED disk
    BY <1>3 DEF LoadConfig
  <2>3. CASE ~Valid(c)
    BY <2>1, <2>2, <2>3, ExitKeeps
  <2>4. CASE Valid(c)
    <3>1. cfg' = c /\ phase' \in {"init", "connect"} /\ UNCHANGED <<actual, tty, agreed>>
      BY <2>1, <2>4
    <3>2. c # NONE
      BY DEF StartupAssumption
    <3>3. TypeOK'
      <4>1. phase = "load" /\ ~agreed
        BY <1>3 DEF LoadConfig, StartInv, TypeOK
      <4>2. QED
        BY <2>2, <3>1, <3>2, <4>1 DEF StartInv, TypeOK, disk
    <3>4. ConfigInv'
      BY <2>4, <3>1 DEF ConfigInv, Valid
    <3>5. MadeInv' /\ CheckedInv'
      BY <2>2, <3>1 DEF StartInv, MadeInv, CheckedInv, disk
    <3>6. QED
      BY <3>3, <3>4, <3>5 DEF StartInv
  <2>5. QED
    BY <2>3, <2>4
<1>4. CASE WriteInitSql
  <2>1. Exit /\ sqlFile' \in {cfg, sqlFile, NONE} /\ UNCHANGED <<table, made>>
    BY <1>4 DEF WriteInitSql
  <2>2. TypeOK'
    BY <2>1 DEF StartInv, TypeOK, Exit
  <2>3. ConfigInv' /\ MadeInv' /\ CheckedInv'
    BY <2>1 DEF StartInv, ConfigInv, MadeInv, CheckedInv, Exit
  <2>4. QED
    BY <2>2, <2>3 DEF StartInv
<1>5. CASE Connect
  <2>1. cfg # NONE
    BY <1>5 DEF Connect, StartInv, TypeOK
  <2>2. UNCHANGED disk /\ (Exit \/ GoOn("check")) /\ phase = "connect"
    BY <1>5 DEF Connect
  <2>3. QED
    BY <2>1, <2>2, ExitKeeps, PhaseKeeps DEF GoOn
<1>6. CASE CheckSchema
  <2>1. PICK terminal \in BOOLEAN :
          LET verdict == Verdict(cfg, Columns, terminal)
          IN IF verdict \in {"assets", "ask"}
             THEN /\ actual' = Columns /\ tty' = terminal
                  /\ phase' = verdict
                  /\ UNCHANGED <<cfg, agreed>>
             ELSE Exit
    BY <1>6 DEF CheckSchema
  <2> DEFINE verdict == Verdict(cfg, Columns, terminal)
  <2>2. UNCHANGED disk /\ cfg # NONE /\ cfg \in Config
    BY <1>6 DEF CheckSchema, StartInv, TypeOK, ConfigInv, StartupAssumption
  <2>3. CASE verdict \notin {"assets", "ask"}
    BY <2>1, <2>2, <2>3, ExitKeeps
  <2>4. CASE verdict \in {"assets", "ask"}
    <3>1. /\ actual' = Columns /\ tty' = terminal /\ phase' = verdict
          /\ UNCHANGED <<cfg, agreed>>
      BY <2>1, <2>4
    <3>2. cfg.onExtraColumns \in {"ask", "continue", "abort"}
      BY <2>2 DEF Config
    <3>3. Missing(cfg, Columns) = {}
      BY <2>4 DEF Verdict
    <3>4. verdict = "ask" => cfg.onExtraColumns = "ask"
      BY <2>4, <3>2 DEF Verdict
    <3>5. verdict = "assets" => \/ Extra(cfg, Columns) = {}
                                \/ cfg.onExtraColumns = "continue"
                                \/ cfg.onExtraColumns = "ask" /\ ~terminal
      BY <3>2 DEF Verdict
    <3> HIDE DEF verdict
    <3>6. TypeOK'
      <4>1. phase = "check" /\ ~agreed
        BY <1>6 DEF CheckSchema, StartInv, TypeOK
      <4>2. verdict = "ask" => terminal
        BY <2>1, <2>4 DEF Verdict, verdict
      <4>3. QED
        BY <2>2, <2>4, <3>1, <3>4, <4>1, <4>2 DEF StartInv, TypeOK, disk
    <3>7. ConfigInv' /\ MadeInv'
      BY <2>2, <3>1 DEF StartInv, ConfigInv, MadeInv, disk
    <3>8. /\ Missing(cfg, actual)' = Missing(cfg, Columns)
          /\ Extra(cfg, actual)' = Extra(cfg, Columns)
      BY <3>1 DEF Missing, Extra
    <3>9. CheckedInv'
      BY <2>4, <3>1, <3>3, <3>4, <3>5, <3>8 DEF CheckedInv
    <3>10. QED
      BY <3>6, <3>7, <3>9 DEF StartInv
  <2>5. QED
    BY <2>3, <2>4
<1>7. CASE SchemaUnread
  BY <1>7, ExitKeeps DEF SchemaUnread
<1>8. CASE LoadAssets
  <2>1. cfg # NONE
    BY <1>8 DEF LoadAssets, StartInv, TypeOK
  <2>2. UNCHANGED disk /\ (Exit \/ GoOn("spawn")) /\ phase = "assets"
    BY <1>8 DEF LoadAssets
  <2>3. QED
    BY <2>1, <2>2, ExitKeeps, PhaseKeeps DEF GoOn
<1>9. CASE Spawn
  <2>1. cfg # NONE
    BY <1>9 DEF Spawn, StartInv, TypeOK
  <2>2. UNCHANGED disk /\ (Exit \/ GoOn("running")) /\ phase = "spawn"
    BY <1>9 DEF Spawn
  <2>3. QED
    BY <2>1, <2>2, ExitKeeps, PhaseKeeps DEF GoOn
<1>10. CASE Answer
  <2>1. UNCHANGED disk
    BY <1>10 DEF Answer
  <2>2. CASE Exit
    BY <2>1, <2>2, ExitKeeps
  <2>3. CASE agreed' = TRUE /\ phase' = "assets" /\ UNCHANGED <<cfg, actual, tty>>
    <3>1. phase = "ask" /\ cfg # NONE
      BY <1>10 DEF Answer, StartInv, TypeOK
    <3>2. TypeOK'
      BY <2>1, <2>3, <3>1 DEF StartInv, TypeOK, disk
    <3>3. ConfigInv' /\ MadeInv' /\ CheckedInv'
      BY <2>1, <2>3, <3>1 DEF StartInv, ConfigInv, MadeInv, CheckedInv, disk
    <3>4. QED
      BY <3>2, <3>3 DEF StartInv
  <2>4. QED
    BY <1>10, <2>2, <2>3 DEF Answer
<1>11. CASE Stop
  BY <1>11, ExitKeeps DEF Stop
<1>12. QED
  BY <1>1, <1>2, <1>3, <1>4, <1>5, <1>6, <1>7, <1>8, <1>9, <1>10, <1>11 DEF Process

\* The invariant holds at any time, whatever the operator does to file and table.
THEOREM StartInvariant == Spec => []StartInv
<1>1. Init => StartInv
  BY DEF Init, StartInv, TypeOK, ConfigInv, MadeInv, CheckedInv
<1>2. StartInv /\ [Next]_vars => StartInv'
  <2> SUFFICES ASSUME StartInv, [Next]_vars PROVE StartInv'
    OBVIOUS
  <2>1. CASE UNCHANGED vars
    BY <2>1 DEF StartInv, TypeOK, ConfigInv, MadeInv, CheckedInv, vars, disk, memory
  <2>2. CASE Next
    BY <2>2, StartupAssumption, OperatorKeeps, ProcessKeeps DEF Next
  <2>3. QED
    BY <2>1, <2>2
<1>3. QED
  BY <1>1, <1>2, PTL DEF Spec

\* Types: no two columns of the table are one to MySQL; a process has a configuration
\* from the moment it has loaded it to its end.
THEOREM StartTypes == Spec => []TypeOK
<1>1. StartInv => TypeOK
  BY DEF StartInv
<1>2. QED
  BY <1>1, StartInvariant, PTL

\* The loops start only over a table that has every column the INSERTs name, and beside
\* columns nobody configured only as on_extra_columns says.
THEOREM RunsOverItsColumns == Spec => []RunsWithItsColumns
<1>1. StartInv => RunsWithItsColumns
  <2> SUFFICES ASSUME StartInv, phase = "running" PROVE RunsWithItsColumns
    BY DEF RunsWithItsColumns
  <2>1. cfg \in Config
    BY StartupAssumption DEF StartInv, TypeOK, ConfigInv
  <2>2. ToSet(InsertColumns(cfg)) \subseteq Expected(cfg)
    BY <2>1, InsertIsExpected
  <2>3. Missing(cfg, actual) = {}
    BY DEF StartInv, CheckedInv
  <2>4. Folded(ToSet(InsertColumns(cfg))) \subseteq Folded(Expected(cfg))
    BY <2>2 DEF Folded
  <2>5. Folded(Expected(cfg)) \subseteq Folded(actual)
    BY <2>3 DEF Missing
  <2>6. \/ Extra(cfg, actual) = {} \/ cfg.onExtraColumns = "continue"
        \/ cfg.onExtraColumns = "ask" /\ (agreed \/ ~tty)
    BY DEF StartInv, CheckedInv
  <2>7. QED
    BY <2>4, <2>5, <2>6 DEF RunsWithItsColumns
<1>2. QED
  BY <1>1, StartInvariant, PTL

\* A table made by --init passes the check of the configuration it was made for, without
\* a question.
THEOREM OwnTablePasses == Spec => []OwnTableFits
<1>1. StartInv => OwnTableFits
  <2> SUFFICES ASSUME StartInv, phase = "check", made = cfg, NEW t \in BOOLEAN
               PROVE  Verdict(cfg, Columns, t) = "assets"
    BY DEF OwnTableFits
  <2>1. cfg \in Configs /\ cfg \in Config /\ made # NONE
    BY StartupAssumption DEF StartInv, TypeOK, ConfigInv
  <2>2. table = Expected(cfg)
    BY <2>1, ColumnListIsExpected DEF StartInv, MadeInv
  <2>3. Columns = Expected(cfg)
    BY <2>1, <2>2, NoTableAssumption DEF Columns
  <2>4. Missing(cfg, Columns) = {} /\ Extra(cfg, Columns) = {}
    BY <2>3 DEF Missing, Extra
  <2>5. QED
    BY <2>4 DEF Verdict
<1>2. QED
  BY <1>1, StartInvariant, PTL

-----------------------------------------------------------------------------
(* What a source writes                                                      *)

\* Where the elements of a sequence are when another one is put after it.
LEMMA JoinedSeq ==
  ASSUME NEW A, NEW x \in Seq(A), NEW y \in Seq(A)
  PROVE  /\ DOMAIN (x \o y) = 1 .. Len(x) + Len(y)
         /\ \A p \in 1 .. Len(x) : (x \o y)[p] = x[p]
         /\ \A p \in Len(x) + 1 .. Len(x) + Len(y) : (x \o y)[p] = y[p - Len(x)]
  OBVIOUS

\* The columns of the INSERT and what is bound to them: thirteen of the program's own,
\* then those of the mapping, under one name on both sides.
LEMMA BoundPlaces ==
  ASSUME NEW c \in Config
  PROVE  /\ DOMAIN BoundValues(c) = DOMAIN InsertColumns(c)
         /\ 1 .. 13 \subseteq DOMAIN BoundValues(c)
         /\ \A p \in 1 .. 13 : /\ BoundValues(c)[p] = FixedWriteValues[p]
                               /\ InsertColumns(c)[p] = FixedColumns[p + 1]
         /\ \A p \in DOMAIN BoundValues(c) \ (1 .. 13) :
              \E i \in DOMAIN c.mapping :
                BoundValues(c)[p] = <<"strings", FinalName(c.mapping[i])>>
<1> DEFINE m == c.mapping
           N == Len(m)
           F == [i \in 1 .. N |-> FinalName(m[i])]
           B == [i \in 1 .. N |-> <<"strings", FinalName(m[i])>>]
           f == IF c.enabled THEN F ELSE <<>>
           b == IF c.enabled THEN B ELSE <<>>
           X == {FinalName(m[i]) : i \in 1 .. N} \cup ToSet(FixedColumns)
           Y == {<<"strings", FinalName(m[i])>> : i \in 1 .. N} \cup ToSet(FixedWriteValues)
           tail == Tail(FixedColumns)
<1>1. N \in Nat /\ DOMAIN m = 1 .. N
  BY DEF Config
<1>2. FinalNames(m) = F /\ [i \in DOMAIN m |-> <<"strings", FinalNames(m)[i]>>] = B
  <2>1. FinalNames(m) = F
    BY <1>1 DEF FinalNames
  <2>2. \A i \in 1 .. N : FinalNames(m)[i] = FinalName(m[i])
    BY <2>1
  <2>3. QED
    BY <1>1, <2>1, <2>2
<1>3. InsertColumns(c) = tail \o f /\ BoundValues(c) = FixedWriteValues \o b
  BY <1>2 DEF InsertColumns, BoundValues
<1>4. F \in Seq(X) /\ Len(F) = N /\ B \in Seq(Y) /\ Len(B) = N
      /\ \A i \in 1 .. N : B[i] = <<"strings", FinalName(m[i])>>
  <2>1. (\A i \in 1 .. N : FinalName(m[i]) \in X)
        /\ \A i \in 1 .. N : <<"strings", FinalName(m[i])>> \in Y
    OBVIOUS
  <2> HIDE DEF X, Y, m, N
  <2>2. F \in Seq(X) /\ Len(F) = N
    <3>1. N \in Nat /\ \A i \in 1 .. N : FinalName(m[i]) \in X
      BY <1>1, <2>1
    <3>2. QED
      BY <3>1
  <2>3. B \in Seq(Y) /\ Len(B) = N
    BY <1>1, <2>1
  <2>4. \A i \in 1 .. N : B[i] = <<"strings", FinalName(m[i])>>
    OBVIOUS
  <2>5. QED
    BY <2>2, <2>3, <2>4
<1> HIDE DEF F, B
<1>5. /\ f \in Seq(X) /\ b \in Seq(Y) /\ Len(f) \in Nat /\ Len(b) = Len(f)
      /\ \A i \in 1 .. Len(b) : i \in 1 .. N /\ b[i] = <<"strings", FinalName(m[i])>>
  <2> HIDE DEF X, Y
  <2>1. CASE c.enabled
    BY <1>1, <1>4, <2>1
  <2>2. CASE ~c.enabled
    BY <2>2
  <2>3. QED
    BY <2>1, <2>2
<1>6. tail \in Seq(X) /\ Len(tail) = 13 /\ \A p \in 1 .. 13 : tail[p] = FixedColumns[p + 1]
  <2>1. FixedColumns \in Seq(X)
    BY FixedIsSeq
  <2> HIDE DEF X
  <2>2. QED
    BY <2>1, FixedIsSeq, FixedLists
<1>7. FixedWriteValues \in Seq(Y)
  <2>1. FixedWriteValues = [p \in 1 .. 13 |-> FixedWriteValues[p]]
    BY FixedLists DEF FixedWriteValues
  <2>2. \A p \in 1 .. 13 : FixedWriteValues[p] \in Y
    BY FixedLists DEF ToSet
  <2> HIDE DEF Y
  <2>3. QED
    BY <2>1, <2>2
<1> HIDE DEF f, b, tail, X, Y
<1>8. /\ DOMAIN (tail \o f) = 1 .. 13 + Len(f)
      /\ \A p \in 1 .. 13 : (tail \o f)[p] = tail[p]
  <2>1. f \in Seq(X) /\ tail \in Seq(X) /\ Len(tail) = 13
    BY <1>5, <1>6
  <2>2. /\ DOMAIN (tail \o f) = 1 .. Len(tail) + Len(f)
        /\ \A p \in 1 .. Len(tail) : (tail \o f)[p] = tail[p]
    BY <2>1, JoinedSeq, ZenonT(40)
  <2>3. QED
    BY <2>1, <2>2
<1>9. /\ DOMAIN (FixedWriteValues \o b) = 1 .. 13 + Len(f)
      /\ \A p \in 1 .. 13 : (FixedWriteValues \o b)[p] = FixedWriteValues[p]
      /\ \A p \in 14 .. 13 + Len(f) : (FixedWriteValues \o b)[p] = b[p - 13]
  <2>1. Len(FixedWriteValues) = 13
    BY FixedLists
  <2>2. b \in Seq(Y) /\ FixedWriteValues \in Seq(Y) /\ Len(b) = Len(f) /\ Len(f) \in Nat
    BY <1>5, <1>7
  <2>3. /\ DOMAIN (FixedWriteValues \o b) = 1 .. Len(FixedWriteValues) + Len(b)
        /\ \A p \in 1 .. Len(FixedWriteValues) :
             (FixedWriteValues \o b)[p] = FixedWriteValues[p]
        /\ \A p \in Len(FixedWriteValues) + 1 .. Len(FixedWriteValues) + Len(b) :
             (FixedWriteValues \o b)[p] = b[p - Len(FixedWriteValues)]
    BY <2>2, JoinedSeq, ZenonT(40)
  <2>4. 13 + 1 = 14
    OBVIOUS
  <2>5. QED
    BY <2>1, <2>2, <2>3, <2>4
<1>10. ASSUME NEW p \in DOMAIN BoundValues(c) \ (1 .. 13)
       PROVE  \E i \in DOMAIN m : BoundValues(c)[p] = <<"strings", FinalName(m[i])>>
  <2>1. p \in 14 .. 13 + Len(f) /\ p - 13 \in 1 .. Len(b)
    <3>1. p \in 1 .. 13 + Len(f) /\ p \notin 1 .. 13 /\ Len(f) \in Nat /\ Len(b) = Len(f)
      BY <1>3, <1>5, <1>9
    <3>2. QED
      BY <3>1
  <2>2. BoundValues(c)[p] = b[p - 13]
    BY <1>3, <1>9, <2>1
  <2>3. QED
    BY <1>1, <1>5, <2>1, <2>2
<1>11. 1 .. 13 \subseteq 1 .. 13 + Len(f)
  BY <1>5
<1>12. QED
  BY <1>3, <1>6, <1>8, <1>9, <1>10, <1>11

\* Each column a source may write is bound among the first thirteen, from the map of a row
\* its kind is put into.
LEMMA WritablePlace ==
  ASSUME NEW kind, NEW name \in Allowed(kind)
  PROVE  \E p \in 1 .. 13 :
           /\ FixedWriteValues[p] = <<IF kind = "label" THEN "strings" ELSE "fields", name>>
           /\ FixedColumns[p + 1] = name
<1>1. CASE kind = "label"
  <2>1. name \in {"namespace", "pod"}
    BY <1>1, WritableNames DEF Allowed
  <2>2. /\ FixedWriteValues[4] = <<"strings", "namespace">>
        /\ FixedWriteValues[5] = <<"strings", "pod">>
    BY DEF FixedWriteValues
  <2>3. FixedColumns[4 + 1] = "namespace" /\ FixedColumns[5 + 1] = "pod"
    BY FixedLists
  <2>4. QED
    BY <1>1, <2>1, <2>2, <2>3
<1>2. CASE kind # "label"
  <2>1. name \in {"gpu_util", "mem_util", "temp", "power", "host_cpu", "host_mem", "host_fds"}
    BY <1>2, WritableNames DEF Allowed
  <2>2. /\ FixedWriteValues[6] = <<"fields", "gpu_util">>
        /\ FixedWriteValues[7] = <<"fields", "mem_util">>
        /\ FixedWriteValues[8] = <<"fields", "temp">>
        /\ FixedWriteValues[9] = <<"fields", "power">>
        /\ FixedWriteValues[10] = <<"fields", "host_cpu">>
        /\ FixedWriteValues[11] = <<"fields", "host_mem">>
        /\ FixedWriteValues[12] = <<"fields", "host_fds">>
    BY DEF FixedWriteValues
  <2>3. /\ FixedColumns[6 + 1] = "gpu_util" /\ FixedColumns[7 + 1] = "mem_util"
        /\ FixedColumns[8 + 1] = "temp" /\ FixedColumns[9 + 1] = "power"
        /\ FixedColumns[10 + 1] = "host_cpu" /\ FixedColumns[11 + 1] = "host_mem"
        /\ FixedColumns[12 + 1] = "host_fds"
    BY FixedLists
  <2>4. QED
    BY <1>2, <2>1, <2>2, <2>3
<1>3. QED
  BY <1>1, <1>2

\* In a running program what a source writes is bound once, to the column of its name,
\* and nothing else of the source is put there, for any mapping beside it.
THEOREM ValuesReachTheTable == Spec => []NoValueLost
<1>1. StartInv => NoValueLost
  <2> SUFFICES ASSUME StartInv, phase = "running",
                      NEW i \in DOMAIN cfg.sources, NEW j \in DOMAIN cfg.sources[i]
               PROVE  LET s == cfg.sources[i]
                          place == <<IF s[j].kind = "label" THEN "strings" ELSE "fields",
                                     s[j].name>>
                          bound == {p \in DOMAIN BoundValues(cfg) : BoundValues(cfg)[p] = place}
                      IN /\ \E p \in bound : bound = {p} /\ InsertColumns(cfg)[p] = s[j].name
                         /\ \A k \in DOMAIN s : s[k].name = s[j].name => k = j
    BY DEF NoValueLost
  <2> DEFINE s     == cfg.sources[i]
             name  == s[j].name
             place == <<IF s[j].kind = "label" THEN "strings" ELSE "fields", name>>
             bound == {p \in DOMAIN BoundValues(cfg) : BoundValues(cfg)[p] = place}
  <2>1. cfg \in Config /\ Valid(cfg)
    BY StartupAssumption DEF StartInv, TypeOK, ConfigInv
  <2>2. SourceValid(s) /\ MappingValid(cfg.mapping)
    BY <2>1 DEF Valid
  <2>3. name \in Allowed(s[j].kind)
    BY <2>2 DEF SourceValid
  <2>4. \A k \in DOMAIN s : s[k].name = name => k = j
    <3>1. DOMAIN [k \in DOMAIN s |-> s[k].name] = DOMAIN s
          /\ \A k \in DOMAIN s : [l \in DOMAIN s |-> s[l].name][k] = s[k].name
      OBVIOUS
    <3>2. Distinct([k \in DOMAIN s |-> s[k].name])
      BY <2>2 DEF SourceValid
    <3>3. QED
      BY <3>1, <3>2 DEF Distinct
  <2>5. PICK p \in 1 .. 13 : FixedWriteValues[p] = place /\ FixedColumns[p + 1] = name
    BY <2>3, WritablePlace
  <2>6. p \in bound /\ InsertColumns(cfg)[p] = name
    BY <2>1, <2>5, BoundPlaces
  <2>7. ASSUME NEW q \in bound
        PROVE  q = p
    <3>1. q \in DOMAIN BoundValues(cfg) /\ BoundValues(cfg)[q] = place
      OBVIOUS
    <3>2. place[2] = name
      OBVIOUS
    <3> HIDE DEF place, name, bound
    <3>3. CASE q \in 1 .. 13
      <4>1. BoundValues(cfg)[q] = FixedWriteValues[q]
        BY <2>1, <3>3, BoundPlaces
      <4>2. FixedWriteValues[q][2] = FixedColumns[q + 1]
        BY <3>3, FixedLists
      <4>3. FixedColumns[q + 1] = FixedColumns[p + 1]
        BY <2>5, <3>1, <3>2, <4>1, <4>2
      <4>4. q + 1 \in 1 .. 14 /\ p + 1 \in 1 .. 14
        BY <2>5, <3>3
      <4>5. q + 1 = p + 1
        BY <4>3, <4>4, FixedLists
      <4>6. QED
        BY <2>5, <3>3, <4>5
    <3>4. CASE q \notin 1 .. 13
      <4>1. PICK l \in DOMAIN cfg.mapping :
              BoundValues(cfg)[q] = <<"strings", FinalName(cfg.mapping[l])>>
        BY <2>1, <3>1, <3>4, BoundPlaces
      <4>2. FinalName(cfg.mapping[l]) = name
        BY <3>1, <3>2, <4>1
      <4>3. FinalName(cfg.mapping[l]) \notin ToSet(FixedColumns)
        BY <2>2 DEF MappingValid
      <4>4. p + 1 \in DOMAIN FixedColumns
        BY <2>5, FixedLists
      <4>5. name \in ToSet(FixedColumns)
        BY <2>5, <4>4 DEF ToSet
      <4>6. QED
        BY <4>2, <4>3, <4>5
    <3>5. QED
      BY <3>3, <3>4
  <2> HIDE DEF place, bound
  <2>8. bound = {p}
    BY <2>6, <2>7
  <2>9. QED
    BY <2>4, <2>6, <2>8 DEF place, bound
<1>2. QED
  BY <1>1, StartInvariant, PTL

-----------------------------------------------------------------------------
(* The order of the table's columns                                          *)

\* Whether the anchor of mapping column i is there when i is placed.
Anchored(m, i) ==
  m[i].anchor \in ToSet(FixedColumns) \cup {FinalName(m[j]) : j \in 1 .. i - 1}

Asked(s, m, i) ==
  Beside(s, FinalName(m[i]), m[i].anchor, m[i].direction = "before", ToSet(FinalNames(m)))

\* The list has no name twice, and the mapping columns are where they were asked to be.
LEMMA ColumnsWhereAsked ==
  ASSUME NEW c \in Config, MappingValid(c.mapping)
  PROVE  /\ Distinct(ColumnList(c))
         /\ \A i \in DOMAIN c.mapping :
              Anchored(c.mapping, i) => Asked(ColumnList(c), c.mapping, i)
<1> DEFINE m == c.mapping
           N == Len(m)
<1>1. N \in Nat /\ N \in 0 .. N /\ DOMAIN m = 1 .. N
  BY DEF Config
<1>2. PICK u : /\ u[0] = FixedColumns /\ ColumnList(c) = u[N]
               /\ \A k \in 1 .. N : u[k] = InsertByPosition(u[k - 1], m[k])
  BY ColumnListSteps
<1>3. \A k \in 0 .. N : Placed(u, c, k)
  BY <1>2, StepsArePlaced
<1> DEFINE Good(k) == /\ Distinct(u[k])
                      /\ \A i \in 1 .. k : Anchored(m, i) => Asked(u[k], m, i)
           Bad == {k \in 0 .. N : ~Good(k)}
<1>4. /\ \A i \in 1 .. N : FinalName(m[i]) \in ToSet(FinalNames(m))
      /\ \A i, j \in 1 .. N : FinalName(m[i]) = FinalName(m[j]) => i = j
      /\ \A i \in 1 .. N : FinalName(m[i]) \notin ToSet(FixedColumns)
      /\ \A i \in 1 .. N : FinalName(m[i]) \in Expected(c)
  BY <1>1 DEF MappingValid, FinalNames, Distinct, ToSet, Expected
<1>5. ASSUME NEW k \in Bad, \A j \in Bad : k <= j
      PROVE  FALSE
  <2>1. CASE k = 0
    <3>1. Distinct(u[0])
      BY <1>2, FixedLists DEF Distinct
    <3>2. QED
      BY <1>5, <2>1, <3>1
  <2>2. CASE k # 0
    <3>1. k \in 1 .. N /\ k - 1 \in 0 .. N /\ ~(k <= k - 1)
      BY <1>1, <2>2
    <3>2. Good(k - 1) /\ Placed(u, c, k - 1)
      BY <1>3, <1>5, <3>1
    <3> DEFINE e == FinalName(m[k])
               s == u[k - 1]
               r == u[k]
    <3>3. /\ s \in Seq(Expected(c)) /\ r = InsertByPosition(s, m[k])
          /\ ToSet(s) = ToSet(FixedColumns) \cup {FinalName(m[i]) : i \in 1 .. k - 1}
      BY <1>2, <3>1, <3>2 DEF Placed
    <3>4. PICK p : /\ Put(r, s, p, e)
                   /\ m[k].anchor \in ToSet(s) =>
                        \E at \in DOMAIN s : /\ s[at] = m[k].anchor
                                             /\ p = IF m[k].direction = "before"
                                                    THEN at ELSE at + 1
      <4>1. e \in Expected(c)
        BY <1>4, <3>1
      <4> HIDE DEF s, r, m
      <4>2. QED
        BY <3>3, <4>1, PlacedPut DEF e
    <3>5. e \notin ToSet(s) /\ e \in ToSet(FinalNames(m))
      <4>1. \A i \in 1 .. k - 1 : i \in 1 .. N /\ i # k
        BY <1>1, <3>1
      <4>2. QED
        BY <1>4, <3>1, <3>3, <4>1
    <3>6. Distinct(r)
      BY <3>2, <3>4, <3>5, PutDistinct
    <3>7. ASSUME NEW i \in 1 .. k, Anchored(m, i)
          PROVE  Asked(r, m, i)
      <4>1. CASE i = k
        <5>1. PICK at \in DOMAIN s : /\ s[at] = m[k].anchor
                                     /\ p = IF m[k].direction = "before"
                                            THEN at ELSE at + 1
          BY <3>3, <3>4, <3>7, <4>1 DEF Anchored
        <5>2. (m[k].direction = "before") \in BOOLEAN
          OBVIOUS
        <5>3. Put(r, s, IF m[k].direction = "before" THEN at ELSE at + 1, e)
          BY <3>4, <5>1
        <5> HIDE DEF m, s, r, e
        <5>4. Beside(r, e, s[at], m[k].direction = "before", ToSet(FinalNames(m)))
          BY <5>2, <5>3, PutBeside
        <5>5. QED
          BY <4>1, <5>1, <5>4 DEF Asked, e
      <4>2. CASE i # k
        <5>1. i \in 1 .. k - 1
          BY <3>1, <4>2
        <5>2. Asked(s, m, i)
          BY <3>2, <3>7, <5>1
        <5>3. (m[i].direction = "before") \in BOOLEAN
          OBVIOUS
        <5> HIDE DEF m, s, r, e
        <5>4. QED
          BY <3>4, <3>5, <5>2, <5>3, PutKeepsBeside DEF Asked
      <4>3. QED
        BY <4>1, <4>2
    <3>8. Good(k)
      BY <3>6, <3>7
    <3>9. QED
      BY <1>5, <3>8
  <2>3. QED
    BY <2>1, <2>2
<1>6. Bad = {}
  <2>1. Bad \in SUBSET Nat
    BY <1>1
  <2> HIDE DEF Bad
  <2>2. QED
    BY <1>5, <2>1, LeastNumber
<1>7. Good(N)
  BY <1>1, <1>6
<1>8. QED
  BY <1>1, <1>2, <1>7

\* The file is always one of a configuration that validate let through.
FileInv == sqlFile # NONE => sqlFile \in Configs /\ Valid(sqlFile)

\* --init writes a file of a configuration that passes, as validate runs before it.
THEOREM FilesAreValid == Spec => []FileInv
<1>1. Init => FileInv
  BY DEF Init, FileInv
<1>2. StartInv /\ FileInv /\ [Next]_vars => FileInv'
  <2> SUFFICES ASSUME StartInv, FileInv, [Next]_vars
               PROVE  FileInv'
    OBVIOUS
  <2>1. \/ UNCHANGED sqlFile
        \/ phase = "init" /\ sqlFile' \in {cfg, sqlFile, NONE}
    BY DEF Next, Process, RunSqlFile, AlterTable, DropTable, Start, WriteExample, LoadConfig,
           WriteInitSql, Connect, CheckSchema, SchemaUnread, LoadAssets, Spawn, Answer, Stop,
           vars, disk
  <2>2. phase = "init" => cfg \in Configs /\ Valid(cfg)
    BY DEF StartInv, TypeOK, ConfigInv
  <2>3. QED
    BY <2>1, <2>2 DEF FileInv
<1>3. QED
  BY <1>1, <1>2, StartInvariant, PTL DEF Spec

\* In a table of the generated statement a mapping column is where it was asked to be: on
\* its side of the anchor, with at most other mapping columns between, for any mapping.
THEOREM ColumnsNextToAnchors == Spec => []NextToAnchor
<1>1. FileInv => NextToAnchor
  <2> SUFFICES ASSUME FileInv, sqlFile # NONE
               PROVE  NextToAnchor
    BY DEF NextToAnchor
  <2> DEFINE m == sqlFile.mapping
             name == FinalNames(m)
             columns == ColumnList(sqlFile)
             At(n) == CHOOSE i \in DOMAIN columns : columns[i] = n
             Between(i, j) == {columns[k] : k \in {k \in DOMAIN columns : i < k /\ k < j}}
  <2>1. sqlFile \in Config /\ MappingValid(m)
    BY StartupAssumption DEF FileInv, Valid
  <2>2. Distinct(columns)
    BY <2>1, ColumnsWhereAsked
  <2>3. Len(m) \in Nat /\ DOMAIN m = 1 .. Len(m)
    BY <2>1 DEF Config
  <2>4. \A i \in DOMAIN m : name[i] = FinalName(m[i])
    BY DEF FinalNames
  <2>5. ASSUME NEW i \in DOMAIN m,
               m[i].anchor \in ToSet(FixedColumns) \cup {name[j] : j \in 1 .. (i - 1)}
        PROVE  LET before == m[i].direction = "before"
                   first  == IF before THEN At(name[i]) ELSE At(m[i].anchor)
                   last   == IF before THEN At(m[i].anchor) ELSE At(name[i])
               IN first < last /\ Between(first, last) \subseteq ToSet(name)
    <3>1. \A j \in 1 .. (i - 1) : j \in DOMAIN m
      BY <2>3
    <3>2. {name[j] : j \in 1 .. (i - 1)} = {FinalName(m[j]) : j \in 1 .. i - 1}
      BY <2>4, <3>1
    <3>3. Anchored(m, i)
      BY <2>5, <3>2 DEF Anchored
    <3>4. Asked(columns, m, i)
      BY <2>1, <3>3, ColumnsWhereAsked
    <3> DEFINE before == m[i].direction = "before"
    <3>5. PICK x \in DOMAIN columns, y \in DOMAIN columns :
            /\ columns[x] = name[i] /\ columns[y] = m[i].anchor
            /\ IF before THEN x < y ELSE y < x
            /\ \A k \in DOMAIN columns : (x < k /\ k < y) \/ (y < k /\ k < x) =>
                                           columns[k] \in ToSet(name)
      BY <2>4, <3>4 DEF Asked, Beside
    <3>6. At(name[i]) = x
      BY <2>2, <3>5 DEF Distinct
    <3>7. At(m[i].anchor) = y
      BY <2>2, <3>5 DEF Distinct
    <3> HIDE DEF columns, m, name, At
    <3>8. QED
      BY <3>5, <3>6, <3>7
  <2>6. QED
    BY <2>5 DEF NextToAnchor
<1>2. QED
  BY <1>1, FilesAreValid, PTL
=============================================================================
