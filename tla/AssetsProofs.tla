---------------------------- MODULE AssetsProofs ----------------------------
(***************************************************************************)
(* The assets of a round's rows and the order of them, for every number of *)
(* sources, hosts, cards and tables, and every dirt in the tables.         *)
(***************************************************************************)
EXTENDS Assets, TLAPS

-----------------------------------------------------------------------------
(* Comparing two texts                                                       *)

\* Among texts of one kind, all numbers or none, Less is an order of Same's classes.
LEMMA LessIsOrder ==
  ASSUME NEW f, \A t \in DOMAIN f : f[t] \in Nat,
         NEW a \in Nat, NEW b \in Nat, NEW c \in Nat,
         a \in DOMAIN f <=> b \in DOMAIN f, b \in DOMAIN f <=> c \in DOMAIN f
  PROVE  /\ ~Less(f, a, a) /\ Same(f, a, a)
         /\ Same(f, a, b) => Same(f, b, a) /\ ~Less(f, a, b)
         /\ Less(f, a, b) \/ Same(f, a, b) \/ Less(f, b, a)
         /\ Less(f, a, b) /\ Less(f, b, c) => Less(f, a, c)
         /\ Less(f, a, b) /\ Same(f, b, c) => Less(f, a, c)
         /\ Same(f, a, b) /\ Less(f, b, c) => Less(f, a, c)
         /\ Same(f, a, b) /\ Same(f, b, c) => Same(f, a, c)
  <1>1. CASE a \in DOMAIN f
    <2>1. f[a] \in Nat /\ f[b] \in Nat /\ f[c] \in Nat
      BY <1>1
    <2>2. QED
      BY <1>1, <2>1 DEF Less, Same, Numbered
  <1>2. CASE a \notin DOMAIN f
    BY <1>2 DEF Less, Same, Numbered
  <1>3. QED
    BY <1>1, <1>2

-----------------------------------------------------------------------------
(* Comparing two rows                                                        *)

\* The parts a row is compared by are numbers.
LEMMA TextsAreNumbered ==
  ASSUME NEW r, IsRow(r)
  PROVE  r.source \in Nat /\ r.ip \in Nat /\ r.card_id \in Nat
  BY AssetsAssumption DEF IsRow, Structural

\* Being of one host is an equivalence among orderly rows.
LEMMA HostsPartition ==
  ASSUME NEW R, \A r \in R : IsRow(r), Orderly(R),
         NEW a \in R, NEW b \in R, NEW c \in R
  PROVE  /\ SameHost(a, a)
         /\ SameHost(a, b) => SameHost(b, a)
         /\ SameHost(a, b) /\ SameHost(b, c) => SameHost(a, c)
  <1>1. /\ a.source \in Nat /\ a.ip \in Nat
        /\ b.source \in Nat /\ b.ip \in Nat
        /\ c.source \in Nat /\ c.ip \in Nat
    BY TextsAreNumbered
  <1>2. \A t \in DOMAIN IpNumber : IpNumber[t] \in Nat
    BY RowOrderAssumption
  <1>3. SameHost(a, a)
    BY <1>1, <1>2 DEF SameHost, Same, Numbered
  <1>4. ASSUME SameHost(a, b)
        PROVE  SameHost(b, a)
    BY <1>1, <1>2, <1>4 DEF SameHost, Same, Numbered
  <1>5. ASSUME SameHost(a, b), SameHost(b, c)
        PROVE  SameHost(a, c)
    <2>1. a.source = b.source /\ b.source = c.source
      BY <1>5 DEF SameHost
    <2>2. /\ a.ip \in DOMAIN IpNumber <=> b.ip \in DOMAIN IpNumber
          /\ b.ip \in DOMAIN IpNumber <=> c.ip \in DOMAIN IpNumber
      BY <2>1 DEF Orderly
    <2>3. QED
      BY <1>5, <2>1, <2>2 DEF SameHost, Same, Numbered
  <1>6. QED
    BY <1>3, <1>4, <1>5

\* The comparator is the order a stable sort needs: no row comes before itself, what is
\* not after does not come before.
THEOREM RowLessIsOrder ==
  ASSUME NEW R, \A r \in R : IsRow(r), Orderly(R),
         NEW a \in R, NEW b \in R, NEW c \in R
  PROVE  /\ ~RowLess(a, a)
         /\ RowLess(a, b) => ~RowLess(b, a)
         /\ RowLess(a, b) /\ RowLess(b, c) => RowLess(a, c)
         /\ ~RowLess(b, a) /\ ~RowLess(c, b) => ~RowLess(c, a)
  <1> DEFINE IpL(x, y) == Less(IpNumber, x.ip, y.ip)
             IpS(x, y) == Same(IpNumber, x.ip, y.ip)
             CaL(x, y) == Less(CardNumber, x.card_id, y.card_id)
             CaS(x, y) == Same(CardNumber, x.card_id, y.card_id)
  <1>1. \A x \in R : x.source \in Nat /\ x.ip \in Nat /\ x.card_id \in Nat
    BY TextsAreNumbered
  <1>2. ASSUME NEW x \in R, NEW y \in R, NEW z \in R,
               x.source = y.source, y.source = z.source
        PROVE  /\ ~IpL(x, x) /\ IpS(x, x)
               /\ IpS(x, y) => IpS(y, x) /\ ~IpL(x, y)
               /\ IpL(x, y) \/ IpS(x, y) \/ IpL(y, x)
               /\ IpL(x, y) /\ IpL(y, z) => IpL(x, z)
               /\ IpL(x, y) /\ IpS(y, z) => IpL(x, z)
               /\ IpS(x, y) /\ IpL(y, z) => IpL(x, z)
               /\ IpS(x, y) /\ IpS(y, z) => IpS(x, z)
    <2>1. /\ x.ip \in DOMAIN IpNumber <=> y.ip \in DOMAIN IpNumber
          /\ y.ip \in DOMAIN IpNumber <=> z.ip \in DOMAIN IpNumber
      BY <1>2 DEF Orderly
    <2>2. QED
      BY <1>1, <2>1, LessIsOrder, RowOrderAssumption
  <1>3. ASSUME NEW x \in R, NEW y \in R, NEW z \in R,
               SameHost(x, y), SameHost(y, z)
        PROVE  /\ ~CaL(x, x)
               /\ CaS(x, y) => CaS(y, x) /\ ~CaL(x, y)
               /\ CaL(x, y) \/ CaS(x, y) \/ CaL(y, x)
               /\ CaL(x, y) /\ CaL(y, z) => CaL(x, z)
               /\ CaL(x, y) /\ CaS(y, z) => CaL(x, z)
               /\ CaS(x, y) /\ CaL(y, z) => CaL(x, z)
               /\ CaS(x, y) /\ CaS(y, z) => CaS(x, z)
    <2>1. /\ x.card_id \in DOMAIN CardNumber <=> y.card_id \in DOMAIN CardNumber
          /\ y.card_id \in DOMAIN CardNumber <=> z.card_id \in DOMAIN CardNumber
      BY <1>3 DEF Orderly
    <2>2. QED
      BY <1>1, <2>1, LessIsOrder, RowOrderAssumption
  <1>4. \A x, y \in R :
          RowLess(x, y) <=> \/ x.source < y.source
                            \/ x.source = y.source /\ IpL(x, y)
                            \/ SameHost(x, y) /\ CaL(x, y)
    BY DEF RowLess
  <1>5. \A x, y \in R : SameHost(x, y) <=> x.source = y.source /\ IpS(x, y)
    BY DEF SameHost
  <1>6. \A x, y, z \in R : /\ SameHost(x, x)
                           /\ SameHost(x, y) => SameHost(y, x)
                           /\ SameHost(x, y) /\ SameHost(y, z) => SameHost(x, z)
    BY HostsPartition
  <1> HIDE DEF IpL, IpS, CaL, CaS
  <1>7. \A x, y \in R : RowLess(x, y) => ~RowLess(y, x)
    BY <1>1, <1>2, <1>3, <1>4, <1>5, <1>6
  <1>8. \A x, y, z \in R : RowLess(x, y) /\ RowLess(y, z) => RowLess(x, z)
    BY <1>1, <1>2, <1>3, <1>4, <1>5, <1>6
  <1>9. \A x, y, z \in R : ~RowLess(y, x) /\ ~RowLess(z, y) => ~RowLess(z, x)
    BY <1>1, <1>2, <1>3, <1>4, <1>5, <1>6
  <1>10. QED
    BY <1>7, <1>8, <1>9

-----------------------------------------------------------------------------
(* The rows of a round                                                       *)

\* Joining leaves what a row is known by, and each position its row.
LEMMA JoinKeepsIdentity ==
  ASSUME NEW r, IsRow(r), NEW k
  PROVE  IsRow(JoinSource(r, k))
  BY DEF IsRow, JoinSource, Structural

AreRows(s) == (\E n \in Nat : DOMAIN s = 1..n) /\ \A i \in DOMAIN s : IsRow(s[i])

Arranged ==
  /\ AreRows(rows)
  /\ phase = "done" /\ RowsInOrder =>
       \A i, j \in DOMAIN rows : i < j => ~RowLess(rows[j], rows[i])

\* An arrangement holds the same rows, so it is orderly if they are.
LEMMA SameRows ==
  ASSUME NEW p \in Orders, rows' = [i \in DOMAIN rows |-> rows[p[i]]], RowsInOrder'
  PROVE  RowsInOrder
  <1>1. {rows[i] : i \in DOMAIN rows} \subseteq {rows'[i] : i \in DOMAIN rows'}
    <2>1. SUFFICES ASSUME NEW i \in DOMAIN rows
                   PROVE  rows[i] \in {rows'[j] : j \in DOMAIN rows'}
      OBVIOUS
    <2>2. PICK j \in DOMAIN p : p[j] = i
      BY DEF Orders
    <2>3. j \in DOMAIN rows /\ DOMAIN rows' = DOMAIN rows
      BY DEF Orders
    <2>4. rows'[j] = rows[i]
      BY <2>2, <2>3
    <2>5. QED
      BY <2>3, <2>4
  <1>2. QED
    BY <1>1 DEF RowsInOrder, Orderly

\* sort_by leaves no row behind one it comes before.
LEMMA SortArranges ==
  ASSUME Arranged, SortRows
  PROVE  Arranged'
  <1>1. PICK p \in Orders :
          /\ RowsInOrder => \A i, j \in DOMAIN p : i < j =>
               RowLess(rows[p[i]], rows[p[j]]) \/ (Tied(rows[p[i]], rows[p[j]]) /\ p[i] < p[j])
          /\ rows' = [i \in DOMAIN rows |-> rows[p[i]]]
    BY DEF SortRows
  <1>2. DOMAIN rows' = DOMAIN rows /\ DOMAIN p = DOMAIN rows
        /\ \A i \in DOMAIN rows : p[i] \in DOMAIN rows /\ rows'[i] = rows[p[i]]
    BY <1>1 DEF Orders
  <1>3. AreRows(rows')
    BY <1>2 DEF Arranged, AreRows
  <1>4. ASSUME RowsInOrder', NEW i \in DOMAIN rows', NEW j \in DOMAIN rows', i < j
        PROVE  ~RowLess(rows'[j], rows'[i])
    <2>1. RowsInOrder
      BY <1>1, <1>4, SameRows
    <2>2. \/ RowLess(rows[p[i]], rows[p[j]])
          \/ Tied(rows[p[i]], rows[p[j]])
      BY <1>1, <1>2, <1>4, <2>1
    <2>3. RowLess(rows[p[i]], rows[p[j]]) => ~RowLess(rows[p[j]], rows[p[i]])
      <3> DEFINE R == {rows[m] : m \in DOMAIN rows}
      <3>1. rows[p[i]] \in R /\ rows[p[j]] \in R
        BY <1>2, <1>4
      <3>2. Orderly(R)
        BY <2>1 DEF RowsInOrder
      <3>3. \A r \in R : IsRow(r)
        BY DEF Arranged, AreRows
      <3> HIDE DEF R
      <3>4. QED
        BY <3>1, <3>2, <3>3, RowLessIsOrder
    <2>4. QED
      BY <1>2, <1>4, <2>2, <2>3 DEF Tied
  <1>5. QED
    BY <1>3, <1>4 DEF Arranged

\* No step disturbs the arrangement.
LEMMA StepArranges ==
  ASSUME Arranged, [Next]_vars
  PROVE  Arranged'
  <1>1. CASE LoadRow
    BY <1>1 DEF LoadRow, Arranged, RowsInOrder
  <1>2. CASE NextTable
    BY <1>2 DEF NextTable, Arranged, RowsInOrder
  <1>3. CASE BeginJoin
    BY <1>3 DEF BeginJoin, Arranged, RowsInOrder
  <1>4. CASE JoinRow
    <2>1. rows' = [rows EXCEPT ![at] = JoinSource(rows[at], src)] /\ at \in DOMAIN rows
          /\ phase' = phase /\ phase = "join"
      BY <1>4 DEF JoinRow
    <2>2. IsRow(JoinSource(rows[at], src))
      BY <2>1, JoinKeepsIdentity DEF Arranged, AreRows
    <2>3. AreRows(rows')
      BY <2>1, <2>2 DEF Arranged, AreRows
    <2>4. QED
      BY <2>1, <2>3 DEF Arranged
  <1>5. CASE AllRowsJoined
    BY <1>5 DEF AllRowsJoined, Arranged, RowsInOrder
  <1>6. CASE SortRows
    BY <1>6, SortArranges
  <1>7. CASE SortPanics
    BY <1>7 DEF SortPanics, Arranged, RowsInOrder
  <1>8. CASE Over
    BY <1>8 DEF Over, vars, Arranged, RowsInOrder
  <1>9. CASE UNCHANGED vars
    BY <1>9 DEF vars, Arranged, RowsInOrder
  <1>10. QED
    BY <1>1, <1>2, <1>3, <1>4, <1>5, <1>6, <1>7, <1>8, <1>9 DEF Next

\* What the source tasks leave is a sequence of rows.
LEMMA BatchIsArranged ==
  ASSUME Init
  PROVE  Arranged
  <1>1. PICK n \in Nat : DOMAIN Batch = 1..n /\ \A i \in 1..n : IsRow(Batch[i])
    BY AssetsAssumption DEF Init, Batch
  <1>2. AreRows(rows)
    BY <1>1 DEF Init, AreRows
  <1>3. QED
    BY <1>2 DEF Init, Arranged

\* An arrangement by the comparator keeps hosts together and numbers in order.
LEMMA ArrangedIsSorted ==
  ASSUME Arranged
  PROVE  SortedByHost
  <1> DEFINE R == {rows[i] : i \in DOMAIN rows}
  <1>1. SUFFICES ASSUME phase = "done", Orderly(R),
                        NEW i \in DOMAIN rows, NEW j \in DOMAIN rows, i < j
                 PROVE
      /\ rows[i].source <= rows[j].source
      /\ SameHost(rows[i], rows[j]) =>
           /\ \A m \in i..j : SameHost(rows[i], rows[m])
           /\ Numbered(CardNumber, rows[i].card_id, rows[j].card_id) =>
                CardNumber[rows[i].card_id] <= CardNumber[rows[j].card_id]
      /\ rows[i].source = rows[j].source /\ Numbered(IpNumber, rows[i].ip, rows[j].ip) =>
           IpNumber[rows[i].ip] <= IpNumber[rows[j].ip]
    BY DEF SortedByHost, RowsInOrder
  <1>2. \A a, b \in DOMAIN rows : a < b => ~RowLess(rows[b], rows[a])
    BY <1>1 DEF Arranged, RowsInOrder
  <1>3. PICK n \in Nat : DOMAIN rows = 1..n
    BY DEF Arranged, AreRows
  <1>4. \A r \in R : IsRow(r)
    BY DEF Arranged, AreRows
  <1>5. \A r \in R : r.source \in Nat /\ r.ip \in Nat /\ r.card_id \in Nat
    BY <1>4, TextsAreNumbered
  <1>6. \A r, s \in R : SameHost(r, s) => SameHost(s, r)
    BY <1>1, <1>4, HostsPartition
  <1>7. rows[i] \in R /\ rows[j] \in R /\ ~RowLess(rows[j], rows[i])
    BY <1>1, <1>2
  <1>8. rows[i].source <= rows[j].source
    BY <1>5, <1>7 DEF RowLess
  <1>9. ASSUME rows[i].source = rows[j].source, Numbered(IpNumber, rows[i].ip, rows[j].ip)
        PROVE  IpNumber[rows[i].ip] <= IpNumber[rows[j].ip]
    BY <1>7, <1>9, RowOrderAssumption DEF RowLess, Less, Numbered
  <1>10. ASSUME SameHost(rows[i], rows[j]),
                Numbered(CardNumber, rows[i].card_id, rows[j].card_id)
         PROVE  CardNumber[rows[i].card_id] <= CardNumber[rows[j].card_id]
    <2>1. SameHost(rows[j], rows[i])
      BY <1>6, <1>7, <1>10
    <2>2. QED
      BY <1>7, <1>10, <2>1, RowOrderAssumption DEF RowLess, Less, Numbered
  <1>11. ASSUME SameHost(rows[i], rows[j]), NEW m \in i..j
         PROVE  SameHost(rows[i], rows[m])
    <2>1. m \in DOMAIN rows /\ (m = i \/ i < m) /\ (m = j \/ m < j)
      BY <1>3, <1>1
    <2>2. rows[m] \in R
      BY <2>1
    <2>3. ~RowLess(rows[m], rows[i]) /\ ~RowLess(rows[j], rows[m])
      BY <2>1, <2>2, <1>1, <1>2, <1>4, <1>7, RowLessIsOrder
    <2>4. rows[m].source = rows[i].source /\ rows[j].source = rows[i].source
      BY <2>2, <2>3, <1>5, <1>7, <1>11 DEF RowLess, SameHost
    <2>5. ~Less(IpNumber, rows[m].ip, rows[i].ip) /\ ~Less(IpNumber, rows[j].ip, rows[m].ip)
      BY <2>3, <2>4 DEF RowLess
    <2>6. /\ rows[i].ip \in DOMAIN IpNumber <=> rows[m].ip \in DOMAIN IpNumber
          /\ rows[i].ip \in DOMAIN IpNumber <=> rows[j].ip \in DOMAIN IpNumber
      BY <1>1, <1>7, <2>2, <2>4 DEF Orderly
    <2>7. Same(IpNumber, rows[i].ip, rows[j].ip)
      BY <1>11 DEF SameHost
    <2>8. Same(IpNumber, rows[i].ip, rows[m].ip)
      BY <2>5, <2>6, <2>7, <1>5, <1>7, <2>2, RowOrderAssumption DEF Less, Same, Numbered
    <2>9. QED
      BY <2>4, <2>8 DEF SameHost
  <1>12. QED
    BY <1>8, <1>9, <1>10, <1>11

\* What the sort is for (src/src/scheduler/mod.rs:217), for every batch.
THEOREM RowsAreSorted == Spec => []SortedByHost
  <1>1. Init => Arranged
    BY BatchIsArranged
  <1>2. Arranged /\ [Next]_vars => Arranged'
    BY StepArranges
  <1>3. Arranged => SortedByHost
    BY ArrangedIsSorted
  <1>4. QED
    BY <1>1, <1>2, <1>3, PTL DEF Spec

-----------------------------------------------------------------------------
(***************************************************************************)
(* The assets of each row.  AssetsOfOwnKey speaks of the end; the          *)
(* invariant follows the two loops.  While a table is read its index holds *)
(* the first row of every key read so far.  While rows are joined, a row   *)
(* has the columns of the sources it has been joined with, and no other,   *)
(* beside its labels.  What a source and a row have is said of any input,  *)
(* since no step changes it.                                               *)
(***************************************************************************)
ColumnsOf(in, k) == {in.sources[k].columns[i] : i \in DOMAIN in.sources[k].columns}
NamesOf(in, k)   == {in.sources[k].columns[i].name : i \in DOMAIN in.sources[k].columns}

Key(table, i) == KeyOf(table[i].key)

Declared(table, names, i) ==
  [n \in DOMAIN table[i].values \cap names |-> table[i].values[n]]

\* The index of the rows R of a table.
IndexOf(index, table, names, R) ==
  /\ \A i \in R : Key(table, i) # Clean(0) => Key(table, i) \in DOMAIN index
  /\ \A key \in DOMAIN index :
       /\ key # Clean(0) /\ key \in Cell
       /\ \E i \in R : /\ Key(table, i) = key /\ \A j \in R : Key(table, j) = key => i <= j
                       /\ index[key] = Declared(table, names, i)

\* The rows of table k that have been read.
Read(k) ==
  IF phase # "load" \/ k < src THEN DOMAIN Tables[k]
  ELSE {i \in DOMAIN Tables[k] : k = src /\ i < at}

IndexInv ==
  /\ DOMAIN indices = DOMAIN Sources
  /\ \A k \in DOMAIN Sources : IndexOf(indices[k], Tables[k], NamesOf(input, k), Read(k))

\* The key of a row for source k, and the cell that belongs to a key.
KeyCell(in, row, k) ==
  LET n == in.sources[k].srcKey IN
  IF n \in Structural THEN Clean(row[n])
  ELSE IF n \in DOMAIN row.strings /\ \A j \in k..Len(in.sources) : n \notin NamesOf(in, j)
  THEN row.strings[n]
  ELSE NULL

CellFor(table, key, c) ==
  LET hits == {i \in DOMAIN table : Alike(table[i].key, key)}
      cells == table[Min(hits)].values
  IN IF hits # {} /\ c.name \in DOMAIN cells
       /\ (c.numeric => cells[c.name].dirt = "clean" /\ cells[c.name].text \in Floats)
     THEN cells[c.name] ELSE NULL

\* Row r is row b of the batch, joined with m sources.
RowInv(in, r, b, m) ==
  /\ IsRow(r) /\ \A f \in Structural : r[f] = b[f]
  /\ DOMAIN r.strings = DOMAIN b.strings \cup UNION {NamesOf(in, k) : k \in 1..m}
  /\ \A n \in DOMAIN b.strings : r.strings[n] = b.strings[n]
  /\ \A n \in DOMAIN r.strings : r.strings[n] \in Cell \cup {NULL}
  /\ \A k \in 1..m : \A c \in ColumnsOf(in, k) :
       r.strings[c.name] = CellFor(in.tables[k], KeyCell(in, r, k), c)

\* How many sources row i has been joined with.
Joined(i) ==
  IF phase = "load" THEN 0
  ELSE IF phase # "join" \/ i < at THEN Len(Sources)
  ELSE IF i = at THEN src - 1 ELSE 0

RowsInv ==
  /\ DOMAIN rows = DOMAIN Batch
  /\ phase # "done" => \A i \in DOMAIN rows : RowInv(input, rows[i], Batch[i], Joined(i))
  /\ phase = "done" =>
       /\ \A b \in DOMAIN Batch : \E i \in DOMAIN rows :
            RowInv(input, rows[i], Batch[b], Len(Sources))
       /\ \A i \in DOMAIN rows : \E b \in DOMAIN Batch :
            RowInv(input, rows[i], Batch[b], Len(Sources))

LoopInv ==
  /\ input \in Inputs
  /\ phase \in {"load", "join", "sort", "done", "dead"}
  /\ src \in 1..(Len(Sources) + 1) /\ at \in Nat \ {0}
  /\ phase = "join" => src \in DOMAIN Sources

AssetsInv == LoopInv /\ IndexInv /\ RowsInv

\* What the configuration and the files are like.
LEMMA InputFacts ==
  ASSUME NEW in \in Inputs
  PROVE  /\ Len(in.sources) \in Nat /\ DOMAIN in.sources = 1..Len(in.sources)
         /\ \A k, l \in DOMAIN in.sources : \A n \in NamesOf(in, k) :
              n \in NamesOf(in, l) => k = l
         /\ \A k \in DOMAIN in.sources : \A c, d \in ColumnsOf(in, k) : c.name = d.name => c = d
         /\ \A k \in DOMAIN in.sources : \A c \in ColumnsOf(in, k) : c.name \in NamesOf(in, k)
         /\ \A k \in DOMAIN in.sources : \A n \in NamesOf(in, k) :
              \E c \in ColumnsOf(in, k) : c.name = n
         /\ \A k \in DOMAIN in.sources : \A n \in NamesOf(in, k) : \A b \in DOMAIN in.batch :
              n \notin DOMAIN in.batch[b].strings
<1>1. Len(in.sources) \in Nat /\ DOMAIN in.sources = 1..Len(in.sources)
  BY InputsAssumption
<1>2. ASSUME NEW k \in DOMAIN in.sources, NEW i \in DOMAIN in.sources[k].columns,
             NEW l \in DOMAIN in.sources, NEW j \in DOMAIN in.sources[l].columns,
             in.sources[l].columns[j].name = in.sources[k].columns[i].name
      PROVE  l = k /\ j = i
  BY <1>2, InputsAssumption
<1>3. \A k, l \in DOMAIN in.sources : \A n \in NamesOf(in, k) : n \in NamesOf(in, l) => k = l
  BY <1>2 DEF NamesOf
<1>4. \A k \in DOMAIN in.sources : \A c, d \in ColumnsOf(in, k) : c.name = d.name => c = d
  BY <1>2 DEF ColumnsOf
<1>5. /\ \A k \in DOMAIN in.sources : \A c \in ColumnsOf(in, k) : c.name \in NamesOf(in, k)
      /\ \A k \in DOMAIN in.sources : \A n \in NamesOf(in, k) :
           \E c \in ColumnsOf(in, k) : c.name = n
  BY DEF ColumnsOf, NamesOf
<1>6. \A k \in DOMAIN in.sources : \A n \in NamesOf(in, k) : \A b \in DOMAIN in.batch :
        n \notin DOMAIN in.batch[b].strings
  BY InputsAssumption DEF NamesOf
<1>7. QED
  BY <1>1, <1>3, <1>4, <1>5, <1>6

\* What is in a table.
LEMMA TableFacts ==
  ASSUME NEW in \in Inputs, NEW k \in DOMAIN in.sources
  PROVE  /\ Len(in.tables[k]) \in Nat /\ DOMAIN in.tables[k] = 1..Len(in.tables[k])
         /\ \A i \in DOMAIN in.tables[k] :
              /\ in.tables[k][i].key \in Cell \cup {NULL}
              /\ \A n \in DOMAIN in.tables[k][i].values : in.tables[k][i].values[n] \in Cell
  BY InputsAssumption

\* What is in a row as it was collected.
LEMMA BatchFacts ==
  ASSUME NEW in \in Inputs, NEW b \in DOMAIN in.batch
  PROVE  /\ IsRow(in.batch[b])
         /\ \A n \in DOMAIN in.batch[b].strings : in.batch[b].strings[n] \in Cell \cup {NULL}
  BY InputsAssumption, AssetsAssumption

\* normalize_key, with the empty key for none, tells apart what a reader does.
LEMMA AlikeIsSameKey ==
  ASSUME NEW a \in Cell \cup {NULL}, NEW b \in Cell \cup {NULL}
  PROVE  /\ KeyOf(a) \in Cell
         /\ Alike(a, b) <=> KeyOf(a) = KeyOf(b) /\ KeyOf(a) # Clean(0)
<1>1. 0 \in Texts /\ NULL \notin Cell
  BY AssetsAssumption, InputsAssumption
<1>2. Clean(0) \in Cell
  BY <1>1 DEF Clean, Cell, Dirts
<1>3. ASSUME NEW c \in Cell
      PROVE  /\ KeyOf(c) = [text |-> c.text, dirt |-> IF Misplaced(c) THEN "bom" ELSE "clean"]
             /\ KeyOf(c) \in Cell
             /\ KeyOf(c) = Clean(0) <=> c.text = 0 /\ ~Misplaced(c)
  <2>1. c # NULL /\ c = [text |-> c.text, dirt |-> c.dirt] /\ c.text \in Texts
    BY <1>1 DEF Cell
  <2>2. KeyOf(c) = [text |-> c.text, dirt |-> IF Misplaced(c) THEN "bom" ELSE "clean"]
    BY <2>1 DEF KeyOf, NormalizeKey, Misplaced
  <2>3. KeyOf(c) \in Cell
    BY <2>1, <2>2 DEF Cell, Dirts
  <2>4. KeyOf(c) = Clean(0) <=> c.text = 0 /\ ~Misplaced(c)
    BY <2>2 DEF Clean
  <2>5. QED
    BY <2>2, <2>3, <2>4
<1>4. KeyOf(NULL) = Clean(0)
  BY DEF KeyOf
<1>5. KeyOf(a) \in Cell
  BY <1>2, <1>3, <1>4
<1>6. CASE a = NULL
  BY <1>4, <1>5, <1>6 DEF Alike
<1>7. CASE b = NULL
  BY <1>4, <1>5, <1>7 DEF Alike
<1>8. CASE a # NULL /\ b # NULL
  <2>1. a \in Cell /\ b \in Cell
    BY <1>8
  <2>2. KeyOf(a) = KeyOf(b) <=> a.text = b.text /\ (Misplaced(a) <=> Misplaced(b))
    BY <1>3, <2>1
  <2>3. KeyOf(a) = Clean(0) <=> a.text = 0 /\ ~Misplaced(a)
    BY <1>3, <2>1
  <2>4. QED
    BY <1>5, <1>8, <2>2, <2>3 DEF Alike
<1>9. QED
  BY <1>6, <1>7, <1>8

\* A row of the table is read: its key gets an entry, if it is one and has none yet.
LEMMA IndexGrows ==
  ASSUME NEW index, NEW table, NEW names, NEW R \in SUBSET Nat, NEW i \in Nat,
         IndexOf(index, table, names, R), \A j \in R : j < i, Key(table, i) \in Cell
  PROVE  IndexOf(IF Kept(index, Key(table, i))
                 THEN [k \in DOMAIN index \cup {Key(table, i)} |->
                         IF k = Key(table, i) THEN Declared(table, names, i) ELSE index[k]]
                 ELSE index, table, names, R \cup {i})
<1> DEFINE key == Key(table, i)
           more == [k \in DOMAIN index \cup {key} |->
                      IF k = key THEN Declared(table, names, i) ELSE index[k]]
<1>1. /\ \A j \in R : Key(table, j) # Clean(0) => Key(table, j) \in DOMAIN index
      /\ \A k \in DOMAIN index :
           /\ k # Clean(0) /\ k \in Cell
           /\ \E l \in R : /\ Key(table, l) = k /\ \A j \in R : Key(table, j) = k => l <= j
                           /\ index[k] = Declared(table, names, l)
  BY DEF IndexOf
<1>2. ASSUME NEW k \in DOMAIN index
      PROVE  /\ k # Clean(0) /\ k \in Cell
             /\ \E l \in R \cup {i} :
                  /\ Key(table, l) = k /\ \A j \in R \cup {i} : Key(table, j) = k => l <= j
                  /\ index[k] = Declared(table, names, l)
  <2>1. PICK l \in R : /\ Key(table, l) = k /\ \A j \in R : Key(table, j) = k => l <= j
                       /\ index[k] = Declared(table, names, l)
    BY <1>1
  <2>2. l <= i
    <3>1. l \in Nat /\ l < i
      OBVIOUS
    <3>2. QED
      BY <3>1
  <2>3. QED
    BY <1>1, <2>1, <2>2
<1>3. CASE ~Kept(index, key)
  <2>1. key = Clean(0) \/ key \in DOMAIN index
    BY <1>3 DEF Kept
  <2>2. \A j \in R \cup {i} : Key(table, j) # Clean(0) => Key(table, j) \in DOMAIN index
    BY <1>1, <2>1
  <2>3. IndexOf(index, table, names, R \cup {i})
    BY <1>2, <2>2 DEF IndexOf
  <2>4. QED
    BY <1>3, <2>3
<1>4. CASE Kept(index, key)
  <2>1. key # Clean(0) /\ key \notin DOMAIN index /\ key \in Cell
    BY <1>4 DEF Kept
  <2>2. DOMAIN more = DOMAIN index \cup {key} /\ more[key] = Declared(table, names, i)
        /\ \A k \in DOMAIN index : more[k] = index[k]
    BY <2>1
  <2>3. \A j \in R \cup {i} : Key(table, j) # Clean(0) => Key(table, j) \in DOMAIN more
    BY <1>1, <2>2
  <2>4. \A j \in R \cup {i} : Key(table, j) = key => i <= j
    <3>1. \A j \in R : Key(table, j) # key
      BY <1>1, <2>1
    <3>2. QED
      BY <3>1
  <2> HIDE DEF key, more
  <2>5. ASSUME NEW k \in DOMAIN more
        PROVE  /\ k # Clean(0) /\ k \in Cell
               /\ \E l \in R \cup {i} :
                    /\ Key(table, l) = k /\ \A j \in R \cup {i} : Key(table, j) = k => l <= j
                    /\ more[k] = Declared(table, names, l)
    <3>1. CASE k = key
      BY <2>1, <2>2, <2>4, <3>1 DEF key
    <3>2. CASE k # key
      <4>1. k \in DOMAIN index /\ more[k] = index[k]
        BY <2>2, <3>2
      <4>2. QED
        BY <1>2, <4>1
    <3>3. QED
      BY <3>1, <3>2
  <2>6. IndexOf(more, table, names, R \cup {i})
    BY <2>3, <2>5 DEF IndexOf
  <2>7. QED
    BY <1>4, <2>6 DEF key, more
<1>5. QED
  BY <1>3, <1>4

\* What the index of a whole table gives for a key is what belongs to it: the first row
\* with such a key, whatever was around either.
LEMMA IndexFinds ==
  ASSUME NEW in \in Inputs, NEW k \in DOMAIN in.sources, NEW index,
         IndexOf(index, in.tables[k], NamesOf(in, k), DOMAIN in.tables[k]),
         NEW o \in Cell \cup {NULL}, NEW c \in ColumnsOf(in, k)
  PROVE  /\ JoinedValue(index, KeyOf(o), c) = CellFor(in.tables[k], o, c)
         /\ CellFor(in.tables[k], o, c) \in Cell \cup {NULL}
<1> DEFINE table == in.tables[k]
           hits  == {i \in DOMAIN table : Alike(table[i].key, o)}
           key   == KeyOf(o)
<1>1. DOMAIN table \subseteq Nat
      /\ \A i \in DOMAIN table : /\ table[i].key \in Cell \cup {NULL}
                                 /\ \A n \in DOMAIN table[i].values : table[i].values[n] \in Cell
  <2>1. Len(table) \in Nat /\ DOMAIN table = 1..Len(table)
    BY TableFacts
  <2>2. DOMAIN table \subseteq Nat
    BY <2>1
  <2>3. QED
    BY <2>2, TableFacts
<1>2. \A i \in DOMAIN table : i \in hits <=> Key(table, i) = key /\ key # Clean(0)
  BY <1>1, AlikeIsSameKey DEF Key
<1>3. c.name \in NamesOf(in, k)
  BY InputFacts
<1>4. CASE key \notin DOMAIN index
  <2>1. hits = {}
    BY <1>2, <1>4 DEF IndexOf
  <2>2. CellFor(table, o, c) = NULL
    BY <2>1 DEF CellFor
  <2>3. QED
    BY <1>4, <2>2 DEF JoinedValue
<1>5. CASE key \in DOMAIN index
  <2>1. PICK i \in DOMAIN table :
          /\ Key(table, i) = key /\ \A j \in DOMAIN table : Key(table, j) = key => i <= j
          /\ index[key] = Declared(table, NamesOf(in, k), i)
    BY <1>5 DEF IndexOf
  <2>2. key # Clean(0)
    BY <1>5 DEF IndexOf
  <2>3. i \in hits /\ \A j \in hits : i <= j
    BY <1>2, <2>1, <2>2
  <2>4. Min(hits) = i
    <3>1. hits \subseteq Nat
      BY <1>1
    <3> HIDE DEF hits
    <3>2. \A x \in hits : (\A y \in hits : x <= y) => x = i
      BY <2>3, <3>1
    <3>3. QED
      BY <2>3, <3>2 DEF Min
  <2> DEFINE cells == table[i].values
  <2>5. CellFor(table, o, c) =
          IF c.name \in DOMAIN cells
             /\ (c.numeric => cells[c.name].dirt = "clean" /\ cells[c.name].text \in Floats)
          THEN cells[c.name] ELSE NULL
    <3>1. hits # {}
      BY <2>3
    <3>2. QED
      BY <2>4, <3>1 DEF CellFor
  <2>6. /\ c.name \in DOMAIN index[key] <=> c.name \in DOMAIN cells
        /\ c.name \in DOMAIN cells => index[key][c.name] = cells[c.name]
    BY <1>3, <2>1 DEF Declared
  <2>7. JoinedValue(index, key, c) = CellFor(table, o, c)
    BY <1>5, <2>5, <2>6 DEF JoinedValue, Parses
  <2>8. c.name \in DOMAIN cells => cells[c.name] \in Cell
    BY <1>1
  <2>9. QED
    BY <2>5, <2>7, <2>8
<1>6. QED
  BY <1>4, <1>5

\* Joining a row with source k fills the columns of k with what belongs to the row's key,
\* and leaves labels, the columns of earlier sources and their keys as they are.
LEMMA JoinFills ==
  ASSUME input \in Inputs, NEW k \in DOMAIN Sources, NEW b \in DOMAIN Batch, NEW r,
         IndexOf(indices[k], Tables[k], NamesOf(input, k), DOMAIN Tables[k]),
         RowInv(input, r, Batch[b], k - 1)
  PROVE  RowInv(input, JoinSource(r, k), Batch[b], k)
<1> DEFINE in    == input
           names == NamesOf(in, k)
           key   == KeyOf(ResolveRowKey(r, Sources[k].srcKey))
           ColumnOf(n) == CHOOSE c \in ColumnsOf(in, k) : c.name = n
           S == [n \in DOMAIN r.strings \cup names |->
                   IF n \in names THEN JoinedValue(indices[k], key, ColumnOf(n))
                   ELSE r.strings[n]]
           q == JoinSource(r, k)
<1>1. /\ Sources = in.sources /\ Tables = in.tables /\ Batch = in.batch
      /\ ColumnNames(k) = names
  BY DEF Sources, Tables, Batch, ColumnNames, NamesOf
<1>2. k \in Nat /\ Len(in.sources) \in Nat /\ DOMAIN in.sources = 1..Len(in.sources)
      /\ 1..k = 1..(k - 1) \cup {k} /\ \A l \in 1..k : l \in DOMAIN in.sources
  BY <1>1, InputFacts
<1>3. q = [r EXCEPT !.strings = S]
  BY <1>1 DEF JoinSource, ColumnsOf
<1>4. /\ DOMAIN r = Structural \cup {"strings"} /\ \A f \in Structural : r[f] = Batch[b][f]
      /\ \A f \in Structural : r[f] \in Texts
      /\ DOMAIN r.strings = DOMAIN Batch[b].strings \cup UNION {NamesOf(in, l) : l \in 1..(k - 1)}
      /\ \A n \in DOMAIN Batch[b].strings : r.strings[n] = Batch[b].strings[n]
      /\ \A n \in DOMAIN r.strings : r.strings[n] \in Cell \cup {NULL}
  BY DEF RowInv, IsRow
<1>5. \A l \in 1..(k - 1) : \A c \in ColumnsOf(in, l) :
        r.strings[c.name] = CellFor(in.tables[l], KeyCell(in, r, l), c)
  BY DEF RowInv
<1> HIDE DEF S, q
<1>6. q.strings = S /\ DOMAIN q = DOMAIN r /\ \A f \in Structural : q[f] = r[f]
  BY <1>3, <1>4 DEF Structural
<1>7. IsRow(q) /\ \A f \in Structural : q[f] = Batch[b][f]
  BY <1>4, <1>6 DEF IsRow
<1>8. /\ DOMAIN S = DOMAIN r.strings \cup names
      /\ \A n \in names : S[n] = JoinedValue(indices[k], key, ColumnOf(n))
      /\ \A n \in DOMAIN r.strings \ names : S[n] = r.strings[n]
  BY DEF S
<1>9. \A l \in 1..k : \A n \in NamesOf(in, l) : \A j \in l..Len(in.sources) :
        n \in NamesOf(in, j) => j = l
  BY <1>2, InputFacts
<1>10. \A n \in DOMAIN r.strings : \A j \in k..Len(in.sources) : n \notin NamesOf(in, j)
  <2> SUFFICES ASSUME NEW n \in DOMAIN r.strings, NEW j \in k..Len(in.sources),
                      n \in NamesOf(in, j)
               PROVE  FALSE
    OBVIOUS
  <2>1. j \in DOMAIN in.sources
    BY <1>2
  <2>2. n \notin DOMAIN Batch[b].strings
    BY <1>1, <2>1, InputFacts
  <2>3. PICK l \in 1..(k - 1) : n \in NamesOf(in, l)
    BY <1>4, <2>2
  <2>4. l \in DOMAIN in.sources /\ l # j
    BY <1>2, <2>3
  <2>5. QED
    BY <2>1, <2>3, <2>4, InputFacts
<1>11. k \in k..Len(in.sources) /\ \A n \in DOMAIN r.strings : n \notin names
  <2>1. k \in k..Len(in.sources)
    BY <1>1, <1>2
  <2>2. QED
    BY <1>10, <2>1
\* The key it is joined by is its own.
<1>12. KeyCell(in, r, k) = ResolveRowKey(r, Sources[k].srcKey)
  BY <1>1, <1>10 DEF KeyCell, ResolveRowKey
<1>13. KeyCell(in, r, k) \in Cell \cup {NULL}
  <2> DEFINE n == in.sources[k].srcKey
  <2>1. CASE n \in Structural
    BY <1>4, <2>1 DEF KeyCell, Clean, Cell, Dirts
  <2>2. CASE n \notin Structural
    BY <1>4, <2>2 DEF KeyCell
  <2>3. QED
    BY <2>1, <2>2
<1>14. ASSUME NEW c \in ColumnsOf(in, k)
       PROVE  /\ c.name \in names /\ S[c.name] = CellFor(in.tables[k], KeyCell(in, r, k), c)
              /\ S[c.name] \in Cell \cup {NULL}
  <2>1. c.name \in names /\ ColumnOf(c.name) = c
    <3>1. c.name \in names /\ \A d \in ColumnsOf(in, k) : d.name = c.name => d = c
      BY <1>1, InputFacts
    <3>2. QED
      BY <3>1
  <2>2. /\ JoinedValue(indices[k], key, c) = CellFor(in.tables[k], KeyCell(in, r, k), c)
        /\ CellFor(in.tables[k], KeyCell(in, r, k), c) \in Cell \cup {NULL}
    BY <1>1, <1>12, <1>13, IndexFinds
  <2>3. QED
    BY <1>8, <2>1, <2>2
\* And so are the keys it was and is joined by, still.
<1>15. ASSUME NEW l \in 1..k
       PROVE  KeyCell(in, q, l) = KeyCell(in, r, l)
  <2> DEFINE n == in.sources[l].srcKey
  <2>1. CASE n \in Structural
    BY <1>6, <2>1 DEF KeyCell
  <2>2. CASE n \notin Structural /\ \E j \in l..Len(in.sources) : n \in NamesOf(in, j)
    BY <2>2 DEF KeyCell
  <2>3. CASE n \notin Structural /\ \A j \in l..Len(in.sources) : n \notin NamesOf(in, j)
    <3>1. k \in l..Len(in.sources)
      BY <1>1, <1>2
    <3>2. n \notin names
      BY <2>3, <3>1
    <3>3. /\ n \in DOMAIN q.strings <=> n \in DOMAIN r.strings
          /\ n \in DOMAIN r.strings => q.strings[n] = r.strings[n]
      BY <1>6, <1>8, <3>2
    <3>4. QED
      BY <2>3, <3>3 DEF KeyCell
  <2>4. QED
    BY <2>1, <2>2, <2>3
<1>16. DOMAIN q.strings = DOMAIN Batch[b].strings \cup UNION {NamesOf(in, l) : l \in 1..k}
  <2>1. \A n : n \in UNION {NamesOf(in, l) : l \in 1..k} <=>
               n \in UNION {NamesOf(in, l) : l \in 1..(k - 1)} \/ n \in names
    <3>1. 1..k = 1..(k - 1) \cup {k}
      BY <1>2
    <3> HIDE DEF in
    <3>2. QED
      BY <3>1, Zenon
  <2>2. q.strings = S /\ DOMAIN S = DOMAIN r.strings \cup names
    BY <1>6, <1>8
  <2>3. DOMAIN r.strings =
          DOMAIN Batch[b].strings \cup UNION {NamesOf(in, l) : l \in 1..(k - 1)}
    BY <1>4
  <2> HIDE DEF names
  <2>4. QED
    BY <2>1, <2>2, <2>3, Zenon
<1>17. \A n \in DOMAIN Batch[b].strings : q.strings[n] = Batch[b].strings[n]
  <2>1. \A n \in DOMAIN Batch[b].strings : n \in DOMAIN r.strings
    BY <1>4
  <2>2. QED
    BY <1>4, <1>6, <1>8, <1>11, <2>1
<1>18. \A n \in DOMAIN q.strings : q.strings[n] \in Cell \cup {NULL}
  <2> SUFFICES ASSUME NEW n \in DOMAIN q.strings PROVE q.strings[n] \in Cell \cup {NULL}
    OBVIOUS
  <2>1. CASE n \in names
    <3>1. PICK c \in ColumnsOf(in, k) : c.name = n
      BY <1>1, <2>1, InputFacts
    <3>2. QED
      BY <1>6, <1>14, <3>1
  <2>2. CASE n \notin names
    BY <1>4, <1>6, <1>8, <2>2
  <2>3. QED
    BY <2>1, <2>2
<1>19. ASSUME NEW l \in 1..k, NEW c \in ColumnsOf(in, l)
       PROVE  q.strings[c.name] = CellFor(in.tables[l], KeyCell(in, q, l), c)
  <2>1. CASE l = k
    BY <1>6, <1>14, <1>15, <2>1
  <2>2. CASE l # k
    <3>1. l \in 1..(k - 1) /\ l \in DOMAIN in.sources
      BY <1>2, <2>2
    <3>2. c.name \in NamesOf(in, l)
      BY <3>1, InputFacts
    <3>3. c.name \in DOMAIN r.strings /\ c.name \notin names
      BY <1>4, <1>11, <3>1, <3>2
    <3>4. q.strings[c.name] = r.strings[c.name]
      BY <1>6, <1>8, <3>3
    <3>5. QED
      BY <1>5, <1>15, <3>1, <3>4
  <2>3. QED
    BY <2>1, <2>2
<1>20. QED
  BY <1>7, <1>16, <1>17, <1>18, <1>19 DEF RowInv, q

\* At the start nothing is read and nothing joined.
LEMMA AssetsInitially ==
  ASSUME Init
  PROVE  AssetsInv
<1>1. input \in Inputs /\ phase = "load" /\ src = 1 /\ at = 1 /\ rows = Batch
  BY DEF Init
<1>2. DOMAIN Sources = 1..Len(Sources) /\ Len(Sources) \in Nat
  BY <1>1, InputFacts DEF Sources
<1>3. LoopInv
  BY <1>1, <1>2 DEF LoopInv
<1>4. IndexInv
  <2>1. indices = [k \in DOMAIN Sources |-> <<>>] /\ DOMAIN <<>> = {}
    BY DEF Init
  <2>2. ASSUME NEW k \in DOMAIN Sources
        PROVE  Read(k) = {}
    <3>1. Len(Tables[k]) \in Nat /\ DOMAIN Tables[k] = 1..Len(Tables[k])
      BY <1>1, TableFacts DEF Sources, Tables
    <3>2. ~(k < src) /\ \A i \in DOMAIN Tables[k] : ~(i < at)
      BY <1>1, <1>2, <3>1
    <3>3. QED
      BY <1>1, <3>2 DEF Read
  <2>3. QED
    BY <2>1, <2>2 DEF IndexInv, IndexOf
<1>5. RowsInv
  <2>1. ASSUME NEW b \in DOMAIN Batch
        PROVE  RowInv(input, Batch[b], Batch[b], 0)
    <3>1. /\ IsRow(Batch[b])
          /\ \A n \in DOMAIN Batch[b].strings : Batch[b].strings[n] \in Cell \cup {NULL}
      BY <1>1, BatchFacts DEF Batch
    <3>2. 1..0 = {}
      OBVIOUS
    <3>3. QED
      BY <3>1, <3>2 DEF RowInv
  <2>2. \A i : Joined(i) = 0
    BY <1>1 DEF Joined
  <2>3. QED
    BY <1>1, <2>1, <2>2 DEF RowsInv
<1>6. QED
  BY <1>3, <1>4, <1>5 DEF AssetsInv

\* A row of a table is read.
LEMMA AssetsLoadRow ==
  ASSUME AssetsInv, LoadRow
  PROVE  AssetsInv'
<1> DEFINE table == Tables[src]
           names == NamesOf(input, src)
           key   == Key(table, at)
           grown == IF Kept(indices[src], key)
                    THEN [k \in DOMAIN indices[src] \cup {key} |->
                            IF k = key THEN Declared(table, names, at) ELSE indices[src][k]]
                    ELSE indices[src]
<1>1. /\ phase = "load" /\ src \in DOMAIN Sources /\ at \in DOMAIN table
      /\ at' = at + 1 /\ UNCHANGED <<input, phase, src, rows>>
  BY DEF LoadRow
<1>2. input \in Inputs /\ at \in Nat /\ DOMAIN indices = DOMAIN Sources
      /\ DOMAIN Sources = 1..Len(Sources) /\ DOMAIN Batch = DOMAIN rows
  BY InputFacts DEF AssetsInv, LoopInv, IndexInv, RowsInv, Sources
<1>3. /\ DOMAIN indices' = DOMAIN indices
      /\ \A k \in DOMAIN indices : indices'[k] = IF k = src THEN grown ELSE indices[k]
  <2>1. ColumnNames(src) = names
    BY DEF ColumnNames, NamesOf, Sources
  <2>2. CASE Kept(indices[src], key)
    <3>1. indices' = [indices EXCEPT ![src] = grown]
      BY <2>1, <2>2 DEF LoadRow, Key, Declared
    <3> HIDE DEF grown
    <3>2. QED
      BY <3>1
  <2>3. CASE ~Kept(indices[src], key)
    <3>1. indices' = indices
      BY <2>3 DEF LoadRow, Key
    <3>2. QED
      BY <2>3, <3>1
  <2>4. QED
    BY <2>2, <2>3
<1> HIDE DEF grown
<1>4. Sources' = Sources /\ Tables' = Tables /\ Batch' = Batch
  BY <1>1 DEF Sources, Tables, Batch
<1>5. LoopInv'
  BY <1>1, <1>2, <1>4 DEF AssetsInv, LoopInv
<1>6. \A k \in DOMAIN Sources : DOMAIN Tables[k] \subseteq Nat
  <2>1. \A k \in DOMAIN Sources :
          Len(Tables[k]) \in Nat /\ DOMAIN Tables[k] = 1..Len(Tables[k])
    BY <1>2, TableFacts DEF Sources, Tables
  <2>2. QED
    BY <2>1
<1>7. ASSUME NEW k \in DOMAIN Sources
      PROVE  IndexOf(indices[k]', Tables[k], NamesOf(input, k), Read(k)')
  <2>1. IndexOf(indices[k], Tables[k], NamesOf(input, k), Read(k))
    BY DEF AssetsInv, IndexInv
  <2>2. CASE k # src
    <3>1. indices[k]' = indices[k]
      BY <1>2, <1>3, <2>2
    <3>2. Read(k)' = Read(k)
      BY <1>1, <1>4, <2>2 DEF Read
    <3>3. QED
      BY <2>1, <3>1, <3>2
  <2>3. CASE k = src
    <3>1. src \in Nat /\ ~(src < src)
      BY <1>1, <1>2
    <3>2. Read(src) = {i \in DOMAIN table : i < at}
      BY <1>1, <3>1 DEF Read
    <3>3. Read(k)' = {i \in DOMAIN table : i < at + 1}
      BY <1>1, <1>4, <2>3, <3>1 DEF Read
    <3>4. DOMAIN table \subseteq Nat
      BY <1>1, <1>6
    <3>5. Read(k)' = Read(src) \cup {at}
      BY <1>1, <1>2, <3>2, <3>3, <3>4
    <3>6. Read(src) \in SUBSET Nat /\ \A j \in Read(src) : j < at
      BY <3>2, <3>4
    <3>7. key \in Cell
      <4>1. table[at].key \in Cell \cup {NULL}
        BY <1>1, <1>2, TableFacts DEF Sources, Tables
      <4>2. QED
        BY <4>1, AlikeIsSameKey DEF Key
    <3>8. IndexOf(grown, table, names, Read(src) \cup {at})
      BY <1>2, <2>1, <2>3, <3>6, <3>7, IndexGrows DEF grown
    <3>9. indices[k]' = grown
      BY <1>1, <1>2, <1>3, <2>3
    <3>10. QED
      BY <2>3, <3>5, <3>8, <3>9
  <2>4. QED
    BY <2>2, <2>3
<1>8. IndexInv'
  <2>1. DOMAIN indices' = DOMAIN Sources
    BY <1>2, <1>3
  <2>2. QED
    BY <1>1, <1>4, <1>7, <2>1 DEF IndexInv
<1>9. RowsInv'
  BY <1>1, <1>4 DEF AssetsInv, RowsInv, Joined
<1>10. QED
  BY <1>5, <1>8, <1>9 DEF AssetsInv

\* A table is read to its end.
LEMMA AssetsNextTable ==
  ASSUME AssetsInv, NextTable
  PROVE  AssetsInv'
<1>1. /\ phase = "load" /\ src \in DOMAIN Sources /\ at \notin DOMAIN Tables[src]
      /\ src' = src + 1 /\ at' = 1 /\ UNCHANGED <<input, phase, indices, rows>>
  BY DEF NextTable
<1>2. /\ input \in Inputs /\ at \in Nat \ {0} /\ Len(Sources) \in Nat
      /\ DOMAIN Sources = 1..Len(Sources)
  BY InputFacts DEF AssetsInv, LoopInv, Sources
<1>3. Sources' = Sources /\ Tables' = Tables /\ Batch' = Batch
  BY <1>1 DEF Sources, Tables, Batch
<1>4. LoopInv'
  BY <1>1, <1>2, <1>3 DEF AssetsInv, LoopInv
<1>5. ASSUME NEW k \in DOMAIN Sources
      PROVE  IndexOf(indices[k], Tables[k], NamesOf(input, k), Read(k)')
  <2>1. IndexOf(indices[k], Tables[k], NamesOf(input, k), Read(k))
    BY DEF AssetsInv, IndexInv
  <2>2. k \in Nat /\ src \in Nat
    BY <1>1, <1>2
  <2>3. Len(Tables[k]) \in Nat /\ DOMAIN Tables[k] = 1..Len(Tables[k])
    BY <1>2, TableFacts DEF Sources, Tables
  <2>4. CASE k < src
    <3>1. Read(k) = DOMAIN Tables[k]
      BY <2>4 DEF Read
    <3>2. Read(k)' = DOMAIN Tables[k]
      BY <1>1, <1>3, <2>2, <2>4 DEF Read
    <3>3. QED
      BY <2>1, <3>1, <3>2
  <2>5. CASE k = src
    <3>1. Read(k)' = DOMAIN Tables[k]
      BY <1>1, <1>3, <2>2, <2>5 DEF Read
    <3>2. \A i \in DOMAIN Tables[k] : i < at
      <4>1. at \notin 1..Len(Tables[k]) /\ at \in Nat \ {0}
        BY <1>1, <1>2, <2>3, <2>5
      <4>2. QED
        BY <2>3, <4>1
    <3>3. Read(k) = DOMAIN Tables[k]
      BY <1>1, <2>2, <2>5, <3>2 DEF Read
    <3>4. QED
      BY <2>1, <3>1, <3>3
  <2>7. CASE src < k
    <3>1. Read(k) = {}
      BY <1>1, <2>2, <2>7 DEF Read
    <3>2. \A i \in DOMAIN Tables[k] : ~(i < 1)
      BY <2>3
    <3>3. ~(k < src + 1)
      BY <2>2, <2>7
    <3>4. Read(k)' = {}
      BY <1>1, <1>3, <3>2, <3>3 DEF Read
    <3>5. QED
      BY <2>1, <3>1, <3>4
  <2>8. QED
    BY <2>2, <2>4, <2>5, <2>7
<1>6. IndexInv'
  BY <1>1, <1>3, <1>5 DEF AssetsInv, IndexInv
<1>7. RowsInv'
  BY <1>1, <1>3 DEF AssetsInv, RowsInv, Joined
<1>8. QED
  BY <1>4, <1>6, <1>7 DEF AssetsInv

\* The tables are read, and a round begins to be joined.
LEMMA AssetsBeginJoin ==
  ASSUME AssetsInv, BeginJoin
  PROVE  AssetsInv'
<1>1. /\ phase = "load" /\ src \notin DOMAIN Sources
      /\ phase' = IF Sources = <<>> THEN "sort" ELSE "join"
      /\ src' = 1 /\ at' = 1 /\ UNCHANGED <<input, indices, rows>>
  BY DEF BeginJoin
<1>2. /\ input \in Inputs /\ Len(Sources) \in Nat /\ DOMAIN Sources = 1..Len(Sources)
      /\ src \in Nat \ {0}
  BY InputFacts DEF AssetsInv, LoopInv, Sources
<1>3. Sources' = Sources /\ Tables' = Tables /\ Batch' = Batch
  BY <1>1 DEF Sources, Tables, Batch
<1>4. Len(Sources) # 0 \/ Sources = <<>>
  BY <1>2, InputsAssumption DEF Sources
<1>5. LoopInv'
  BY <1>1, <1>2, <1>3, <1>4 DEF AssetsInv, LoopInv
<1>6. IndexInv'
  <2>1. ASSUME NEW k \in DOMAIN Sources
        PROVE  Read(k)' = Read(k)
    <3>1. k < src
      BY <1>1, <1>2
    <3>2. Read(k) = DOMAIN Tables[k]
      BY <3>1 DEF Read
    <3>3. Read(k)' = DOMAIN Tables[k]
      BY <1>1, <1>3 DEF Read
    <3>4. QED
      BY <3>2, <3>3
  <2>2. QED
    BY <1>1, <1>3, <2>1 DEF AssetsInv, IndexInv
<1>7. RowsInv'
  <2>1. phase' \in {"sort", "join"} /\ (phase' = "sort" => Len(Sources) = 0)
    BY <1>1, <1>4
  <2>2. ASSUME NEW i \in DOMAIN rows
        PROVE  Joined(i) = 0 /\ Joined(i)' = 0
    <3>1. i \in Nat \ {0}
      <4>1. /\ DOMAIN rows = DOMAIN Batch /\ DOMAIN Batch = 1..Len(Batch)
            /\ Len(Batch) \in Nat
        BY <1>2, InputFacts, AssetsAssumption DEF AssetsInv, RowsInv, Batch
      <4>2. QED
        BY <4>1
    <3>2. Joined(i) = 0
      BY <1>1 DEF Joined
    <3>3. CASE phase' = "sort"
      <4>1. Len(Sources)' = 0
        BY <1>3, <2>1, <3>3
      <4>2. phase' # "load" /\ phase' # "join"
        BY <3>3
      <4>3. Joined(i)' = 0
        BY <4>1, <4>2 DEF Joined
      <4>4. QED
        BY <3>2, <4>3
    <3>4. CASE phase' = "join"
      <4>1. ~(i < 1) /\ 1 - 1 = 0
        BY <3>1
      <4>2. src' = 1 /\ at' = 1
        BY <1>1
      <4>3. Joined(i)' = 0
        BY <3>4, <4>1, <4>2 DEF Joined
      <4>4. QED
        BY <3>2, <4>3
    <3>5. QED
      BY <2>1, <3>2, <3>3, <3>4
  <2>3. QED
    BY <1>1, <1>3, <2>1, <2>2 DEF AssetsInv, RowsInv
<1>8. QED
  BY <1>5, <1>6, <1>7 DEF AssetsInv

\* A row is joined with a source.
LEMMA AssetsJoinRow ==
  ASSUME AssetsInv, JoinRow
  PROVE  AssetsInv'
<1>1. /\ phase = "join" /\ at \in DOMAIN rows
      /\ rows' = [rows EXCEPT ![at] = JoinSource(rows[at], src)]
      /\ UNCHANGED <<input, phase, indices>>
  BY DEF JoinRow
<1>2. \/ src < Len(Sources) /\ src' = src + 1 /\ at' = at
      \/ ~(src < Len(Sources)) /\ src' = 1 /\ at' = at + 1
  BY DEF JoinRow
<1>3. /\ input \in Inputs /\ src \in DOMAIN Sources /\ DOMAIN Sources = 1..Len(Sources)
      /\ Len(Sources) \in Nat /\ at \in Nat \ {0} /\ DOMAIN rows = DOMAIN Batch
      /\ DOMAIN Batch = 1..Len(Batch) /\ Len(Batch) \in Nat
  BY <1>1, InputFacts, AssetsAssumption DEF AssetsInv, LoopInv, RowsInv, Sources, Batch
<1>4. Sources' = Sources /\ Tables' = Tables /\ Batch' = Batch
  BY <1>1 DEF Sources, Tables, Batch
<1>5. LoopInv'
  BY <1>1, <1>2, <1>3, <1>4 DEF AssetsInv, LoopInv
<1>6. IndexInv'
  <2>1. \A k : Read(k)' = Read(k)
    BY <1>1, <1>4 DEF Read
  <2>2. QED
    BY <1>1, <1>4, <2>1 DEF AssetsInv, IndexInv
<1>7. RowInv(input, JoinSource(rows[at], src), Batch[at], src)
  <2>1. Joined(at) = src - 1
    BY <1>1, <1>3 DEF Joined
  <2>2. RowInv(input, rows[at], Batch[at], src - 1)
    BY <1>1, <2>1 DEF AssetsInv, RowsInv
  <2>3. Read(src) = DOMAIN Tables[src]
    BY <1>1 DEF Read
  <2>4. IndexOf(indices[src], Tables[src], NamesOf(input, src), DOMAIN Tables[src])
    BY <1>3, <2>3 DEF AssetsInv, IndexInv
  <2>5. QED
    BY <1>1, <1>3, <2>2, <2>4, JoinFills
<1>8. ASSUME NEW i \in DOMAIN rows
      PROVE  RowInv(input, rows'[i], Batch[i], Joined(i)')
  <2>1. i \in Nat
    BY <1>3
  <2>2. CASE i = at
    <3>1. rows'[i] = JoinSource(rows[at], src)
      BY <1>1, <2>2
    <3>2. Joined(i)' = src
      BY <1>1, <1>2, <1>3, <1>4, <2>2 DEF Joined
    <3>3. QED
      BY <1>7, <2>2, <3>1, <3>2
  <2>3. CASE i # at
    <3>1. rows'[i] = rows[i]
      BY <1>1, <2>3
    <3>2. Joined(i)' = Joined(i)
      BY <1>1, <1>2, <1>3, <1>4, <2>1, <2>3 DEF Joined
    <3>3. QED
      BY <1>1, <3>1, <3>2 DEF AssetsInv, RowsInv
  <2>4. QED
    BY <2>2, <2>3
<1>9. RowsInv'
  BY <1>1, <1>3, <1>4, <1>8 DEF RowsInv
<1>10. QED
  BY <1>5, <1>6, <1>9 DEF AssetsInv

\* The rows are put in another order, and each stays what it is.
LEMMA AssetsSortRows ==
  ASSUME AssetsInv, SortRows
  PROVE  AssetsInv'
<1>1. PICK p \in Orders : rows' = [i \in DOMAIN rows |-> rows[p[i]]]
  BY DEF SortRows
<1>2. phase = "sort" /\ phase' = "done" /\ UNCHANGED <<input, src, at, indices>>
  BY DEF SortRows
<1>3. Sources' = Sources /\ Tables' = Tables /\ Batch' = Batch
  BY <1>2 DEF Sources, Tables, Batch
<1>4. LoopInv'
  BY <1>2, <1>3 DEF AssetsInv, LoopInv
<1>5. IndexInv'
  <2>1. \A k : Read(k)' = Read(k)
    BY <1>2, <1>3 DEF Read
  <2>2. QED
    BY <1>2, <1>3, <2>1 DEF AssetsInv, IndexInv
<1>6. /\ DOMAIN rows' = DOMAIN rows /\ DOMAIN rows = DOMAIN Batch
      /\ \A i \in DOMAIN rows : p[i] \in DOMAIN rows /\ rows'[i] = rows[p[i]]
      /\ \A b \in DOMAIN rows : \E i \in DOMAIN rows : p[i] = b
  BY <1>1 DEF Orders, AssetsInv, RowsInv
<1>7. \A i \in DOMAIN rows : RowInv(input, rows[i], Batch[i], Len(Sources))
  BY <1>2 DEF AssetsInv, RowsInv, Joined
<1>8. \A i \in DOMAIN rows : RowInv(input, rows'[i], Batch[p[i]], Len(Sources))
  BY <1>6, <1>7
<1>9. RowsInv'
  BY <1>2, <1>3, <1>6, <1>8 DEF RowsInv
<1>10. QED
  BY <1>4, <1>5, <1>9 DEF AssetsInv

\* Every step keeps what the rows and indices hold.
LEMMA AssetsStep ==
  ASSUME AssetsInv, [Next]_vars
  PROVE  AssetsInv'
<1>1. ASSUME UNCHANGED <<input, src, at, indices, rows>>,
             \/ phase' = phase
             \/ phase = "join" /\ at \notin DOMAIN rows /\ phase' = "sort"
             \/ phase = "sort" /\ phase' = "dead"
      PROVE  AssetsInv'
  <2>1. Sources' = Sources /\ Tables' = Tables /\ Batch' = Batch
    BY <1>1 DEF Sources, Tables, Batch
  <2>2. LoopInv'
    BY <1>1, <2>1 DEF AssetsInv, LoopInv
  <2>3. \A k : Read(k)' = Read(k)
    BY <1>1, <2>1 DEF Read
  <2>4. IndexInv'
    BY <1>1, <2>1, <2>3 DEF AssetsInv, IndexInv
  <2>5. \A i \in DOMAIN rows : Joined(i)' = Joined(i)
    <3>1. CASE phase' = phase
      BY <1>1, <2>1, <3>1 DEF Joined
    <3>2. CASE phase = "sort" /\ phase' = "dead"
      BY <1>1, <2>1, <3>2 DEF Joined
    <3>3. CASE phase = "join" /\ at \notin DOMAIN rows /\ phase' = "sort"
      <4>1. /\ at \in Nat \ {0} /\ DOMAIN rows = 1..Len(Batch) /\ Len(Batch) \in Nat
        BY AssetsAssumption DEF AssetsInv, LoopInv, RowsInv, Batch
      <4>2. \A i \in DOMAIN rows : i < at
        BY <3>3, <4>1
      <4>3. QED
        BY <1>1, <2>1, <3>3, <4>2 DEF Joined
    <3>4. QED
      BY <1>1, <3>1, <3>2, <3>3
  <2>6. RowsInv'
    BY <1>1, <2>1, <2>5 DEF AssetsInv, RowsInv
  <2>7. QED
    BY <2>2, <2>4, <2>6 DEF AssetsInv
<1>2. CASE AllRowsJoined
  BY <1>1, <1>2 DEF AllRowsJoined
<1>3. CASE SortPanics
  BY <1>1, <1>3 DEF SortPanics
<1>4. CASE Over \/ UNCHANGED vars
  BY <1>1, <1>4 DEF Over, vars
<1>5. QED
  BY <1>2, <1>3, <1>4, AssetsLoadRow, AssetsNextTable, AssetsBeginJoin, AssetsJoinRow,
     AssetsSortRows DEF Next

\* The invariant, for any tables and batch.
THEOREM AssetsInvariant == Spec => []AssetsInv
<1>1. Init => AssetsInv
  BY AssetsInitially
<1>2. AssetsInv /\ [Next]_vars => AssetsInv'
  BY AssetsStep
<1>3. QED
  BY <1>1, <1>2, PTL DEF Spec

\* Every variable keeps its type.
THEOREM AssetsTypes == Spec => []TypeOK
<1>1. AssetsInv => TypeOK
  <2> SUFFICES ASSUME AssetsInv PROVE TypeOK
    OBVIOUS
  <2>1. /\ input \in Inputs /\ phase \in {"load", "join", "sort", "done", "dead"}
        /\ src \in 1..(Len(Sources) + 1) /\ at \in Nat \ {0}
    BY DEF AssetsInv, LoopInv
  <2>2. /\ DOMAIN indices = DOMAIN Sources
        /\ \A k \in DOMAIN indices : DOMAIN indices[k] \subseteq Cell
    BY DEF AssetsInv, IndexInv, IndexOf
  <2>3. DOMAIN rows = DOMAIN Batch
    BY DEF AssetsInv, RowsInv
  <2>4. \A i \in DOMAIN rows : \A n \in DOMAIN rows[i].strings :
          rows[i].strings[n] \in Cell \cup {NULL}
    BY DEF AssetsInv, RowsInv, RowInv
  <2>5. QED
    BY <2>1, <2>2, <2>3, <2>4 DEF TypeOK
<1>2. QED
  BY <1>1, AssetsInvariant, PTL

\* Every row collected reaches the INSERT with its labels and the assets of its own key,
\* for any number of tables, keyed by labels, by addresses or by each other's columns.
THEOREM RowsGetTheirAssets == Spec => []AssetsOfOwnKey
<1>1. AssetsInv => AssetsOfOwnKey
  <2> SUFFICES ASSUME AssetsInv, phase = "done", NEW b \in DOMAIN Batch
               PROVE  \E i \in DOMAIN rows :
      /\ \A f \in Structural : rows[i][f] = Batch[b][f]
      /\ \A n \in DOMAIN Batch[b].strings : rows[i].strings[n] = Batch[b].strings[n]
      /\ \A k \in DOMAIN Sources : \A j \in DOMAIN Sources[k].columns :
           LET c == Sources[k].columns[j]
           IN rows[i].strings[c.name] = Belongs(rows[i], k, c)
    BY DEF AssetsOfOwnKey
  <2>1. PICK i \in DOMAIN rows : RowInv(input, rows[i], Batch[b], Len(Sources))
    BY DEF AssetsInv, RowsInv
  <2>2. DOMAIN Sources = 1..Len(Sources)
    BY InputFacts DEF AssetsInv, LoopInv, Sources
  <2>3. ASSUME NEW k \in DOMAIN Sources, NEW j \in DOMAIN Sources[k].columns
        PROVE  rows[i].strings[Sources[k].columns[j].name]
                 = Belongs(rows[i], k, Sources[k].columns[j])
    <3> DEFINE c == Sources[k].columns[j]
    <3>1. c \in ColumnsOf(input, k)
      BY DEF ColumnsOf, Sources
    <3>2. rows[i].strings[c.name] = CellFor(Tables[k], KeyCell(input, rows[i], k), c)
      BY <2>1, <2>2, <3>1 DEF RowInv, Tables
    <3>3. OwnKey(rows[i], k) = KeyCell(input, rows[i], k)
      BY DEF OwnKey, KeyCell, ColumnNames, NamesOf, Sources
    <3>4. Belongs(rows[i], k, c) = CellFor(Tables[k], KeyCell(input, rows[i], k), c)
      BY <3>3 DEF Belongs, CellFor
    <3>5. QED
      BY <3>2, <3>4
  <2>4. QED
    BY <2>1, <2>3 DEF RowInv
<1>2. QED
  BY <1>1, AssetsInvariant, PTL
=============================================================================
