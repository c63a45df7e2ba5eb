------------------------------- MODULE Assets -------------------------------
(***************************************************************************)
(* The asset tables (src/src/mapping/mod.rs): loaded into indices at the   *)
(* start, joined to the rows of a round, which are then sorted.            *)
(*                                                                         *)
(* Abstractions.  A cell is a text and the dirt around it; dirt matters    *)
(* only by what normalize_key takes off.  Reading CSV and Excel, and a     *)
(* table that cannot be read, are left to Startup.  The batch is one that  *)
(* the source tasks of a round leave in all_rows, in any order.            *)
(***************************************************************************)
EXTENDS RowOrder, Sequences, FiniteSets, FiniteSetsExt

CONSTANTS
  Texts,       \* a finite set of texts
  Floats,      \* those that parse as f64 when nothing is around them
  Inputs,      \* [sources: the mapping sources, tables: what each file holds,
               \*  batch: the rows collected]
  NULL

Structural == {"ip", "card_id", "source"}

IsRow(r) ==
  /\ DOMAIN r = Structural \cup {"strings"}
  /\ \A f \in Structural : r[f] \in Texts

ASSUME AssetsAssumption ==
  /\ 0 \in Texts /\ Texts \subseteq Nat /\ Floats \subseteq Texts
  /\ \A in \in Inputs :
       /\ Len(in.batch) \in Nat /\ DOMAIN in.batch = 1..Len(in.batch)
       /\ \A i \in DOMAIN in.batch : IsRow(in.batch[i])

Dirts == {"clean", "space", "bom", "bomSpace", "spaceBom"}   \* what comes first, first
Cell  == [text : Texts, dirt : Dirts]
Clean(t) == [text |-> t, dirt |-> "clean"]

\* validate: no two mapping columns have one name, and none the name of a label.
ASSUME InputsAssumption ==
  /\ NULL \notin Cell
  /\ \A in \in Inputs :
       /\ Len(in.sources) \in Nat /\ DOMAIN in.sources = 1..Len(in.sources)
       /\ \A k \in DOMAIN in.sources : \A i \in DOMAIN in.sources[k].columns :
            LET name == in.sources[k].columns[i].name
            IN /\ \A l \in DOMAIN in.sources : \A j \in DOMAIN in.sources[l].columns :
                    in.sources[l].columns[j].name = name => l = k /\ j = i
               /\ \A b \in DOMAIN in.batch : name \notin DOMAIN in.batch[b].strings
       /\ \A k \in DOMAIN in.sources :
            /\ Len(in.tables[k]) \in Nat /\ DOMAIN in.tables[k] = 1..Len(in.tables[k])
            /\ \A i \in DOMAIN in.tables[k] :
                 LET row == in.tables[k][i]
                 IN /\ row.key \in Cell \cup {NULL}
                    /\ \A n \in DOMAIN row.values : row.values[n] \in Cell
       /\ \A b \in DOMAIN in.batch : \A n \in DOMAIN in.batch[b].strings :
            in.batch[b].strings[n] \in Cell \cup {NULL}

VARIABLES
  input,
  phase,    \* "load", "join", "sort", "done", "dead" (the collector has panicked)
  src, at,  \* the loops' positions, among the sources and among a table's or the rows
  indices,  \* AssetIndex.map of each source: [keys -> [final column names -> Cell]]
  rows      \* all_rows: Seq([source, ip, card_id, strings])

vars == <<input, phase, src, at, indices, rows>>

Sources == input.sources   \* Seq([srcKey, columns: Seq([name, numeric])])
Tables  == input.tables    \* per source Seq([key: Cell or NULL, values: [names -> Cell]])
Batch   == input.batch

ColumnNames(k) == {Sources[k].columns[i].name : i \in DOMAIN Sources[k].columns}

Init ==
  /\ input \in Inputs
  /\ phase = "load" /\ src = 1 /\ at = 1
  /\ indices = [k \in DOMAIN Sources |-> <<>>]
  /\ rows = Batch

-----------------------------------------------------------------------------
(* The pure parts                                                          *)

\* One BOM is taken off the front, then white space, to which a BOM does not belong.
NormalizeKey(c) == [c EXCEPT !.dirt = IF @ = "spaceBom" THEN "bom" ELSE "clean"]

RawKey(c) == c                           \* mutant: keys as they are

\* A missing cell counts as an empty one.
KeyOf(c) == IF c = NULL THEN Clean(0) ELSE NormalizeKey(c)

ResolveRowKey(row, k) ==
  IF k \in Structural THEN Clean(row[k])
  ELSE IF k \in DOMAIN row.strings THEN row.strings[k]
  ELSE NULL

Parses(c) == c.dirt = "clean" /\ c.text \in Floats

\* What the join writes to a column.
JoinedValue(index, key, column) ==
  IF /\ key \in DOMAIN index
     /\ column.name \in DOMAIN index[key]
     /\ column.numeric => Parses(index[key][column.name])
  THEN index[key][column.name]
  ELSE NULL

JoinSource(row, k) ==
  LET key == KeyOf(ResolveRowKey(row, Sources[k].srcKey))
      ColumnOf(n) == CHOOSE c \in {Sources[k].columns[i] : i \in DOMAIN Sources[k].columns} :
                       c.name = n
  IN [row EXCEPT !.strings =
       [n \in DOMAIN @ \cup ColumnNames(k) |->
          IF n \in ColumnNames(k) THEN JoinedValue(indices[k], key, ColumnOf(n)) ELSE @[n]]]

-----------------------------------------------------------------------------
(* load_all: the first row of a key stays, rows without a key are skipped    *)

AnyKept(index, key) == key # Clean(0)    \* mutant: the last row of a key wins

Kept(index, key) == key # Clean(0) /\ key \notin DOMAIN index

LoadRow ==
  /\ phase = "load" /\ src \in DOMAIN Sources /\ at \in DOMAIN Tables[src]
  /\ LET row == Tables[src][at]
         key == KeyOf(row.key)
         declared == [n \in DOMAIN row.values \cap ColumnNames(src) |-> row.values[n]]
     IN IF Kept(indices[src], key)
        THEN indices' = [indices EXCEPT ![src] =
               [k \in DOMAIN @ \cup {key} |-> IF k = key THEN declared ELSE @[k]]]
        ELSE UNCHANGED indices
  /\ at' = at + 1
  /\ UNCHANGED <<input, phase, src, rows>>

NextTable ==
  /\ phase = "load" /\ src \in DOMAIN Sources /\ at \notin DOMAIN Tables[src]
  /\ src' = src + 1 /\ at' = 1
  /\ UNCHANGED <<input, phase, indices, rows>>

\* A round has collected its rows.  Without an index they are not joined.
BeginJoin ==
  /\ phase = "load" /\ src \notin DOMAIN Sources
  /\ phase' = IF Sources = <<>> THEN "sort" ELSE "join"
  /\ src' = 1 /\ at' = 1
  /\ UNCHANGED <<input, indices, rows>>

-----------------------------------------------------------------------------
(* The end of the round's collection                                         *)

JoinRow ==
  /\ phase = "join" /\ at \in DOMAIN rows
  /\ rows' = [rows EXCEPT ![at] = JoinSource(@, src)]
  /\ IF src < Len(Sources)
     THEN src' = src + 1 /\ UNCHANGED at
     ELSE src' = 1 /\ at' = at + 1
  /\ UNCHANGED <<input, phase, indices>>

AllRowsJoined ==
  /\ phase = "join" /\ at \notin DOMAIN rows
  /\ phase' = "sort"
  /\ UNCHANGED <<input, src, at, indices, rows>>

\* The arrangements: each row has a place.
Orders ==
  {p \in [DOMAIN rows -> DOMAIN rows] :
     \A i \in DOMAIN rows : \E j \in DOMAIN p : p[j] = i}

RowsInOrder == Orderly({rows[i] : i \in DOMAIN rows})

\* sort_by, stable; what order it makes of a comparator that runs in circles is not
\* specified, it may even panic.
SortRows ==
  /\ phase = "sort"
  /\ \E p \in Orders :
       /\ RowsInOrder => \A i, j \in DOMAIN p : i < j =>
            RowLess(rows[p[i]], rows[p[j]]) \/ (Tied(rows[p[i]], rows[p[j]]) /\ p[i] < p[j])
       /\ rows' = [i \in DOMAIN rows |-> rows[p[i]]]
  /\ phase' = "done"
  /\ UNCHANGED <<input, src, at, indices>>

SortPanics ==
  /\ phase = "sort" /\ ~RowsInOrder
  /\ phase' = "dead"
  /\ UNCHANGED <<input, src, at, indices, rows>>

Over == phase \in {"done", "dead"} /\ UNCHANGED vars

Next ==
  \/ LoadRow \/ NextTable \/ BeginJoin
  \/ JoinRow \/ AllRowsJoined \/ SortRows \/ SortPanics \/ Over

Spec == Init /\ [][Next]_vars

-----------------------------------------------------------------------------
(* Properties                                                                *)

\* Types.
TypeOK ==
  /\ input \in Inputs
  /\ phase \in {"load", "join", "sort", "done", "dead"}
  /\ src \in 1..(Len(Sources) + 1) /\ at \in Nat \ {0}
  /\ DOMAIN indices = DOMAIN Sources
  /\ \A k \in DOMAIN indices : DOMAIN indices[k] \subseteq Cell
  /\ DOMAIN rows = DOMAIN Batch
  /\ \A i \in DOMAIN rows : \A n \in DOMAIN rows[i].strings :
       rows[i].strings[n] \in Cell \cup {NULL}

\* Two cells a reader of the tables takes for the same key: the same text, neither
\* empty.  A BOM behind white space is seen as part of the text.
Misplaced(c) == c.dirt = "spaceBom"
Alike(a, b) ==
  /\ a # NULL /\ b # NULL
  /\ a.text = b.text /\ (Misplaced(a) <=> Misplaced(b))
  /\ a.text # 0 \/ Misplaced(a)

\* The key a row has for source k: a label, a part of its identity, or a column of an
\* earlier source; nothing if the column is filled by this source or a later one.
OwnKey(row, k) ==
  LET n == Sources[k].srcKey IN
  IF n \in Structural THEN Clean(row[n])
  ELSE IF n \in DOMAIN row.strings /\ \A j \in k..Len(Sources) : n \notin ColumnNames(j)
  THEN row.strings[n]
  ELSE NULL

\* The cell that belongs into column c of source k: that of the first row of the table
\* with the key, if there is one; NULL if it is no number and should be.
Belongs(row, k, c) ==
  LET hits == {i \in DOMAIN Tables[k] : Alike(Tables[k][i].key, OwnKey(row, k))}
      cells == Tables[k][Min(hits)].values
  IN IF hits # {} /\ c.name \in DOMAIN cells
       /\ (c.numeric => cells[c.name].dirt = "clean" /\ cells[c.name].text \in Floats)
     THEN cells[c.name] ELSE NULL

\* Every row collected reaches the INSERT with its labels, and with the asset data of its
\* own key in each mapping column: whatever the dirt around the keys, with the first of
\* several rows of a key, a bad cell costing that column alone, and also where one table's
\* column is the key into the next (mapping/mod.rs:223, src/src/scheduler/mod.rs:211).
AssetsOfOwnKey ==
  phase = "done" =>
    \A b \in DOMAIN Batch : \E i \in DOMAIN rows :
      /\ \A f \in Structural : rows[i][f] = Batch[b][f]
      /\ \A n \in DOMAIN Batch[b].strings : rows[i].strings[n] = Batch[b].strings[n]
      /\ \A k \in DOMAIN Sources : \A j \in DOMAIN Sources[k].columns :
           LET c == Sources[k].columns[j]
           IN rows[i].strings[c.name] = Belongs(rows[i], k, c)

\* A source's rows, and in them a host's, are written together, cards with numbers in the
\* order of the numbers, hosts with addresses in the order of the addresses; if the ids of
\* each host, and the hosts of each source, are of one kind (src/src/scheduler/mod.rs:217).
SortedByHost ==
  phase = "done" /\ RowsInOrder =>
    \A i, j \in DOMAIN rows : i < j =>
      /\ rows[i].source <= rows[j].source
      /\ SameHost(rows[i], rows[j]) =>
           /\ \A m \in i..j : SameHost(rows[i], rows[m])
           /\ Numbered(CardNumber, rows[i].card_id, rows[j].card_id) =>
                CardNumber[rows[i].card_id] <= CardNumber[rows[j].card_id]
      /\ rows[i].source = rows[j].source /\ Numbered(IpNumber, rows[i].ip, rows[j].ip) =>
           IpNumber[rows[i].ip] <= IpNumber[rows[j].ip]
=============================================================================
