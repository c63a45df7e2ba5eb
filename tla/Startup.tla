------------------------------ MODULE Startup ------------------------------
(***************************************************************************)
(* main before its loops (src/src/main.rs), with --init, over the table    *)
(* the operator makes and alters: what a configuration must be like, and   *)
(* what the table, for the loops to start.                                 *)
(*                                                                         *)
(* Abstractions.  A configuration is what the start looks at; settings     *)
(* that only have to lie in a range are one flag, `acceptable`.  A column  *)
(* is its name; MySQL knows it by the name in lower case.  Each start      *)
(* finds the configuration file as the operator last left it.              *)
(***************************************************************************)
EXTENDS Naturals, Sequences, SequencesExt

CONSTANTS
  Configs,     \* the configurations the file may hold, each a Config
  Lower,       \* [names with capitals -> the names in lower case]
  Strangers,   \* columns an operator may add to the table
  Droppable,   \* and drop
  NONE         \* no configuration, file or table; no `rename`

\* What a source writes: a field from a metric or from a label, an expression or a
\* host_field, into the column `name`.
FieldConfig == [kind : {"metric", "label", "expression", "host"}, name : STRING]

\* A column of an asset table, and where it goes.
MappingColumn ==
  [sourceField : STRING, rename : STRING \cup {NONE}, direction : STRING, anchor : STRING]

\* The mapping's sources only differ in where their columns come from.
Config ==
  [acceptable : BOOLEAN, onExtraColumns : {"ask", "continue", "abort"},
   sources : Seq(Seq(FieldConfig)), enabled : BOOLEAN, mapping : Seq(MappingColumn)]

ASSUME StartupAssumption == NONE \notin Configs /\ \A c \in Configs : c \in Config

\* The table's own columns, with the types they are told apart by.
FIXED_COLUMNS ==
  <<<<"id", "BIGINT">>, <<"ts", "DATETIME">>, <<"ip", "VARCHAR">>, <<"card_id", "VARCHAR">>,
    <<"namespace", "VARCHAR">>, <<"pod", "VARCHAR">>, <<"gpu_util", "DOUBLE">>,
    <<"mem_util", "DOUBLE">>, <<"temp", "DOUBLE">>, <<"power", "DOUBLE">>,
    <<"host_cpu", "DOUBLE">>, <<"host_mem", "DOUBLE">>, <<"host_fds", "DOUBLE">>,
    <<"source", "VARCHAR">>>>

FixedColumns == [i \in DOMAIN FIXED_COLUMNS |-> FIXED_COLUMNS[i][1]]

\* The sink takes these from the row itself, not from what a configuration names.
Structural == {"id", "ts", "ip", "card_id", "source"}

Writable(type) == {c[1] : c \in {c \in ToSet(FIXED_COLUMNS) : c[2] = type}} \ Structural
WritableNumeric == Writable("DOUBLE")
WritableString  == Writable("VARCHAR")

\* mapping_final_name
FinalName(m) == IF m.rename # NONE THEN m.rename ELSE m.sourceField

FinalNames(m) == [i \in DOMAIN m |-> FinalName(m[i])]
Distinct(s) == \A i, j \in DOMAIN s : s[i] = s[j] => i = j
Fold(n) == IF n \in DOMAIN Lower THEN Lower[n] ELSE n
Folded(S) == {Fold(n) : n \in S}

VARIABLES
  sqlFile,   \* init/<table>.sql: the configuration it was written for, or NONE
  table,     \* the columns of the table, or NONE
  made,      \* history: the configuration whose file made the table, NONE once altered
  phase,     \* of the process: "down", "load", "init", "connect", "check", "ask",
             \* "assets", "spawn", "running"
  cfg,       \* the configuration in use
  actual,    \* the columns check_schema read
  tty,       \* whether there was a terminal to ask at
  agreed     \* history: the operator has confirmed

disk == <<sqlFile, table, made>>
memory == <<phase, cfg, actual, tty, agreed>>
vars == <<disk, memory>>

Init ==
  /\ sqlFile = NONE /\ table = NONE /\ made = NONE
  /\ phase = "down" /\ cfg = NONE /\ actual = {} /\ tty = FALSE /\ agreed = FALSE

-----------------------------------------------------------------------------
(* validate                                                                  *)

Allowed(kind) == IF kind = "label" THEN WritableString ELSE WritableNumeric

NoRepeatCheck(s) ==                      \* mutant: names may repeat
  \A i \in DOMAIN s : s[i].name \in Allowed(s[i].kind)

\* Fields, expressions and host_fields of a source write columns of their own.
SourceValid(s) == Distinct([i \in DOMAIN s |-> s[i].name])
                  /\ \A i \in DOMAIN s : s[i].name \in Allowed(s[i].kind)

MappingValid(m) ==
  /\ Distinct(FinalNames(m))
  /\ \A i \in DOMAIN m :
       /\ FinalName(m[i]) \notin ToSet(FixedColumns)
       /\ m[i].direction \in {"after", "before"}
       /\ m[i].anchor \in ToSet(FixedColumns) \cup ToSet(FinalNames(m))

Valid(c) ==
  /\ c.acceptable
  /\ c.sources # <<>> /\ \A i \in DOMAIN c.sources : SourceValid(c.sources[i])
  /\ MappingValid(c.mapping)

-----------------------------------------------------------------------------
(* The columns                                                               *)

AfterAtEnd(columns, m) ==                \* mutant: `after` puts a column last
  LET at == SelectInSeq(columns, LAMBDA c : c = m.anchor)
  IN IF at = 0 \/ m.direction = "after" THEN Append(columns, FinalName(m))
     ELSE InsertAt(columns, at, FinalName(m))

\* insert_by_position: beside the anchor, at the end if there is none yet.
InsertByPosition(columns, m) ==
  LET at == SelectInSeq(columns, LAMBDA c : c = m.anchor)
  IN IF at = 0 THEN Append(columns, FinalName(m))
     ELSE InsertAt(columns, IF m.direction = "before" THEN at ELSE at + 1, FinalName(m))

\* build_column_list: the mapping columns one after the other.
ColumnList(c) ==
  LET upTo[k \in 0..Len(c.mapping)] ==
        IF k = 0 THEN FixedColumns ELSE InsertByPosition(upTo[k - 1], c.mapping[k])
  IN upTo[Len(c.mapping)]

OnlyEnabled(c) ==                        \* mutant: no mapping columns while it is off
  ToSet(FixedColumns) \cup (IF c.enabled THEN ToSet(FinalNames(c.mapping)) ELSE {})

\* expected_columns: the mapping's too, even while it is off.
Expected(c) == ToSet(FixedColumns) \cup ToSet(FinalNames(c.mapping))

\* No table is something else than any table of these columns.
ASSUME NoTableAssumption == \A c \in Configs : Expected(c) # NONE

\* What insert_rows names: no id, and the columns of the loaded asset tables.
InsertColumns(c) ==
  Tail(FixedColumns) \o (IF c.enabled THEN FinalNames(c.mapping) ELSE <<>>)

\* fixed_write_values: which map of a row the INSERT takes a value from, and under which
\* name; "row" is the row itself.
FixedWriteValues ==
  <<<<"row", "ts">>, <<"row", "ip">>, <<"row", "card_id">>, <<"strings", "namespace">>,
    <<"strings", "pod">>, <<"fields", "gpu_util">>, <<"fields", "mem_util">>,
    <<"fields", "temp">>, <<"fields", "power">>, <<"fields", "host_cpu">>,
    <<"fields", "host_mem">>, <<"fields", "host_fds">>, <<"row", "source">>>>

\* What is bound to the columns of the INSERT, in their order.
BoundValues(c) ==
  FixedWriteValues \o
  (IF c.enabled THEN [i \in DOMAIN c.mapping |-> <<"strings", FinalNames(c.mapping)[i]>>]
   ELSE <<>>)

-----------------------------------------------------------------------------
(* The operator, at any time                                                 *)

\* mysql < init/<table>.sql: IF NOT EXISTS; a column given twice is an error.
RunSqlFile ==
  /\ sqlFile # NONE /\ table = NONE
  /\ LET columns == ColumnList(sqlFile)
     IN /\ Distinct([i \in DOMAIN columns |-> Fold(columns[i])])
        /\ table' = ToSet(columns)
  /\ made' = sqlFile
  /\ UNCHANGED <<sqlFile, memory>>

AlterTable ==
  /\ table # NONE
  /\ \/ \E n \in Strangers : Fold(n) \notin Folded(table) /\ table' = table \cup {n}
     \/ \E n \in Droppable \cap table : table' = table \ {n}
  /\ made' = NONE
  /\ UNCHANGED <<sqlFile, memory>>

DropTable ==
  /\ table # NONE
  /\ table' = NONE /\ made' = NONE
  /\ UNCHANGED <<sqlFile, memory>>

-----------------------------------------------------------------------------
(* The process                                                               *)

\* Nothing of a process outlives it but what is on the disk.
Exit == phase' = "down" /\ cfg' = NONE /\ actual' = {} /\ tty' = FALSE /\ agreed' = FALSE

GoOn(next) == phase' = next /\ UNCHANGED <<cfg, actual, tty, agreed>>

Start ==
  /\ phase = "down" /\ GoOn("load")
  /\ UNCHANGED disk

\* No configuration: an example is written, under another name.
WriteExample ==
  /\ phase = "load" /\ Exit
  /\ UNCHANGED disk

\* With --init, or without.
LoadConfig ==
  /\ phase = "load"
  /\ \E c \in Configs, init \in BOOLEAN :
       IF Valid(c)
       THEN /\ cfg' = c /\ phase' = IF init THEN "init" ELSE "connect"
            /\ UNCHANGED <<actual, tty, agreed>>
       ELSE Exit
  /\ UNCHANGED disk

\* A failure may leave the file cut off, which makes no table.
WriteInitSql ==
  /\ phase = "init" /\ Exit
  /\ sqlFile' \in {cfg, sqlFile, NONE}
  /\ UNCHANGED <<table, made>>

\* connect_with asks the pool for a connection, and fails if none comes in time.
Connect ==
  /\ phase = "connect"
  /\ GoOn("check") \/ Exit
  /\ UNCHANGED disk

Columns == IF table = NONE THEN {} ELSE table
Missing(c, columns) == Folded(Expected(c)) \ Folded(columns)
Extra(c, columns)   == Folded(columns) \ Folded(Expected(c))

ExtraFirst(c, columns, terminal) ==      \* mutant: extra columns hide missing ones
  IF Extra(c, columns) # {} /\ c.onExtraColumns = "continue" THEN "assets"
  ELSE IF Missing(c, columns) # {} THEN "missing"
  ELSE IF Extra(c, columns) = {} THEN "assets"
  ELSE IF c.onExtraColumns = "abort" THEN "extra"
  ELSE IF terminal THEN "ask" ELSE "assets"

AskAnywhere(c, columns, terminal) ==     \* mutant: asked for where there is no terminal
  IF Missing(c, columns) # {} THEN "missing"
  ELSE IF Extra(c, columns) = {} \/ c.onExtraColumns = "continue" THEN "assets"
  ELSE IF c.onExtraColumns = "abort" THEN "extra" ELSE "ask"

\* compare and main's answer to it, as the next phase or the reason for the exit: an
\* expected column that is missing ends the start, extra ones are left to
\* on_extra_columns.
Verdict(c, columns, terminal) ==
  IF Missing(c, columns) # {} THEN "missing"
  ELSE IF Extra(c, columns) = {} \/ c.onExtraColumns = "continue" THEN "assets"
  ELSE IF c.onExtraColumns = "abort" THEN "extra"
  ELSE IF terminal THEN "ask" ELSE "assets"

CheckSchema ==
  /\ phase = "check"
  /\ \E terminal \in BOOLEAN :
       LET verdict == Verdict(cfg, Columns, terminal)
       IN IF verdict \in {"assets", "ask"}
          THEN /\ actual' = Columns /\ tty' = terminal
               /\ phase' = verdict
               /\ UNCHANGED <<cfg, agreed>>
          ELSE Exit
  /\ UNCHANGED disk

SchemaUnread ==
  /\ phase = "check" /\ Exit
  /\ UNCHANGED disk

\* confirm_continue: anything but yes, and the end of the input, is a no.
Answer ==
  /\ phase = "ask"
  /\ \/ agreed' = TRUE /\ phase' = "assets" /\ UNCHANGED <<cfg, actual, tty>>
     \/ Exit
  /\ UNCHANGED disk

LoadAssets ==
  /\ phase = "assets"
  /\ GoOn("spawn") \/ (cfg.enabled /\ Exit)
  /\ UNCHANGED disk

\* A client that cannot be built is a panic.
Spawn ==
  /\ phase = "spawn"
  /\ GoOn("running") \/ Exit
  /\ UNCHANGED disk

\* A signal, or a kill, at any time.
Stop ==
  /\ phase # "down" /\ Exit
  /\ UNCHANGED disk

Process ==
  \/ WriteExample \/ LoadConfig \/ WriteInitSql \/ Connect \/ CheckSchema
  \/ SchemaUnread \/ LoadAssets \/ Spawn

Next == RunSqlFile \/ AlterTable \/ DropTable \/ Start \/ Process \/ Answer \/ Stop

Spec == Init /\ [][Next]_vars

-----------------------------------------------------------------------------
(* Properties                                                                *)

\* Types.  The operator is asked only where there is a terminal to answer at.
TypeOK ==
  /\ sqlFile \in Configs \cup {NONE}
  /\ table = NONE \/ \A n \in table : \A m \in table : Fold(n) = Fold(m) => n = m
  /\ made \in Configs \cup {NONE}
  /\ phase \in {"down", "load", "init", "connect", "check", "ask", "assets", "spawn", "running"}
  /\ cfg \in Configs \cup {NONE} /\ (cfg = NONE <=> phase \in {"down", "load"})
  /\ tty \in BOOLEAN /\ agreed \in BOOLEAN
  /\ agreed => phase \in {"assets", "spawn", "running"}
  /\ phase = "ask" \/ agreed => tty /\ cfg.onExtraColumns = "ask"

\* The loops start only if the table had every column the INSERTs name, in whatever
\* capitals, and beside columns nobody configured only if on_extra_columns allows it or
\* the operator at the terminal has agreed (src/src/main.rs:105, src/src/main.rs:119).
RunsWithItsColumns ==
  phase = "running" =>
    /\ Folded(ToSet(InsertColumns(cfg))) \subseteq Folded(actual)
    /\ \/ Extra(cfg, actual) = {} \/ cfg.onExtraColumns = "continue"
       \/ cfg.onExtraColumns = "ask" /\ (agreed \/ ~tty)

\* Three lists of columns are made from a configuration, for CREATE TABLE, for the check
\* and for the INSERT.  They agree: a table made by --init is never refused, nor asked
\* about, under the configuration it was made for (sql_gen/mod.rs:68, sink/mod.rs:166).
OwnTableFits ==
  phase = "check" /\ made = cfg => \A t \in BOOLEAN : Verdict(cfg, Columns, t) = "assets"

\* In a running program what a field, an expression or a host_field puts into a row
\* reaches the table: it is bound once, to the column of its name, and nothing else of
\* the source is put in the same place.  Neither half of the start sees the other's list:
\* validate has the column types, the sink the names it binds (config/mod.rs:508,
\* config/mod.rs:535, sink/mod.rs:210).
NoValueLost ==
  phase = "running" =>
    \A i \in DOMAIN cfg.sources : LET s == cfg.sources[i] IN
      \A j \in DOMAIN s :
        LET place == <<IF s[j].kind = "label" THEN "strings" ELSE "fields", s[j].name>>
            bound == {p \in DOMAIN BoundValues(cfg) : BoundValues(cfg)[p] = place}
        IN /\ \E p \in bound : bound = {p} /\ InsertColumns(cfg)[p] = s[j].name
           /\ \A k \in DOMAIN s : s[k].name = s[j].name => k = j

\* In the generated table a mapping column is on the asked side of its anchor with none
\* but mapping columns between them, if the anchor is a fixed column or a mapping column
\* declared before it (sql_gen/mod.rs:93).
NextToAnchor ==
  sqlFile # NONE =>
    LET m == sqlFile.mapping
        name == FinalNames(m)
        columns == ColumnList(sqlFile)
        At(n) == CHOOSE i \in DOMAIN columns : columns[i] = n
        Between(i, j) == {columns[k] : k \in {k \in DOMAIN columns : i < k /\ k < j}}
    IN \A i \in DOMAIN m :
         m[i].anchor \in ToSet(FixedColumns) \cup {name[j] : j \in 1..(i - 1)} =>
           LET before == m[i].direction = "before"
               first  == IF before THEN At(name[i]) ELSE At(m[i].anchor)
               last   == IF before THEN At(m[i].anchor) ELSE At(name[i])
           IN first < last /\ Between(first, last) \subseteq ToSet(name)

\* The statement of config/mod.rs:628, that columns given twice in the INSERT are found
\* by validate: the loops never start with an INSERT that MySQL refuses for it.
InsertNamesColumnsOnce ==
  phase = "running" =>
    Distinct([i \in DOMAIN InsertColumns(cfg) |-> Fold(InsertColumns(cfg)[i])])
=============================================================================
