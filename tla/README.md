# gpu-npu-util-reporter-mysql: models, checks and proofs

The program reads, every `interval` seconds, GPU/NPU metrics from several
Prometheus servers, makes one row per card of them, completes the rows from asset
tables and inserts them into one MySQL table; beside that it deletes expired rows
and packs old log files.  This directory holds TLA+ models of it, the TLC
configurations that check them, and theorems whose proofs TLAPS checks.  Paths such
as `scheduler/mod.rs` are under `src/src/`; `PROJECT.json` maps every definition to
the lines it models.

## 1. Inventory

| Part | State it keeps | Operations | Hard because |
|---|---|---|---|
| `scheduler` | shutdown flag (shared), the round's `query_ts`, `JoinSet` of source tasks, `all_rows`, sleep target | start a round, join source tasks, join assets, sort, insert, sleep to the next aligned time; retention loop | tasks answer in any order, fail or panic; the signal falls anywhere; the clock jumps while it sleeps |
| `main` (life) | process, task handles | start-up checks, spawn, wait for signal, set flag, await handles, abort the archiver | kill or signal at any point |
| `main` (log writers) | per file a handle cached under a date | take handle, write to the full and the error log | midnight between taking and writing; open and write fail; a panic poisons a mutex |
| `log_archive` | nothing but the directory | scan, clean up, pack, rename, delete | killed or failing between any two of these, while others write |
| `sink` | connection pool, session time zone; the table in MySQL | insert row by row, delete expired rows, compare the schema | one row of several fails; no unique key, no transaction; local times across clock changes |
| `extractor` | the answers of one collection | query the primary, the needed metrics, the host_fields; align; one row per card | order, duplicates and gaps in the answers, errors between queries |
| `source` | HTTP client | query, parse the answer | partial or non-finite values |
| `mapping` | asset indices, loaded once | load, join a row | duplicate keys, normalisation |
| `expr` | – | parse, evaluate | precedence, division by zero, missing variables, overflow |
| `config` | the configuration | load, validate | rules between fields |
| `sql_gen` | – | place mapping columns, write SQL | chains of anchors |

How they interact: `main` starts two loops of `scheduler` and the archiver, all
tied by one `AtomicBool`.  A round calls `extractor` once per source (a task each),
which calls `source`; its rows go through `mapping::join_row` to
`sink::insert_rows`.  The retention loop shares the table, and the pool, with the
rounds.  Every part writes log lines, so the archiver shares the log directory with
all threads.

What makes each correct:

* scheduler and sink – a sample is never forgotten silently; the rows of one process are a
  log ordered by time, source and card; the signal cuts no round in two; rounds and the exit
  come to their end; sleeps neither end early nor go on for ever when the clock is set.
* log writers and archiver – no line that was written disappears; a package with its
  final name is whole and never changes; each day that is due gets packed; debris is
  bounded.  A failure that nobody notices breaks the first two, for one day each.
* extractor – exactly one row for each card of the primary metric, every value
  measured on that card (or that host), a failing host_field costing its own column
  only.
* mapping – each row gets the assets of its own key, whatever surrounds the key in a
  spreadsheet; bad cells cost their own column.
* config, sql_gen, the start – the loops start only with a configuration that loses no
  value and a table that has every column the INSERT names.
* expr – the program starts with exactly the formulas of its grammar, and stores what
  they mean on the card's own samples, or NULL.
* the three users of the time zone – the moment asked for is recent and goes forward,
  retention goes by age, when the zone puts its clocks forward or back (the system clock is
  taken to be right there).

The hazards found, each at its line and with the properties that cover it, are listed
in `PROJECT.json` under `hazards`.

## 2. Modules

| Module | Models | Kind |
|---|---|---|
| `Clock` | `next_aligned_time`, `compute_query_ts` | operators |
| `SampleLog` | what a reader of the table may rely on | abstract specification |
| `Scheduler` | the collection loop, retention loop and main task against the table | detailed, implements `SampleLog` |
| `SlicedSleep` | `sleep_until_or_shutdown`, `sleep_or_shutdown` under a clock that is set | detailed |
| `LogStore` | what a reader of the log directory may rely on | abstract specification |
| `LogArchive` | log writers and archiver over the directory | detailed, implements `LogStore` |
| `Extractor` | one `collect_source_at` | detailed |
| `RowOrder` | the comparator of the sort that ends a collection | operators |
| `Assets` | asset tables: load, join to the rows of a round, sort | detailed |
| `Startup` | `main` before the loops, `--init`, `config::validate`, the schema check, over a table that changes | detailed |
| `Expr` | a formula from its text in the configuration to the value stored for a card | detailed, beside the grammar as a reference |
| `LocalTime` | `compute_query_ts`, `ts` and `NOW()` in a time zone whose clocks change | detailed |
| `LogLocks` | the mutexes of a log line, `lock_or_recover` | detailed |
| `MCScheduler`, `MCSlicedSleep`, `MCLogArchive`, `MCExtractor`, `MCAssets`, `MCStartup`, `MCExpr`, `MCLocalTime`, `MCLogLocks` | small instances | for TLC |
| `SchedulerProofs`, `SlicedSleepProofs`, `LocalTimeProofs` (each with the part of `Clock` it needs), `LogArchiveProofs`, `ExtractorProofs`, `AssetsProofs` (with `RowOrder`), `StartupProofs`, `ExprProofs` | theorems about the module of that name | for TLAPS |

Definitions marked `mutant` in a module are not part of it: each is the form a
definition would have with a plausible bug, and `PROJECT.json` names the property
that finds it.

### Scheduler

`collector` is the program counter of the collection task: `StartRound` (read the
clock, fix `query_ts`, spawn one task per source), `SourceAnswers` / `SourceFails`
(one turn of the `join_next` loop, in any order; an error and a panic are the same to
the round), `AllJoined` (join and sort), `InsertRow` / `SkipRow` (one turn of the loop
of `insert_rows`, in sort order), `FinishRound` (the next aligned time; the flag is
read on entering the sleep), `WakeUp` (end of a slice: flag first, then clock).
`RunRetention` and `RetentionWakes` are the other loop; note that it deletes before it
looks at the flag.  `Signal` is the signal handler and the store to the flag, `Exit`
the return of `main` after both handles.  `Restart` starts the process again, after an
exit or killing it at that very point; it keeps the table only.  `Tick` moves the
clock, in ticks of which `Minute` make a minute.

A row is the sample `[src, card, ts]`: field values, and the assets joined to them,
are left out.  A source is its position in the order of names, a card the rank of its
(ip, card_id) in the order of the sort.  That the comparator is an order is assumed
here; `AssetsProofs` proves when it is.  MySQL gives each row the next id; an `INSERT`
either happens or fails.  `answered` and `lost` are history.

### SlicedSleep

The target is computed from one reading of the clock and the sleep begins with
another (`ComputeTarget`, `SleepUntil`); each slice takes a second or a little more,
by a clock that is not the system clock.  Readings are whole seconds, a second being
`Second` ticks.  `SetClock` sets the clock forward (`MaxForward` times) or back (any
number of times), by one and a half seconds in the instance.

### LogArchive

`TakeHandle` is `make_writer_for`: it makes the directory before the first line (if that
fails it never tries again, and all lines are dropped until somebody makes it, `MakeDir`),
opens, and so creates, the two files, of the day each finds (`Current`); the line is then
`in flight` until `WriteLine` has written it to the full and the error log, one after the
other.  A file that was deleted meanwhile is not reached: the write succeeds and the line is
gone.  `NewDay` and `DayBack` move the day; it goes back when the clock is set, or put back
at midnight.  The archiver goes through `Scan` (with `Cleanup`), for each date `PassOver` or
`StartPackage`, then for each file `Pack` (the size goes into tar's header) and `Copy` (the
file goes after it, however long it is by then), `Close`, `Rename`, `Unlink` twice, and
`EndScan`; `PackFails`, `RenameFails` and the failing branches of `Cleanup` and `Unlink` are
the errors it notices.  `WrittenOut` is the one it does not: the encoder's last bytes are
written as it is dropped (`Close`), and `sync_all` is asked for in vain (`Rename`).  Then
the package is `short`, only a beginning of it can be read (`Beginnings`), and its day is
`damaged` from the rename on.  What a file gained between `Pack` and `Copy` cannot be read
from the package, and may make the rest unreadable (`torn`).  `Crash` kills the process at
any step.

`Lag` bounds how many days a line may be behind, because it is in flight past midnight or
because its day was not the latest; the safety properties are stated for `Lag < After`.
With `archive_after_days: 1` a line that straddles midnight can be lost – a real, if
small, window of the code.  `NothingLost`, `PackageIsWhole` and `LogStore` except the damaged
days and bound their number by that of the failures; without the exception the property is
`PackedNotDropped`, and fails.

### LogLocks

An event takes one mutex after another (`PathOf`) and works under each.  `Panic` is a
panic of that work, which poisons what the thread holds.  `Lock` is `lock_or_recover`: the
mutex is the caller's before the closure of `unwrap_or_else` runs, and the ERROR that
closure logs is a new event of the same thread, on top of the one it is writing.  That
`tracing` hands such an event on there and then is taken from `tracing-core`, whose global
dispatcher, the only one set here, has no guard against it; that the standard mutex does
not return to a holder, from its implementation on Linux.

### Extractor

The source's configuration is chosen initially.  `QueryPrimary` takes what Prometheus
exports through `parse_vector`; `QueryMetric` comes in any order (a hash set);
`QueryHostField` and `HostFieldFails` fill the values of each host; `BuildRow` and
`SkipSeries` are the two outcomes of a turn of the row loop.  The values in a row are
named by the index of the sample they were taken from, so that a property can say
whose value it is.  A series of the primary metric may be NaN or infinite: `Parse` drops
it, and a card with no other series has no row.

### Assets and RowOrder

`LoadRow` is a turn of the loop of `load_source`, `JoinRow` the join of one row with one
source, `SortRows` the sort.  A cell is a text, numbered in the order of strings, and what
surrounds it: white space, a BOM, or both, in either order, because `normalize_key` takes
off a BOM only if it comes first.  A text parses as a card number, as an address or as a
float, or does not, by three constants.  `sort_by` promises nothing for a comparator that
is not an order: then `SortRows` leaves any order, or `SortPanics` ends the collector.
With card ids such as "2", "10" and "10b" on one host that is so.

### Startup

One action per stage of `main`: `LoadConfig` (with `Valid`, and with `--init` or without),
`WriteInitSql`, `Connect`, `CheckSchema`, `Answer` at the terminal, `LoadAssets`, `Spawn`.
`RunSqlFile`, `AlterTable` and `DropTable` are the operator, at any time; the
configuration is another one at any start.  The process forgets everything on `Exit`.
Settings that only have to lie in a range, and names that only have to be identifiers, are
the flag `acceptable`.

`INSERT` names its columns in one place and takes its values in another
(`InsertColumns`, `BoundValues`), while `validate` goes by the columns' types; `NoValueLost`
puts the three together.

### Expr

`Load` is the check of `validate`, `Ask` and `Answer` the queries of a round, `Store` the
value of a card's column.  The parser is followed function by function, on tokens; a result
is a tree and the position after it.  `parse_expr`, `parse_term` and `parse_factor` call one
another, so `Parser` is one recursive function of a rule and a position, and what a call
returns is its value there; a loop is its `Turn`s, of which no text has more than it has
tokens.  `Evaluate` is a recursive function on the trees up to a height, `Ast`.  The names
the extractor finds in the text by a regex are `ExtractVarNames`.  Numbers are fractions
with an upper bound `Top`, beyond which they are infinite, as an f64 beyond its largest
value; rounding is left out.  `Means` is the grammar of the module's documentation, read as
a relation on spans of the text, with no parser in it; the properties compare the two.

### LocalTime

A zone is its history of offsets, so that a local time stands for one instant, none or
two; `QueryTs` cuts seconds off as `with_second` does, by way of local time, and gives up
when that is ambiguous.  `Round` is a whole round; `Reconnect` is the pool making a new
connection, which begins with the statement put together when the process started.  With
`timezone_offset`, the default, that is an offset (`frozen`), without it the zone's name,
by which MySQL follows the changes.  `DeletesByAge` bounds the error of the retention by the
change of the clocks between measurement and deletion.

## 3. Runs

Bounds are constants of the modules, marked `bound`.

| Run | Shows | Instance, and why it is enough |
|---|---|---|
| `rounds` | `RoundIsWhole`, `GracefulExitIsWhole`, `TableInOrder`, `KeepsLog` | 2 sources x 2 cards, a minute and the interval of 2 ticks, started on and between the edges of a minute, two rounds, rows expiring, one kill or restart: every pair of rounds, tasks and processes that can disturb each other is there |
| `live` | `RoundEnds`, `StopsEventually`, `CopiesBounded` | an interval of 3/4 of a minute, three minutes: up to three rounds in a minute |
| `sleep` | `EarlyOnlyByClock`, `SleepBounded`, `StopsAfterASlice`, `SleepEnds` | 2 ticks a second, jumps of 3 ticks, slices 0 or 1 tick late, two sleeps in a row; up to 8 seconds set back |
| `logs` | `NothingLost`, `PackageIsWhole`, `OneTmpAtMost`, `KeepsLines`, `DueDaysPacked` | 4 days kept for 2, two lines of either level, one failing operation and one kill, so that packing is disturbed twice, one day back: two days come due, so that one can hold up or outlive the other, and a line can come for a day before |
| `logs_full` | violated: `PackedNotDropped` | one line, one failing operation, no kill |
| `rows` | `RowsAreTheCards`, `ValuesOfOwnCard`, `HostValueOfOwnHost` | three endpoints on two hosts, two cards, answers of up to two series, one endpoint whose values may be no numbers; a source with two metrics, one with two host_fields, one with a fixed ip |
| `join` | `AssetsOfOwnKey`, `SortedByHost` | two tables, one keyed by a column of the other, declared in either order, or one keyed by the address; keys in every kind of dirt, empty, missing, repeated; apart from these, three rows of two sources, addresses and names, numbers and texts: three is what it takes for a comparator to run in circles |
| `start` | `RunsWithItsColumns`, `OwnTableFits`, `NoValueLost`, `NextToAnchor` | five configurations that pass and thirteen that fail, one per rule; one column that may be added and one that may be dropped |
| `case` | violated: `InsertNamesColumnsOnce` | two of these configurations |
| `expr` | `AcceptsTheGrammar`, `ValueOfTheFormula` | every text of up to four tokens of every kind, of up to six of the five that nest, and every chain of four operands: four are what it takes for two precedences and two associations to meet; three values of a sample, or none, and results beyond 8 infinite |
| `zone` | `QueriesTheRecentPast`, `RoundsAdvance`, `DeletesByAge` | a zone without a change, one put forward and back, one back and forward, by two minutes, which is as far back as a query goes; both settings, one restart, rounds up to a minute and a half late, a retention a little shorter than the time between the changes, so that rows expire on either side of each and across it |
| `poison` | violated: `LoggingOutlivesPanics` | two threads, one panic; without a panic no thread waits for itself |

`TypeOK` is checked in the first run of each module.  Deadlock is checked everywhere;
states in which the process has ended for good loop (`Terminated`, `Over`).

### Where code and documents disagree

* `logs_full` – a bug: the archiver never finishes the encoder, whose `Drop` ignores an
  error, and drops the error of `sync_all`.  If the disk is full just then, a package that
  cannot be read to its end gets its name, and the logs are deleted.
* `case` – a bug: `validate` tells "Dept" from "dept", MySQL and the schema check do not.
  The program starts, and every INSERT is refused.
* `poison` – a bug: `lock_or_recover` is to keep logging alive after a panic under a log
  mutex, but reports the poisoning while it holds that mutex, through that mutex.  The
  thread waits for itself, and every other thread that logs waits for it.  As the poison is
  never cleared, the first use of that mutex after the panic is enough.

Not made a run of their own:

* the design document (line 521) retries a failed batch and keeps it for the next round;
  the code logs each failed row and drops it (`SkipRow`);
* a comment (`scheduler/mod.rs:74`) has the remaining time recomputed when a clock jump
  makes it larger; `left.min(..)` only ever makes it smaller, so the round starts early by
  what the clock was set back (`EarlyOnlyByClock` says how early);
* comments (`extractor/mod.rs:394`) say an invalid value costs one field.  If it is a value
  of the primary metric, the card loses the row (`RowsAreTheCards` says which cards have
  one);
* `README.md:20` has collection, session and retention agree on one time zone; with
  `timezone_offset: true`, the default, the session keeps the offset of the start and the
  three disagree from a clock change to the next start (`DeletesByAge` says by how much);
* `compute_query_ts` gives, by its comment, a moment at second 00; in an hour that a clock
  change repeats it does not cut the seconds off (`QueryTs`);
* a metric whose name is also the text of a float ("inf", "nan") is accepted in a formula,
  never asked for on its account, and its formula is always NULL (`FloatNames`);
* a comment (`log_archive/mod.rs:95`) says a crash leaves either the files or the package; a
  kill between rename and deletion leaves both, and as a date with a package is skipped, for
  ever (`NothingLost` holds all the same);
* in multi-host mode the last sample of a host_field wins, where `extractor/mod.rs:164` and
  `config/mod.rs:231` say the first;
* `sql_gen` takes an anchor that is not there yet for excluded, but a mapping column may be
  anchored to one declared later, or to itself, and goes to the end of the table
  (`NextToAnchor` speaks of the others);
* a comment (`config/mod.rs:396`) says a pool of no connections waits for ever; a connection
  is waited for no longer than the pool's acquire timeout.  `validate` rejects it anyway;
* `README.md:108` still documents a per-source `interval`, which the code no longer has.

### Fairness

`Scheduler!Fairness`: weak fairness of each source's task (the HTTP client has a
timeout, so it answers or fails), of the two loops (tokio runs what can run; the timers
fire) and of `Exit`.  It supposes that MySQL answers each statement, successfully or
not: the code sets no statement timeout, and a server that hangs does keep the exit
waiting.  No fairness for ticks, signals or restarts.  `SlicedSleep` has weak fairness
of the sleeps (the timer ends a slice), `LogArchive` of the archiver; failures are
finite in number there, and nothing forces a line to be logged.  `Startup`, `Extractor`,
`Assets`, `Expr`, `LocalTime` and `LogLocks` state no liveness and no fairness.

## 4. Proofs

Every safety property that a run checks is also a theorem, but for the three that fail.  A
run shows it on its instance, the theorem for every value of the constants: any sources,
cards, hosts, columns, tables, files, days, lines, formulas, failures, kills, clock settings
and bounds.

Assumptions are the named `ASSUME`s of the modules, which each passing run evaluates on
its instance, and say no more than types and what `config::validate` enforces:

* `SchedulerAssumption`: `Minute`, `Interval`, `RetentionInterval`, `Retain` positive;
  start times at least two minutes after the epoch.
* `SlicedSleepAssumption`, `LogArchiveAssumption`: the interval, and the days a log is
  kept, are positive; the bounds are numbers.
* `ExtractorAssumption`: an endpoint has a name, and an address; `multiHost` is a flag.
* `AssetsAssumption`, `InputsAssumption`: rows and cells have their types; no two mapping
  columns have one name, and none that of a label.
* `StartupAssumption`, `NoTableAssumption`: configurations have their type, whether
  `validate` lets them through or not; `NONE` is none of them and no table.
* `RowOrderAssumption`: a text that is a number has one number.
* `LocalTimeAssumption`: clocks change by whole minutes at whole minutes, and the history
  of the zone reaches back far enough to name an offset at any time the model needs.
* `ExprAssumption`: texts are sequences of tokens; a name, a number, and an operator or a
  bracket are never the same token; the fields' metrics are names.

### The scheduler

* `SchedulerProofs!RoundsQueryDistinctMinutes`: if the interval is a whole number of minutes,
  a round at or after the next aligned time of an earlier one queries a later minute.
  It rests on lemmas about quotients and multiples (`DivMod`, `NextMultiple`,
  `CutMonotone`).
* `SchedulerProofs!TypeCorrect`: `TypeOK`.
* `RoundsAreWhole`, `GracefulExitsAreWhole`: by the invariant that each answered sample
  is in the batch, settled, or this round's (`WholeInv`), which is what `RoundIsWhole` lacks
  to be inductive: while inserting, the unsettled ones are exactly those still in the batch.
* `InsertionsInOrder`, under `WholeMinutes`: `TableInOrder` is not inductive, since it
  does not say that what will be inserted follows what is there.  The strengthening
  (`OrderInv`) adds: ids are below `nextId`; rows of this process have `ts` at most
  `queryTs`, and less while a new round collects; a row at `queryTs` comes before
  everything in the batch; every sample of the batch is at `queryTs`; the wake-up time is
  an aligned time in a later minute than `queryTs` was read in.
* `SchedulerKeepsLog`: `Scheduler` implements `SampleLog`, by the two invariants; each step
  is an `Advance`, a `Record`, an `Expire` or a stutter.
* `CopiesAreBounded`, for every interval, whole minutes or not.  Time is cut into slots,
  one between each aligned time and the next (`Slot`).  A round begins in a later slot
  than the round before, so the copies of a sample, all from rounds of one minute, are no
  more than the slots from the first of that minute (`FirstSlot`) to that of the round in
  progress (`RoundsInv`), and a minute meets only so many slots (`SlotsOfMinute`).

### The sleeps

`SlicedSleepProofs`: `NeverEarly`, `SleepsAreBounded`, `StopsInTime` and the types.
`SleepInv` says that the slices left reach the target, but for what the clock was set back
(`Reaches`): a reading of the clock in the loop can only lower what is left, to what the
clock says is left.  Readings are cut to whole seconds, but a slice is at least one second,
so that cutting loses nothing (`SecsAdvance`).

### The log directory

`LogArchiveProofs`: `NothingGetsLost`, `PackagesAreWhole`, `AtMostOneTmp` and
`DirectoryKeepsLines`, that `LogArchive` implements `LogStore`.  `DamageInv`, for any lag,
counts: the damaged days, and the package under way if it is short, are no more than the
failures.  The invariant `KeptInv` has five parts: no line is behind by more than `Lag` days
(`DaysInv`); the archiver only touches days that are over (`DueInv`), so that for
`Lag < After` nobody writes to them; at each of its steps the package under way holds what the
files hold, as far as it has come (`PackageInv`), or less if it is short; a file holds all
that was written to it or a finished package does, whose day is not damaged (`LinesInv`);
and the days are packed in order, so a temporary package is of the earliest day not packed
(`OrderInv`).  The theorems but the types and `DamageInv` are for `Lag < After`.  That goes
for `OneTmpAtMost`, too: a day that is due but still written to can get its files after a
later one was packed, and then fail – TLC shows that with a lag of 2 and one day kept.

### A collection

`ExtractorProofs`: `RowsOfTheCards`, `ValuesAreOwn`,
`HostValuesAreOwn`.  The invariant, `ExtractInv`, says what the answers so far are
(`QueryInv`), that a host's value is one of its own samples, or missing (`HostInv`), that
every row is `RowOf` of some sample, which it stays because the answers do not change any
more once there is a row (`RowsInv`), and that the cards seen are those of the samples
passed and those of the rows, each once (`CardsInv`).  `Parse` takes the finite series in
their order; that it keeps each of them, and no other, is `ParseFacts`, by the ranks of
their positions (`NthFacts`).

`AssetsProofs`: `RowLessIsOrder`, the comparator is irreflexive and transitive, and so is
"not after", if the hosts of a source and the card ids of a host are of one kind
(`Orderly`), for any tables of numbers.  `RowsAreSorted`, `SortedByHost` for every
batch, rests on it: the invariant (`Arranged`) is that no later row is before an
earlier one, and it says that a host's rows are together because "not after" is
transitive.  `RowsGetTheirAssets` is about what is in the rows.  Its invariant,
`AssetsInv`, says that an index holds the first row of each key among the rows read so far
(`IndexInv`), and that a row joined with the first `m` sources has the cells that belong
to it in their columns, and no column of a later source yet (`RowsInv`): so a key taken
from an earlier table is final when it is used.  `AlikeIsSameKey` is where normalising
comes in: two cells have one key exactly if a reader takes them for the same.

### The start

`StartupProofs`: `RunsOverItsColumns` and `OwnTablePasses` by `StartInv`: the
configuration in use is a valid one, a table nobody altered has the columns of the file
it was made from, and past the check nothing is missing and extra columns are agreed to.
`ValuesReachTheTable` puts three lists side by side (`BoundPlaces`, `WritablePlace`).
`ColumnsNextToAnchors`: putting a column in keeps the order of the others (`PutMoves`), so
a mapping column stays beside its anchor when others are put between (`PutKeepsBeside`).
`ColumnList` is a recursive function; that there is one is shown by the least number for
which there would be none (`ColumnListSteps`), and what holds of it in the same way.

### The time zone

`LocalTimeProofs`, for every zone whose clocks change by whole minutes at whole minutes:
`QueriesAreRecent`, `RoundsGoForward` and `RetentionGoesByAge`.  The heart is
`QueryTsForm`: as no offset changes within a minute (`OffsetInMinute`), a minute of local
time is a minute of UTC, so that `query_ts` is either cut to the UTC minute or, all
through a minute that is repeated, left as it is; either way it keeps the order of times
(`QueryTsAdvances`).  That some offset is the latest is the well-ordering of the natural
numbers (`InForce`).  The invariant says which earlier moment was asked for, when the
next round is due, what each connection was told, and that rows hold local times.

### Formulas

`ExprProofs`: `GrammarAccepted`, `FormulaValue` and the types, for texts of any length.  The
invariant, `FormulaInv`, only says which text, answers and value each phase works with; the
work is in `EvalMeans`: a text that parses has one meaning, and it is what `Eval` computes,
as long as the variables found for the formula are the card's own (`SameSamples`); a text
that does not parse has none.

A recursive function has the value its definition says only if there is such a function.
So the trees by height (`LevelsExist`), the evaluation (`ValuesExist`), the turns of a loop
(`TurnsExist`), the parser (`ParserExists`) and the meanings (`PhrasesExist`) are each shown
to exist, by induction on a number that falls with every call: the height; for the parser
the tokens left, and then the rule (`Rank`), since a factor consumes a token before it calls
`parse_expr`; for a span its length, and then the rule.  The induction is over sets of
numbers (`StrongInduction`), from the well-ordering of the natural numbers: no induction
over the trees or the texts themselves is needed.

Then the two are compared, from the end of the text to its start (`AllRight`).  A function
is `Right` at a position if its result is a phrase from there with the value of its tree,
and it finds every phrase that is not followed by an operator it would go on with
(`Stops`).  This last clause is the strengthening: the grammar has also shorter phrases, as
"A" in "A * B", which a function passes over, and rightly only because its caller could
not use them.  A factor is right if what it calls is (`RightFactor`).  For a loop, what
it has come to after each turn is a chain (`TurnsSound`), it comes to every chain
(`TurnsComplete`), and it stays with the last (`LoopStays`): a chain is taken apart at its
last operator, a loop puts it together from its first, and `LastOperandAt` fits the two.

### Model-checked only

Liveness (`RoundEnds`, `StopsEventually`, `SleepEnds`, `DueDaysPacked`), which is out of the
provers' reach.

## 5. Plan

In order; what is done is marked.

1. `Clock`, `SampleLog`, `Scheduler` and their proofs – done.
2. `SlicedSleep` and its proofs – done.
3. `LogStore`, `LogArchive`, their proofs and the refinement – done.
4. `Extractor` and its proofs – done.
5. `RowOrder`, `Assets` and their proofs – done.
6. `Startup` and its proofs – done.
7. `LocalTime` and its proofs – done.
8. `Expr` and its proofs – done.
9. `LogLocks` – done; what it is about fails, so nothing of it is proved.

Not to be modelled: HTTP, JSON, CSV and Excel reading, SQL text, the log format, the
example configuration; these are I/O or formatting.
