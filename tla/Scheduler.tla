----------------------------- MODULE Scheduler -----------------------------
(***************************************************************************)
(* The collection loop, the retention loop and the main task of the        *)
(* reporter, from the start of the process to its graceful end or crash    *)
(* (src/src/scheduler/mod.rs, Sink of src/src/sink/mod.rs, main of         *)
(* src/src/main.rs), against the MySQL table they write.                   *)
(*                                                                         *)
(* Abstractions.  One clock `now`, in ticks, never steps back (SlicedSleep *)
(* has the jumps).  A row is a sample [src, card, ts]: `card` stands for   *)
(* the pair (ip, card_id) and is a number because only its rank in the     *)
(* sort matters; the field values are left out.  A source's whole          *)
(* collection is one step that ends in some rows, an error or a panic.     *)
(***************************************************************************)
EXTENDS Clock, FiniteSets

CONSTANTS
  Sources,            \* indices of the configured sources, in sort order
  Cards,              \* ranks of the (ip, card_id) pairs of a source
  Minute,             \* ticks in a minute
  Interval,           \* `interval`, in ticks
  RetentionInterval,  \* `retention_interval`, in ticks
  Retain,             \* `retention_days`, in ticks
  StartTimes,         \* clock readings at which the process may first start
  MaxTime,            \* bound: the clock stops here
  MaxBoots            \* bound: number of times the process is started

ASSUME SchedulerAssumption ==
  /\ Sources \subseteq Nat /\ Cards \subseteq Nat
  /\ Minute \in Nat \ {0}
  /\ Interval \in Nat \ {0}            \* config::validate rejects 0
  /\ RetentionInterval \in Nat \ {0}
  /\ Retain \in Nat \ {0}
  /\ StartTimes \subseteq {t \in Nat : t >= 2 * Minute}
  /\ MaxTime \in Nat /\ MaxBoots \in Nat \ {0}

VARIABLES
  now,        \* the clock
  proc,       \* main: "running", "draining" (signal seen), "exited", "crashed"
  shutdown,   \* the AtomicBool shared with every task
  collector,  \* "top", "collect", "insert", "sleep", "done"
  task,       \* [Sources -> {"idle", "running", "joined"}], the JoinSet
  queryTs,    \* query_ts of the round
  batch,      \* all_rows: what is still to be inserted
  wake,       \* target of sleep_until_or_shutdown
  retention,  \* "delete", "sleep", "done"
  rwake,      \* when the retention task's sleep ends
  table,      \* MySQL: the rows, each with its AUTO_INCREMENT id
  nextId,     \* MySQL: the next id
  \* history: the process that wrote a row is its boot; `answered` are the
  \* samples the sources returned this round, `lost` those whose INSERT failed
  boots, answered, lost

memory == <<shutdown, collector, task, queryTs, batch, wake, retention, rwake,
            answered, lost>>
store  == <<table, nextId>>
vars   == <<now, proc, boots, memory, store>>

Sample == [src : Sources, card : Cards, ts : Int]
DbRow  == [id : Nat, boot : Nat, src : Sources, card : Cards, ts : Int]

-----------------------------------------------------------------------------
(* Pure parts                                                              *)

\* The order all_rows is sorted in.
Before(r, q) == r.src < q.src \/ (r.src = q.src /\ r.card < q.card)

IsFirst(r, S) == r \in S /\ \A q \in S \ {r} : Before(r, q)

ExpiredAhead(r) == r.ts < now + 1 - Retain   \* mutant: NOW() in another time zone

Expired(r) == r.ts < now - Retain

-----------------------------------------------------------------------------
(* Process life                                                            *)

Init ==
  /\ now \in StartTimes
  /\ proc = "running" /\ boots = 1 /\ shutdown = FALSE
  /\ collector = "top" /\ task = [s \in Sources |-> "idle"]
  /\ queryTs = 0 /\ batch = {} /\ wake = 0
  /\ retention = "delete" /\ rwake = 0
  /\ answered = {} /\ lost = {}
  /\ table = {} /\ nextId = 1

\* The process is started again, after it exited or because it was killed at
\* this very point: everything in memory is new, the table is as it was left.
Restart ==
  /\ boots < MaxBoots
  /\ proc' = "running" /\ boots' = boots + 1 /\ shutdown' = FALSE
  /\ collector' = "top" /\ task' = [s \in Sources |-> "idle"]
  /\ queryTs' = 0 /\ batch' = {} /\ wake' = 0
  /\ retention' = "delete" /\ rwake' = 0
  /\ answered' = {} /\ lost' = {}
  /\ UNCHANGED <<now, store>>

Alive == proc # "exited"

\* SIGINT or SIGTERM: main stops waiting and sets the flag.
Signal ==
  /\ proc = "running"
  /\ proc' = "draining" /\ shutdown' = TRUE
  /\ UNCHANGED <<now, boots, collector, task, queryTs, batch, wake, retention,
                 rwake, answered, lost, store>>

ExitAtOnce ==                            \* mutant: the handles are not awaited
  /\ proc = "draining"
  /\ proc' = "exited"
  /\ UNCHANGED <<now, boots, memory, store>>

\* main has awaited the handles of both tasks.
Exit ==
  /\ proc = "draining"
  /\ retention = "done" /\ collector = "done"
  /\ proc' = "exited"
  /\ UNCHANGED <<now, boots, memory, store>>

Tick ==
  /\ now < MaxTime
  /\ now' = now + 1
  /\ UNCHANGED <<proc, boots, memory, store>>

-----------------------------------------------------------------------------
(* The collector task                                                      *)

collectorRest == <<now, proc, boots, shutdown, retention, rwake>>

\* The top of the loop: stop, or fix query_ts and spawn one task per source.
StartRound ==
  /\ Alive /\ collector = "top"
  /\ ~shutdown
  /\ collector' = "collect"
  /\ queryTs' = QueryTsAt(now, Minute)
  /\ task' = [s \in Sources |-> "running"]
  /\ batch' = {} /\ answered' = {} /\ lost' = {}
  /\ UNCHANGED <<collectorRest, wake, store>>

StopAtTop ==
  /\ Alive /\ collector = "top"
  /\ shutdown
  /\ collector' = "done"
  /\ UNCHANGED <<collectorRest, task, queryTs, batch, wake, answered, lost, store>>

RowsOfOwnClock(s) ==                     \* mutant: each source has its own query_ts
  [src : {s}, card : Cards, ts : {QueryTsAt(now, Minute)}]

\* What collect_source_at may return for source s: its rows carry query_ts.
RowsOf(s) == [src : {s}, card : Cards, ts : {queryTs}]

\* join_next returns the task of s: its rows join the batch.
SourceAnswers(s) ==
  /\ Alive /\ collector = "collect" /\ task[s] = "running"
  /\ task' = [task EXCEPT ![s] = "joined"]
  /\ \E rows \in SUBSET RowsOf(s) :
       /\ batch' = batch \cup rows
       /\ answered' = answered \cup rows
  /\ UNCHANGED <<collectorRest, collector, queryTs, wake, lost, store>>

\* Its collection returned an error or panicked: the source sits this round out.
SourceFails(s) ==
  /\ Alive /\ collector = "collect" /\ task[s] = "running"
  /\ task' = [task EXCEPT ![s] = "joined"]
  /\ UNCHANGED <<collectorRest, collector, queryTs, batch, wake, answered, lost,
                 store>>

AllAnswered ==                           \* mutant: waits for a row of every source
  /\ Alive /\ collector = "collect"
  /\ \A s \in Sources : \E r \in batch : r.src = s
  /\ collector' = "insert"
  /\ UNCHANGED <<collectorRest, task, queryTs, batch, wake, answered, lost, store>>

\* Every task is joined: the rows are completed by the mapping and sorted.
AllJoined ==
  /\ Alive /\ collector = "collect"
  /\ \A s \in Sources : task[s] = "joined"
  /\ collector' = "insert"
  /\ UNCHANGED <<collectorRest, task, queryTs, batch, wake, answered, lost, store>>

\* One INSERT of insert_rows, the next row in sort order.
InsertRow(r) ==
  /\ Alive /\ collector = "insert"
  /\ IsFirst(r, batch)
  /\ batch' = batch \ {r}
  /\ table' = table \cup {[id |-> nextId, boot |-> boots, src |-> r.src,
                           card |-> r.card, ts |-> r.ts]}
  /\ nextId' = nextId + 1
  /\ UNCHANGED <<collectorRest, collector, task, queryTs, wake, answered, lost>>

SkipBatch(r) ==                          \* mutant: `?` instead of going on
  /\ Alive /\ collector = "insert"
  /\ IsFirst(r, batch)
  /\ batch' = {}
  /\ lost' = lost \cup {r}
  /\ UNCHANGED <<collectorRest, collector, task, queryTs, wake, answered, store>>

\* The INSERT fails: the row is logged and skipped, the loop goes on.
SkipRow(r) ==
  /\ Alive /\ collector = "insert"
  /\ IsFirst(r, batch)
  /\ batch' = batch \ {r}
  /\ lost' = lost \cup {r}
  /\ UNCHANGED <<collectorRest, collector, task, queryTs, wake, answered, store>>

\* The round is over: sleep to the next aligned time, unless already told to stop.
FinishRound ==
  /\ Alive /\ collector = "insert"
  /\ batch = {}
  /\ wake' = NextAligned(now, Interval)
  /\ collector' = IF shutdown THEN "done" ELSE "sleep"
  /\ UNCHANGED <<collectorRest, task, queryTs, batch, answered, lost, store>>

SleepThrough ==                          \* mutant: one sleep, no slices
  /\ Alive /\ collector = "sleep"
  /\ now >= wake /\ collector' = "top"
  /\ UNCHANGED <<collectorRest, task, queryTs, batch, wake, answered, lost, store>>

\* A slice of the sleep ends: the flag is looked at before the clock.
WakeUp ==
  /\ Alive /\ collector = "sleep"
  /\ \/ shutdown /\ collector' = "done"
     \/ ~shutdown /\ now >= wake /\ collector' = "top"
  /\ UNCHANGED <<collectorRest, task, queryTs, batch, wake, answered, lost, store>>

-----------------------------------------------------------------------------
(* The retention task                                                      *)

retentionRest == <<now, proc, boots, shutdown, collector, task, queryTs, batch,
                   wake, answered, lost, nextId>>

\* run_retention: the DELETE removes the expired rows, or fails and is logged.
\* The flag is looked at only afterwards, in sleep_or_shutdown.
RunRetention ==
  /\ Alive /\ retention = "delete"
  /\ \/ table' = {r \in table : ~Expired(r)}
     \/ UNCHANGED table
  /\ rwake' = now + RetentionInterval
  /\ retention' = IF shutdown THEN "done" ELSE "sleep"
  /\ UNCHANGED retentionRest

RetentionWakes ==
  /\ Alive /\ retention = "sleep"
  /\ \/ shutdown /\ retention' = "done"
     \/ ~shutdown /\ now >= rwake /\ retention' = "delete"
  /\ UNCHANGED <<retentionRest, rwake, table>>

-----------------------------------------------------------------------------
Collect == \E s \in Sources : SourceAnswers(s) \/ SourceFails(s)

Insert == \E r \in batch : InsertRow(r) \/ SkipRow(r)

CollectorStep ==
  StartRound \/ StopAtTop \/ AllJoined \/ Insert \/ FinishRound \/ WakeUp

RetentionStep == RunRetention \/ RetentionWakes

\* The process is gone for good.
Terminated == proc = "exited" /\ UNCHANGED vars

Next ==
  \/ Tick \/ Restart \/ Signal \/ Exit
  \/ Collect \/ CollectorStep \/ RetentionStep
  \/ Terminated

Spec == Init /\ [][Next]_vars

\* tokio runs every task that can run.  A source answers or fails because the
\* HTTP client has a timeout; a statement is assumed to return.  Nothing makes
\* a signal, a restart or a tick happen.
Fairness ==
  /\ \A s \in Sources : WF_vars(SourceAnswers(s) \/ SourceFails(s))
  /\ WF_vars(CollectorStep)
  /\ WF_vars(RetentionStep)
  /\ WF_vars(Exit)

FairSpec == Spec /\ Fairness

-----------------------------------------------------------------------------
(* Properties                                                              *)

TypeOK ==
  /\ now \in Nat /\ now >= 2 * Minute
  /\ proc \in {"running", "draining", "exited"}
  /\ boots \in Nat \ {0} /\ shutdown \in BOOLEAN
  /\ collector \in {"top", "collect", "insert", "sleep", "done"}
  /\ task \in [Sources -> {"idle", "running", "joined"}]
  /\ queryTs \in Nat /\ wake \in Nat /\ rwake \in Nat
  /\ batch \subseteq Sample /\ answered \subseteq Sample /\ lost \subseteq Sample
  /\ retention \in {"delete", "sleep", "done"}
  /\ table \subseteq DbRow /\ nextId \in Nat

Stored(r) == \E d \in table : /\ d.boot = boots /\ d.ts = r.ts
                              /\ d.src = r.src /\ d.card = r.card

\* Whatever a source answered was inserted, or its INSERT failed, or it has
\* already been cleaned away.
Settled == \A r \in answered : r \in lost \/ Stored(r) \/ Expired(r)

\* A round never forgets a sample (insert_rows skips a failing row and goes on;
\* a source that fails or panics takes nothing of another with it): once its
\* loop is over, every sample it was given is settled.
RoundIsWhole == collector \in {"sleep", "top", "done"} => Settled

\* A graceful exit cuts no round in two, however the signal fell between the
\* steps of the collector (main sets the flag and awaits the handles).
GracefulExitIsWhole == proc = "exited" => batch = {} /\ Settled

\* Rows one process inserted, in the order of their ids, run by query_ts, and
\* within a round by source and card, whatever the order in which the sources
\* answered; so a card has one row per query_ts.  The code has this when the
\* interval is a whole number of minutes: rounds then start in distinct minutes.
WholeMinutes == Interval % Minute = 0

TableInOrder ==
  \A d, e \in table :
    d.boot = e.boot /\ e.id < d.id =>
      e.ts < d.ts \/ (e.ts = d.ts /\ Before(e, d))

\* With any other interval, several rounds share the minute query_ts is cut to
\* and repeat each other's rows: at most as many as aligned times fit in a
\* minute, one more (the round at start) if the two steps are not multiples.
RoundsPerMinute ==
  (Minute + Interval - 1) \div Interval
    + (IF Interval % Minute = 0 \/ Minute % Interval = 0 THEN 0 ELSE 1)

CopiesBounded ==
  \A d \in table :
    Cardinality({e \in table : /\ e.boot = d.boot /\ e.ts = d.ts
                               /\ e.src = d.src /\ e.card = d.card})
      <= RoundsPerMinute

\* Every round comes to its end, whatever fails in it (or the process restarts).
RoundEnds == collector = "collect" ~> collector # "collect" /\ collector # "insert"

\* After the signal the process exits: neither loop misses the flag.
StopsEventually == proc = "draining" ~> proc # "draining"

\* The table keeps the promise made to its readers.
Log == INSTANCE SampleLog
KeepsLog == Log!Spec
=============================================================================
