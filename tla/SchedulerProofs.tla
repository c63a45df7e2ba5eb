-------------------------- MODULE SchedulerProofs --------------------------
(***************************************************************************)
(* What Scheduler guarantees for every set of sources and cards and every  *)
(* interval, minute, retention and clock.                                  *)
(***************************************************************************)
EXTENDS Scheduler, FiniteSetTheorems, TLAPS

\* Division with remainder, as the provers are to use it.
LEMMA DivMod ==
  ASSUME NEW t \in Int, NEW m \in Nat \ {0}
  PROVE  /\ t \div m \in Int /\ t % m \in 0 .. (m - 1)
         /\ t = m * (t \div m) + (t % m)
  OBVIOUS

\* A larger quotient is larger by a whole divisor.
LEMMA NextMultiple ==
  ASSUME NEW m \in Nat \ {0}, NEW j \in Int, NEW k \in Int, j < k
  PROVE  m * j + m <= m * k
<1>1. k - j >= 1
  OBVIOUS
<1>2. m * (k - j) >= m
  BY <1>1
<1>3. m * (k - j) = m * k - m * j
  OBVIOUS
<1>4. QED
  BY <1>2, <1>3

\* A multiple of m leaves no remainder.
LEMMA MultipleMod ==
  ASSUME NEW m \in Nat \ {0}, NEW k \in Int, NEW t \in Int, t = m * k
  PROVE  t % m = 0
<1> DEFINE q == t \div m
<1>1. q \in Int /\ t % m \in 0 .. (m - 1) /\ t = m * q + (t % m)
  BY DivMod
<1>2. CASE q = k
  BY <1>1, <1>2
<1>3. CASE q < k
  <2>1. m * q + m <= m * k
    BY <1>1, <1>3, NextMultiple
  <2>2. QED
    BY <1>1, <2>1
<1>4. CASE k < q
  <2>1. m * k + m <= m * q
    BY <1>1, <1>4, NextMultiple
  <2>2. QED
    BY <1>1, <2>1
<1>5. QED
  BY <1>1, <1>2, <1>3, <1>4

\* Cutting to a multiple of m keeps the order of two times.
LEMMA CutMonotone ==
  ASSUME NEW m \in Nat \ {0}, NEW s \in Int, NEW t \in Int, s <= t
  PROVE  s - (s % m) <= t - (t % m)
<1> DEFINE j == s \div m
           k == t \div m
<1>1. j \in Int /\ s % m \in 0 .. (m - 1) /\ s = m * j + (s % m)
  BY DivMod
<1>2. k \in Int /\ t % m \in 0 .. (m - 1) /\ t = m * k + (t % m)
  BY DivMod
<1>3. CASE j = k
  BY <1>1, <1>2, <1>3
<1>4. CASE j < k
  <2>1. m * j + m <= m * k
    BY <1>1, <1>2, <1>4, NextMultiple
  <2>2. QED
    BY <1>1, <1>2, <2>1
<1>5. CASE k < j
  <2>1. m * k + m <= m * j
    BY <1>1, <1>2, <1>5, NextMultiple
  <2>2. QED
    BY <1>1, <1>2, <2>1
<1>6. QED
  BY <1>1, <1>2, <1>3, <1>4, <1>5

\* query_ts is an integer at least two minutes old, and from the third minute
\* of the clock on it is not negative.
LEMMA QueryTsRange ==
  ASSUME NEW m \in Nat \ {0}, NEW t \in Int
  PROVE  /\ QueryTsAt(t, m) \in Int
         /\ QueryTsAt(t, m) + 2 * m <= t
         /\ t >= 2 * m => QueryTsAt(t, m) \in Nat
<1> DEFINE u == t - 2 * m
<1>1. u \in Int
  OBVIOUS
<1>2. u \div m \in Int /\ u % m \in 0 .. (m - 1) /\ u = m * (u \div m) + (u % m)
  BY <1>1, DivMod
<1>3. CASE t >= 2 * m
  <2>1. 0 % m = 0
    BY MultipleMod
  <2>2. 0 - (0 % m) <= u - (u % m)
    BY <1>1, <1>3, CutMonotone
  <2>3. QED
    BY <1>1, <1>2, <2>1, <2>2 DEF QueryTsAt
<1>4. QED
  BY <1>1, <1>2, <1>3 DEF QueryTsAt

\* query_ts never runs backwards when the clock does not.
LEMMA QueryTsMonotone ==
  ASSUME NEW m \in Nat \ {0}, NEW s \in Int, NEW t \in Int, s <= t
  PROVE  QueryTsAt(s, m) <= QueryTsAt(t, m)
<1>1. s - 2 * m \in Int /\ t - 2 * m \in Int /\ s - 2 * m <= t - 2 * m
  OBVIOUS
<1>2. QED
  BY <1>1, CutMonotone DEF QueryTsAt

\* The aligned time is a multiple of the interval, later than now by at most
\* one interval.
LEMMA NextAlignedIsMultiple ==
  ASSUME NEW i \in Nat \ {0}, NEW t \in Nat
  PROVE  /\ NextAligned(t, i) \in Nat
         /\ t < NextAligned(t, i) /\ NextAligned(t, i) <= t + i
         /\ \E k \in Int : NextAligned(t, i) = i * k
<1>1. t \div i \in Int /\ t % i \in 0 .. (i - 1) /\ t = i * (t \div i) + (t % i)
  BY DivMod
<1>2. NextAligned(t, i) = i * ((t \div i) + 1)
  BY <1>1 DEF NextAligned
<1>3. \E k \in Int : NextAligned(t, i) = i * k
  <2>1. (t \div i) + 1 \in Int
    BY <1>1
  <2>2. QED
    BY <1>2, <2>1, Zenon
<1>4. NextAligned(t, i) \in Nat /\ t < NextAligned(t, i) /\ NextAligned(t, i) <= t + i
  BY <1>1 DEF NextAligned
<1>5. QED
  BY <1>3, <1>4

\* When the interval is a whole number of minutes, a round woken at its aligned
\* time or later queries a later minute than the clock had when the time was set.
THEOREM RoundsQueryDistinctMinutes ==
  ASSUME NEW m \in Nat \ {0}, NEW i \in Nat \ {0}, i % m = 0,
         NEW t \in Nat, NEW w \in Int, w >= NextAligned(t, i)
  PROVE  t - 2 * m < QueryTsAt(w, m)
<1> DEFINE a == NextAligned(t, i)
           j == i \div m
<1>1. a \in Nat /\ t < a
  BY NextAlignedIsMultiple
<1>2. PICK k \in Int : a = i * k
  BY NextAlignedIsMultiple
<1>3. j \in Int /\ i = m * j
  BY DivMod
<1>4. a - 2 * m = m * (j * k - 2)
  BY <1>2, <1>3
<1>5. (a - 2 * m) % m = 0
  <2>1. a - 2 * m \in Int /\ j * k - 2 \in Int
    BY <1>1, <1>3
  <2>2. QED
    BY <1>4, <2>1, MultipleMod
<1>6. QueryTsAt(a, m) = a - 2 * m
  BY <1>1, <1>5 DEF QueryTsAt
<1>7. QueryTsAt(a, m) <= QueryTsAt(w, m)
  BY <1>1, QueryTsMonotone
<1>8. QueryTsAt(w, m) \in Int
  BY QueryTsRange
<1>9. QED
  BY <1>1, <1>6, <1>7, <1>8

\* The model keeps its types: no step of the collector, the retention task or
\* main leaves the state space the code's variables have.
THEOREM TypeCorrect == Spec => []TypeOK
<1>1. Init => TypeOK
  <2> SUFFICES ASSUME Init PROVE TypeOK
    OBVIOUS
  <2>1. now \in Nat /\ now >= 2 * Minute
    BY SchedulerAssumption DEF Init
  <2>2. task \in [Sources -> {"idle", "running", "joined"}]
    BY DEF Init
  <2>3. shutdown \in BOOLEAN
    BY DEF Init
  <2>4. QED
    BY <2>1, <2>2, <2>3 DEF Init, TypeOK
<1>2. TypeOK /\ [Next]_vars => TypeOK'
  <2> SUFFICES ASSUME TypeOK, [Next]_vars
               PROVE  TypeOK'
    OBVIOUS
  <2> USE SchedulerAssumption DEF TypeOK
  <2>1. CASE Tick
    BY <2>1 DEF Tick, memory, store
  <2>2. CASE Restart
    <3>1. task' \in [Sources -> {"idle", "running", "joined"}]
      BY <2>2 DEF Restart
    <3>2. shutdown' \in BOOLEAN
      BY <2>2 DEF Restart
    <3>3. QED
      BY <2>2, <3>1, <3>2 DEF Restart, store
  <2>3. CASE Signal
    BY <2>3 DEF Signal, store
  <2>4. CASE Exit
    BY <2>4 DEF Exit, memory, store
  <2>5. ASSUME NEW s \in Sources, SourceAnswers(s)
        PROVE  TypeOK'
    <3>1. RowsOf(s) \subseteq Sample
      BY DEF RowsOf, Sample
    <3>2. QED
      BY <2>5, <3>1 DEF SourceAnswers, collectorRest, store
  <2>6. ASSUME NEW s \in Sources, SourceFails(s)
        PROVE  TypeOK'
    BY <2>6 DEF SourceFails, collectorRest, store
  <2>7. CASE StartRound
    <3>1. QueryTsAt(now, Minute) \in Nat
      BY QueryTsRange
    <3>2. QED
      BY <2>7, <3>1 DEF StartRound, collectorRest, store
  <2>8. CASE StopAtTop
    BY <2>8 DEF StopAtTop, collectorRest, store
  <2>9. CASE AllJoined
    BY <2>9 DEF AllJoined, collectorRest, store
  <2>10. ASSUME NEW r \in batch, InsertRow(r)
         PROVE  TypeOK'
    <3>1. [id |-> nextId, boot |-> boots, src |-> r.src, card |-> r.card,
           ts |-> r.ts] \in DbRow
      BY DEF DbRow, Sample
    <3>2. QED
      BY <2>10, <3>1 DEF InsertRow, collectorRest
  <2>11. ASSUME NEW r \in batch, SkipRow(r)
         PROVE  TypeOK'
    BY <2>11 DEF SkipRow, collectorRest, store
  <2>12. CASE FinishRound
    <3>1. NextAligned(now, Interval) \in Nat
      BY NextAlignedIsMultiple
    <3>2. QED
      BY <2>12, <3>1 DEF FinishRound, collectorRest, store
  <2>13. CASE WakeUp
    BY <2>13 DEF WakeUp, collectorRest, store
  <2>14. CASE RunRetention
    BY <2>14 DEF RunRetention, retentionRest
  <2>15. CASE RetentionWakes
    BY <2>15 DEF RetentionWakes, retentionRest
  <2>16. CASE UNCHANGED vars
    BY <2>16 DEF vars, memory, store
  <2>17. QED
    BY <2>1, <2>2, <2>3, <2>4, <2>5, <2>6, <2>7, <2>8, <2>9, <2>10, <2>11,
       <2>12, <2>13, <2>14, <2>15, <2>16
       DEF Next, Collect, CollectorStep, Insert, RetentionStep, Terminated
<1>3. QED
  BY <1>1, <1>2, PTL DEF Spec
-----------------------------------------------------------------------------
(***************************************************************************)
(* The order of the table.  TableInOrder is not inductive: it says nothing *)
(* of the row about to be inserted.  The strengthening follows query_ts    *)
(* round the loop: what a process has stored is no later than query_ts,    *)
(* earlier than it until the first INSERT of the round, and then before    *)
(* every row still in the batch; the sleep ends no sooner than the aligned *)
(* time after a reading of the clock that was two minutes past query_ts,   *)
(* and so, with WholeMinutes, in a minute whose query_ts is a later one.   *)
(***************************************************************************)
StoreInv ==
  /\ \A d \in table : d.id < nextId /\ d.boot <= boots
  /\ \A d \in table : d.ts + 2 * Minute <= now

BatchInv ==
  /\ \A r \in batch : r.ts = queryTs
  /\ queryTs + 2 * Minute <= now
  /\ collector \notin {"collect", "insert"} => batch = {}

OwnRowsInv ==
  \A d \in table : d.boot = boots =>
    /\ d.ts <= queryTs
    /\ collector = "collect" => d.ts < queryTs
    /\ collector = "insert" => d.ts < queryTs \/ \A r \in batch : Before(d, r)
    /\ collector = "top" => d.ts < QueryTsAt(now, Minute)

SleepInv ==
  collector = "sleep" =>
    \E t \in 0 .. now : /\ queryTs + 2 * Minute <= t
                        /\ wake = NextAligned(t, Interval)

OrderInv == StoreInv /\ BatchInv /\ OwnRowsInv /\ SleepInv /\ TableInOrder

\* A step that touches neither the table nor the round keeps the order.
LEMMA OrderKept ==
  ASSUME TypeOK, OrderInv,
         UNCHANGED <<now, boots, collector, queryTs, batch, wake, store>>
  PROVE  OrderInv'
  BY DEF OrderInv, StoreInv, BatchInv, OwnRowsInv, SleepInv, TableInOrder, store

\* The clock moves on.
LEMMA OrderTick ==
  ASSUME TypeOK, OrderInv, Tick
  PROVE  OrderInv'
<1> USE SchedulerAssumption DEF TypeOK
<1>1. now' = now + 1 /\ UNCHANGED <<boots, collector, queryTs, batch, wake, store>>
  BY DEF Tick, memory
<1>2. StoreInv'
  BY <1>1 DEF OrderInv, StoreInv, store, DbRow
<1>3. BatchInv'
  BY <1>1 DEF OrderInv, BatchInv
<1>4. OwnRowsInv'
  <2>1. /\ QueryTsAt(now, Minute) \in Int /\ QueryTsAt(now', Minute) \in Int
        /\ QueryTsAt(now, Minute) <= QueryTsAt(now', Minute)
    <3>1. now \in Int /\ now' \in Int /\ now <= now'
      BY <1>1
    <3>2. QED
      BY <3>1, QueryTsRange, QueryTsMonotone
  <2>2. \A d \in table : d.ts \in Int
    BY DEF DbRow
  <2>3. QED
    BY <1>1, <2>1, <2>2 DEF OrderInv, OwnRowsInv, store
<1>5. SleepInv'
  BY <1>1 DEF OrderInv, SleepInv
<1>6. QED
  BY <1>1, <1>2, <1>3, <1>4, <1>5 DEF OrderInv, TableInOrder, store

\* A new process has no rows yet, and its loop starts from the top.
LEMMA OrderRestart ==
  ASSUME TypeOK, OrderInv, Restart
  PROVE  OrderInv'
<1> USE SchedulerAssumption DEF TypeOK
<1>1. /\ boots' = boots + 1 /\ collector' = "top" /\ queryTs' = 0 /\ batch' = {}
      /\ now' = now /\ table' = table /\ nextId' = nextId
  BY DEF Restart, store
<1>2. \A d \in table : d.boot # boots'
  BY <1>1 DEF OrderInv, StoreInv, DbRow
<1>3. StoreInv'
  BY <1>1 DEF OrderInv, StoreInv, DbRow
<1>4. QED
  BY <1>1, <1>2, <1>3
     DEF OrderInv, BatchInv, OwnRowsInv, SleepInv, TableInOrder

\* A round starts: its query_ts is later than that of every row before it.
LEMMA OrderStartRound ==
  ASSUME TypeOK, OrderInv, StartRound
  PROVE  OrderInv'
<1> USE SchedulerAssumption DEF TypeOK
<1>1. /\ collector = "top" /\ collector' = "collect" /\ batch' = {}
      /\ queryTs' = QueryTsAt(now, Minute)
      /\ UNCHANGED <<now, boots, table, nextId>>
  BY DEF StartRound, collectorRest, store
<1>2. QueryTsAt(now, Minute) \in Int /\ QueryTsAt(now, Minute) + 2 * Minute <= now
  BY QueryTsRange
<1>3. \A d \in table : d.ts \in Int
  BY DEF DbRow
<1>4. OwnRowsInv'
  BY <1>1, <1>2, <1>3 DEF OrderInv, OwnRowsInv
<1>5. QED
  BY <1>1, <1>2, <1>4
     DEF OrderInv, StoreInv, BatchInv, SleepInv, TableInOrder

\* The samples of a source all carry the round's query_ts.
LEMMA OrderSourceAnswers ==
  ASSUME TypeOK, OrderInv, NEW s \in Sources, SourceAnswers(s)
  PROVE  OrderInv'
<1>1. /\ collector = "collect"
      /\ UNCHANGED <<now, boots, collector, queryTs, wake, table, nextId>>
  BY DEF SourceAnswers, collectorRest, store
<1>2. \A r \in batch' : r.ts = queryTs
  BY DEF SourceAnswers, OrderInv, BatchInv, RowsOf
<1>3. QED
  BY <1>1, <1>2
     DEF OrderInv, StoreInv, BatchInv, OwnRowsInv, SleepInv, TableInOrder

\* The rows are sorted; nothing of this round is stored yet.
LEMMA OrderAllJoined ==
  ASSUME TypeOK, OrderInv, AllJoined
  PROVE  OrderInv'
<1>1. /\ collector = "collect" /\ collector' = "insert"
      /\ UNCHANGED <<now, boots, queryTs, batch, wake, table, nextId>>
  BY DEF AllJoined, collectorRest, store
<1>2. QED
  BY <1>1 DEF OrderInv, StoreInv, BatchInv, OwnRowsInv, SleepInv, TableInOrder

\* The row inserted is the first of the batch and takes the highest id.
LEMMA OrderInsertRow ==
  ASSUME TypeOK, OrderInv, NEW r \in batch, InsertRow(r)
  PROVE  OrderInv'
<1> USE DEF TypeOK
<1> DEFINE d == [id |-> nextId, boot |-> boots, src |-> r.src, card |-> r.card,
                 ts |-> r.ts]
<1>1. /\ collector = "insert" /\ IsFirst(r, batch)
      /\ batch' = batch \ {r} /\ table' = table \cup {d} /\ nextId' = nextId + 1
      /\ UNCHANGED <<now, boots, collector, queryTs, wake>>
  BY DEF InsertRow, collectorRest
<1>2. d.ts = queryTs /\ d.id = nextId /\ d.boot = boots
      /\ d.src = r.src /\ d.card = r.card
  BY DEF OrderInv, BatchInv
<1>3. StoreInv'
  BY <1>1, <1>2 DEF OrderInv, StoreInv, BatchInv, DbRow
<1>4. BatchInv'
  BY <1>1 DEF OrderInv, BatchInv
<1>5. OwnRowsInv'
  <2>1. \A b \in batch' : Before(d, b)
    BY <1>1, <1>2 DEF IsFirst, Before
  <2>2. QED
    BY <1>1, <1>2, <2>1 DEF OrderInv, OwnRowsInv
<1>6. TableInOrder'
  <2>1. \A e \in table : e.boot = boots =>
          e.ts < d.ts \/ (e.ts = d.ts /\ Before(e, d))
    BY <1>1, <1>2 DEF OrderInv, OwnRowsInv, Before, DbRow, Sample
  <2>2. \A e \in table : e.id \in Nat /\ e.id < nextId
    BY DEF OrderInv, StoreInv, DbRow
  <2>3. QED
    BY <1>1, <1>2, <2>1, <2>2 DEF OrderInv, TableInOrder
<1>7. SleepInv'
  BY <1>1 DEF SleepInv
<1>8. QED
  BY <1>3, <1>4, <1>5, <1>6, <1>7 DEF OrderInv

\* A skipped row leaves the others in order.
LEMMA OrderSkipRow ==
  ASSUME TypeOK, OrderInv, NEW r \in batch, SkipRow(r)
  PROVE  OrderInv'
<1>1. /\ collector = "insert" /\ batch' \subseteq batch
      /\ UNCHANGED <<now, boots, collector, queryTs, wake, table, nextId>>
  BY DEF SkipRow, collectorRest, store
<1>2. QED
  BY <1>1 DEF OrderInv, StoreInv, BatchInv, OwnRowsInv, SleepInv, TableInOrder

\* The target of the sleep is set from a reading two minutes past query_ts.
LEMMA OrderFinishRound ==
  ASSUME TypeOK, OrderInv, FinishRound
  PROVE  OrderInv'
<1> USE SchedulerAssumption DEF TypeOK
<1>1. /\ batch = {} /\ wake' = NextAligned(now, Interval)
      /\ collector' \in {"done", "sleep"}
      /\ UNCHANGED <<now, boots, queryTs, batch, table, nextId>>
  BY DEF FinishRound, collectorRest, store
<1>2. SleepInv'
  BY <1>1 DEF OrderInv, BatchInv, SleepInv
<1>3. QED
  BY <1>1, <1>2 DEF OrderInv, StoreInv, BatchInv, OwnRowsInv, TableInOrder

\* The loop comes back to its top in a minute whose query_ts is a later one.
LEMMA OrderWakeUp ==
  ASSUME WholeMinutes, TypeOK, OrderInv, WakeUp
  PROVE  OrderInv'
<1> USE SchedulerAssumption DEF TypeOK
<1>1. /\ collector = "sleep"
      /\ UNCHANGED <<now, boots, queryTs, batch, wake, table, nextId>>
  BY DEF WakeUp, collectorRest, store
<1>2. CASE collector' = "done"
  BY <1>1, <1>2 DEF OrderInv, StoreInv, BatchInv, OwnRowsInv, SleepInv, TableInOrder
<1>3. CASE collector' = "top" /\ now >= wake
  <2>1. PICK t \in 0 .. now : /\ queryTs + 2 * Minute <= t
                              /\ wake = NextAligned(t, Interval)
    BY <1>1 DEF OrderInv, SleepInv
  <2>2. t \in Nat /\ now \in Int /\ now >= NextAligned(t, Interval)
    BY <1>3, <2>1
  <2>3. t - 2 * Minute < QueryTsAt(now, Minute)
    BY <2>2, RoundsQueryDistinctMinutes DEF WholeMinutes
  <2>4. QueryTsAt(now, Minute) \in Int
    BY <2>2, QueryTsRange
  <2>5. queryTs < QueryTsAt(now, Minute)
    BY <2>1, <2>2, <2>3, <2>4
  <2>6. \A d \in table : d.ts \in Int
    BY DEF DbRow
  <2>7. OwnRowsInv'
    BY <1>1, <1>3, <2>4, <2>5, <2>6 DEF OrderInv, OwnRowsInv
  <2>8. QED
    BY <1>1, <1>3, <2>7 DEF OrderInv, StoreInv, BatchInv, SleepInv, TableInOrder
<1>4. QED
  BY <1>2, <1>3 DEF WakeUp

\* The retention task only takes rows away.
LEMMA OrderRunRetention ==
  ASSUME TypeOK, OrderInv, RunRetention
  PROVE  OrderInv'
<1>1. table' \subseteq table
  BY DEF RunRetention
<1>2. UNCHANGED <<now, boots, collector, queryTs, batch, wake, nextId>>
  BY DEF RunRetention, retentionRest
<1>3. QED
  BY <1>1, <1>2
     DEF OrderInv, StoreInv, BatchInv, OwnRowsInv, SleepInv, TableInOrder

\* Every step keeps the order.
LEMMA OrderStep ==
  ASSUME WholeMinutes, TypeOK, OrderInv, [Next]_vars
  PROVE  OrderInv'
<1>1. CASE Signal
  BY <1>1, OrderKept DEF Signal
<1>2. CASE Exit
  BY <1>2, OrderKept DEF Exit, memory
<1>3. CASE StopAtTop
  <2>1. collector = "top" /\ collector' = "done"
        /\ UNCHANGED <<now, boots, queryTs, batch, wake, table, nextId>>
    BY <1>3 DEF StopAtTop, collectorRest, store
  <2>2. QED
    BY <2>1 DEF OrderInv, StoreInv, BatchInv, OwnRowsInv, SleepInv, TableInOrder
<1>4. ASSUME NEW s \in Sources, SourceFails(s)
      PROVE  OrderInv'
  BY <1>4, OrderKept DEF SourceFails, collectorRest
<1>5. CASE RetentionWakes
  BY <1>5, OrderKept DEF RetentionWakes, retentionRest, store
<1>6. CASE UNCHANGED vars
  BY <1>6, OrderKept DEF vars, memory
<1>7. QED
  BY <1>1, <1>2, <1>3, <1>4, <1>5, <1>6, OrderTick, OrderRestart,
     OrderStartRound, OrderSourceAnswers, OrderAllJoined, OrderInsertRow,
     OrderSkipRow, OrderFinishRound, OrderWakeUp, OrderRunRetention
     DEF Next, Collect, CollectorStep, Insert, RetentionStep, Terminated

\* The invariant of the loop, for every interval of whole minutes.
THEOREM OrderInvariant == WholeMinutes => (Spec => []OrderInv)
<1> SUFFICES ASSUME WholeMinutes
             PROVE  Spec => []OrderInv
  OBVIOUS
<1>1. Init => OrderInv
  BY SchedulerAssumption DEF OrderInv, StoreInv, BatchInv,
     OwnRowsInv, SleepInv, TableInOrder, Init
<1>2. TypeOK /\ OrderInv /\ [Next]_vars => OrderInv'
  BY OrderStep
<1>3. QED
  BY <1>1, <1>2, TypeCorrect, PTL DEF Spec

\* With an interval of whole minutes a process inserts its rows in the order of
\* query_ts and, within a round, of source and card; it inserts no row twice.
THEOREM InsertionsInOrder == WholeMinutes => (Spec => []TableInOrder)
<1>1. OrderInv => TableInOrder
  BY DEF OrderInv
<1>2. QED
  BY <1>1, OrderInvariant, PTL

-----------------------------------------------------------------------------
(***************************************************************************)
(* No sample is forgotten.  Inductively: at every point of the loop what   *)
(* the sources answered is still in the batch or settled, the batch is     *)
(* empty outside the round, and main leaves only when the collector has.   *)
(***************************************************************************)
WholeInv ==
  /\ \A r \in answered : r \in batch \/ r \in lost \/ Stored(r) \/ Expired(r)
  /\ collector \notin {"collect", "insert"} => batch = {}
  /\ proc = "exited" => collector = "done"

\* A row stays settled while rows are only added to the table.
LEMMA SettledKept ==
  ASSUME NEW r, now' = now, boots' = boots, table \subseteq table',
         Stored(r) \/ Expired(r)
  PROVE  Stored(r)' \/ Expired(r)'
  BY DEF Stored, Expired

\* A row that is inserted is settled by being in the table.
LEMMA WholeInsertRow ==
  ASSUME TypeOK, WholeInv, NEW r \in batch, InsertRow(r)
  PROVE  WholeInv'
<1> DEFINE d == [id |-> nextId, boot |-> boots, src |-> r.src, card |-> r.card,
                 ts |-> r.ts]
<1>1. /\ collector = "insert" /\ batch' = batch \ {r} /\ table' = table \cup {d}
      /\ UNCHANGED <<now, proc, boots, collector, answered, lost>>
  BY DEF InsertRow, collectorRest
<1>2. Stored(r)'
  <2>1. d \in table' /\ d.boot = boots' /\ d.ts = r.ts /\ d.src = r.src
        /\ d.card = r.card
    BY <1>1
  <2>2. QED
    BY <2>1, Zenon DEF Stored
<1>3. ASSUME NEW q \in answered
      PROVE  q \in batch' \/ q \in lost' \/ Stored(q)' \/ Expired(q)'
  BY <1>1, <1>2, SettledKept DEF WholeInv
<1>4. QED
  BY <1>1, <1>3 DEF WholeInv

\* A row that is deleted is settled by its age.
LEMMA WholeRunRetention ==
  ASSUME TypeOK, WholeInv, RunRetention
  PROVE  WholeInv'
<1>1. UNCHANGED <<now, proc, boots, collector, batch, answered, lost>>
  BY DEF RunRetention, retentionRest
<1>2. \A d \in table : d \in table' \/ d.ts < now - Retain
  BY DEF RunRetention, Expired
<1>3. ASSUME NEW r, Stored(r) \/ Expired(r)
      PROVE  Stored(r)' \/ Expired(r)'
  BY <1>1, <1>2, <1>3 DEF Stored, Expired
<1>4. QED
  BY <1>1, <1>3 DEF WholeInv

\* What is old enough to be deleted stays so.
LEMMA WholeTick ==
  ASSUME TypeOK, WholeInv, Tick
  PROVE  WholeInv'
<1> USE SchedulerAssumption DEF TypeOK
<1>1. /\ now' = now + 1
      /\ UNCHANGED <<proc, boots, collector, batch, answered, lost, table>>
  BY DEF Tick, memory, store
<1>2. \A r \in answered : r.ts \in Int
  BY DEF Sample
<1>3. QED
  BY <1>1, <1>2 DEF WholeInv, Stored, Expired

\* Every step keeps the answers in the batch or settled.
LEMMA WholeStep ==
  ASSUME TypeOK, WholeInv, [Next]_vars
  PROVE  WholeInv'
<1> USE DEF WholeInv, Stored, Expired
<1>1. CASE Restart
  BY <1>1 DEF Restart
<1>2. CASE Signal
  BY <1>2 DEF Signal, store
<1>3. CASE Exit
  BY <1>3 DEF Exit, memory, store
<1>4. CASE StartRound
  BY <1>4 DEF StartRound, Alive, collectorRest
<1>5. CASE StopAtTop
  BY <1>5 DEF StopAtTop, Alive, collectorRest, store
<1>6. ASSUME NEW s \in Sources, SourceAnswers(s)
      PROVE  WholeInv'
  BY <1>6 DEF SourceAnswers, Alive, collectorRest, store
<1>7. ASSUME NEW s \in Sources, SourceFails(s)
      PROVE  WholeInv'
  BY <1>7 DEF SourceFails, Alive, collectorRest, store
<1>8. CASE AllJoined
  BY <1>8 DEF AllJoined, Alive, collectorRest, store
<1>9. ASSUME NEW r \in batch, SkipRow(r)
      PROVE  WholeInv'
  BY <1>9 DEF SkipRow, Alive, collectorRest, store
<1>10. CASE FinishRound
  BY <1>10 DEF FinishRound, Alive, collectorRest, store
<1>11. CASE WakeUp
  BY <1>11 DEF WakeUp, Alive, collectorRest, store
<1>12. CASE RetentionWakes
  BY <1>12 DEF RetentionWakes, retentionRest
<1>13. CASE UNCHANGED vars
  BY <1>13 DEF vars, memory, store
<1>14. QED
  BY <1>1, <1>2, <1>3, <1>4, <1>5, <1>6, <1>7, <1>8, <1>9, <1>10, <1>11,
     <1>12, <1>13, WholeInsertRow, WholeRunRetention, WholeTick
     DEF Next, Collect, CollectorStep, Insert, RetentionStep, Terminated

\* So they always are.
LEMMA WholeInvariant == Spec => []WholeInv
<1>1. Init => WholeInv
  BY DEF Init, WholeInv
<1>2. TypeOK /\ WholeInv /\ [Next]_vars => WholeInv'
  BY WholeStep
<1>3. QED
  BY <1>1, <1>2, TypeCorrect, PTL DEF Spec

\* When a round is over every sample its sources returned is stored, logged as
\* failed, or too old to keep, whatever failed in the round.
THEOREM RoundsAreWhole == Spec => []RoundIsWhole
<1>1. WholeInv => RoundIsWhole
  BY DEF WholeInv, RoundIsWhole, Settled
<1>2. QED
  BY <1>1, WholeInvariant, PTL

\* A process that exits after a signal has dropped no row on the way.
THEOREM GracefulExitsAreWhole == Spec => []GracefulExitIsWhole
<1>1. WholeInv => GracefulExitIsWhole
  BY DEF WholeInv, GracefulExitIsWhole, Settled
<1>2. QED
  BY <1>1, WholeInvariant, PTL

-----------------------------------------------------------------------------
\* An INSERT is the log's Record.
LEMMA InsertRecords ==
  ASSUME TypeOK, OrderInv, NEW r \in batch, InsertRow(r)
  PROVE  Log!Record
<1> USE SchedulerAssumption DEF TypeOK
<1> DEFINE d == [id |-> nextId, boot |-> boots, src |-> r.src, card |-> r.card,
                 ts |-> r.ts]
<1>1. /\ collector = "insert" /\ table' = table \cup {d} /\ now' = now
  BY DEF InsertRow, collectorRest
<1>2. d \in Log!Row
  BY DEF Log!Row, Sample
<1>3. \A e \in table : e.id < d.id /\ e.boot <= d.boot
  BY DEF OrderInv, StoreInv
<1>4. \A e \in table : e.boot = d.boot => Log!Follows(d, e)
  <2>1. d.ts = queryTs /\ d.boot = boots /\ d.src = r.src /\ d.card = r.card
    BY DEF OrderInv, BatchInv
  <2>2. \A e \in table : e.boot = boots =>
          e.ts < queryTs \/ (e.ts = queryTs /\ Before(e, r))
    BY <1>1 DEF OrderInv, OwnRowsInv, DbRow
  <2>3. QED
    BY <2>1, <2>2 DEF Log!Follows, Before
<1>5. d.ts + 2 * Minute <= now
  BY DEF OrderInv, BatchInv
<1>6. QED
  BY <1>1, <1>2, <1>3, <1>4, <1>5 DEF Log!Record

\* The reporter implements the log its readers rely on: every step of every task
\* appends the log's next row, drops what has expired, lets time pass, or is
\* invisible in the table.
THEOREM SchedulerKeepsLog == WholeMinutes => (Spec => KeepsLog)
<1> SUFFICES ASSUME WholeMinutes
             PROVE  Spec => KeepsLog
  OBVIOUS
<1>1. Init => Log!Init
  BY SchedulerAssumption DEF Init, Log!Init
<1>2. TypeOK /\ OrderInv /\ [Next]_vars => [Log!Next]_<<now, table>>
  <2> SUFFICES ASSUME TypeOK, OrderInv, [Next]_vars
               PROVE  [Log!Next]_<<now, table>>
    OBVIOUS
  <2> USE SchedulerAssumption DEF Log!Next
  <2>1. CASE Tick
    BY <2>1 DEF Tick, store, Log!Advance, TypeOK
  <2>2. CASE RunRetention
    <3>1. now' = now /\ (table' = {r \in table : ~Expired(r)} \/ table' = table)
      BY <2>2 DEF RunRetention, retentionRest
    <3>2. {r \in table : ~Expired(r)} = {r \in table : r.ts >= now - Retain}
      BY DEF TypeOK, DbRow, Expired
    <3>3. QED
      BY <3>1, <3>2 DEF Log!Expire
  <2>3. ASSUME NEW r \in batch, InsertRow(r)
        PROVE  Log!Record
    BY <2>3, InsertRecords
  <2>4. CASE Restart \/ Signal \/ Exit \/ Collect \/ RetentionWakes
             \/ UNCHANGED vars
    BY <2>4 DEF Restart, Signal, Exit, Collect, SourceAnswers, SourceFails,
       RetentionWakes, vars, memory, store, collectorRest, retentionRest
  <2>5. CASE StartRound \/ StopAtTop \/ AllJoined \/ FinishRound \/ WakeUp
    BY <2>5 DEF StartRound, StopAtTop, AllJoined, FinishRound, WakeUp, store,
       collectorRest
  <2>6. ASSUME NEW r \in batch, SkipRow(r)
        PROVE  UNCHANGED <<now, table>>
    BY <2>6 DEF SkipRow, collectorRest, store
  <2>7. QED
    BY <2>1, <2>2, <2>3, <2>4, <2>5, <2>6
       DEF Next, CollectorStep, Insert, RetentionStep, Terminated
<1>3. QED
  BY <1>1, <1>2, TypeCorrect, OrderInvariant, PTL DEF Spec, KeepsLog, Log!Spec
-----------------------------------------------------------------------------
(***************************************************************************)
(* How often a sample repeats, for any interval.  A slot is the time from  *)
(* one aligned time to the next.  Each round of a process starts in a      *)
(* later slot than the one before it, since the sleep between them ends at *)
(* an aligned time; so in the minute that query_ts stands for there have   *)
(* been no more rounds than slots, up to that of the round in progress.    *)
(***************************************************************************)
Slot(t) == t \div Interval

\* The first slot of the minute for which queryTs is queried.
FirstSlot == Slot(queryTs + 2 * Minute)

Copies(b, r) ==
  {e \in table : e.boot = b /\ e.ts = r.ts /\ e.src = r.src /\ e.card = r.card}

BootsInv == IsFiniteSet(table) /\ \A d \in table : d.boot <= boots

\* What this process has inserted, if anything, its latest round having started at t.
RoundAt(t) ==
  /\ t <= now /\ QueryTsAt(t, Minute) = queryTs
  /\ collector = "sleep" => \E u \in t .. now : wake = NextAligned(u, Interval)
  /\ collector = "top" => Slot(t) < Slot(now)
  /\ \A d \in table : d.boot = boots => d.ts <= queryTs
  /\ \A r \in batch : r.ts = queryTs
  /\ \A s \in Sources : \A r \in RowsOf(s) :
       Cardinality(Copies(boots, r)) <=
         Slot(t) - FirstSlot + (IF collector = "collect" \/ r \in batch THEN 0 ELSE 1)

Fresh == collector \in {"top", "done"} /\ \A d \in table : d.boot # boots

RoundsInv == Fresh \/ \E t \in Nat : t >= 2 * Minute /\ RoundAt(t)

CopiesInv == BootsInv /\ RoundsInv /\ CopiesBounded

\* A quotient that a time below the next multiple cannot exceed.
LEMMA DivAtMost ==
  ASSUME NEW i \in Nat \ {0}, NEW t \in Int, NEW q \in Int, t < i * q + i
  PROVE  t \div i <= q
<1>1. t \div i \in Int /\ t % i \in 0 .. (i - 1) /\ t = i * (t \div i) + (t % i)
  BY DivMod
<1>2. CASE q < t \div i
  <2>1. i * q + i <= i * (t \div i)
    BY <1>1, <1>2, NextMultiple
  <2>2. i * q \in Int /\ i * (t \div i) \in Int
    BY <1>1
  <2>3. QED
    BY <1>1, <2>1, <2>2
<1>3. QED
  BY <1>1, <1>2

\* A later time is in no earlier slot.
LEMMA SlotMonotone ==
  ASSUME NEW s \in Int, NEW t \in Int, s <= t
  PROVE  Slot(s) \in Int /\ Slot(t) \in Int /\ Slot(s) <= Slot(t)
<1> DEFINE i == Interval
           q == t \div i
<1>0. i \in Nat \ {0}
  BY SchedulerAssumption
<1> HIDE DEF i
<1>1. q \in Int /\ t % i \in 0 .. (i - 1) /\ t = i * q + (t % i)
  BY <1>0, DivMod
<1>2. s < i * q + i
  <2>1. i * q \in Int
    BY <1>0, <1>1
  <2>2. QED
    BY <1>0, <1>1, <2>1
<1>3. s \div i <= q
  BY <1>0, <1>1, <1>2, DivAtMost
<1>4. s \div i \in Int
  BY <1>0, DivMod
<1>5. QED
  BY <1>1, <1>3, <1>4 DEF Slot, i

\* An aligned time is in a later slot than the time it was computed from.
LEMMA SlotOfAligned ==
  ASSUME NEW u \in Nat, NEW t \in Int, t >= NextAligned(u, Interval)
  PROVE  Slot(u) < Slot(t)
<1> DEFINE i == Interval
           q == u \div i
<1>0. i \in Nat \ {0}
  BY SchedulerAssumption
<1> HIDE DEF i
<1>1. q \in Int /\ u % i \in 0 .. (i - 1) /\ u = i * q + (u % i)
  BY <1>0, DivMod
<1>2. i * q \in Int /\ NextAligned(u, i) = i * q + i
  BY <1>0, <1>1 DEF NextAligned
<1>3. t \div i \in Int /\ t % i \in 0 .. (i - 1) /\ t = i * (t \div i) + (t % i)
  BY <1>0, DivMod
<1>4. ASSUME t \div i <= q
      PROVE  FALSE
  <2>1. t < i * (t \div i) + i /\ i * (t \div i) \in Int
    BY <1>0, <1>3
  <2>2. i * (t \div i) <= i * q
    <3>1. CASE t \div i = q
      BY <1>2, <3>1
    <3>2. CASE t \div i < q
      <4>1. i * (t \div i) + i <= i * q
        BY <1>0, <1>1, <1>3, <3>2, NextMultiple
      <4>2. QED
        BY <1>0, <1>2, <2>1, <4>1
    <3>3. QED
      BY <1>1, <1>3, <1>4, <3>1, <3>2
  <2>3. t >= i * q + i
    BY <1>2 DEF i
  <2>4. QED
    BY <1>0, <1>2, <2>1, <2>2, <2>3
<1>5. q < t \div i
  <2>1. q \in Int /\ t \div i \in Int
    BY <1>1, <1>3
  <2> HIDE DEF q
  <2>2. QED
    BY <1>4, <2>1
<1>6. QED
  BY <1>5 DEF Slot, i

\* A minute has no more slots than RoundsPerMinute, counted up to any of its times.
LEMMA SlotsOfMinute ==
  ASSUME NEW t \in Nat
  PROVE  Slot(t) - Slot(QueryTsAt(t, Minute) + 2 * Minute) + 1 <= RoundsPerMinute
<1> DEFINE m == Minute
           i == Interval
           u == t - 2 * m
           A == QueryTsAt(t, m) + 2 * m
           r == u % m
           k == (u \div m) + 2
           a == A \div i
           p == A % i
           c == (m - 1) \div i
           s == (m - 1) % i
<1>0. m \in Nat \ {0} /\ i \in Nat \ {0} /\ m - 1 \in Int /\ u \in Int
  BY SchedulerAssumption
<1> HIDE DEF m, i
<1>1. u \div m \in Int /\ r \in 0 .. (m - 1) /\ u = m * (u \div m) + r
  BY <1>0, DivMod
<1>2. k \in Int /\ A \in Int /\ A = m * k /\ t = A + r
  <2>1. A = t - r
    BY <1>0, <1>1 DEF QueryTsAt
  <2>2. m * k = m * (u \div m) + 2 * m
    BY <1>0, <1>1
  <2>3. QED
    BY <1>0, <1>1, <2>1, <2>2
<1> HIDE DEF A, k
<1>3. a \in Int /\ p \in 0 .. (i - 1) /\ A = i * a + p
  BY <1>0, <1>2, DivMod
<1>4. c \in Int /\ s \in 0 .. (i - 1) /\ m - 1 = i * c + s
  BY <1>0, DivMod
<1>5. c >= 0 /\ i * c \in Int
  <2>1. CASE c < 0
    <3>1. i * c + i <= i * 0
      BY <1>0, <1>4, <2>1, NextMultiple
    <3>2. i * c \in Int /\ i * 0 = 0
      BY <1>0, <1>4
    <3>3. QED
      BY <1>0, <1>4, <3>1, <3>2
  <2>2. QED
    BY <1>0, <1>4, <2>1
<1>6. (m + i - 1) \div i = c + 1
  <2>1. m + i - 1 = i * (c + 1) + s
    BY <1>0, <1>4
  <2>2. m + i - 1 \in Int /\ c + 1 \in Int
    BY <1>0, <1>4
  <2>3. (m + i - 1) \div i <= c + 1
    BY <1>0, <1>4, <2>1, <2>2, DivAtMost
  <2> DEFINE q == (m + i - 1) \div i
  <2>4. q \in Int /\ (m + i - 1) % i \in 0 .. (i - 1) /\ m + i - 1 = i * q + ((m + i - 1) % i)
    BY <1>0, <2>2, DivMod
  <2>5. ~ (q < c + 1)
    <3>1. ASSUME q < c + 1
          PROVE  FALSE
      <4>1. i * q + i <= i * (c + 1)
        BY <1>0, <2>2, <2>4, <3>1, NextMultiple
      <4>2. i * q \in Int /\ i * (c + 1) \in Int
        BY <1>0, <2>2, <2>4
      <4> HIDE DEF q
      <4>3. QED
        BY <1>0, <1>4, <2>1, <2>4, <4>1, <4>2
    <3>2. QED
      BY <3>1
  <2>6. QED
    BY <2>2, <2>3, <2>4, <2>5
<1> HIDE DEF a, p, c, s, u, r
<1>7. i * a \in Int /\ t \in Int /\ t = i * a + p + r
  BY <1>0, <1>2, <1>3
<1>8. t \div i <= a + c + 1
  <2>1. i * (a + c + 1) = i * a + i * c + i
    BY <1>0, <1>3, <1>4
  <2>2. t < i * (a + c + 1) + i
    BY <1>0, <1>1, <1>3, <1>4, <1>5, <1>7, <2>1
  <2>3. a + c + 1 \in Int
    BY <1>3, <1>4
  <2>4. QED
    BY <1>0, <1>7, <2>2, <2>3, DivAtMost
<1>9. ASSUME m % i = 0
      PROVE  t \div i <= a + c
  <2> DEFINE j == m \div i
  <2>1. j \in Int /\ m = i * j
    BY <1>0, <1>9, DivMod
  <2> HIDE DEF j
  <2>2. A = i * (j * k) /\ j * k \in Int
    <3>1. j * k \in Int /\ (i * j) * k = i * (j * k)
      BY <1>0, <1>2, <2>1
    <3>2. A = (i * j) * k
      BY <1>2, <2>1
    <3>3. QED
      BY <3>1, <3>2
  <2>3. p = 0
    BY <1>0, <1>2, <2>2, MultipleMod DEF p
  <2>4. i * (a + c) = i * a + i * c
    BY <1>0, <1>3, <1>4
  <2>5. t < i * (a + c) + i
    BY <1>0, <1>1, <1>3, <1>4, <1>5, <1>7, <2>3, <2>4
  <2>6. a + c \in Int
    BY <1>3, <1>4
  <2>7. QED
    BY <1>0, <1>7, <2>5, <2>6, DivAtMost
<1>10. ASSUME i % m = 0
       PROVE  t \div i <= a
  <2> DEFINE j == i \div m
             l == k - j * a
  <2>1. j \in Int /\ i = m * j
    BY <1>0, <1>10, DivMod
  <2>2. l \in Int /\ p = m * l
    BY <1>0, <1>2, <1>3, <2>1
  <2>3. l < j
    <3>1. CASE l = j
      BY <1>0, <1>3, <2>1, <2>2, <3>1
    <3>2. CASE j < l
      <4>1. m * j + m <= m * l
        BY <1>0, <2>1, <2>2, <3>2, NextMultiple
      <4>2. i + m <= p
        BY <2>1, <2>2, <4>1
      <4>3. QED
        BY <1>0, <1>3, <4>2
    <3> HIDE DEF j, l
    <3>3. QED
      BY <2>1, <2>2, <3>1, <3>2
  <2>4. p + m <= i
    <3>1. m * l + m <= m * j
      BY <1>0, <2>1, <2>2, <2>3, NextMultiple
    <3>2. QED
      BY <2>1, <2>2, <3>1
  <2>5. t < i * a + i
    BY <1>0, <1>1, <1>3, <1>7, <2>4
  <2>6. QED
    BY <1>0, <1>3, <1>7, <2>5, DivAtMost
<1>11. t \div i \in Int
  BY <1>0, <1>7, DivMod
<1>12. RoundsPerMinute = (c + 1) + (IF i % m = 0 \/ m % i = 0 THEN 0 ELSE 1)
  BY <1>6 DEF RoundsPerMinute, m, i
<1>13. (t \div i) - a + 1 <= RoundsPerMinute
  <2>1. CASE i % m = 0
    BY <1>3, <1>4, <1>5, <1>10, <1>11, <1>12, <2>1
  <2>2. CASE m % i = 0
    BY <1>3, <1>4, <1>5, <1>9, <1>11, <1>12, <2>2
  <2>3. CASE i % m # 0 /\ m % i # 0
    BY <1>3, <1>4, <1>5, <1>8, <1>11, <1>12, <2>3
  <2>4. QED
    BY <2>1, <2>2, <2>3
<1>14. QED
  BY <1>13 DEF Slot, a, A, m, i

\* The bound is a number.
LEMMA RoundsPerMinuteType ==
  RoundsPerMinute \in Int
<1> DEFINE q == (Minute + Interval - 1) \div Interval
           e == IF Interval % Minute = 0 \/ Minute % Interval = 0 THEN 0 ELSE 1
<1>1. q \in Int
  BY SchedulerAssumption, DivMod
<1>2. e \in Int
  OBVIOUS
<1> HIDE DEF q, e
<1>3. q + e \in Int
  BY <1>1, <1>2
<1>4. QED
  BY <1>3 DEF RoundsPerMinute, q, e

\* The slots of the round that started at t.
LEMMA SlotOfRound ==
  ASSUME NEW t \in Nat, RoundAt(t)
  PROVE  Slot(t) \in Int /\ FirstSlot \in Int /\ Slot(t) - FirstSlot + 1 <= RoundsPerMinute
<1>1. QueryTsAt(t, Minute) = queryTs
  BY DEF RoundAt
<1>2. Slot(t) - FirstSlot + 1 <= RoundsPerMinute
  BY <1>1, SlotsOfMinute DEF FirstSlot
<1>3. queryTs \in Int /\ Minute \in Int /\ t \in Int
  BY <1>1, QueryTsRange, SchedulerAssumption
<1>4. queryTs + 2 * Minute \in Int
  BY <1>3
<1>5. Slot(t) \in Int /\ FirstSlot \in Int
  BY <1>3, <1>4, SlotMonotone DEF FirstSlot
<1>6. QED
  BY <1>2, <1>5

\* The numbers of copies of the rows of finitely many.
LEMMA CopiesFinite ==
  ASSUME BootsInv, NEW b, NEW r
  PROVE  IsFiniteSet(Copies(b, r)) /\ Cardinality(Copies(b, r)) \in Nat
<1>1. Copies(b, r) \in SUBSET table
  BY DEF Copies
<1>2. IsFiniteSet(Copies(b, r))
  BY <1>1, FS_Subset DEF BootsInv
<1>3. QED
  BY <1>2, FS_CardinalityType

\* A step that touches neither the table nor the round keeps the count, and so does the
\* end of the collector.
LEMMA CopiesKept ==
  ASSUME TypeOK, CopiesInv, UNCHANGED <<now, boots, queryTs, batch, wake, table>>,
         \/ collector' = collector
         \/ collector' = "done" /\ (collector = "top" \/ collector = "sleep")
  PROVE  CopiesInv'
<1>1. BootsInv' /\ CopiesBounded'
  BY DEF CopiesInv, BootsInv, CopiesBounded
<1>2. CASE Fresh
  <2>1. Fresh'
    BY <1>2 DEF Fresh
  <2>2. QED
    BY <1>1, <2>1 DEF CopiesInv, RoundsInv
<1>3. ASSUME NEW t \in Nat, t >= 2 * Minute, RoundAt(t)
      PROVE  CopiesInv'
  <2>1. RoundAt(t)'
    <3>1. CASE collector' = collector
      BY <1>3, <3>1 DEF RoundAt, RowsOf, Copies, Slot, FirstSlot
    <3>2. CASE collector' = "done" /\ (collector = "top" \/ collector = "sleep")
      BY <1>3, <3>2 DEF RoundAt, RowsOf, Copies, Slot, FirstSlot
    <3>3. QED
      BY <3>1, <3>2
  <2>2. QED
    BY <1>1, <1>3, <2>1 DEF CopiesInv, RoundsInv
<1>4. QED
  BY <1>2, <1>3 DEF CopiesInv, RoundsInv

\* The clock moves on.
LEMMA CopiesTick ==
  ASSUME TypeOK, CopiesInv, Tick
  PROVE  CopiesInv'
<1>1. now' = now + 1 /\ now \in Nat
      /\ UNCHANGED <<boots, collector, queryTs, batch, wake, table>>
  BY DEF Tick, memory, store, TypeOK
<1>2. BootsInv' /\ CopiesBounded'
  BY <1>1 DEF CopiesInv, BootsInv, CopiesBounded
<1>3. CASE Fresh
  <2>1. Fresh'
    BY <1>1, <1>3 DEF Fresh
  <2>2. QED
    BY <1>2, <2>1 DEF CopiesInv, RoundsInv
<1>4. ASSUME NEW t \in Nat, t >= 2 * Minute, RoundAt(t)
      PROVE  CopiesInv'
  <2>1. Slot(now) \in Int /\ Slot(now + 1) \in Int /\ Slot(now) <= Slot(now + 1)
    BY <1>1, SlotMonotone
  <2>2. Slot(t) \in Int
    <3>1. t \in Int /\ t <= t
      OBVIOUS
    <3>2. QED
      BY <3>1, SlotMonotone
  <2>3. collector = "top" => Slot(t) < Slot(now + 1)
    BY <1>4, <2>1, <2>2 DEF RoundAt
  <2>4. t <= now + 1 /\ \A u \in t .. now : u \in t .. now + 1
    BY <1>1, <1>4 DEF RoundAt
  <2>5. RoundAt(t)'
    BY <1>1, <1>4, <2>3, <2>4 DEF RoundAt, RowsOf, Copies, Slot, FirstSlot
  <2>6. QED
    BY <1>2, <1>4, <2>5 DEF CopiesInv, RoundsInv
<1>5. QED
  BY <1>3, <1>4 DEF CopiesInv, RoundsInv

\* A new process has inserted nothing.
LEMMA CopiesRestart ==
  ASSUME TypeOK, CopiesInv, Restart
  PROVE  CopiesInv'
<1>1. boots' = boots + 1 /\ boots \in Nat /\ collector' = "top" /\ table' = table
      /\ \A d \in table : d.boot \in Nat
  BY DEF Restart, store, TypeOK, DbRow
<1>2. \A d \in table : d.boot <= boots' /\ d.boot # boots'
  BY <1>1 DEF CopiesInv, BootsInv
<1>3. QED
  BY <1>1, <1>2 DEF CopiesInv, BootsInv, RoundsInv, Fresh, CopiesBounded

\* A round starts: in the same minute as the one before it, but a later slot, or in a
\* later minute, of which the process has no rows.
LEMMA CopiesStartRound ==
  ASSUME TypeOK, CopiesInv, StartRound
  PROVE  CopiesInv'
<1>1. /\ collector = "top" /\ collector' = "collect" /\ batch' = {}
      /\ queryTs' = QueryTsAt(now, Minute)
      /\ UNCHANGED <<now, boots, table>>
  BY DEF StartRound, collectorRest, store
<1>2. /\ now \in Nat /\ now >= 2 * Minute /\ queryTs \in Nat /\ Minute \in Nat \ {0}
      /\ \A d \in table : d.ts \in Int
  BY SchedulerAssumption DEF TypeOK, DbRow
<1>3. queryTs' \in Int /\ queryTs' + 2 * Minute <= now
  BY <1>1, <1>2, QueryTsRange
<1>4. Slot(queryTs' + 2 * Minute) \in Int /\ Slot(now) \in Int
      /\ Slot(queryTs' + 2 * Minute) <= Slot(now)
  <2>1. now \in Int /\ Minute \in Int
    BY <1>2
  <2>2. queryTs' + 2 * Minute \in Int
    BY <1>3, <2>1
  <2>3. QED
    BY <1>3, <2>1, <2>2, SlotMonotone
<1>5. BootsInv' /\ CopiesBounded'
  BY <1>1 DEF CopiesInv, BootsInv, CopiesBounded
<1> DEFINE Past == \A d \in table : d.boot = boots => d.ts <= queryTs'
           Few  == \A s \in Sources : \A r \in RowsOf(s)' :
                     Cardinality(Copies(boots, r)) <= Slot(now) - Slot(queryTs' + 2 * Minute)
<1>6. Past /\ Few
  <2>1. ASSUME \A d \in table : d.boot = boots => d.ts < queryTs'
        PROVE  Few
    <3> SUFFICES ASSUME NEW s \in Sources, NEW r \in RowsOf(s)'
                 PROVE  Cardinality(Copies(boots, r)) <= Slot(now) - Slot(queryTs' + 2 * Minute)
      OBVIOUS
    <3>1. r.ts = queryTs'
      BY DEF RowsOf
    <3>2. Copies(boots, r) = {}
      BY <1>2, <1>3, <2>1, <3>1 DEF Copies
    <3>3. QED
      BY <1>4, <3>2, FS_EmptySet
  <2>2. CASE Fresh
    <3>1. \A d \in table : d.boot # boots
      BY <2>2 DEF Fresh
    <3>2. QED
      BY <2>1, <3>1
  <2>3. ASSUME NEW t \in Nat, t >= 2 * Minute, RoundAt(t)
        PROVE  Past /\ Few
    <3>1. t <= now /\ QueryTsAt(t, Minute) = queryTs /\ Slot(t) < Slot(now)
          /\ \A d \in table : d.boot = boots => d.ts <= queryTs
      BY <1>1, <2>3 DEF RoundAt
    <3>2. queryTs <= queryTs'
      BY <1>1, <1>2, <3>1, QueryTsMonotone
    <3>3. \A d \in table : d.boot = boots => d.ts <= queryTs'
      BY <1>2, <1>3, <3>1, <3>2
    <3>4. CASE queryTs < queryTs'
      BY <1>2, <1>3, <2>1, <3>1, <3>3, <3>4
    <3>5. CASE queryTs = queryTs'
      <4> SUFFICES ASSUME NEW s \in Sources, NEW r \in RowsOf(s)'
                   PROVE  Cardinality(Copies(boots, r)) <= Slot(now) - Slot(queryTs' + 2 * Minute)
        BY <3>3
      <4>1. r \in RowsOf(s)
        BY <3>5 DEF RowsOf
      <4>2. Cardinality(Copies(boots, r)) <= Slot(t) - FirstSlot + 1
        <5> DEFINE e == IF collector = "collect" \/ r \in batch THEN 0 ELSE 1
        <5>1. Cardinality(Copies(boots, r)) <= Slot(t) - FirstSlot + e
          BY <2>3, <4>1 DEF RoundAt
        <5>2. Slot(t) \in Int /\ FirstSlot \in Int /\ Cardinality(Copies(boots, r)) \in Int
          <6>1. Slot(t) \in Int
            BY <1>2, <3>1, SlotMonotone
          <6>2. FirstSlot \in Int
            BY <1>4, <3>5 DEF FirstSlot
          <6>3. Cardinality(Copies(boots, r)) \in Nat
            BY CopiesFinite DEF CopiesInv
          <6>4. QED
            BY <6>1, <6>2, <6>3
        <5>3. e \in {0, 1}
          OBVIOUS
        <5> HIDE DEF e
        <5>4. QED
          BY <5>1, <5>2, <5>3
      <4>3. FirstSlot = Slot(queryTs' + 2 * Minute)
        BY <3>5 DEF FirstSlot
      <4>4. Slot(t) \in Int /\ Cardinality(Copies(boots, r)) \in Nat
        <5>1. Slot(t) \in Int
          BY <1>2, <3>1, SlotMonotone
        <5>2. QED
          BY <5>1, CopiesFinite DEF CopiesInv
      <4>5. QED
        BY <1>4, <3>1, <4>2, <4>3, <4>4
    <3>6. QED
      BY <1>2, <1>3, <3>2, <3>4, <3>5
  <2>4. QED
    BY <1>1, <2>2, <2>3 DEF CopiesInv, RoundsInv
<1>7. RoundAt(now)'
  <2>1. FirstSlot' = Slot(queryTs' + 2 * Minute) /\ Slot(now)' = Slot(now)
    BY <1>1 DEF FirstSlot, Slot
  <2>2. ASSUME NEW s \in Sources, NEW r \in RowsOf(s)'
        PROVE  Cardinality(Copies(boots, r)') <= Slot(now)' - FirstSlot' + 0
    <3>1. Copies(boots, r)' = Copies(boots, r)
      BY <1>1 DEF Copies
    <3>2. Cardinality(Copies(boots, r)) <= Slot(now) - Slot(queryTs' + 2 * Minute)
      BY <1>6
    <3>3. QED
      BY <1>4, <2>1, <3>1, <3>2
  <2>3. \A d \in table' : d.boot = boots' => d.ts <= queryTs'
    BY <1>1, <1>6
  <2>4. QED
    BY <1>1, <1>2, <2>2, <2>3 DEF RoundAt
<1>8. QED
  BY <1>1, <1>2, <1>5, <1>7 DEF CopiesInv, RoundsInv

\* A source answers: what it gives is yet to be inserted.
LEMMA CopiesSourceAnswers ==
  ASSUME TypeOK, CopiesInv, NEW s \in Sources, SourceAnswers(s)
  PROVE  CopiesInv'
<1>1. /\ collector = "collect" /\ collector' = "collect"
      /\ UNCHANGED <<now, boots, queryTs, wake, table>>
  BY DEF SourceAnswers, collectorRest, store
<1>2. \A r \in batch' : r \in batch \/ r.ts = queryTs
  BY DEF SourceAnswers, RowsOf
<1>3. ~Fresh
  BY <1>1 DEF Fresh
<1>4. PICK t \in Nat : t >= 2 * Minute /\ RoundAt(t)
  BY <1>3 DEF CopiesInv, RoundsInv
<1>5. RoundAt(t)'
  BY <1>1, <1>2, <1>4 DEF RoundAt, RowsOf, Copies, Slot, FirstSlot
<1>6. QED
  BY <1>1, <1>4, <1>5 DEF CopiesInv, BootsInv, RoundsInv, CopiesBounded

\* The batch is complete: rows of it may come now.
LEMMA CopiesAllJoined ==
  ASSUME TypeOK, CopiesInv, AllJoined
  PROVE  CopiesInv'
<1>1. /\ collector = "collect" /\ collector' = "insert"
      /\ UNCHANGED <<now, boots, queryTs, batch, wake, table>>
  BY DEF AllJoined, collectorRest, store
<1>2. ~Fresh
  BY <1>1 DEF Fresh
<1>3. PICK t \in Nat : t >= 2 * Minute /\ RoundAt(t)
  BY <1>2 DEF CopiesInv, RoundsInv
<1>4. Slot(t) \in Int /\ FirstSlot \in Int
  BY <1>3, SlotOfRound
<1>5. ASSUME NEW s \in Sources, NEW r \in RowsOf(s), NEW e \in {0, 1}
      PROVE  Cardinality(Copies(boots, r)) <= Slot(t) - FirstSlot + e
  <2>1. Cardinality(Copies(boots, r)) <= Slot(t) - FirstSlot + 0
    BY <1>1, <1>3 DEF RoundAt
  <2>2. Cardinality(Copies(boots, r)) \in Nat
    BY CopiesFinite DEF CopiesInv
  <2>3. QED
    BY <1>4, <2>1, <2>2
<1>6. RoundAt(t)'
  <2>1. /\ FirstSlot' = FirstSlot /\ Slot(t)' = Slot(t)
        /\ \A s \in Sources : RowsOf(s)' = RowsOf(s)
        /\ \A r : Copies(boots, r)' = Copies(boots, r)
    BY <1>1 DEF FirstSlot, Slot, RowsOf, Copies
  <2>2. QED
    BY <1>1, <1>3, <1>5, <2>1 DEF RoundAt
<1>7. QED
  BY <1>1, <1>3, <1>6 DEF CopiesInv, BootsInv, RoundsInv, CopiesBounded

\* A row is skipped: nothing more will come of it, and nothing has.
LEMMA CopiesSkipRow ==
  ASSUME TypeOK, CopiesInv, NEW q \in batch, SkipRow(q)
  PROVE  CopiesInv'
<1>1. /\ collector = "insert" /\ batch' = batch \ {q}
      /\ UNCHANGED <<now, boots, collector, queryTs, wake, table>>
  BY DEF SkipRow, collectorRest, store
<1>2. ~Fresh
  BY <1>1 DEF Fresh
<1>3. PICK t \in Nat : t >= 2 * Minute /\ RoundAt(t)
  BY <1>2 DEF CopiesInv, RoundsInv
<1>4. Slot(t) \in Int /\ FirstSlot \in Int
  BY <1>3, SlotOfRound
<1>5. ASSUME NEW s \in Sources, NEW r \in RowsOf(s)
      PROVE  Cardinality(Copies(boots, r)) <=
               Slot(t) - FirstSlot + (IF r \in batch' THEN 0 ELSE 1)
  <2>1. Cardinality(Copies(boots, r)) <=
          Slot(t) - FirstSlot + (IF r \in batch THEN 0 ELSE 1)
    BY <1>1, <1>3 DEF RoundAt
  <2>2. Cardinality(Copies(boots, r)) \in Nat
    BY CopiesFinite DEF CopiesInv
  <2>3. r \in batch' => r \in batch
    BY <1>1
  <2>4. QED
    BY <1>4, <2>1, <2>2, <2>3
<1>6. RoundAt(t)'
  <2>1. /\ FirstSlot' = FirstSlot /\ Slot(t)' = Slot(t)
        /\ \A s \in Sources : RowsOf(s)' = RowsOf(s)
        /\ \A r : Copies(boots, r)' = Copies(boots, r)
    BY <1>1 DEF FirstSlot, Slot, RowsOf, Copies
  <2>2. QED
    BY <1>1, <1>3, <1>5, <2>1 DEF RoundAt
<1>7. QED
  BY <1>1, <1>3, <1>6 DEF CopiesInv, BootsInv, RoundsInv, CopiesBounded

\* A row is inserted: a copy more of this sample, of which its slot had none yet.
LEMMA CopiesInsertRow ==
  ASSUME TypeOK, CopiesInv, NEW q \in batch, InsertRow(q)
  PROVE  CopiesInv'
<1> DEFINE d == [id |-> nextId, boot |-> boots, src |-> q.src, card |-> q.card, ts |-> q.ts]
<1>1. /\ collector = "insert" /\ batch' = batch \ {q} /\ table' = table \cup {d}
      /\ UNCHANGED <<now, boots, collector, queryTs, wake>>
  BY DEF InsertRow, collectorRest
<1>2. ~Fresh
  BY <1>1 DEF Fresh
<1>3. PICK t \in Nat : t >= 2 * Minute /\ RoundAt(t)
  BY <1>2 DEF CopiesInv, RoundsInv
<1>4. Slot(t) \in Int /\ FirstSlot \in Int
      /\ Slot(t) - FirstSlot + 1 <= RoundsPerMinute
  BY <1>3, SlotOfRound
<1>5. q.ts = queryTs /\ q \in Sample
  BY <1>3 DEF RoundAt, TypeOK
<1>6. d.boot = boots /\ d.src = q.src /\ d.card = q.card /\ d.ts = q.ts
  OBVIOUS
<1> HIDE DEF d
<1>7. BootsInv'
  <2>1. IsFiniteSet(table \cup {d})
    BY FS_AddElement DEF CopiesInv, BootsInv
  <2>2. boots \in Nat
    BY DEF TypeOK
  <2>3. \A e \in table \cup {d} : e.boot <= boots
    BY <1>6, <2>2 DEF CopiesInv, BootsInv
  <2>4. QED
    BY <1>1, <2>1, <2>3 DEF BootsInv
<1>8. ASSUME NEW b, NEW r, ~ (b = boots /\ r.src = q.src /\ r.card = q.card /\ r.ts = q.ts)
      PROVE  Copies(b, r)' = Copies(b, r)
  BY <1>1, <1>6, <1>8 DEF Copies
<1>9. /\ Cardinality(Copies(boots, q)) \in Nat
      /\ Cardinality(Copies(boots, q)') \in Nat
      /\ Cardinality(Copies(boots, q)') <= Slot(t) - FirstSlot + 1
  <2>1. Copies(boots, q)' = Copies(boots, q) \cup {d}
    BY <1>1, <1>6 DEF Copies
  <2>2. IsFiniteSet(Copies(boots, q)) /\ Cardinality(Copies(boots, q)) \in Nat
    BY CopiesFinite DEF CopiesInv
  <2>3. Cardinality(Copies(boots, q)) <= Slot(t) - FirstSlot + 0
    <3>1. q \in RowsOf(q.src) /\ q.src \in Sources
      BY <1>5 DEF RowsOf, Sample
    <3>2. QED
      BY <1>3, <3>1 DEF RoundAt
  <2>4. /\ IsFiniteSet(Copies(boots, q) \cup {d})
        /\ Cardinality(Copies(boots, q) \cup {d}) =
             IF d \in Copies(boots, q) THEN Cardinality(Copies(boots, q))
             ELSE Cardinality(Copies(boots, q)) + 1
    BY <2>2, FS_AddElement
  <2>5. QED
    BY <1>4, <2>1, <2>2, <2>3, <2>4
<1>10. CopiesBounded'
  <2> SUFFICES ASSUME NEW e \in table'
               PROVE  Cardinality(Copies(e.boot, e)') <= RoundsPerMinute
    BY DEF CopiesBounded, Copies, RoundsPerMinute
  <2>1. CASE e.boot = boots /\ e.src = q.src /\ e.card = q.card /\ e.ts = q.ts
    <3>1. Copies(e.boot, e)' = Copies(boots, q)'
      BY <1>1, <2>1 DEF Copies
    <3>2. RoundsPerMinute \in Int
      BY RoundsPerMinuteType
    <3>3. QED
      BY <1>4, <1>9, <3>1, <3>2
  <2>2. CASE ~ (e.boot = boots /\ e.src = q.src /\ e.card = q.card /\ e.ts = q.ts)
    <3>1. e \in table
      BY <1>1, <1>6, <2>2
    <3>2. Copies(e.boot, e)' = Copies(e.boot, e)
      BY <1>8, <2>2
    <3>3. Cardinality(Copies(e.boot, e)) <= RoundsPerMinute
      BY <3>1 DEF CopiesInv, CopiesBounded, Copies
    <3>4. QED
      BY <3>2, <3>3
  <2>3. QED
    BY <2>1, <2>2
<1>11. RoundAt(t)'
  <2>1. ASSUME NEW s \in Sources, NEW r \in RowsOf(s)
        PROVE  Cardinality(Copies(boots, r)') <=
                 Slot(t) - FirstSlot + (IF r \in batch' THEN 0 ELSE 1)
    <3>1. CASE r = q
      <4>1. r \notin batch'
        BY <1>1, <3>1
      <4>2. QED
        BY <1>9, <3>1, <4>1
    <3>2. CASE r # q
      <4>1. ~ (r.src = q.src /\ r.card = q.card /\ r.ts = q.ts)
        BY <1>5, <3>2 DEF RowsOf, Sample
      <4>2. Copies(boots, r)' = Copies(boots, r)
        BY <1>1, <1>6, <4>1 DEF Copies
      <4>3. r \in batch' <=> r \in batch
        BY <1>1, <3>2
      <4>4. Cardinality(Copies(boots, r)) <=
              Slot(t) - FirstSlot + (IF r \in batch THEN 0 ELSE 1)
        BY <1>1, <1>3 DEF RoundAt
      <4>5. QED
        BY <4>2, <4>3, <4>4
    <3>3. QED
      BY <3>1, <3>2
  <2>2. /\ FirstSlot' = FirstSlot /\ Slot(t)' = Slot(t)
        /\ \A s \in Sources : RowsOf(s)' = RowsOf(s)
    BY <1>1 DEF FirstSlot, Slot, RowsOf
  <2>3. \A e \in table' : e.boot = boots' => e.ts <= queryTs'
    <3>1. queryTs \in Nat
      BY DEF TypeOK
    <3>2. QED
      BY <1>1, <1>3, <1>5, <1>6, <3>1 DEF RoundAt
  <2>4. QED
    BY <1>1, <1>3, <2>1, <2>2, <2>3 DEF RoundAt
<1>12. QED
  BY <1>3, <1>7, <1>10, <1>11 DEF CopiesInv, RoundsInv

\* The sleep is set to an aligned time after the start of the round.
LEMMA CopiesFinishRound ==
  ASSUME TypeOK, CopiesInv, FinishRound
  PROVE  CopiesInv'
<1>1. /\ collector = "insert" /\ wake' = NextAligned(now, Interval) /\ now \in Nat
      /\ collector' \in {"done", "sleep"}
      /\ UNCHANGED <<now, boots, queryTs, batch, table>>
  BY DEF FinishRound, collectorRest, store, TypeOK
<1>2. ~Fresh
  BY <1>1 DEF Fresh
<1>3. PICK t \in Nat : t >= 2 * Minute /\ RoundAt(t)
  BY <1>2 DEF CopiesInv, RoundsInv
<1>4. now \in t .. now
  BY <1>1, <1>3 DEF RoundAt
<1>5. RoundAt(t)'
  BY <1>1, <1>3, <1>4 DEF RoundAt, RowsOf, Copies, Slot, FirstSlot
<1>6. QED
  BY <1>1, <1>3, <1>5 DEF CopiesInv, BootsInv, RoundsInv, CopiesBounded

\* The loop comes back to its top in a later slot.
LEMMA CopiesWakeUp ==
  ASSUME TypeOK, CopiesInv, WakeUp
  PROVE  CopiesInv'
<1>1. /\ collector = "sleep" /\ now \in Nat
      /\ UNCHANGED <<now, boots, queryTs, batch, wake, table>>
  BY DEF WakeUp, collectorRest, store, TypeOK
<1>2. CASE collector' = "done"
  BY <1>1, <1>2, CopiesKept
<1>3. CASE collector' = "top" /\ now >= wake
  <2>1. ~Fresh
    BY <1>1 DEF Fresh
  <2>2. PICK t \in Nat : t >= 2 * Minute /\ RoundAt(t)
    BY <2>1 DEF CopiesInv, RoundsInv
  <2>3. PICK u \in t .. now : wake = NextAligned(u, Interval)
    BY <1>1, <2>2 DEF RoundAt
  <2>4. u \in Nat /\ t <= u
    BY <2>3
  <2>5. Slot(t) < Slot(now)
    <3>1. Slot(u) < Slot(now)
      BY <1>1, <1>3, <2>3, <2>4, SlotOfAligned
    <3>2. Slot(t) <= Slot(u) /\ Slot(t) \in Int /\ Slot(u) \in Int /\ Slot(now) \in Int
      BY <1>1, <2>4, SlotMonotone
    <3>3. QED
      BY <3>1, <3>2
  <2>6. RoundAt(t)'
    <3>1. /\ FirstSlot' = FirstSlot /\ Slot(t)' = Slot(t) /\ Slot(now)' = Slot(now)
          /\ \A s \in Sources : RowsOf(s)' = RowsOf(s)
          /\ \A r : Copies(boots, r)' = Copies(boots, r)
      BY <1>1 DEF FirstSlot, Slot, RowsOf, Copies
    <3>2. QED
      BY <1>1, <1>3, <2>2, <2>5, <3>1 DEF RoundAt
  <2>7. QED
    BY <1>1, <2>2, <2>6 DEF CopiesInv, BootsInv, RoundsInv, CopiesBounded
<1>4. QED
  BY <1>2, <1>3 DEF WakeUp

\* The retention takes copies away.
LEMMA CopiesRunRetention ==
  ASSUME TypeOK, CopiesInv, RunRetention
  PROVE  CopiesInv'
<1>1. /\ table' \in SUBSET table
      /\ UNCHANGED <<now, boots, collector, queryTs, batch, wake>>
  BY DEF RunRetention, retentionRest
<1>2. IsFiniteSet(table')
  BY <1>1, FS_Subset DEF CopiesInv, BootsInv
<1> DEFINE Left(b, r) ==
             {e \in table' : e.boot = b /\ e.ts = r.ts /\ e.src = r.src /\ e.card = r.card}
<1>3. ASSUME NEW b, NEW r, NEW n \in Int, Cardinality(Copies(b, r)) <= n
      PROVE  Cardinality(Left(b, r)) <= n
  <2>1. Left(b, r) \in SUBSET Copies(b, r)
    BY <1>1 DEF Copies
  <2> HIDE DEF Left
  <2>2. IsFiniteSet(Copies(b, r)) /\ Cardinality(Copies(b, r)) \in Nat
    BY CopiesFinite DEF CopiesInv
  <2>3. /\ Cardinality(Left(b, r)) <= Cardinality(Copies(b, r))
        /\ IsFiniteSet(Left(b, r))
    BY <2>1, <2>2, FS_Subset
  <2>4. Cardinality(Left(b, r)) \in Nat
    BY <2>3, FS_CardinalityType
  <2>5. QED
    BY <1>3, <2>2, <2>3, <2>4
<1>4. BootsInv'
  BY <1>1, <1>2 DEF CopiesInv, BootsInv
<1>5. CopiesBounded'
  <2> SUFFICES ASSUME NEW e \in table'
               PROVE  Cardinality(Left(e.boot, e)) <= RoundsPerMinute
    BY DEF CopiesBounded, RoundsPerMinute
  <2>1. Cardinality(Copies(e.boot, e)) <= RoundsPerMinute
    BY <1>1 DEF CopiesInv, CopiesBounded, Copies
  <2>2. QED
    BY <1>3, <2>1, RoundsPerMinuteType
<1>6. CASE Fresh
  BY <1>1, <1>4, <1>5, <1>6 DEF Fresh, CopiesInv, RoundsInv
<1>7. ASSUME NEW t \in Nat, t >= 2 * Minute, RoundAt(t)
      PROVE  CopiesInv'
  <2>1. Slot(t) \in Int /\ FirstSlot \in Int
    BY <1>7, SlotOfRound
  <2>2. ASSUME NEW s \in Sources, NEW r \in RowsOf(s)
        PROVE  Cardinality(Copies(boots, r)') <= Slot(t) - FirstSlot
                 + (IF collector = "collect" \/ r \in batch THEN 0 ELSE 1)
    <3> DEFINE e == IF collector = "collect" \/ r \in batch THEN 0 ELSE 1
    <3>1. Cardinality(Copies(boots, r)) <= Slot(t) - FirstSlot + e
      BY <1>7 DEF RoundAt
    <3>2. e \in Int
      OBVIOUS
    <3> HIDE DEF e
    <3>3. Slot(t) - FirstSlot + e \in Int
      BY <2>1, <3>2
    <3>4. Cardinality(Left(boots, r)) <= Slot(t) - FirstSlot + e
      BY <1>3, <3>1, <3>3
    <3>5. Copies(boots, r)' = Left(boots, r)
      BY <1>1 DEF Copies
    <3>6. QED
      BY <3>4, <3>5 DEF e
  <2>3. RoundAt(t)'
    <3>1. /\ FirstSlot' = FirstSlot /\ Slot(t)' = Slot(t) /\ Slot(now)' = Slot(now)
          /\ \A s \in Sources : RowsOf(s)' = RowsOf(s)
      BY <1>1 DEF FirstSlot, Slot, RowsOf
    <3>2. QED
      BY <1>1, <1>7, <2>2, <3>1 DEF RoundAt
  <2>4. QED
    BY <1>1, <1>4, <1>5, <1>7, <2>3 DEF CopiesInv, RoundsInv
<1>8. QED
  BY <1>6, <1>7 DEF CopiesInv, RoundsInv

\* Every step keeps the copies within the slots.
LEMMA CopiesStep ==
  ASSUME TypeOK, CopiesInv, [Next]_vars
  PROVE  CopiesInv'
<1>1. CASE Signal
  BY <1>1, CopiesKept DEF Signal, store
<1>2. CASE Exit
  BY <1>2, CopiesKept DEF Exit, memory, store
<1>3. CASE StopAtTop
  BY <1>3, CopiesKept DEF StopAtTop, collectorRest, store
<1>4. ASSUME NEW s \in Sources, SourceFails(s)
      PROVE  CopiesInv'
  BY <1>4, CopiesKept DEF SourceFails, collectorRest, store
<1>5. CASE RetentionWakes
  BY <1>5, CopiesKept DEF RetentionWakes, retentionRest
<1>6. CASE UNCHANGED vars
  BY <1>6, CopiesKept DEF vars, memory, store
<1>7. QED
  BY <1>1, <1>2, <1>3, <1>4, <1>5, <1>6, CopiesTick, CopiesRestart,
     CopiesStartRound, CopiesSourceAnswers, CopiesAllJoined, CopiesInsertRow,
     CopiesSkipRow, CopiesFinishRound, CopiesWakeUp, CopiesRunRetention
     DEF Next, Collect, CollectorStep, Insert, RetentionStep, Terminated

\* For any interval, a process stores a sample at most as often as aligned times, and the
\* round at start, fit in a minute.
THEOREM CopiesAreBounded == Spec => []CopiesBounded
<1>1. Init => CopiesInv
  BY FS_EmptySet DEF Init, CopiesInv, BootsInv, RoundsInv, Fresh, CopiesBounded
<1>2. TypeOK /\ CopiesInv /\ [Next]_vars => CopiesInv'
  BY CopiesStep
<1>3. CopiesInv => CopiesBounded
  BY DEF CopiesInv
<1>4. QED
  BY <1>1, <1>2, <1>3, TypeCorrect, PTL DEF Spec
=============================================================================
