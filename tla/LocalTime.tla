----------------------------- MODULE LocalTime -----------------------------
(***************************************************************************)
(* The clock changes of the configured time zone, against the three places *)
(* that read it: the minute a round asks for (compute_query_ts of          *)
(* src/src/extractor/mod.rs), the `ts` its rows are written with           *)
(* (naive_local in src/src/sink/mod.rs) and NOW() in the session of the    *)
(* retention's DELETE (src/src/sink/schema.rs).                            *)
(*                                                                         *)
(* Abstractions.  Time is UTC, in ticks.  A zone is its history: a set of  *)
(* [from, offset], each offset in force until the next.  A round is one    *)
(* step and leaves one row (Scheduler has its inside); one connection is   *)
(* used at a time.                                                         *)
(***************************************************************************)
EXTENDS Clock

CONSTANTS
  Zones,         \* the configured zone is one of these
  Minute,        \* ticks in a minute
  Interval,      \* `interval`, in ticks
  Retain,        \* `retention_days`, in ticks
  ServerOffset,  \* the server's own zone
  NamedZone,     \* stands for the zone's IANA name, which MySQL knows
  StartTime,     \* when the process first starts
  MaxLate,       \* bound: how late a round may begin
  MaxTime,       \* bound: the clock stops here
  MaxBoots       \* bound: number of times the process is started

\* Zones change by whole minutes, at whole minutes, and have one offset at a time.
ASSUME LocalTimeAssumption ==
  /\ Minute \in Nat \ {0} /\ Interval \in Nat \ {0} /\ Retain \in Nat
  /\ StartTime \in Nat /\ ServerOffset \in Int /\ NamedZone \notin Int
  /\ \A z \in Zones :
       /\ \A e \in z : /\ e.from \in Int /\ e.from % Minute = 0
                       /\ e.offset \in Int /\ e.offset % Minute = 0
       /\ \A e \in z : \A f \in z : e.from = f.from => e = f
       /\ \E e \in z : e.from <= StartTime - Retain - 3 * Minute

VARIABLES
  zone,        \* the configured zone
  byOffset,    \* `timezone_offset`
  now,         \* the clock
  boots,       \* number of times the process was started
  fresh,       \* this process has not had a round yet
  frozen,      \* the offset set_timezone_sql read when the process connected
  session,     \* the time zone of the connection in use: an offset, or NamedZone
  wake,        \* when the next round is due
  at,          \* query_ts of the latest round
  table        \* the rows: the instant measured, and the DATETIME it is stored as

vars == <<zone, byOffset, now, boots, fresh, frozen, session, wake, at, table>>

-----------------------------------------------------------------------------
(* Local time                                                              *)

Offset(t) ==
  (CHOOSE e \in zone : /\ e.from <= t
                       /\ \A f \in zone : f.from <= t => f.from <= e.from).offset

Local(t) == t + Offset(t)

\* The instants a local time stands for: none in the hour a change skips, two in
\* the hour one repeats.
Instants(local) == {t \in {local - e.offset : e \in zone} : Local(t) = local}

CutToMinute(t) == Local(t) - (Local(t) % Minute)

QueryTsEarliest(t) ==                    \* mutant: of two instants the earlier
  LET cut == Instants(CutToMinute(t - 2 * Minute))
  IN IF cut = {} THEN t - 2 * Minute ELSE CHOOSE u \in cut : \A v \in cut : u <= v

\* compute_query_ts: with_second works on local time, and gives up if that is not
\* exactly one instant.
QueryTs(t) ==
  LET cut == Instants(CutToMinute(t - 2 * Minute))
  IN IF \E u \in cut : cut = {u} THEN CHOOSE u \in cut : TRUE ELSE t - 2 * Minute

-----------------------------------------------------------------------------
(* The process                                                             *)

TimeZoneSetOnce == ServerOffset          \* mutant: only the first connection is told

\* The SET time_zone every connection of the pool begins with, whenever it is made.
TimeZoneSet == IF byOffset THEN frozen ELSE NamedZone

SessionNow == now + (IF session = NamedZone THEN Offset(now) ELSE session)

Init ==
  /\ zone \in Zones /\ byOffset \in BOOLEAN
  /\ now = StartTime /\ boots = 1 /\ fresh = TRUE
  /\ frozen = Offset(now)
  /\ session = IF byOffset THEN frozen ELSE NamedZone
  /\ wake = now /\ at = now - 3 * Minute /\ table = {}

Tick ==
  /\ now < MaxTime /\ now < wake + MaxLate
  /\ now' = now + 1
  /\ UNCHANGED <<zone, byOffset, boots, fresh, frozen, session, wake, at, table>>

\* The table outlives the process; the offset is read anew.
Restart ==
  /\ boots < MaxBoots
  /\ boots' = boots + 1 /\ fresh' = TRUE
  /\ frozen' = Offset(now)
  /\ session' = IF byOffset THEN frozen' ELSE NamedZone
  /\ wake' = now
  /\ UNCHANGED <<zone, byOffset, now, at, table>>

\* The pool replaces a connection.
Reconnect ==
  /\ session' = TimeZoneSet
  /\ UNCHANGED <<zone, byOffset, now, boots, fresh, frozen, wake, at, table>>

Round ==
  /\ now >= wake
  /\ at' = QueryTs(now)
  /\ table' = table \cup {[at |-> at', ts |-> Local(at')]}
  /\ wake' = NextAligned(now, Interval)
  /\ fresh' = FALSE
  /\ UNCHANGED <<zone, byOffset, now, boots, frozen, session>>

\* DELETE ... WHERE ts < NOW() - INTERVAL retention_days DAY
Expired(r) == r.ts < SessionNow - Retain

Retention ==
  /\ table' = {r \in table : ~Expired(r)}
  /\ UNCHANGED <<zone, byOffset, now, boots, fresh, frozen, session, wake, at>>

Next == Tick \/ Restart \/ Reconnect \/ Round \/ Retention

Spec == Init /\ [][Next]_vars

-----------------------------------------------------------------------------
\* Whatever the zone does, a round asks for a moment at least two minutes past and
\* less than three: recent, and old enough for Prometheus to have it.
QueriesTheRecentPast ==
  [][Round => 2 * Minute <= now - at' /\ now - at' < 3 * Minute]_vars

\* From round to round, across clock changes and restarts, the moment asked for never
\* goes back; in one process with whole minutes between rounds none is asked for twice.
RoundsAdvance ==
  [][Round => /\ at <= at'
              /\ ~fresh /\ Interval % Minute = 0 => at < at']_vars

\* The retention deletes by age: exactly, unless the clocks were changed since the row
\* was measured (with timezone_offset, between that and the process's start), and then
\* it errs by the change at most.
DeletesByAge ==
  [][Retention =>
       \A r \in table :
         LET age   == now - r.at
             shift == IF byOffset THEN frozen - Offset(r.at) ELSE Offset(now) - Offset(r.at)
             most  == IF shift < 0 THEN -shift ELSE shift
         IN /\ age > Retain + most => r \notin table'
            /\ age <= Retain - most => r \in table']_vars
=============================================================================
