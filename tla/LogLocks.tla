----------------------------- MODULE LogLocks ------------------------------
(***************************************************************************)
(* The mutexes a log line passes through (DailyFileWriter, CachedAppendFile*)
(* and TeeWriter of src/src/main.rs), taken by any thread that logs, and   *)
(* lock_or_recover, which is to keep logging alive after a thread has      *)
(* panicked while it held one of them.                                     *)
(*                                                                         *)
(* Abstractions.  Every open succeeds (LogArchive has the failures).  A    *)
(* mutex of the standard library is poisoned for good by a panic of its    *)
(* holder; lock() on a poisoned one locks it and then returns it in the    *)
(* Err, and lock() by the holder itself never returns.  An event logged    *)
(* while another is being written is written there and then, by the same   *)
(* thread: tracing hands it to the global subscriber without a guard.      *)
(***************************************************************************)
EXTENDS Integers, Sequences

CONSTANTS
  Threads,
  MaxLines,   \* bound: lines the program logs
  MaxPanics,  \* bound: threads that panic while they hold a mutex
  NOBODY

Locks == {"dir_ready", "all cached", "err cached", "all", "err"}

\* make_writer_for and TeeWriter::write: one mutex after the other.
PathOf(level) ==
  IF level = "ERROR" THEN <<"dir_ready", "all cached", "err cached", "all", "err">>
  ELSE <<"dir_ready", "all cached", "all">>

VARIABLES
  owner,     \* [Locks -> Threads or NOBODY]
  poisoned,  \* the locks whose holder has panicked
  calls,     \* [Threads -> the events the thread is logging, the innermost last:
             \*   [path: the mutexes still to pass, holds: whether it holds the first]]
  logged, panics

vars == <<owner, poisoned, calls, logged, panics>>

Init ==
  /\ owner = [l \in Locks |-> NOBODY] /\ poisoned = {}
  /\ calls = [t \in Threads |-> <<>>]
  /\ logged = 0 /\ panics = 0

Logging(t) == calls[t] # <<>>
Top(t)     == calls[t][Len(calls[t])]
Outer(t)   == SubSeq(calls[t], 1, Len(calls[t]) - 1)
Event(level) == [path |-> PathOf(level), holds |-> FALSE]

Log(t) ==
  /\ ~Logging(t) /\ logged < MaxLines
  /\ \E level \in {"INFO", "ERROR"} : calls' = [calls EXCEPT ![t] = <<Event(level)>>]
  /\ logged' = logged + 1
  /\ UNCHANGED <<owner, poisoned, panics>>

Wants(t, l) == Logging(t) /\ ~Top(t).holds /\ Head(Top(t).path) = l

\* lock_or_recover gets the mutex; if it is poisoned it says so in the log, before it
\* takes the guard out of the error.
Lock(t, l) ==
  /\ Wants(t, l) /\ owner[l] = NOBODY
  /\ owner' = [owner EXCEPT ![l] = t]
  /\ LET held == Append(Outer(t), [Top(t) EXCEPT !.holds = TRUE])
     IN calls' = [calls EXCEPT ![t] =
                    IF l \in poisoned THEN Append(held, Event("ERROR")) ELSE held]
  /\ UNCHANGED <<poisoned, logged, panics>>

\* The guarded work is done and the guard dropped; at the end of its path the event is
\* written, and the thread goes on with what it interrupted.
Unlock(t) ==
  /\ Logging(t) /\ Top(t).holds
  /\ owner' = [owner EXCEPT ![Head(Top(t).path)] = NOBODY]
  /\ calls' = [calls EXCEPT ![t] =
       IF Len(Top(t).path) = 1 THEN Outer(t)
       ELSE Append(Outer(t), [path |-> Tail(Top(t).path), holds |-> FALSE])]
  /\ UNCHANGED <<poisoned, logged, panics>>

\* A panic in the guarded work: unwinding drops, and poisons, all the thread holds.
Panic(t) ==
  /\ Logging(t) /\ Top(t).holds
  /\ panics < MaxPanics /\ panics' = panics + 1
  /\ poisoned' = poisoned \cup {l \in Locks : owner[l] = t}
  /\ owner' = [l \in Locks |-> IF owner[l] = t THEN NOBODY ELSE owner[l]]
  /\ calls' = [calls EXCEPT ![t] = <<>>]
  /\ UNCHANGED logged

Quiet == (\A t \in Threads : ~Logging(t)) /\ logged = MaxLines /\ UNCHANGED vars

Next ==
  \/ \E t \in Threads : Log(t) \/ Unlock(t) \/ Panic(t) \/ \E l \in Locks : Lock(t, l)
  \/ Quiet

Spec == Init /\ [][Next]_vars

-----------------------------------------------------------------------------
\* A comment has a poisoned mutex taken over, so that logging outlives the panic: no
\* thread ever waits for a mutex that it holds itself.
LoggingOutlivesPanics ==
  \A t \in Threads, l \in Locks : Wants(t, l) => owner[l] # t
=============================================================================
