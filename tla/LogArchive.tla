---------------------------- MODULE LogArchive -----------------------------
(***************************************************************************)
(* The log directory between its two users in one process: the writers,    *)
(* any thread that logs (DailyFileWriter of src/src/main.rs), and the      *)
(* archiver, which packs the two files of an old day and deletes them      *)
(* (src/src/log_archive/mod.rs).  The process may be killed at any step.   *)
(*                                                                         *)
(* Abstractions.  A day is a number.  A line is a number, and what can be  *)
(* read of a file or a package a set of lines.  Handles are not cached: a  *)
(* cached one is that of a file some open gave within the last Lag days.   *)
(***************************************************************************)
EXTENDS Integers, FiniteSets

CONSTANTS
  MaxDay,      \* bound: the last day
  After,       \* `archive_after_days`
  Lag,         \* how many days a line may be behind: under way past midnight, or
               \* dated by a clock that was set back, or before the day changed
  MaxLines,    \* bound: lines logged
  MaxTroubles, \* bound: file operations of the archiver that fail
  MaxCrashes,  \* bound: times the process is killed and started again
  MaxBacks     \* bound: times the day goes back

ASSUME LogArchiveAssumption ==
  /\ MaxDay \in Nat \ {0} /\ Lag \in Nat
  /\ After \in Nat \ {0}               \* config::validate rejects 0
  /\ MaxLines \in Nat /\ MaxTroubles \in Nat /\ MaxCrashes \in Nat
  /\ MaxBacks \in Nat

Kinds == {"all", "error"}
Days  == 1 .. MaxDay
Files == Kinds \X Days
Ids   == 1 .. MaxLines

VARIABLES
  today,     \* in the configured time zone, which a clock change may take back
  newest,    \* history: the latest day it has been
  dir,       \* the log directory: "untried", "failed" (ensure_dir could not make it),
             \* "there"
  files,     \* the daily files there are, a subset of Files
  content,   \* [Files -> SUBSET Ids], empty for a file there is not
  flight,    \* lines that hold handles: [id, to: the files still to write]
  pc,        \* the archiver: "sleep", "next", "pack", "copy", "close", "rename", "unlink"
  kind,      \* the file next to be packed or deleted
  todo,      \* the dates of this scan not dealt with yet
  cur,       \* the date being packed
  head,      \* what the file had when its size was put into the package
  torn,      \* a file was longer than its size in the package: what follows cannot
             \* be read from it
  packed,    \* [Kinds -> SUBSET Ids], what can be read from the temporary package
  short,     \* bytes of it did not get to the disk, and nobody noticed
  tmp,       \* the days with a temporary package
  packages,  \* the days with a package
  archived,  \* [Files -> SUBSET Ids], what can be read from the packages
  damaged,   \* the days whose package lacks bytes
  \* history
  written,   \* [Files -> SUBSET Ids], lines whose write succeeded
  logged, troubles, crashes, backs

disk    == <<files, content, tmp, packages, archived, damaged>>
entries == <<head, torn, packed, short>>
scan    == <<pc, kind, todo, cur, entries>>
days    == <<today, newest, backs>>
vars    == <<days, dir, disk, flight, scan, written, logged, troubles, crashes>>

Earliest(S) == CHOOSE d \in S : \A e \in S : d <= e

-----------------------------------------------------------------------------
EmptyPackage ==
  /\ head' = {} /\ torn' = FALSE
  /\ packed' = [k \in Kinds |-> {}] /\ short' = FALSE

Init ==
  /\ today = 1 /\ newest = 1 /\ dir = "untried"
  /\ files = {} /\ content = [f \in Files |-> {}] /\ flight = {}
  /\ pc = "sleep" /\ kind = "all" /\ todo = {} /\ cur = 1
  /\ head = {} /\ torn = FALSE /\ packed = [k \in Kinds |-> {}] /\ short = FALSE
  /\ tmp = {} /\ packages = {} /\ archived = [f \in Files |-> {}] /\ damaged = {}
  /\ written = [f \in Files |-> {}]
  /\ logged = 0 /\ troubles = 0 /\ crashes = 0 /\ backs = 0

\* The writers.

writerRest == <<days, tmp, packages, archived, damaged, scan, troubles, crashes>>

\* The days a file may be of when its handle is taken.
Current == {d \in Days : d <= newest /\ newest - d <= Lag}

\* make_writer_for: the directory is made before the first line, once, whether that
\* works or not.  A line takes the handle of the full log and, if it is an ERROR, of
\* the error log, which creates the files; each open may fail, and without the full
\* log the line is dropped.  The day is read for each file, and once more for its path,
\* so that around midnight the two may be of two days.
TakeHandle ==
  /\ logged < MaxLines /\ logged' = logged + 1
  /\ dir' \in IF dir = "untried" THEN {"there", "failed"} ELSE {dir}
  /\ \E opened \in IF dir' = "there" THEN SUBSET Kinds ELSE {{}} :
     \E day \in [Kinds -> Current] :
       LET to == {<<k, day[k]>> : k \in opened}
       IN  /\ files' = files \cup to
           /\ flight' = IF "all" \in opened
                        THEN flight \cup {[id |-> logged', to |-> to]} ELSE flight
  /\ UNCHANGED <<writerRest, content, written>>

\* Somebody makes the directory.
MakeDir ==
  /\ dir = "failed" /\ dir' = "there"
  /\ UNCHANGED <<days, disk, flight, scan, written, logged, troubles, crashes>>

\* One write of TeeWriter: the full log first.  The write succeeds even if the
\* file has been unlinked, and is then lost.
WriteLine(l, f) ==
  /\ \A g \in l.to : g[1] = "all" => f[1] = "all"
  /\ content' = IF f \in files THEN [content EXCEPT ![f] = @ \cup {l.id}] ELSE content
  /\ written' = [written EXCEPT ![f] = @ \cup {l.id}]
  /\ flight' = (flight \ {l}) \cup
               (IF l.to = {f} THEN {} ELSE {[id |-> l.id, to |-> l.to \ {f}]})
  /\ UNCHANGED <<writerRest, dir, files, logged>>

\* The write to the full log fails, and the line goes no further.
WriteFails(l) ==
  /\ flight' = flight \ {l}
  /\ UNCHANGED <<writerRest, dir, files, content, written, logged>>

NewDay ==
  /\ today < MaxDay
  /\ today' = today + 1
  /\ newest' = IF today = newest THEN today' ELSE newest
  /\ \A l \in flight : \A f \in l.to : newest' - f[2] <= Lag
  /\ UNCHANGED <<backs, dir, disk, flight, scan, written, logged, troubles, crashes>>

\* The clock is set back past midnight, or put back at midnight.
DayBack ==
  /\ backs < MaxBacks /\ backs' = backs + 1
  /\ today > 1 /\ today' = today - 1
  /\ newest - today' <= Lag
  /\ UNCHANGED <<newest, dir, disk, flight, scan, written, logged, troubles, crashes>>

-----------------------------------------------------------------------------
(* The archiver                                                            *)

archiverRest == <<days, dir, flight, written, logged, crashes>>
sealed       == <<packages, archived, damaged>>

Trouble == troubles < MaxTroubles /\ troubles' = troubles + 1

DueToday(d) == d <= today - After + 1    \* mutant: one day too many

\* Not later than the cutoff.
Due(d) == d <= today - After

\* parse_log_date, of every name in the directory.
Dated == {f[2] : f \in files}

\* cleanup_stale_tmp: what cannot be deleted stays.
Cleanup ==
  \/ tmp' = {} /\ UNCHANGED troubles
  \/ Trouble /\ tmp' \in SUBSET tmp

\* archive_old_logs lists the directory; there is nothing to do if it cannot.
Scan ==
  /\ pc = "sleep"
  /\ pc' = "next"
  /\ todo' = {d \in Dated : Due(d)}
  /\ Cleanup
  /\ UNCHANGED <<archiverRest, files, content, kind, cur, entries, sealed>>

PassableHalf(d) ==                       \* mutant: a day without errors is left
  d \in packages \/ \E k \in Kinds : <<k, d>> \notin files
PassableUnasked(d) == \A k \in Kinds : <<k, d>> \notin files  \* mutant: packs again
\* Either test of the loop that leaves a date alone.
Passable(d) == d \in packages \/ \A k \in Kinds : <<k, d>> \notin files

PassOver ==
  /\ pc = "next" /\ todo # {}
  /\ Passable(Earliest(todo))
  /\ todo' = todo \ {Earliest(todo)}
  /\ UNCHANGED <<archiverRest, disk, pc, kind, cur, entries, troubles>>

\* What belongs to one date ends with its turn of the loop.
TurnEnds == kind' = "all" /\ cur' = 1 /\ EmptyPackage

\* create_tar_gz: the temporary package is created, or emptied.
StartPackage ==
  /\ pc = "next" /\ todo # {}
  /\ ~Passable(Earliest(todo))
  /\ cur' = Earliest(todo)
  /\ tmp' = tmp \cup {cur'}
  /\ EmptyPackage
  /\ pc' = "pack" /\ kind' = "all"
  /\ UNCHANGED <<archiverRest, todo, files, content, sealed, troubles>>

EndScan ==
  /\ pc = "next" /\ todo = {}
  /\ pc' = "sleep"
  /\ UNCHANGED <<archiverRest, disk, kind, todo, cur, entries, troubles>>

\* append_file: the size of a file goes into its header; a file that is missing is
\* skipped.
Pack(k) ==
  /\ pc = "pack" /\ kind = k
  /\ head' = content[<<k, cur>>] /\ pc' = "copy"
  /\ UNCHANGED <<archiverRest, disk, kind, todo, cur, torn, packed, short, troubles>>

\* Then all of it is copied, however long it is by now.  What came after the header is
\* not read as part of the file, and unless it fits into the padding of a block, it is
\* taken for the next header.
Copy(k) ==
  /\ pc = "copy" /\ kind = k
  /\ packed' = [packed EXCEPT ![k] = IF torn THEN {} ELSE head]
  /\ torn' \in IF content[<<k, cur>>] = head THEN {torn} ELSE {torn, TRUE}
  /\ IF k = "all" THEN kind' = "error" /\ pc' = "pack" ELSE kind' = k /\ pc' = "close"
  /\ UNCHANGED <<archiverRest, disk, todo, cur, head, short, troubles>>

\* What can be read from a package that lacks bytes: some of the first file, or the
\* first file and some of the second.
Beginnings(p) ==
  {[p EXCEPT !["all"] = S, !["error"] = {}] : S \in SUBSET p["all"]}
    \cup {[p EXCEPT !["error"] = S] : S \in SUBSET p["error"]}

\* Bytes of the package that were held back are written, and if that fails, nobody
\* notices.
WrittenOut ==
  \/ UNCHANGED <<packed, short, troubles>>
  \/ Trouble /\ packed' \in Beginnings(packed) /\ short' = TRUE

\* tar.finish hands the last blocks to the GzEncoder.  What that has not written yet,
\* for a small package all of it, and the end of the gzip format it writes as it is
\* dropped, and ignores an error.
Close ==
  /\ pc = "close" /\ pc' = "rename"
  /\ WrittenOut
  /\ UNCHANGED <<archiverRest, disk, kind, todo, cur, head, torn>>

PackFailsOn ==                           \* mutant: logged, and on to the next date
  /\ pc \in {"pack", "copy", "close"} /\ Trouble
  /\ pc' = "next" /\ todo' = todo \ {cur}
  /\ UNCHANGED <<archiverRest, disk, kind, cur, entries>>

\* Creating the package, adding a file, or tar.finish fails: the `?` ends the scan,
\* later dates included, and leaves the temporary package, if there is one by then.
PackFails ==
  /\ pc \in {"pack", "copy", "close"} /\ Trouble
  /\ \/ UNCHANGED tmp
     \/ pc = "pack" /\ kind = "all" /\ tmp' = tmp \ {cur}
  /\ pc' = "sleep" /\ todo' = {} /\ TurnEnds
  /\ UNCHANGED <<archiverRest, files, content, sealed>>

\* sync_all, whose error is dropped; then the package gets its name, on a file system
\* where rename is atomic.
Rename ==
  /\ pc = "rename"
  /\ WrittenOut
  /\ packages' = packages \cup {cur}
  /\ archived' = [f \in Files |-> IF f[2] = cur THEN packed'[f[1]] ELSE archived[f]]
  /\ damaged' = IF short' THEN damaged \cup {cur} ELSE damaged
  /\ tmp' = tmp \ {cur}
  /\ pc' = "unlink" /\ kind' = "all"
  /\ UNCHANGED <<archiverRest, files, content, todo, cur, head, torn>>

RenameFailsOn ==                         \* mutant: logged, and on to the deletion
  /\ pc = "rename" /\ Trouble
  /\ pc' = "unlink" /\ kind' = "all"
  /\ UNCHANGED <<archiverRest, disk, todo, cur, entries>>

RenameFailsAgain ==                      \* mutant: tried again, the package deleted
  /\ pc = "rename" /\ Trouble
  /\ tmp' = tmp \ {cur}
  /\ UNCHANGED <<archiverRest, files, content, pc, todo, kind, cur, entries, sealed>>

\* It cannot be reopened, or renamed: the scan ends; in the second case the
\* temporary package is deleted.
RenameFails ==
  /\ pc = "rename" /\ Trouble
  /\ tmp' \in {tmp, tmp \ {cur}}
  /\ pc' = "sleep" /\ todo' = {} /\ TurnEnds
  /\ UNCHANGED <<archiverRest, files, content, sealed>>

Unlinks(k) ==
  /\ files' = files \ {<<k, cur>>}
  /\ content' = [content EXCEPT ![<<k, cur>>] = {}]
  /\ UNCHANGED troubles

\* The packed file is deleted; if that fails it stays and the loop goes on.
Unlink(k) ==
  /\ pc = "unlink" /\ kind = k
  /\ \/ Unlinks(k)
     \/ Trouble /\ UNCHANGED <<files, content>>
  /\ IF k = "all" THEN kind' = "error" /\ UNCHANGED <<pc, todo, cur, entries>>
                  ELSE pc' = "next" /\ todo' = todo \ {cur} /\ TurnEnds
  /\ UNCHANGED <<archiverRest, tmp, sealed>>

\* The process is killed wherever it is, and started again.
Crash ==
  /\ crashes < MaxCrashes /\ crashes' = crashes + 1
  /\ flight' = {} /\ dir' = IF dir = "failed" THEN "untried" ELSE dir
  /\ pc' = "sleep" /\ todo' = {} /\ TurnEnds
  /\ UNCHANGED <<days, disk, written, logged, troubles>>

-----------------------------------------------------------------------------
Writer ==
  \/ TakeHandle
  \/ \E l \in flight : WriteFails(l) \/ \E f \in l.to : WriteLine(l, f)

Archiver ==
  \/ Scan \/ PassOver \/ StartPackage \/ EndScan
  \/ \E k \in Kinds : Pack(k) \/ Copy(k) \/ Unlink(k)
  \/ Close \/ PackFails \/ Rename \/ RenameFails

Next == Writer \/ MakeDir \/ NewDay \/ DayBack \/ Archiver \/ Crash

Spec == Init /\ [][Next]_vars

\* The archiver's thread runs, and its sleep ends.  Nothing is logged by need.
FairSpec == Spec /\ WF_vars(Archiver)

-----------------------------------------------------------------------------
Line == [id : Ids, to : (SUBSET Files) \ {{}}]

Packing == pc \in {"pack", "copy", "close", "rename"}

\* Among the types: what is packed, closed and renamed is a file that is there, and files
\* are deleted only of a day that has its package.
TypeOK ==
  /\ today \in Days /\ newest \in Days /\ backs \in 0 .. MaxBacks
  /\ dir \in {"untried", "failed", "there"} /\ (files # {} => dir = "there")
  /\ files \subseteq Files /\ content \in [Files -> SUBSET Ids]
  /\ \A f \in Files \ files : content[f] = {}
  /\ flight \subseteq Line
  /\ pc \in {"sleep", "next", "pack", "copy", "close", "rename", "unlink"}
  /\ kind \in Kinds /\ todo \subseteq Days /\ cur \in Days
  /\ head \subseteq Ids /\ torn \in BOOLEAN
  /\ packed \in [Kinds -> SUBSET Ids] /\ short \in BOOLEAN
  /\ tmp \subseteq Days /\ packages \subseteq Days /\ damaged \subseteq packages
  /\ (Packing => cur \in tmp) /\ (pc = "unlink" => cur \in packages)
  /\ archived \in [Files -> SUBSET Ids] /\ written \in [Files -> SUBSET Ids]
  /\ logged \in 0 .. MaxLines
  /\ troubles \in 0 .. MaxTroubles /\ crashes \in 0 .. MaxCrashes

\* A line that was written is in the file it went to or in the package of that day,
\* wherever the archiver was stopped or failed, as long as lines are behind by fewer days
\* than are kept.  The exception are days whose package lacks bytes because nobody
\* noticed a failure: each such day took a failure of its own.
NothingLost ==
  /\ Lag < After =>
       \A f \in Files : written[f] \subseteq content[f] \cup archived[f] \/ f[2] \in damaged
  /\ Cardinality(damaged) <= troubles

\* A package, once it has its name, holds both logs of its day entire, unless it lacks
\* bytes, and then nothing else: it was neither packed from what a killed process left
\* over nor outrun by a writer while its files were sized, copied and deleted.
PackageIsWhole ==
  Lag < After =>
    \A f \in Files : f[2] \in packages =>
      IF f[2] \in damaged THEN archived[f] \subseteq written[f] ELSE archived[f] = written[f]

\* However often packing fails, or the process is killed while it packs, no more
\* than one temporary package lies in the directory: dates are packed in order,
\* and an error lets no later date go ahead.  (A day that is written to while it is due
\* may be packed after a later one.)
OneTmpAtMost == Lag < After => Cardinality(tmp) <= 1

\* What a reader finds of each log, in its file and in the package of its day.
Readable == [f \in Files |-> content[f] \cup archived[f]]

\* The directory keeps what LogStore promises.
Store ==
  INSTANCE LogStore WITH today <- newest, sealedDays <- packages, readable <- Readable
KeepsLines == Store!Spec

\* Every day that comes to be due is packed, if only finitely many operations fail: an
\* error ends a scan, but the next one starts over.  (Nothing is due any more if the
\* day goes back.)
DueDaysPacked ==
  \A d \in {d \in Days : d + After <= MaxDay} :
    (Due(d) /\ d \in Dated) ~> (d \in packages \/ ~Due(d))

\* The comments say that old logs are kept compressed and not dropped, that files are
\* deleted only after the package was made for good, and that dropping the encoder is as
\* good as finishing it: that a line is lost by no failure.
PackedNotDropped ==
  Lag < After => \A f \in Files : written[f] \subseteq content[f] \cup archived[f]
=============================================================================
