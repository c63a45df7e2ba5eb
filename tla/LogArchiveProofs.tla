-------------------------- MODULE LogArchiveProofs --------------------------
(***************************************************************************)
(* What the log directory keeps for every number of days, lines, failures  *)
(* and kills, as long as a line is behind by fewer days than are kept.     *)
(***************************************************************************)
EXTENDS LogArchive, FiniteSetTheorems, WellFoundedInduction, TLAPS

\* A set of days has an earliest one.
LEMMA EarliestIsFirst ==
  ASSUME NEW S \in SUBSET Nat, S # {}
  PROVE  Earliest(S) \in S /\ \A e \in S : Earliest(S) <= e
<1> DEFINE R == OpToRel(<, Nat)
<1>1. IsWellFoundedOn(R, Nat)
  BY NatLessThanWellFounded
<1> HIDE DEF R
<1>2. PICK x \in S : \A y \in S : ~ (<<y, x>> \in R)
  BY <1>1, WFMin
<1> USE DEF R
<1>3. \A y \in S : ~ (y < x)
  BY <1>2 DEF OpToRel
<1>4. \A y \in S : x <= y
  BY <1>3
<1>5. QED
  BY <1>4 DEF Earliest

-----------------------------------------------------------------------------
(* Types                                                                     *)

\* A write leaves a line with the rest of its files, or with none.
LEMMA LineShrinks ==
  ASSUME NEW l \in Line, NEW f \in l.to
  PROVE  /\ f \in Files /\ l.id \in Ids
         /\ l.to # {f} => [id |-> l.id, to |-> l.to \ {f}] \in Line
  <1>1. l.to \subseteq Files /\ l.to # {} /\ l.id \in Ids
    BY DEF Line
  <1>2. ASSUME l.to # {f}
        PROVE  [id |-> l.id, to |-> l.to \ {f}] \in Line
    <2>1. l.to \ {f} # {} /\ l.to \ {f} \subseteq Files
      BY <1>1, <1>2
    <2>2. QED
      BY <1>1, <2>1 DEF Line
  <1>3. QED
    BY <1>1, <1>2

\* The writers and the days keep the types.
LEMMA WriterTypes ==
  ASSUME TypeOK, Writer \/ MakeDir \/ NewDay \/ DayBack
  PROVE  TypeOK'
<1> USE LogArchiveAssumption DEF TypeOK, Packing, writerRest, days, scan, entries, disk
<1>1. CASE TakeHandle
  <2>1. PICK opened \in IF dir' = "there" THEN SUBSET Kinds ELSE {{}},
             day \in [Kinds -> Current] :
          LET to == {<<k, day[k]>> : k \in opened}
          IN  /\ files' = files \cup to
              /\ flight' = IF "all" \in opened
                           THEN flight \cup {[id |-> logged', to |-> to]} ELSE flight
    BY <1>1 DEF TakeHandle
  <2> DEFINE to == {<<k, day[k]>> : k \in opened}
  <2>2. opened \subseteq Kinds /\ (opened # {} => dir' = "there")
    BY <2>1
  <2>3. to \subseteq Files /\ (opened # {} => to # {}) /\ (to # {} => opened # {})
    <3>1. ASSUME NEW k \in opened
          PROVE  <<k, day[k]>> \in Files
      <4>1. k \in Kinds /\ day[k] \in Current
        BY <2>1
      <4>2. QED
        BY <4>1 DEF Files, Current
    <3>2. to \subseteq Files
      BY <3>1
    <3>3. \A k \in opened : <<k, day[k]>> \in to
      OBVIOUS
    <3>4. opened = {} => to = {}
      OBVIOUS
    <3>5. QED
      BY <3>2, <3>3, <3>4
  <2>4. /\ files' = files \cup to
        /\ flight' = IF "all" \in opened
                     THEN flight \cup {[id |-> logged', to |-> to]} ELSE flight
    BY <2>1
  <2> HIDE DEF to
  <2>5. logged' \in Ids /\ logged' \in 0 .. MaxLines
    BY <1>1 DEF TakeHandle, Ids
  <2>6. dir' \in {"untried", "failed", "there"} /\ (dir = "there" => dir' = "there")
    BY <1>1 DEF TakeHandle
  <2>7. files' \subseteq Files /\ files \subseteq files' /\ (files' # {} => dir' = "there")
    BY <2>2, <2>3, <2>4, <2>6
  <2>8. flight' \subseteq Line
    BY <2>3, <2>4, <2>5 DEF Line
  <2>9. QED
    BY <1>1, <2>5, <2>6, <2>7, <2>8 DEF TakeHandle
<1>2. ASSUME NEW l \in flight, NEW f \in l.to, WriteLine(l, f)
      PROVE  TypeOK'
  <2>1. l \in Line
    OBVIOUS
  <2>2. /\ f \in Files /\ l.id \in Ids
        /\ l.to # {f} => [id |-> l.id, to |-> l.to \ {f}] \in Line
    BY <2>1, LineShrinks
  <2>3. /\ content' = IF f \in files THEN [content EXCEPT ![f] = @ \cup {l.id}] ELSE content
        /\ written' = [written EXCEPT ![f] = @ \cup {l.id}]
        /\ flight' = (flight \ {l}) \cup
                     (IF l.to = {f} THEN {} ELSE {[id |-> l.id, to |-> l.to \ {f}]})
        /\ UNCHANGED <<writerRest, dir, files, logged>>
    BY <1>2 DEF WriteLine
  <2>4. content' \in [Files -> SUBSET Ids] /\ written' \in [Files -> SUBSET Ids]
    BY <2>2, <2>3
  <2>5. \A g \in Files \ files' : content'[g] = {}
    BY <2>2, <2>3
  <2>6. flight' \subseteq Line
    BY <2>2, <2>3
  <2>7. QED
    BY <2>3, <2>4, <2>5, <2>6
<1>3. ASSUME NEW l \in flight, WriteFails(l)
      PROVE  TypeOK'
  BY <1>3 DEF WriteFails
<1>4. CASE MakeDir
  BY <1>4 DEF MakeDir
<1>5. CASE NewDay
  BY <1>5 DEF NewDay, Days
<1>6. CASE DayBack
  BY <1>6 DEF DayBack, Days
<1>7. QED
  BY <1>1, <1>2, <1>3, <1>4, <1>5, <1>6 DEF Writer

\* What is left of a package that lacks bytes is a package, with nothing new in it.
LEMMA WrittenOutTypes ==
  ASSUME TypeOK, WrittenOut
  PROVE  /\ packed' \in [Kinds -> SUBSET Ids] /\ short' \in BOOLEAN
         /\ troubles' \in 0 .. MaxTroubles
         /\ \A k \in Kinds : packed'[k] \subseteq packed[k]
         /\ ~short' => ~short /\ packed' = packed
<1> USE LogArchiveAssumption DEF TypeOK
<1>1. CASE UNCHANGED <<packed, short, troubles>>
  BY <1>1
<1>2. CASE Trouble /\ packed' \in Beginnings(packed) /\ short' = TRUE
  <2>1. troubles' \in 0 .. MaxTroubles
    BY <1>2 DEF Trouble
  <2>2. packed' \in [Kinds -> SUBSET Ids] /\ \A k \in Kinds : packed'[k] \subseteq packed[k]
    <3>1. ASSUME NEW S \in SUBSET packed["all"],
                 packed' = [packed EXCEPT !["all"] = S, !["error"] = {}]
          PROVE  /\ packed' \in [Kinds -> SUBSET Ids]
                 /\ \A k \in Kinds : packed'[k] \subseteq packed[k]
      BY <3>1 DEF Kinds
    <3>2. ASSUME NEW S \in SUBSET packed["error"], packed' = [packed EXCEPT !["error"] = S]
          PROVE  /\ packed' \in [Kinds -> SUBSET Ids]
                 /\ \A k \in Kinds : packed'[k] \subseteq packed[k]
      BY <3>2 DEF Kinds
    <3>3. QED
      BY <1>2, <3>1, <3>2 DEF Beginnings
  <2>3. QED
    BY <1>2, <2>1, <2>2
<1>3. QED
  BY <1>1, <1>2 DEF WrittenOut

\* So do the archiver and a kill.
LEMMA ArchiverTypes ==
  ASSUME TypeOK, Archiver \/ Crash
  PROVE  TypeOK'
<1> USE LogArchiveAssumption
    DEF TypeOK, Packing, archiverRest, days, scan, entries, disk, sealed, EmptyPackage,
        TurnEnds, Trouble
<1>0. ASSUME TurnEnds
      PROVE  /\ kind' \in Kinds /\ cur' \in Days /\ head' \subseteq Ids /\ torn' \in BOOLEAN
             /\ packed' \in [Kinds -> SUBSET Ids] /\ short' \in BOOLEAN
  <2>1. 1 \in Days /\ "all" \in Kinds
    BY DEF Days, Kinds
  <2>2. [k \in Kinds |-> {}] \in [Kinds -> SUBSET Ids]
    OBVIOUS
  <2>3. QED
    BY <1>0, <2>1, <2>2
<1>1. CASE Scan
  <2>1. tmp' \subseteq tmp /\ troubles' \in 0 .. MaxTroubles
    BY <1>1 DEF Scan, Cleanup
  <2>2. Dated \subseteq Days
    BY DEF Dated, Files
  <2>3. QED
    BY <1>1, <2>1, <2>2 DEF Scan
<1>2. CASE PassOver
  BY <1>2 DEF PassOver
<1>3. CASE StartPackage
  <2>1. Earliest(todo) \in Days
    <3>1. todo \in SUBSET Nat /\ todo # {}
      BY <1>3 DEF StartPackage, Days
    <3>2. QED
      BY <3>1, EarliestIsFirst
  <2>2. [k \in Kinds |-> {}] \in [Kinds -> SUBSET Ids]
    OBVIOUS
  <2>3. QED
    BY <1>3, <2>1, <2>2 DEF StartPackage, Kinds
<1>4. CASE EndScan
  BY <1>4 DEF EndScan
<1>5. ASSUME NEW k \in Kinds, Pack(k)
      PROVE  TypeOK'
  <2>1. content[<<k, cur>>] \subseteq Ids
    BY DEF Files
  <2>2. QED
    BY <1>5, <2>1 DEF Pack
<1>6. ASSUME NEW k \in Kinds, Copy(k)
      PROVE  TypeOK'
  <2>1. packed' \in [Kinds -> SUBSET Ids] /\ torn' \in BOOLEAN
    BY <1>6 DEF Copy
  <2>2. QED
    BY <1>6, <2>1 DEF Copy, Kinds
<1>7. ASSUME NEW k \in Kinds, Unlink(k)
      PROVE  TypeOK'
  <2>1. <<k, cur>> \in Files
    BY DEF Files
  <2>2. /\ content' \in [Files -> SUBSET Ids] /\ files' \subseteq files
        /\ \A f \in Files \ files' : content'[f] = {}
        /\ troubles' \in 0 .. MaxTroubles
    BY <1>7, <2>1 DEF Unlink, Unlinks
  <2>3. CASE k = "all"
    BY <1>7, <2>2, <2>3 DEF Unlink, Kinds
  <2>4. CASE k # "all"
    <3>1. TurnEnds
      BY <1>7, <2>4 DEF Unlink
    <3>2. QED
      BY <1>7, <1>0, <2>2, <2>4, <3>1 DEF Unlink
  <2>5. QED
    BY <2>3, <2>4
<1>8. CASE PackFails
  <2>1. /\ kind' \in Kinds /\ cur' \in Days /\ head' \subseteq Ids /\ torn' \in BOOLEAN
        /\ packed' \in [Kinds -> SUBSET Ids] /\ short' \in BOOLEAN
    BY <1>8, <1>0 DEF PackFails
  <2>2. tmp' \subseteq tmp /\ troubles' \in 0 .. MaxTroubles
    BY <1>8 DEF PackFails
  <2>3. pc' = "sleep" /\ todo' = {} /\ UNCHANGED <<archiverRest, files, content, sealed>>
    BY <1>8 DEF PackFails
  <2>4. QED
    BY <2>1, <2>2, <2>3
<1>9. CASE Rename
  <2>1. WrittenOut
    BY <1>9 DEF Rename
  <2>2. /\ packed' \in [Kinds -> SUBSET Ids] /\ short' \in BOOLEAN
        /\ troubles' \in 0 .. MaxTroubles
    BY <2>1, WrittenOutTypes
  <2>3. archived' \in [Files -> SUBSET Ids]
    BY <1>9, <2>2 DEF Rename, Files
  <2>4. packages' \subseteq Days /\ damaged' \subseteq packages' /\ cur' \in packages'
    BY <1>9 DEF Rename
  <2>5. QED
    BY <1>9, <2>2, <2>3, <2>4 DEF Rename, Kinds
<1>10. CASE RenameFails
  <2>1. /\ kind' \in Kinds /\ cur' \in Days /\ head' \subseteq Ids /\ torn' \in BOOLEAN
        /\ packed' \in [Kinds -> SUBSET Ids] /\ short' \in BOOLEAN
    BY <1>10, <1>0 DEF RenameFails
  <2>2. tmp' \subseteq tmp /\ troubles' \in 0 .. MaxTroubles
    BY <1>10 DEF RenameFails
  <2>3. pc' = "sleep" /\ todo' = {} /\ UNCHANGED <<archiverRest, files, content, sealed>>
    BY <1>10 DEF RenameFails
  <2>4. QED
    BY <2>1, <2>2, <2>3
<1>11. CASE Crash
  <2>1. packed' \in [Kinds -> SUBSET Ids] /\ cur' \in Days
    BY <1>11 DEF Crash, Days
  <2>2. /\ torn' \in BOOLEAN /\ short' \in BOOLEAN /\ flight' \subseteq Line
        /\ todo' \subseteq Days /\ head' \subseteq Ids
    BY <1>11 DEF Crash
  <2>3. dir' \in {"untried", "failed", "there"} /\ (files # {} => dir' = "there")
    BY <1>11 DEF Crash
  <2>4. QED
    BY <1>11, <2>1, <2>2, <2>3 DEF Crash, Kinds
<1>12. CASE Close
  <2>1. WrittenOut
    BY <1>12 DEF Close
  <2>2. /\ packed' \in [Kinds -> SUBSET Ids] /\ short' \in BOOLEAN
        /\ troubles' \in 0 .. MaxTroubles
    BY <2>1, WrittenOutTypes
  <2>3. QED
    BY <1>12, <2>2 DEF Close
<1>13. QED
  BY <1>1, <1>2, <1>3, <1>4, <1>5, <1>6, <1>7, <1>8, <1>9, <1>10, <1>11, <1>12 DEF Archiver

\* The model keeps its types; in particular what is in no file has no content.
THEOREM LogTypes == Spec => []TypeOK
<1>1. Init => TypeOK
  <2> SUFFICES ASSUME Init PROVE TypeOK
    OBVIOUS
  <2>1. 1 \in Days
    BY LogArchiveAssumption DEF Days
  <2>2. /\ content \in [Files -> SUBSET Ids] /\ archived \in [Files -> SUBSET Ids]
        /\ written \in [Files -> SUBSET Ids] /\ packed \in [Kinds -> SUBSET Ids]
        /\ \A f \in Files \ files : content[f] = {}
    BY DEF Init
  <2>3. torn \in BOOLEAN /\ files = {} /\ flight = {} /\ todo = {} /\ tmp = {} /\ packages = {}
        /\ head = {} /\ short \in BOOLEAN /\ damaged = {} /\ pc = "sleep"
    BY DEF Init
  <2>4. QED
    BY <2>1, <2>2, <2>3, LogArchiveAssumption DEF Init, TypeOK, Packing, Kinds
<1>2. TypeOK /\ [Next]_vars => TypeOK'
  <2>1. ASSUME TypeOK, UNCHANGED vars
        PROVE  TypeOK'
    BY <2>1 DEF TypeOK, Packing, vars, days, disk, scan, entries
  <2>2. QED
    BY <2>1, WriterTypes, ArchiverTypes DEF Next
<1>3. QED
  BY <1>1, <1>2, PTL DEF Spec

-----------------------------------------------------------------------------
(***************************************************************************)
(* The invariant, if a line is behind by fewer days than are kept.  A day  *)
(* the archiver deals with is over then: no line is under way to it.  So   *)
(* what a file had when it was sized it has when it is copied and when it  *)
(* is deleted, and NothingLost and PackageIsWhole follow from what the     *)
(* package under way holds at each of its steps.  OneTmpAtMost needs the   *)
(* order of the dates: of an unfinished package all earlier dates are      *)
(* packed, so that every scan comes to its date before any other.          *)
(***************************************************************************)
DaysInv ==
  /\ today <= newest /\ newest - today <= Lag
  /\ \A l \in flight : \A f \in l.to : f[2] <= newest /\ newest - f[2] <= Lag

Over(d) == d <= newest - After

Busy == Packing \/ pc = "unlink"

DueInv ==
  /\ \A d \in todo \cup packages \cup tmp : Over(d)
  /\ Busy => Over(cur)

\* Of the package under way: what it holds of a file is what the file has, or less if bytes
\* are missing.
PackageInv ==
  /\ Packing => cur \notin packages /\ ~torn
  /\ pc = "copy" => head = content[<<kind, cur>>]
  /\ pc \in {"pack", "copy"} /\ kind = "error" => packed["all"] = content[<<"all", cur>>]
  /\ pc \in {"close", "rename"} =>
       \A k \in Kinds : IF short THEN packed[k] \subseteq content[<<k, cur>>]
                                 ELSE packed[k] = content[<<k, cur>>]
  /\ pc = "unlink" => cur \in packages

LinesInv ==
  /\ \A l \in flight : l.to \subseteq files
  /\ \A f \in Files : content[f] \subseteq written[f]
  /\ \A f \in Files : f[2] \notin packages => content[f] = written[f] /\ archived[f] = {}
  /\ \A f \in Files : f[2] \in packages => archived[f] \subseteq written[f]
  /\ \A f \in Files : f[2] \in packages \ damaged => archived[f] = written[f]

\* Dates are packed in order; `tmp` is that of the first date not yet packed.
OrderInv ==
  /\ \A c \in todo : \A d \in Dated : d < c => d \in todo \/ d \in packages
  /\ \A d \in tmp : d \in Dated /\ d \notin packages
  /\ \A d \in tmp : \A e \in Dated : e < d => e \in packages
  /\ \A d, e \in tmp : d = e

KeptInv == DaysInv /\ DueInv /\ PackageInv /\ LinesInv /\ OrderInv

\* Each damaged day took a failure, and so did the package under way if it lacks bytes.
DamageInv ==
  /\ Cardinality(damaged) <= troubles
  /\ Packing /\ short => Cardinality(damaged) < troubles

\* A line under way is of no day the archiver deals with.
LEMMA NoLineForOldDays ==
  ASSUME Lag < After, TypeOK, DaysInv
  PROVE  /\ ~Over(today)
         /\ \A l \in flight : \A f \in l.to : ~Over(f[2])
<1>1. /\ Lag \in Int /\ After \in Int /\ today \in Int /\ newest \in Int
      /\ \A l \in flight : \A f \in l.to : f[2] \in Int
  BY LogArchiveAssumption DEF TypeOK, Days, Line, Files
<1>2. QED
  BY <1>1 DEF DaysInv, Over

\* The days follow each other.
LEMMA DaysStep ==
  ASSUME TypeOK, DaysInv, [Next]_vars
  PROVE  DaysInv'
<1> USE DEF DaysInv
<1>0. /\ Lag \in Nat /\ today \in Int /\ newest \in Int
      /\ \A l \in flight : \A f \in l.to : f[2] \in Int
  BY LogArchiveAssumption DEF TypeOK, Days, Line, Files
<1>1. CASE TakeHandle
  <2>1. UNCHANGED <<today, newest>>
    BY <1>1 DEF TakeHandle, writerRest, days
  <2>2. ASSUME NEW l \in flight', NEW f \in l.to
        PROVE  f[2] <= newest /\ newest - f[2] <= Lag
    <3>1. CASE l \in flight
      BY <3>1
    <3>2. CASE l \notin flight
      <4>1. PICK opened \in SUBSET Kinds, day \in [Kinds -> Current] :
              l = [id |-> logged', to |-> {<<k, day[k]>> : k \in opened}]
        BY <1>1, <2>2, <3>2 DEF TakeHandle
      <4>2. PICK k \in Kinds : f = <<k, day[k]>>
        BY <4>1
      <4>3. f[2] \in Current
        BY <4>2
      <4>4. QED
        BY <4>3 DEF Current
    <3>3. QED
      BY <3>1, <3>2
  <2>3. QED
    BY <1>0, <2>1, <2>2
<1>2. ASSUME NEW l \in flight, NEW f \in l.to, WriteLine(l, f)
      PROVE  DaysInv'
  <2>1. UNCHANGED <<today, newest>>
    BY <1>2 DEF WriteLine, writerRest, days
  <2>2. \A m \in flight' : m \in flight \/ m.to \subseteq l.to
    BY <1>2 DEF WriteLine
  <2>3. QED
    BY <1>0, <2>1, <2>2
<1>3. CASE NewDay
  BY <1>0, <1>3 DEF NewDay
<1>4. CASE DayBack
  BY <1>0, <1>4 DEF DayBack
<1>5. CASE Archiver
  BY <1>5 DEF Archiver, Scan, PassOver, StartPackage, EndScan, Pack, Copy, Close, Unlink,
    PackFails, Rename, RenameFails, archiverRest, days
<1>6. CASE Crash
  BY <1>6 DEF Crash, days
<1>7. CASE (\E l \in flight : WriteFails(l)) \/ MakeDir \/ UNCHANGED vars
  BY <1>7 DEF WriteFails, MakeDir, vars, writerRest, days
<1>8. QED
  BY <1>1, <1>2, <1>3, <1>4, <1>5, <1>6, <1>7 DEF Next, Writer

\* A day that is over stays so.
LEMMA OverKept ==
  ASSUME TypeOK, [Next]_vars
  PROVE  /\ newest \in Int /\ newest' \in Int /\ newest <= newest'
         /\ \A d \in Int : Over(d) => Over(d)'
<1>1. newest \in Int /\ After \in Int
  BY LogArchiveAssumption DEF TypeOK, Days
<1>2. newest' = newest \/ newest' = newest + 1
  <2>1. CASE Writer \/ MakeDir \/ NewDay \/ DayBack \/ UNCHANGED vars
    BY <2>1 DEF Writer, TakeHandle, WriteLine, WriteFails, MakeDir, NewDay, DayBack, vars,
      writerRest, days
  <2>2. CASE Archiver
    BY <2>2 DEF Archiver, Scan, PassOver, StartPackage, EndScan, Pack, Copy, Close, Unlink,
      PackFails, Rename, RenameFails, archiverRest, days
  <2>3. CASE Crash
    BY <2>3 DEF Crash, days
  <2>4. QED
    BY <2>1, <2>2, <2>3 DEF Next
<1>3. QED
  BY <1>1, <1>2 DEF Over

\* The archiver deals with days that are over.
LEMMA DueStep ==
  ASSUME TypeOK, DaysInv, DueInv, [Next]_vars
  PROVE  DueInv'
<1>1. /\ \A d \in todo \cup packages \cup tmp : Over(d)'
      /\ Busy => \A d \in {cur} : Over(d)'
      /\ After \in Int /\ today \in Int /\ newest \in Int /\ newest' \in Int
  <2>1. \A d \in todo \cup packages \cup tmp : d \in Int
    BY DEF TypeOK, Days
  <2>2. cur \in Int /\ today \in Int /\ After \in Int
    BY LogArchiveAssumption DEF TypeOK, Days
  <2>3. newest \in Int /\ newest' \in Int /\ \A d \in Int : Over(d) => Over(d)'
    BY OverKept
  <2>4. QED
    BY <2>1, <2>2, <2>3 DEF DueInv
<1>2. CASE Scan
  <2>1. UNCHANGED newest /\ packages' = packages /\ tmp' \subseteq tmp /\ ~Busy'
    BY <1>2 DEF Scan, Cleanup, archiverRest, days, sealed, Busy, Packing
  <2>2. \A d \in todo' : d \in Int /\ d <= today - After
    BY <1>2 DEF Scan, Due, Dated, TypeOK, Files, Days
  <2>3. QED
    BY <1>1, <2>1, <2>2 DEF DueInv, DaysInv, Over
<1>3. CASE StartPackage
  <2>1. Earliest(todo) \in todo
    <3>1. todo \in SUBSET Nat /\ todo # {}
      BY <1>3 DEF StartPackage, TypeOK, Days
    <3>2. QED
      BY <3>1, EarliestIsFirst
  <2>2. QED
    BY <1>1, <1>3, <2>1 DEF StartPackage, DueInv, sealed
<1>4. CASE Rename
  BY <1>1, <1>4 DEF Rename, DueInv, Busy, Packing
<1>5. CASE PassOver \/ EndScan \/ Close \/ PackFails \/ RenameFails \/ Crash
  BY <1>1, <1>5 DEF PassOver, EndScan, Close, PackFails, RenameFails, Crash, DueInv, Busy,
    Packing, sealed, disk
<1>6. ASSUME NEW k \in Kinds, Pack(k) \/ Copy(k) \/ Unlink(k)
      PROVE  DueInv'
  BY <1>1, <1>6 DEF Pack, Copy, Unlink, DueInv, Busy, Packing, sealed, disk
<1>7. CASE Writer \/ MakeDir \/ NewDay \/ DayBack \/ UNCHANGED vars
  <2>1. UNCHANGED <<pc, cur, todo, packages, tmp>>
    BY <1>7 DEF Writer, TakeHandle, WriteLine, WriteFails, MakeDir, NewDay, DayBack, vars,
      writerRest, scan, disk
  <2>2. QED
    BY <1>1, <2>1 DEF DueInv, Busy, Packing
<1>8. QED
  BY <1>2, <1>3, <1>4, <1>5, <1>6, <1>7 DEF Next, Archiver

\* A write goes to a file that is there and not being packed: what is read of it grows by
\* the line, and that of no other file changes.
LEMMA WriteReaches ==
  ASSUME Lag < After, TypeOK, DaysInv, DueInv, LinesInv,
         NEW l \in flight, NEW f \in l.to, WriteLine(l, f)
  PROVE  /\ f \in Files /\ f[2] \notin packages /\ f[2] <= newest
         /\ Busy => f[2] # cur
         /\ content' = [content EXCEPT ![f] = @ \cup {l.id}]
         /\ written' = [written EXCEPT ![f] = @ \cup {l.id}]
         /\ \A m \in flight' : \E n \in flight : m.to \subseteq n.to
         /\ UNCHANGED <<files, archived, packages, damaged, tmp, newest, scan>>
<1>1. l \in Line
  BY DEF TypeOK
<1>2. f \in Files /\ f \in files
  BY <1>1, LineShrinks DEF LinesInv
<1>3. ~Over(f[2]) /\ f[2] <= newest
  BY NoLineForOldDays DEF DaysInv
<1>4. /\ content' = [content EXCEPT ![f] = @ \cup {l.id}]
      /\ written' = [written EXCEPT ![f] = @ \cup {l.id}]
  BY <1>2 DEF WriteLine
<1>5. \A m \in flight' : m \in flight \/ m.to \subseteq l.to
  BY DEF WriteLine
<1>6. UNCHANGED <<files, archived, packages, damaged, tmp, newest, scan>>
  BY DEF WriteLine, writerRest, days
<1>7. f[2] \notin packages /\ (Busy => f[2] # cur)
  BY <1>3 DEF DueInv
<1>8. QED
  BY <1>2, <1>3, <1>4, <1>5, <1>6, <1>7

\* The package under way holds what its files have.
LEMMA PackageStep ==
  ASSUME Lag < After, TypeOK, DaysInv, DueInv, LinesInv, PackageInv, [Next]_vars
  PROVE  PackageInv'
<1> USE DEF PackageInv, Packing
<1>1. ASSUME NEW l \in flight, NEW f \in l.to, WriteLine(l, f)
      PROVE  PackageInv'
  <2>1. /\ f \in Files /\ (Busy => f[2] # cur)
        /\ content' = [content EXCEPT ![f] = @ \cup {l.id}]
        /\ UNCHANGED <<packages, scan>>
    BY <1>1, WriteReaches
  <2>2. Busy => \A j \in Kinds : content'[<<j, cur>>] = content[<<j, cur>>]
    BY <2>1 DEF TypeOK, Files
  <2>3. UNCHANGED <<packages, pc, kind, cur, head, torn, packed, short>>
    BY <2>1 DEF scan, entries
  <2>4. QED
    BY <2>2, <2>3 DEF Busy, TypeOK, Kinds
<1>2. CASE StartPackage
  <2>1. cur' \notin packages
    BY <1>2 DEF StartPackage, Passable
  <2>2. QED
    BY <1>2, <2>1 DEF StartPackage, EmptyPackage, sealed
<1>3. ASSUME NEW k \in Kinds, Pack(k)
      PROVE  PackageInv'
  BY <1>3 DEF Pack, disk
<1>4. ASSUME NEW k \in Kinds, Copy(k)
      PROVE  PackageInv'
  <2>1. /\ ~torn /\ head = content[<<k, cur>>] /\ cur \notin packages
        /\ k = "error" => packed["all"] = content[<<"all", cur>>]
    BY <1>4 DEF Copy
  <2>2. /\ torn' = torn /\ packed' = [packed EXCEPT ![k] = head]
        /\ UNCHANGED <<cur, content, packages>>
        /\ \/ k = "all" /\ kind' = "error" /\ pc' = "pack"
           \/ k = "error" /\ kind' = "error" /\ pc' = "close"
    BY <1>4, <2>1 DEF Copy, disk, Kinds
  <2>3. packed'[k] = content'[<<k, cur'>>]
    BY <2>1, <2>2 DEF TypeOK
  <2>4. k = "error" => packed'["all"] = content'[<<"all", cur'>>]
    BY <2>1, <2>2 DEF TypeOK, Kinds
  <2>5. QED
    BY <2>1, <2>2, <2>3, <2>4 DEF Kinds
<1>5. CASE Close
  <2>1. /\ pc = "close" /\ pc' = "rename" /\ WrittenOut
        /\ UNCHANGED <<content, packages, kind, cur, head, torn>>
    BY <1>5 DEF Close, disk
  <2>2. /\ \A k \in Kinds : packed'[k] \subseteq packed[k]
        /\ ~short' => ~short /\ packed' = packed
    BY <2>1, WrittenOutTypes
  <2>3. \A k \in Kinds : packed[k] \subseteq content[<<k, cur>>]
    BY <2>1
  <2>4. QED
    BY <2>1, <2>2, <2>3
<1>6. CASE Rename
  BY <1>6 DEF Rename
<1>7. ASSUME NEW k \in Kinds, Unlink(k)
      PROVE  PackageInv'
  BY <1>7 DEF Unlink, sealed
<1>8. CASE Scan \/ PassOver \/ EndScan \/ PackFails \/ RenameFails \/ Crash
  BY <1>8 DEF Scan, PassOver, EndScan, PackFails, RenameFails, Crash, entries
<1>9. ASSUME \/ TakeHandle \/ MakeDir \/ NewDay \/ DayBack \/ UNCHANGED vars
             \/ \E l \in flight : WriteFails(l)
      PROVE  PackageInv'
  <2>1. UNCHANGED <<packages, content, pc, kind, cur, head, torn, packed, short>>
    BY <1>9 DEF TakeHandle, WriteFails, MakeDir, NewDay, DayBack, vars,
      writerRest, scan, disk, entries
  <2>2. QED
    BY <2>1
<1>10. QED
  BY <1>1, <1>2, <1>3, <1>4, <1>5, <1>6, <1>7, <1>8, <1>9 DEF Next, Writer, Archiver

\* What was written is in its file until it is in the package.
LEMMA LinesStep ==
  ASSUME Lag < After, TypeOK, DaysInv, DueInv, LinesInv, PackageInv, [Next]_vars
  PROVE  LinesInv'
<1> USE DEF LinesInv
<1>1. CASE TakeHandle
  <2>1. /\ files \subseteq files' /\ UNCHANGED <<content, written, packages, archived, damaged>>
        /\ \A l \in flight' : l \in flight \/ l.to \subseteq files'
    BY <1>1 DEF TakeHandle, writerRest
  <2>2. QED
    BY <2>1
<1>2. ASSUME NEW l \in flight, NEW f \in l.to, WriteLine(l, f)
      PROVE  LinesInv'
  <2>1. /\ f \in Files /\ f[2] \notin packages
        /\ content' = [content EXCEPT ![f] = @ \cup {l.id}]
        /\ written' = [written EXCEPT ![f] = @ \cup {l.id}]
        /\ \A m \in flight' : \E n \in flight : m.to \subseteq n.to
        /\ UNCHANGED <<files, archived, packages, damaged>>
        /\ content \in [Files -> SUBSET Ids] /\ written \in [Files -> SUBSET Ids]
    BY <1>2, WriteReaches DEF TypeOK
  <2>2. \A m \in flight' : m.to \subseteq files'
    BY <2>1
  <2>3. \A g \in Files : content'[g] \subseteq written'[g]
    BY <2>1
  <2>4. \A g \in Files : g[2] \notin packages => content'[g] = written'[g]
    BY <2>1
  <2>5. \A g \in Files : g[2] \in packages => written'[g] = written[g]
    BY <2>1
  <2>6. QED
    BY <2>1, <2>2, <2>3, <2>4, <2>5
<1>3. CASE Rename
  <2>1. /\ pc = "rename" /\ WrittenOut
        /\ cur \notin packages /\ packages' = packages \cup {cur}
        /\ archived' = [f \in Files |-> IF f[2] = cur THEN packed'[f[1]] ELSE archived[f]]
        /\ damaged' = IF short' THEN damaged \cup {cur} ELSE damaged
        /\ UNCHANGED <<flight, files, content, written>>
    BY <1>3 DEF Rename, PackageInv, Packing, archiverRest
  <2>2. /\ \A k \in Kinds : packed'[k] \subseteq packed[k]
        /\ ~short' => ~short /\ packed' = packed
    BY <2>1, WrittenOutTypes
  <2>3. \A k \in Kinds : packed[k] \subseteq content[<<k, cur>>]
    BY <2>1 DEF PackageInv
  <2>4. ~short => \A k \in Kinds : packed[k] = content[<<k, cur>>]
    BY <2>1 DEF PackageInv
  <2>5. ASSUME NEW f \in Files, f[2] = cur
        PROVE  archived'[f] \subseteq written[f] /\ (~short' => archived'[f] = written[f])
    <3>1. f[1] \in Kinds /\ f = <<f[1], cur>> /\ content[f] = written[f]
      BY <2>1, <2>5 DEF Files
    <3>2. QED
      BY <2>1, <2>2, <2>3, <2>4, <2>5, <3>1
  <2>6. QED
    BY <2>1, <2>5
<1>4. ASSUME NEW k \in Kinds, Unlink(k)
      PROVE  LinesInv'
  <2>1. /\ cur \in packages /\ UNCHANGED <<flight, written, packages, archived, damaged>>
        /\ \A l \in flight : \A f \in l.to : f[2] # cur
    <3>1. Over(cur)
      BY <1>4 DEF Unlink, DueInv, Busy
    <3>2. QED
      BY <1>4, <3>1, NoLineForOldDays DEF Unlink, PackageInv, archiverRest, sealed
  <2>2. \/ files' = files \ {<<k, cur>>} /\ content' = [content EXCEPT ![<<k, cur>>] = {}]
        \/ UNCHANGED <<files, content>>
    BY <1>4 DEF Unlink, Unlinks
  <2>3. \A f \in Files : content'[f] \subseteq content[f]
    BY <2>2 DEF TypeOK
  <2>4. \A f \in Files : f[2] # cur => content'[f] = content[f]
    BY <2>2 DEF TypeOK, Files
  <2>5. \A l \in flight' : l.to \subseteq files'
    BY <2>1, <2>2
  <2>6. QED
    BY <2>1, <2>3, <2>4, <2>5
<1>5. CASE Scan \/ PassOver \/ StartPackage \/ EndScan \/ Close \/ PackFails \/ RenameFails
  BY <1>5 DEF Scan, PassOver, StartPackage, EndScan, Close, PackFails, RenameFails,
    archiverRest, sealed, disk
<1>6. ASSUME NEW k \in Kinds, Pack(k) \/ Copy(k)
      PROVE  LinesInv'
  BY <1>6 DEF Pack, Copy, archiverRest, disk
<1>7. CASE Crash
  BY <1>7 DEF Crash, disk
<1>8. ASSUME \/ MakeDir \/ NewDay \/ DayBack \/ UNCHANGED vars
             \/ \E l \in flight : WriteFails(l)
      PROVE  LinesInv'
  <2>1. /\ flight' \subseteq flight
        /\ UNCHANGED <<files, content, packages, archived, damaged, written>>
    BY <1>8 DEF WriteFails, MakeDir, NewDay, DayBack, vars, writerRest, disk
  <2>2. QED
    BY <2>1
<1>9. QED
  BY <1>1, <1>2, <1>3, <1>4, <1>5, <1>6, <1>7, <1>8 DEF Next, Writer, Archiver

\* A day is dated by its files.
LEMMA DatedDay ==
  ASSUME TypeOK
  PROVE  /\ Dated \subseteq Days
         /\ \A d \in Days : d \in Dated <=> \E k \in Kinds : <<k, d>> \in files
<1>1. \A f \in files : f[1] \in Kinds /\ f[2] \in Days /\ f = <<f[1], f[2]>>
  BY DEF TypeOK, Files
<1>2. \A k \in Kinds, d \in Days : <<k, d>> \in files => d \in Dated
  <2> TAKE k \in Kinds, d \in Days
  <2> HAVE <<k, d>> \in files
  <2>1. <<k, d>>[2] = d
    OBVIOUS
  <2>2. QED
    BY <2>1 DEF Dated
<1>3. QED
  BY <1>1, <1>2 DEF Dated

\* No scan comes to a later day while an earlier one is to be packed.
LEMMA OrderStep ==
  ASSUME Lag < After, TypeOK, DaysInv, DueInv, PackageInv, OrderInv, [Next]_vars
  PROVE  OrderInv'
<1> USE DEF OrderInv
<1>0. todo \subseteq Int /\ tmp \subseteq Int /\ Dated \subseteq Int /\ today \in Int
  BY DatedDay DEF TypeOK, Days
<1>1. CASE TakeHandle
  <2>1. \A d \in Dated' : d \in Dated \/ d \in Current
    <3>1. PICK opened \in SUBSET Kinds, day \in [Kinds -> Current] :
            files' = files \cup {<<k, day[k]>> : k \in opened}
      BY <1>1 DEF TakeHandle
    <3>2. \A f \in files' : f \in files \/ f[2] \in Current
      BY <3>1
    <3>3. QED
      BY <3>2 DEF Dated
  <2>2. Dated \subseteq Dated' /\ UNCHANGED <<todo, packages, tmp>>
    BY <1>1 DEF TakeHandle, Dated, writerRest, scan
  <2>3. Current \subseteq Int /\ \A c \in todo \cup tmp : \A d \in Current : c < d
    <3>1. /\ \A c \in todo \cup tmp : Over(c)
          /\ newest \in Int /\ After \in Int /\ Lag \in Int /\ Current \subseteq Int
      BY LogArchiveAssumption DEF DueInv, TypeOK, Days, Current
    <3>2. QED
      BY <1>0, <3>1 DEF Over, Current
  <2>4. QED
    BY <1>0, <2>1, <2>2, <2>3
<1>2. CASE Scan
  <2>1. /\ todo' = {d \in Dated : Due(d)} /\ tmp' \subseteq tmp
        /\ Dated' = Dated /\ packages' = packages
    BY <1>2 DEF Scan, Cleanup, Dated, sealed
  <2>2. \A c, d \in Dated : d < c /\ Due(c) => Due(d)
    BY <1>0, LogArchiveAssumption DEF Due
  <2>3. QED
    BY <2>1, <2>2
<1>3. ASSUME PassOver \/ StartPackage
      PROVE  Earliest(todo) \in todo /\ \A e \in todo : Earliest(todo) <= e
  <2>1. todo \in SUBSET Nat /\ todo # {}
    BY <1>3 DEF PassOver, StartPackage, TypeOK, Days
  <2>2. QED
    BY <2>1, EarliestIsFirst
<1>4. CASE PassOver
  <2>1. /\ todo' = todo \ {Earliest(todo)} /\ UNCHANGED <<tmp, packages>> /\ Dated' = Dated
        /\ Earliest(todo) \in packages \/ Earliest(todo) \notin Dated
    <3>1. Earliest(todo) \in Days
      BY <1>3, <1>4 DEF TypeOK
    <3>2. QED
      BY <1>4, <3>1, DatedDay DEF PassOver, Passable, disk, Dated
  <2>2. QED
    BY <2>1
<1>5. CASE StartPackage
  <2> DEFINE c == Earliest(todo)
  <2>1. /\ tmp' = tmp \cup {c} /\ UNCHANGED <<todo, packages>> /\ Dated' = Dated
        /\ c \in todo /\ \A e \in todo : c <= e
    BY <1>3, <1>5 DEF StartPackage, Dated, sealed
  <2>2. c \notin packages /\ c \in Dated
    <3>1. c \in Days
      BY <2>1 DEF TypeOK
    <3>2. QED
      BY <1>5, <3>1, DatedDay DEF StartPackage, Passable
  <2>3. c \in Int /\ \A e \in Dated : e < c => e \in packages
    <3>1. c \in Int
      BY <1>0, <2>1
    <3>2. QED
      BY <1>0, <2>1, <3>1
  <2> HIDE DEF c
  <2>4. \A d \in tmp : d = c
    <3> TAKE d \in tmp
    <3>1. d \in Dated /\ d \notin packages /\ d \in Int
      BY <1>0
    <3>2. ~(d < c)
      BY <2>3, <3>1
    <3>3. ~(c < d)
      BY <2>2
    <3>4. QED
      BY <2>3, <3>1, <3>2, <3>3
  <2>5. QED
    BY <2>1, <2>2, <2>3, <2>4
<1>6. CASE Rename
  <2>1. /\ packages' = packages \cup {cur} /\ tmp' = tmp \ {cur}
        /\ Dated' = Dated /\ todo' = todo
    BY <1>6 DEF Rename, Dated
  <2>2. QED
    BY <2>1
<1>7. ASSUME NEW k \in Kinds, Unlink(k)
      PROVE  OrderInv'
  <2>1. /\ cur \in packages /\ UNCHANGED <<packages, tmp>>
        /\ todo' = todo \/ todo' = todo \ {cur}
    BY <1>7 DEF Unlink, PackageInv, sealed
  <2>2. Dated' \subseteq Dated /\ \A d \in Dated : d # cur => d \in Dated'
    BY <1>7 DEF Unlink, Unlinks, Dated
  <2>3. QED
    BY <2>1, <2>2
<1>8. CASE EndScan \/ PackFails \/ RenameFails \/ Crash
  <2>1. tmp' \subseteq tmp /\ packages' = packages /\ Dated' = Dated /\ todo' \subseteq {}
    BY <1>8 DEF EndScan, PackFails, RenameFails, Crash, sealed, disk, Dated
  <2>2. QED
    BY <2>1
<1>9. ASSUME \/ MakeDir \/ NewDay \/ DayBack \/ UNCHANGED vars
             \/ \E l \in flight : WriteFails(l) \/ \E f \in l.to : WriteLine(l, f)
             \/ Close \/ \E k \in Kinds : Pack(k) \/ Copy(k)
      PROVE  OrderInv'
  <2>1. UNCHANGED <<files, packages, tmp, todo>>
    BY <1>9 DEF WriteLine, WriteFails, MakeDir, NewDay, DayBack, Pack, Copy, Close, vars,
      writerRest, scan, disk
  <2>2. Dated' = Dated
    BY <2>1 DEF Dated
  <2>3. QED
    BY <2>1, <2>2
<1>10. QED
  BY <1>1, <1>2, <1>4, <1>5, <1>6, <1>7, <1>8, <1>9 DEF Next, Writer, Archiver

\* An empty directory loses nothing.
LEMMA KeptInitially ==
  ASSUME Init
  PROVE  KeptInv
<1>1. DaysInv
  BY LogArchiveAssumption DEF Init, DaysInv
<1>2. DueInv /\ PackageInv
  BY DEF Init, DueInv, PackageInv, Busy, Packing
<1>3. LinesInv /\ OrderInv
  BY DEF Init, LinesInv, OrderInv, Dated
<1>4. QED
  BY <1>1, <1>2, <1>3 DEF KeptInv

\* The invariant, for every lag that is less than the days kept.
THEOREM KeptInvariant == Lag < After => (Spec => []KeptInv)
<1> SUFFICES ASSUME Lag < After
             PROVE  Spec => []KeptInv
  OBVIOUS
<1>1. TypeOK /\ KeptInv /\ [Next]_vars => KeptInv'
  BY DaysStep, DueStep, PackageStep, LinesStep, OrderStep DEF KeptInv
<1>2. QED
  BY <1>1, KeptInitially, LogTypes, PTL DEF Spec

\* A failure nobody notices is a failure that is counted.
LEMMA WrittenOutCounted ==
  ASSUME TypeOK, WrittenOut
  PROVE  /\ troubles \in Int /\ troubles' \in Int /\ troubles <= troubles'
         /\ short' => short \/ troubles < troubles'
<1>1. troubles \in Int
  BY LogArchiveAssumption DEF TypeOK
<1>2. QED
  BY <1>1 DEF WrittenOut, Trouble

\* Every damaged day is counted, however far lines are behind.
LEMMA DamageStep ==
  ASSUME TypeOK, DamageInv, [Next]_vars
  PROVE  DamageInv'
<1> USE DEF DamageInv
<1>0. /\ IsFiniteSet(damaged) /\ Cardinality(damaged) \in Int /\ troubles \in Int
      /\ Cardinality(damaged \cup {cur}) <= Cardinality(damaged) + 1
      /\ Cardinality(damaged \cup {cur}) \in Int
  <2>1. 1 \in Int /\ MaxDay \in Int /\ troubles \in Int
    BY LogArchiveAssumption DEF TypeOK
  <2>2. IsFiniteSet(1 .. MaxDay)
    BY <2>1, FS_Interval
  <2>3. damaged \subseteq 1 .. MaxDay
    BY DEF TypeOK, Days
  <2>4. IsFiniteSet(damaged)
    BY <2>2, <2>3, FS_Subset
  <2>5. Cardinality(damaged) \in Nat
    BY <2>4, FS_CardinalityType
  <2>6. \/ Cardinality(damaged \cup {cur}) = Cardinality(damaged)
        \/ Cardinality(damaged \cup {cur}) = Cardinality(damaged) + 1
    BY <2>4, FS_AddElement
  <2>7. QED
    BY <2>1, <2>4, <2>5, <2>6
<1>1. CASE Close
  <2>1. WrittenOut /\ damaged' = damaged /\ Packing
    BY <1>1 DEF Close, disk, Packing
  <2>2. /\ troubles' \in Int /\ troubles <= troubles'
        /\ short' => short \/ troubles < troubles'
    BY <2>1, WrittenOutCounted
  <2>3. QED
    BY <1>0, <2>1, <2>2
<1>2. CASE Rename
  <2>1. /\ WrittenOut /\ Packing /\ ~Packing'
        /\ damaged' = IF short' THEN damaged \cup {cur} ELSE damaged
    BY <1>2 DEF Rename, Packing
  <2>2. /\ troubles' \in Int /\ troubles <= troubles'
        /\ short' => short \/ troubles < troubles'
    BY <2>1, WrittenOutCounted
  <2>3. QED
    BY <1>0, <2>1, <2>2
<1>3. CASE StartPackage
  <2>1. ~short' /\ UNCHANGED <<damaged, troubles>>
    BY <1>3 DEF StartPackage, EmptyPackage, sealed
  <2>2. QED
    BY <2>1
<1>4. CASE Scan \/ PackFails \/ RenameFails
  <2>1. /\ damaged' = damaged /\ (troubles' = troubles \/ troubles' = troubles + 1)
        /\ ~Packing'
    BY <1>4 DEF Scan, Cleanup, PackFails, RenameFails, Trouble, sealed, Packing
  <2>2. QED
    BY <1>0, <2>1
<1>5. ASSUME NEW k \in Kinds, Unlink(k)
      PROVE  DamageInv'
  <2>1. /\ damaged' = damaged /\ (troubles' = troubles \/ troubles' = troubles + 1)
        /\ ~Packing'
    BY <1>5 DEF Unlink, Unlinks, Trouble, sealed, Packing
  <2>2. QED
    BY <1>0, <2>1
<1>6. CASE PassOver \/ EndScan \/ Crash
  <2>1. UNCHANGED <<damaged, troubles>> /\ ~Packing'
    BY <1>6 DEF PassOver, EndScan, Crash, disk, Packing
  <2>2. QED
    BY <2>1
<1>7. ASSUME NEW k \in Kinds, Pack(k) \/ Copy(k)
      PROVE  DamageInv'
  <2>1. UNCHANGED <<damaged, troubles, short>> /\ Packing
    BY <1>7 DEF Pack, Copy, disk, Packing
  <2>2. QED
    BY <2>1
<1>8. ASSUME \/ TakeHandle \/ MakeDir \/ NewDay \/ DayBack \/ UNCHANGED vars
             \/ \E l \in flight : WriteFails(l) \/ \E f \in l.to : WriteLine(l, f)
      PROVE  DamageInv'
  <2>1. UNCHANGED <<damaged, troubles, short, pc>>
    BY <1>8 DEF TakeHandle, WriteLine, WriteFails, MakeDir, NewDay, DayBack, vars,
      writerRest, scan, entries, disk
  <2>2. QED
    BY <2>1 DEF Packing
<1>9. QED
  BY <1>1, <1>2, <1>3, <1>4, <1>5, <1>6, <1>7, <1>8 DEF Next, Writer, Archiver

-----------------------------------------------------------------------------
\* What was written can be read, from the file or from the day's package, wherever the
\* archiver stopped, failed or was killed, but for the days that lost bytes to a failure
\* nobody noticed; and each such day took a failure of its own.
THEOREM NothingGetsLost == Spec => []NothingLost
<1> DEFINE Kept == Lag < After =>
      \A f \in Files : written[f] \subseteq content[f] \cup archived[f] \/ f[2] \in damaged
<1>1. Spec => []Kept
  <2>1. ASSUME Lag < After
        PROVE  KeptInv => Kept
    <3> SUFFICES ASSUME KeptInv, NEW f \in Files, f[2] \notin damaged
                 PROVE  written[f] \subseteq content[f] \cup archived[f]
      OBVIOUS
    <3>1. CASE f[2] \in packages
      BY <3>1 DEF KeptInv, LinesInv
    <3>2. CASE f[2] \notin packages
      BY <3>2 DEF KeptInv, LinesInv
    <3>3. QED
      BY <3>1, <3>2
  <2>2. CASE Lag < After
    BY <2>1, <2>2, KeptInvariant, PTL
  <2>3. CASE ~(Lag < After)
    <3>1. Kept
      BY <2>3
    <3>2. QED
      BY <3>1, PTL
  <2>4. QED
    BY <2>2, <2>3
<1>2. Spec => []DamageInv
  <2>1. Init => DamageInv
    <3>1. Cardinality({}) = 0
      BY FS_EmptySet
    <3>2. QED
      BY <3>1 DEF Init, DamageInv, Packing
  <2>2. TypeOK /\ DamageInv /\ [Next]_vars => DamageInv'
    BY DamageStep
  <2>3. QED
    BY <2>1, <2>2, LogTypes, PTL DEF Spec
<1>3. Kept /\ DamageInv => NothingLost
  BY DEF NothingLost, DamageInv
<1> HIDE DEF Kept
<1>4. QED
  BY <1>1, <1>2, <1>3, PTL

\* A package with its name holds all that was ever written to the two logs of its day, or,
\* if it lacks bytes, nothing else.
THEOREM PackagesAreWhole == Spec => []PackageIsWhole
<1>1. ASSUME Lag < After
      PROVE  KeptInv => PackageIsWhole
  BY DEF KeptInv, LinesInv, PackageIsWhole
<1>2. CASE Lag < After
  BY <1>1, <1>2, KeptInvariant, PTL
<1>3. CASE ~(Lag < After)
  <2>1. PackageIsWhole
    BY <1>3 DEF PackageIsWhole
  <2>2. QED
    BY <2>1, PTL
<1>4. QED
  BY <1>2, <1>3

\* Temporary packages do not pile up, whatever fails and however often.
THEOREM AtMostOneTmp == Spec => []OneTmpAtMost
<1>1. ASSUME Lag < After
      PROVE  KeptInv => OneTmpAtMost
  <2> SUFFICES ASSUME KeptInv
               PROVE  Cardinality(tmp) <= 1
    BY DEF OneTmpAtMost
  <2>1. CASE tmp = {}
    BY <2>1, FS_EmptySet
  <2>2. ASSUME NEW d \in tmp
        PROVE  Cardinality(tmp) <= 1
    <3>1. tmp = {d}
      BY DEF KeptInv, OrderInv
    <3>2. QED
      BY <3>1, FS_Singleton
  <2>3. QED
    BY <2>1, <2>2
<1>2. CASE Lag < After
  BY <1>1, <1>2, KeptInvariant, PTL
<1>3. CASE ~(Lag < After)
  <2>1. OneTmpAtMost
    BY <1>3 DEF OneTmpAtMost
  <2>2. QED
    BY <2>1, PTL
<1>4. QED
  BY <1>2, <1>3

-----------------------------------------------------------------------------
(* The refinement                                                            *)

\* A write is the store's Write.
LEMMA WriteLineWrites ==
  ASSUME Lag < After, TypeOK, KeptInv, NEW l \in flight, NEW f \in l.to, WriteLine(l, f)
  PROVE  Store!Write
<1>1. /\ f \in Files /\ f[2] \notin packages /\ f[2] <= newest
      /\ content' = [content EXCEPT ![f] = @ \cup {l.id}]
      /\ UNCHANGED <<archived, packages, damaged, newest>>
  BY WriteReaches DEF KeptInv
<1>2. /\ Readable[f] \subseteq Readable'[f]
      /\ \A g \in Files : g # f => Readable'[g] = Readable[g]
  BY <1>1 DEF Readable, TypeOK
<1>3. Readable' = [Readable EXCEPT ![f] = Readable'[f]]
  BY <1>2 DEF Readable
<1>4. f \in Kinds \X Days
  BY <1>1 DEF Files
<1>5. QED
  BY <1>1, <1>2, <1>3, <1>4 DEF Store!Write

\* A package gets its name without a change in what can be read.
LEMMA RenameSeals ==
  ASSUME TypeOK, KeptInv, Rename
  PROVE  Store!Seal
<1>1. /\ pc = "rename" /\ WrittenOut
      /\ cur \notin packages /\ packages' = packages \cup {cur}
      /\ archived' = [f \in Files |-> IF f[2] = cur THEN packed'[f[1]] ELSE archived[f]]
      /\ damaged' \in {damaged, damaged \cup {cur}}
      /\ UNCHANGED <<newest, content>>
  BY DEF Rename, KeptInv, PackageInv, Packing, archiverRest, days
<1>2. \A k \in Kinds : packed'[k] \subseteq content[<<k, cur>>]
  <2>1. \A k \in Kinds : packed'[k] \subseteq packed[k]
    BY <1>1, WrittenOutTypes
  <2>2. \A k \in Kinds : packed[k] \subseteq content[<<k, cur>>]
    BY <1>1 DEF KeptInv, PackageInv
  <2>3. QED
    BY <2>1, <2>2
<1>3. \A f \in Files : content[f] \cup archived[f] = content[f] \cup archived'[f]
  <2> TAKE f \in Files
  <2>1. CASE f[2] = cur
    <3>1. f[1] \in Kinds /\ f = <<f[1], cur>> /\ f[2] \notin packages
      BY <1>1, <2>1 DEF Files
    <3>2. archived'[f] \subseteq content[f] /\ archived[f] = {}
      BY <1>1, <1>2, <2>1, <3>1 DEF KeptInv, LinesInv
    <3>3. QED
      BY <3>2
  <2>2. CASE f[2] # cur
    BY <1>1, <2>2
  <2>3. QED
    BY <2>1, <2>2
<1>4. Readable' = Readable
  BY <1>1, <1>3 DEF Readable
<1>5. cur \in Days /\ cur <= newest - After
  BY <1>1 DEF TypeOK, KeptInv, DueInv, Packing, Busy, Over
<1>6. QED
  BY <1>1, <1>4, <1>5 DEF Store!Seal

\* What is deleted can be read from the package, unless that is damaged: then the log
\* loses lines.
LEMMA UnlinkUnseen ==
  ASSUME TypeOK, KeptInv, NEW k \in Kinds, Unlink(k)
  PROVE  Store!Lose \/ UNCHANGED <<newest, packages, damaged, Readable>>
<1> DEFINE f == <<k, cur>>
<1>1. cur \in packages /\ UNCHANGED <<newest, packages, damaged, archived>>
  BY DEF Unlink, KeptInv, PackageInv, archiverRest, days, sealed
<1>2. f \in Files /\ f[1] = k /\ f[2] = cur
  BY DEF TypeOK, Files
<1>3. \/ content' = [content EXCEPT ![f] = {}]
      \/ content' = content
  BY DEF Unlink, Unlinks
<1> HIDE DEF f
<1>4. /\ content'[f] \subseteq content[f]
      /\ \A g \in Files : g # f => content'[g] = content[g]
  BY <1>2, <1>3 DEF TypeOK
<1>5. /\ Readable'[f] \subseteq Readable[f]
      /\ \A g \in Files : g # f => Readable'[g] = Readable[g]
  BY <1>1, <1>2, <1>4 DEF Readable
<1>6. Readable' = [Readable EXCEPT ![f] = Readable'[f]]
  BY <1>5 DEF Readable
<1>7. CASE cur \in damaged
  <2>1. f \in Kinds \X damaged
    BY <1>2, <1>7 DEF Files
  <2>2. QED
    BY <1>1, <1>5, <1>6, <2>1 DEF Store!Lose
<1>8. CASE cur \notin damaged
  <2>1. content[f] \subseteq archived[f]
    BY <1>1, <1>2, <1>8 DEF KeptInv, LinesInv
  <2>2. \A g \in Files : content'[g] \cup archived[g] = content[g] \cup archived[g]
    BY <1>2, <1>4, <2>1
  <2>3. Readable' = Readable
    BY <1>1, <2>2 DEF Readable
  <2>4. QED
    BY <1>1, <2>3
<1>9. QED
  BY <1>7, <1>8

\* The directory implements the store its readers rely on: every step of the writers, the
\* archiver and the clock, and every kill, is a new day, a write to an open day, the sealing
\* of a day, a loss of lines of a day sealed damaged, or nothing a reader can see.
THEOREM DirectoryKeepsLines == Lag < After => (Spec => KeepsLines)
<1> SUFFICES ASSUME Lag < After
             PROVE  Spec => KeepsLines
  OBVIOUS
<1>1. Init => Store!Init
  <2> SUFFICES ASSUME Init PROVE Store!Init
    OBVIOUS
  <2>1. Readable = [f \in Kinds \X Days |-> {}]
    BY DEF Init, Readable, Files
  <2>2. newest \in Days /\ packages = {} /\ damaged = {}
    BY LogArchiveAssumption DEF Init, Days
  <2>3. QED
    BY <2>1, <2>2 DEF Store!Init
<1>2. TypeOK /\ KeptInv /\ [Next]_vars => [Store!Next]_<<newest, Readable, packages, damaged>>
  <2> SUFFICES ASSUME TypeOK, KeptInv, [Next]_vars
               PROVE  [Store!Next]_<<newest, Readable, packages, damaged>>
    OBVIOUS
  <2> USE DEF Store!Next
  <2>1. CASE NewDay
    BY <2>1 DEF NewDay, Store!NewDay, Readable, disk
  <2>2. ASSUME NEW l \in flight, NEW f \in l.to, WriteLine(l, f)
        PROVE  Store!Write
    BY <2>2, WriteLineWrites
  <2>3. CASE Rename
    BY <2>3, RenameSeals
  <2>4. ASSUME NEW k \in Kinds, Unlink(k)
        PROVE  Store!Lose \/ UNCHANGED <<newest, packages, damaged, Readable>>
    BY <2>4, UnlinkUnseen
  <2>5. CASE Scan \/ PassOver \/ StartPackage \/ EndScan \/ Close \/ PackFails
            \/ RenameFails
    BY <2>5 DEF Scan, PassOver, StartPackage, EndScan, Close, PackFails, RenameFails, Readable,
      archiverRest, days, sealed, disk
  <2>6. ASSUME NEW k \in Kinds, Pack(k) \/ Copy(k)
        PROVE  UNCHANGED <<newest, packages, damaged, Readable>>
    BY <2>6 DEF Pack, Copy, Readable, archiverRest, days, disk
  <2>7. ASSUME \/ TakeHandle \/ MakeDir \/ DayBack \/ Crash \/ UNCHANGED vars
               \/ \E l \in flight : WriteFails(l)
        PROVE  UNCHANGED <<newest, packages, damaged, Readable>>
    BY <2>7 DEF TakeHandle, WriteFails, MakeDir, DayBack, Crash, vars, Readable, writerRest,
      days, disk
  <2>8. QED
    BY <2>1, <2>2, <2>3, <2>4, <2>5, <2>6, <2>7 DEF Next, Writer, Archiver
<1>3. QED
  BY <1>1, <1>2, LogTypes, KeptInvariant, PTL DEF Spec, KeepsLines, Store!Spec
=============================================================================
