-------------------------- MODULE LocalTimeProofs --------------------------
(* What LocalTime promises, for every history of a zone, interval and       *)
(* retention.                                                               *)
EXTENDS LocalTime, WellFoundedInduction, TLAPS

\* Division with remainder, as the provers are to use it.
LEMMA DivMod ==
  ASSUME NEW t \in Int, NEW m \in Nat \ {0}
  PROVE  /\ t \div m \in Int /\ t % m \in 0 .. (m - 1)
         /\ t = m * (t \div m) + (t % m)
  OBVIOUS

\* A larger quotient is larger by a whole divisor.
LEMMA NextMultiple ==
  ASSUME NEW m \in Nat \ {0}, NEW j \in Int, NEW k \in Int, j < k
  PROVE  m * j + m <= m * k
<1>1. k - j >= 1
  OBVIOUS
<1>2. m * (k - j) >= m
  BY <1>1
<1>3. m * (k - j) = m * k - m * j
  OBVIOUS
<1>4. QED
  BY <1>2, <1>3

\* A multiple of m leaves no remainder.
LEMMA MultipleMod ==
  ASSUME NEW m \in Nat \ {0}, NEW k \in Int, NEW t \in Int, t = m * k
  PROVE  t % m = 0
<1> DEFINE q == t \div m
<1>1. q \in Int /\ t % m \in 0 .. (m - 1) /\ t = m * q + (t % m)
  BY DivMod
<1>2. CASE q = k
  BY <1>1, <1>2
<1>3. CASE q < k
  <2>1. m * q + m <= m * k
    BY <1>1, <1>3, NextMultiple
  <2>2. QED
    BY <1>1, <2>1
<1>4. CASE k < q
  <2>1. m * k + m <= m * q
    BY <1>1, <1>4, NextMultiple
  <2>2. QED
    BY <1>1, <2>1
<1>5. QED
  BY <1>1, <1>2, <1>3, <1>4

\* Cutting to a multiple of m keeps the order of two times.
LEMMA CutMonotone ==
  ASSUME NEW m \in Nat \ {0}, NEW s \in Int, NEW t \in Int, s <= t
  PROVE  s - (s % m) <= t - (t % m)
<1> DEFINE j == s \div m
           k == t \div m
<1>1. j \in Int /\ s % m \in 0 .. (m - 1) /\ s = m * j + (s % m)
  BY DivMod
<1>2. k \in Int /\ t % m \in 0 .. (m - 1) /\ t = m * k + (t % m)
  BY DivMod
<1>3. CASE j = k
  BY <1>1, <1>2, <1>3
<1>4. CASE j < k
  <2>1. m * j + m <= m * k
    BY <1>1, <1>2, <1>4, NextMultiple
  <2>2. QED
    BY <1>1, <1>2, <2>1
<1>5. CASE k < j
  <2>1. m * k + m <= m * j
    BY <1>1, <1>2, <1>5, NextMultiple
  <2>2. QED
    BY <1>1, <1>2, <2>1
<1>6. QED
  BY <1>1, <1>2, <1>3, <1>4, <1>5

\* The aligned time is a multiple of the interval, later than now by at most
\* one interval.
LEMMA NextAlignedIsMultiple ==
  ASSUME NEW i \in Nat \ {0}, NEW t \in Nat
  PROVE  /\ NextAligned(t, i) \in Nat
         /\ t < NextAligned(t, i) /\ NextAligned(t, i) <= t + i
         /\ \E k \in Int : NextAligned(t, i) = i * k
<1>1. t \div i \in Int /\ t % i \in 0 .. (i - 1) /\ t = i * (t \div i) + (t % i)
  BY DivMod
<1>2. NextAligned(t, i) = i * ((t \div i) + 1)
  BY <1>1 DEF NextAligned
<1>3. \E k \in Int : NextAligned(t, i) = i * k
  <2>1. (t \div i) + 1 \in Int
    BY <1>1
  <2>2. QED
    BY <1>2, <2>1, Zenon
<1>4. NextAligned(t, i) \in Nat /\ t < NextAligned(t, i) /\ NextAligned(t, i) <= t + i
  BY <1>1 DEF NextAligned
<1>5. QED
  BY <1>3, <1>4

\* A multiple of m more leaves the same remainder.
LEMMA ShiftMod ==
  ASSUME NEW m \in Nat \ {0}, NEW t \in Int, NEW k \in Int, k % m = 0
  PROVE  (t + k) % m = t % m
<1> DEFINE u == t + k
<1>1. /\ t \div m \in Int /\ t % m \in 0 .. (m - 1) /\ t = m * (t \div m) + (t % m)
  BY DivMod
<1>2. /\ k \div m \in Int /\ k = m * (k \div m)
  BY DivMod
<1>3. u \in Int
  OBVIOUS
<1>4. /\ u \div m \in Int /\ u % m \in 0 .. (m - 1) /\ u = m * (u \div m) + (u % m)
  BY <1>3, DivMod
<1> HIDE DEF u
<1> DEFINE a == t \div m
           b == k \div m
           c == u \div m
<1>5. m * (a + b) = m * a + m * b
  BY <1>1, <1>2
<1>6. m * (a + b) + (t % m) = m * c + (u % m)
  BY <1>1, <1>2, <1>4, <1>5 DEF u
<1>7. a + b \in Int /\ c \in Int
  BY <1>1, <1>2, <1>4
<1>8. CASE a + b = c
  BY <1>1, <1>4, <1>6, <1>8 DEF u
<1>9. CASE a + b < c
  <2>1. m * (a + b) + m <= m * c
    BY <1>7, <1>9, NextMultiple
  <2>2. QED
    BY <1>1, <1>4, <1>6, <1>7, <2>1
<1>10. CASE c < a + b
  <2>1. m * c + m <= m * (a + b)
    BY <1>7, <1>10, NextMultiple
  <2>2. QED
    BY <1>1, <1>4, <1>6, <1>7, <2>1
<1>11. QED
  BY <1>7, <1>8, <1>9, <1>10

\* The times the system speaks of: none is before the first round's query.
Times == {t \in Int : t >= StartTime - 3 * Minute}

\* The assumptions on the configured zone.
LEMMA ZoneFacts ==
  ASSUME zone \in Zones
  PROVE  /\ Minute \in Nat \ {0}
         /\ \A e \in zone : /\ e.from \in Int /\ e.from % Minute = 0
                            /\ e.offset \in Int /\ e.offset % Minute = 0
         /\ \A e \in zone : \A f \in zone : e.from = f.from => e = f
  BY LocalTimeAssumption

\* At every time some offset is in force.
LEMMA InForce ==
  ASSUME zone \in Zones, NEW t \in Times
  PROVE  \E e \in zone : /\ e.from <= t
                         /\ \A f \in zone : f.from <= t => f.from <= e.from
<1> DEFINE R == OpToRel(<, Nat)
           begun == {e \in zone : e.from <= t}
           T == {t - e.from : e \in begun}
<1>1. t \in Int /\ \A e \in zone : e.from \in Int
  BY ZoneFacts DEF Times
<1>2. T \subseteq Nat
  BY <1>1
<1>3. PICK e \in zone : e.from <= StartTime - Retain - 3 * Minute
  BY LocalTimeAssumption
<1>4. e.from <= t
  BY <1>1, <1>3, LocalTimeAssumption DEF Times
<1>5. T # {}
  BY <1>3, <1>4
<1>6. IsWellFoundedOn(R, Nat)
  BY NatLessThanWellFounded
<1> HIDE DEF R, T
<1>7. PICK x \in T : \A y \in T : ~ (<<y, x>> \in R)
  BY <1>2, <1>5, <1>6, WFMin
<1> USE DEF R, T
<1>8. \A y \in T : ~ (y < x)
  BY <1>2, <1>7 DEF OpToRel
<1>9. PICK g \in begun : x = t - g.from
  BY <1>7
<1>10. \A f \in zone : f.from <= t => f.from <= g.from
  <2> TAKE f \in zone
  <2> HAVE f.from <= t
  <2>1. t - f.from \in T
    OBVIOUS
  <2>2. ~ (t - f.from < t - g.from)
    BY <2>1, <1>8, <1>9
  <2>3. t \in Int /\ f.from \in Int /\ g.from \in Int
    BY <1>1
  <2>4. QED
    BY <2>2, <2>3
<1>11. QED
  BY <1>9, <1>10

\* The offset in force is one of the zone's.
LEMMA OffsetFacts ==
  ASSUME zone \in Zones, NEW t \in Times
  PROVE  /\ Offset(t) \in Int /\ Offset(t) % Minute = 0
         /\ \E e \in zone : /\ e.offset = Offset(t) /\ e.from <= t
                            /\ \A f \in zone : f.from <= t => f.from <= e.from
<1> DEFINE e == CHOOSE e \in zone : /\ e.from <= t
                                    /\ \A f \in zone : f.from <= t => f.from <= e.from
<1>1. /\ e \in zone /\ e.from <= t
      /\ \A f \in zone : f.from <= t => f.from <= e.from
  BY InForce
<1>2. Offset(t) = e.offset
  BY DEF Offset
<1> HIDE DEF e
<1>3. QED
  BY <1>1, <1>2, ZoneFacts

\* No offset changes within a minute.
LEMMA OffsetInMinute ==
  ASSUME zone \in Zones, NEW t \in Times, t - (t % Minute) \in Times
  PROVE  Offset(t - (t % Minute)) = Offset(t)
<1> DEFINE s == t - (t % Minute)
<1>1. /\ Minute \in Nat \ {0} /\ t \in Int /\ s \in Int /\ s <= t
  <2>1. Minute \in Nat \ {0} /\ t \in Int
    BY ZoneFacts DEF Times
  <2>2. t % Minute \in 0 .. (Minute - 1)
    BY <2>1, DivMod
  <2>3. QED
    BY <2>1, <2>2
<1>2. \A e \in zone : e.from <= t => e.from <= s
  <2> TAKE e \in zone
  <2> HAVE e.from <= t
  <2>1. e.from \in Int /\ e.from % Minute = 0
    BY ZoneFacts
  <2>2. e.from - (e.from % Minute) <= t - (t % Minute)
    BY <1>1, <2>1, CutMonotone
  <2>3. QED
    BY <2>1, <2>2
<1> HIDE DEF s
<1>4. \A e \in zone : e.from \in Int
  BY ZoneFacts
<1>5. s \in Times
  BY DEF s
<1>6. PICK e \in zone : /\ e.offset = Offset(t) /\ e.from <= t
                        /\ \A f \in zone : f.from <= t => f.from <= e.from
  BY OffsetFacts
<1>7. PICK d \in zone : /\ d.offset = Offset(s) /\ d.from <= s
                        /\ \A f \in zone : f.from <= s => f.from <= d.from
  BY <1>5, OffsetFacts
<1>8. d.from <= t /\ e.from <= s
  BY <1>1, <1>2, <1>4, <1>6, <1>7
<1>9. d.from = e.from
  BY <1>4, <1>6, <1>7, <1>8
<1>10. QED
  BY <1>6, <1>7, <1>9, ZoneFacts DEF s

\* A minute of local time is a minute of UTC.
LEMMA LocalMinute ==
  ASSUME zone \in Zones, NEW t \in Times, t - (t % Minute) \in Times
  PROVE  CutToMinute(t) = Local(t - (t % Minute))
<1>1. /\ Minute \in Nat \ {0} /\ t \in Int
      /\ Offset(t) \in Int /\ Offset(t) % Minute = 0
  BY ZoneFacts, OffsetFacts DEF Times
<1>2. (t + Offset(t)) % Minute = t % Minute
  BY <1>1, ShiftMod
<1>3. QED
  BY <1>1, <1>2, OffsetInMinute DEF CutToMinute, Local

\* query_ts is two minutes past, cut to the minute or, if the zone repeats that
\* minute, not cut; which of the two, is the same all through a minute.
LEMMA QueryTsForm ==
  ASSUME zone \in Zones, NEW t \in Int, t >= StartTime
  PROVE  LET s   == t - 2 * Minute
             cut == s - (s % Minute)
         IN QueryTs(t) = IF Instants(Local(cut)) = {cut} THEN cut ELSE s
<1> DEFINE s == t - 2 * Minute
           cut == s - (s % Minute)
<1>1. Minute \in Nat \ {0} /\ StartTime \in Int
  BY ZoneFacts, LocalTimeAssumption
<1>2. s \in Int /\ s % Minute \in 0 .. (Minute - 1)
  BY <1>1, DivMod
<1>3. s \in Times /\ cut \in Times
  BY <1>1, <1>2 DEF Times
<1>4. CutToMinute(s) = Local(cut)
  BY <1>3, LocalMinute
<1>5. PICK e \in zone : e.offset = Offset(cut)
  BY <1>3, OffsetFacts
<1>6. cut \in Int /\ Offset(cut) \in Int
  BY <1>3, OffsetFacts DEF Times
<1>7. cut \in Instants(Local(cut))
  <2>1. Local(cut) - e.offset = cut
    BY <1>5, <1>6 DEF Local
  <2>2. QED
    BY <2>1 DEF Instants
<1> HIDE DEF s, cut
<1>8. QueryTs(t) = IF \E u \in Instants(Local(cut)) : Instants(Local(cut)) = {u}
                   THEN CHOOSE u \in Instants(Local(cut)) : TRUE ELSE s
  BY <1>4 DEF QueryTs, s
<1>9. CASE Instants(Local(cut)) = {cut}
  <2>1. \E u \in Instants(Local(cut)) : Instants(Local(cut)) = {u}
    BY <1>9
  <2>2. (CHOOSE u \in Instants(Local(cut)) : TRUE) = cut
    BY <1>9
  <2>3. QueryTs(t) = cut
    BY <1>8, <2>1, <2>2
  <2>4. QED
    BY <1>9, <2>3 DEF s, cut
<1>10. CASE Instants(Local(cut)) # {cut}
  <2>1. ~ \E u \in Instants(Local(cut)) : Instants(Local(cut)) = {u}
    BY <1>7, <1>10
  <2>2. QueryTs(t) = s
    BY <1>8, <2>1
  <2>3. QED
    BY <1>10, <2>2 DEF s, cut
<1>11. QED
  BY <1>9, <1>10

-----------------------------------------------------------------------------
(* The moments asked for                                                   *)

\* query_ts lies in the minute before two minutes ago.
LEMMA QueryTsRecent ==
  ASSUME zone \in Zones, NEW t \in Int, t >= StartTime
  PROVE  /\ QueryTs(t) \in Times
         /\ t - 2 * Minute - ((t - 2 * Minute) % Minute) <= QueryTs(t)
         /\ 2 * Minute <= t - QueryTs(t) /\ t - QueryTs(t) < 3 * Minute
<1> DEFINE s   == t - 2 * Minute
           cut == s - (s % Minute)
<1>1. Minute \in Nat \ {0} /\ StartTime \in Int /\ s \in Int
  BY ZoneFacts, LocalTimeAssumption
<1>2. s % Minute \in 0 .. (Minute - 1)
  BY <1>1, DivMod
<1>3. QueryTs(t) = cut \/ QueryTs(t) = s
  BY QueryTsForm
<1>4. cut \in Int /\ cut <= s /\ s - cut < Minute
  BY <1>1, <1>2
<1> HIDE DEF cut
<1>5. QueryTs(t) \in Int /\ cut <= QueryTs(t) /\ QueryTs(t) <= s
  BY <1>1, <1>3, <1>4
<1>6. 2 * Minute <= t - QueryTs(t) /\ t - QueryTs(t) < 3 * Minute
  BY <1>1, <1>4, <1>5
<1>7. QueryTs(t) \in Times
  BY <1>1, <1>5, <1>6 DEF Times
<1>8. QED
  BY <1>5, <1>6, <1>7 DEF cut

\* A later round does not ask for an earlier moment.
LEMMA QueryTsAdvances ==
  ASSUME zone \in Zones, NEW t \in Int, t >= StartTime, NEW u \in Int, t <= u
  PROVE  QueryTs(t) <= QueryTs(u)
<1> DEFINE s == t - 2 * Minute
           v == u - 2 * Minute
           cut == s - (s % Minute)
           cutU == v - (v % Minute)
<1>1. Minute \in Nat \ {0} /\ StartTime \in Int /\ s \in Int /\ v \in Int /\ s <= v
  BY ZoneFacts, LocalTimeAssumption
<1>2. /\ s \div Minute \in Int /\ s % Minute \in 0 .. (Minute - 1)
      /\ s = Minute * (s \div Minute) + (s % Minute)
  BY <1>1, DivMod
<1>3. /\ v \div Minute \in Int /\ v % Minute \in 0 .. (Minute - 1)
      /\ v = Minute * (v \div Minute) + (v % Minute)
  BY <1>1, DivMod
<1>4. cut <= cutU
  BY <1>1, CutMonotone
<1>5. QueryTs(t) = IF Instants(Local(cut)) = {cut} THEN cut ELSE s
  BY QueryTsForm
<1>6. u >= StartTime
  BY <1>1
<1>7. QueryTs(u) = IF Instants(Local(cutU)) = {cutU} THEN cutU ELSE v
  BY <1>6, QueryTsForm
<1>8. CASE s \div Minute = v \div Minute
  <2>1. cut = cutU
    <3>1. cut = Minute * (s \div Minute)
      BY <1>1, <1>2
    <3>2. cutU = Minute * (v \div Minute)
      BY <1>1, <1>3
    <3>3. QED
      BY <1>8, <3>1, <3>2
  <2>2. CASE Instants(Local(cut)) = {cut}
    <3>1. QueryTs(t) = cut /\ QueryTs(u) = cutU
      BY <1>5, <1>7, <2>1, <2>2
    <3>2. QED
      BY <1>1, <1>2, <1>3, <1>4, <3>1
  <2>3. CASE Instants(Local(cut)) # {cut}
    <3>1. QueryTs(t) = s /\ QueryTs(u) = v
      BY <1>5, <1>7, <2>1, <2>3
    <3>2. QED
      BY <1>1, <3>1
  <2>4. QED
    BY <2>2, <2>3
<1>9. CASE s \div Minute < v \div Minute
  <2>1. Minute * (s \div Minute) + Minute <= Minute * (v \div Minute)
    BY <1>1, <1>2, <1>3, <1>9, NextMultiple
  <2>2. s <= cutU /\ cut <= s /\ cutU <= v
    BY <1>1, <1>2, <1>3, <2>1
  <2>3. cut \in Int /\ cutU \in Int
    BY <1>1, <1>2, <1>3
  <2> HIDE DEF cut, cutU, s, v
  <2>4. QueryTs(t) <= s /\ cutU <= QueryTs(u) /\ QueryTs(t) \in Int /\ QueryTs(u) \in Int
    BY <1>1, <1>5, <1>7, <2>2, <2>3
  <2>5. QED
    BY <1>1, <2>2, <2>3, <2>4
<1>10. CASE v \div Minute < s \div Minute
  <2>1. Minute * (v \div Minute) + Minute <= Minute * (s \div Minute)
    BY <1>1, <1>2, <1>3, <1>10, NextMultiple
  <2>2. QED
    BY <1>1, <1>2, <1>3, <2>1
<1>11. QED
  BY <1>2, <1>3, <1>8, <1>9, <1>10

-----------------------------------------------------------------------------
(* The invariant                                                           *)

\* The latest query was that of an earlier moment, and the next round of this process
\* is due in a later minute.
Asked ==
  /\ at \in Int
  /\ at = StartTime - 3 * Minute
     \/ \E p \in Int : StartTime <= p /\ p <= now /\ at = QueryTs(p)
  /\ ~fresh /\ Interval % Minute = 0 => wake % Minute = 0 /\ at + 2 * Minute < wake

\* A row holds the local time of the moment it was asked for.
Stored == \A r \in table : r.at \in Times /\ r.ts = Local(r.at)

Inv ==
  /\ zone \in Zones /\ now \in Int /\ now >= StartTime /\ wake \in Int
  /\ frozen \in Int /\ session = TimeZoneSet
  /\ Asked /\ Stored

\* Local time is the same before and after a step.
LEMMA ZoneKept ==
  ASSUME zone' = zone
  PROVE  /\ \A t : Local(t)' = Local(t)
         /\ \A t : QueryTs(t)' = QueryTs(t)
<1>1. \A t : Offset(t)' = Offset(t)
  BY DEF Offset
<1>2. \A t : Local(t)' = Local(t)
  BY <1>1 DEF Local
<1>3. \A t : Instants(t)' = Instants(t)
  BY <1>2 DEF Instants
<1>4. \A t : CutToMinute(t)' = CutToMinute(t)
  BY <1>2 DEF CutToMinute
<1>5. QED
  BY <1>2, <1>3, <1>4 DEF QueryTs

\* The next round is due after this one, and on a minute if intervals are minutes.
LEMMA NextWake ==
  ASSUME NEW t \in Int, t >= StartTime
  PROVE  /\ NextAligned(t, Interval) \in Int /\ t < NextAligned(t, Interval)
         /\ Interval % Minute = 0 => NextAligned(t, Interval) % Minute = 0
<1>1. /\ Interval \in Nat \ {0} /\ Minute \in Nat \ {0} /\ t \in Nat
  BY LocalTimeAssumption
<1>2. PICK k \in Int : NextAligned(t, Interval) = Interval * k
  BY <1>1, NextAlignedIsMultiple
<1>3. NextAligned(t, Interval) \in Int /\ t < NextAligned(t, Interval)
  BY <1>1, NextAlignedIsMultiple
<1>4. ASSUME Interval % Minute = 0
      PROVE  NextAligned(t, Interval) % Minute = 0
  <2> DEFINE j == Interval \div Minute
  <2>1. j \in Int /\ Interval = Minute * j + (Interval % Minute)
    BY <1>1, DivMod
  <2>2. Interval = Minute * j
    BY <1>1, <1>4, <2>1
  <2> HIDE DEF j
  <2>3. Interval * k = Minute * (j * k)
    BY <1>1, <2>1, <2>2
  <2>4. j * k \in Int
    BY <2>1
  <2>5. QED
    BY <1>1, <1>2, <1>3, <2>3, <2>4, MultipleMod
<1>5. QED
  BY <1>3, <1>4

\* The invariant holds at first.
LEMMA InitInv == Init => Inv
<1> SUFFICES ASSUME Init PROVE Inv
  OBVIOUS
<1>1. /\ Minute \in Nat \ {0} /\ StartTime \in Int
      /\ zone \in Zones /\ now \in Int /\ now >= StartTime /\ wake \in Int
      /\ now = StartTime /\ fresh = TRUE /\ table = {} /\ at = now - 3 * Minute
  BY LocalTimeAssumption DEF Init
<1>2. now \in Times
  BY <1>1 DEF Times
<1>3. frozen \in Int /\ session = TimeZoneSet
  BY <1>1, <1>2, OffsetFacts DEF Init, TimeZoneSet
<1>4. Asked /\ Stored
  BY <1>1 DEF Asked, Stored
<1>5. QED
  BY <1>1, <1>3, <1>4 DEF Inv

\* What Asked says stays true while the clock goes on and no round is made.
LEMMA AskedKept ==
  ASSUME Inv, zone' = zone, at' = at, now' \in Int, now <= now',
         \/ fresh' = TRUE
         \/ fresh' = fresh /\ wake' = wake
  PROVE  Asked'
<1>1. /\ at \in Int /\ now \in Int
      /\ \/ at = StartTime - 3 * Minute
         \/ \E p \in Int : StartTime <= p /\ p <= now /\ at = QueryTs(p)
      /\ ~fresh /\ Interval % Minute = 0 => wake % Minute = 0 /\ at + 2 * Minute < wake
  BY DEF Inv, Asked
<1>2. at' = StartTime - 3 * Minute
      \/ \E p \in Int : StartTime <= p /\ p <= now' /\ at' = QueryTs(p)'
  <2>1. CASE at = StartTime - 3 * Minute
    BY <2>1
  <2>2. ASSUME NEW p \in Int, StartTime <= p, p <= now, at = QueryTs(p)
        PROVE  \E q \in Int : StartTime <= q /\ q <= now' /\ at' = QueryTs(q)'
    <3>1. p <= now'
      BY <1>1, <2>2
    <3>2. at' = QueryTs(p)'
      BY <2>2, ZoneKept
    <3>3. QED
      BY <2>2, <3>1, <3>2
  <2>3. QED
    BY <1>1, <2>1, <2>2
<1>3. ~fresh' /\ Interval % Minute = 0 => wake' % Minute = 0 /\ at' + 2 * Minute < wake'
  BY <1>1
<1>4. QED
  BY <1>1, <1>2, <1>3 DEF Asked

\* What Stored says stays true of the rows that remain.
LEMMA StoredKept ==
  ASSUME Stored, zone' = zone, table' \subseteq table
  PROVE  Stored'
  BY ZoneKept DEF Stored, Times

\* The clock goes on: nothing is said of what is to come.
LEMMA TickInv == Inv /\ Tick => Inv'
<1> SUFFICES ASSUME Inv, Tick PROVE Inv'
  OBVIOUS
<1>1. now' \in Int /\ now <= now' /\ now' >= StartTime
  BY LocalTimeAssumption DEF Inv, Tick
<1>2. Asked'
  BY <1>1, AskedKept DEF Tick
<1>3. Stored'
  BY StoredKept DEF Inv, Tick
<1>4. QED
  BY <1>1, <1>2, <1>3 DEF Inv, Tick, TimeZoneSet

\* A new process reads the offset, and owes no distance to the last query.
LEMMA RestartInv == Inv /\ Restart => Inv'
<1> SUFFICES ASSUME Inv, Restart PROVE Inv'
  OBVIOUS
<1>1. now \in Times
  BY LocalTimeAssumption DEF Inv, Times
<1>2. frozen' \in Int
  BY <1>1, OffsetFacts DEF Inv, Restart
<1>3. Asked'
  BY AskedKept DEF Inv, Restart
<1>4. Stored'
  BY StoredKept DEF Inv, Restart
<1>5. QED
  BY <1>2, <1>3, <1>4 DEF Inv, Restart, TimeZoneSet

\* A new connection is told what the old one was.
LEMMA ReconnectInv == Inv /\ Reconnect => Inv'
<1> SUFFICES ASSUME Inv, Reconnect PROVE Inv'
  OBVIOUS
<1>1. Asked'
  BY AskedKept DEF Inv, Reconnect
<1>2. Stored'
  BY StoredKept DEF Inv, Reconnect
<1>3. QED
  BY <1>1, <1>2 DEF Inv, Reconnect, TimeZoneSet

\* A deletion leaves some of the rows.
LEMMA RetentionInv == Inv /\ Retention => Inv'
<1> SUFFICES ASSUME Inv, Retention PROVE Inv'
  OBVIOUS
<1>1. Asked'
  BY AskedKept DEF Inv, Retention
<1>2. Stored'
  BY StoredKept DEF Inv, Retention
<1>3. QED
  BY <1>1, <1>2 DEF Inv, Retention, TimeZoneSet

\* A round asks for now and is due again in a later minute.
LEMMA RoundInv == Inv /\ Round => Inv'
<1> SUFFICES ASSUME Inv, Round PROVE Inv'
  OBVIOUS
<1>1. /\ Minute \in Nat \ {0} /\ StartTime \in Int /\ zone \in Zones
      /\ now \in Int /\ now >= StartTime
      /\ zone' = zone /\ now' = now /\ at' = QueryTs(now)
      /\ wake' = NextAligned(now, Interval) /\ ~fresh'
      /\ table' = table \cup {[at |-> at', ts |-> Local(at')]}
  BY LocalTimeAssumption DEF Inv, Round
<1>2. at' \in Times /\ 2 * Minute <= now - at'
  BY <1>1, QueryTsRecent
<1>3. at' \in Int
  BY <1>2 DEF Times
<1>4. /\ wake' \in Int /\ now < wake'
      /\ Interval % Minute = 0 => wake' % Minute = 0
  BY <1>1, NextWake
<1>5. at' + 2 * Minute < wake'
  BY <1>1, <1>2, <1>3, <1>4
<1>6. \E p \in Int : StartTime <= p /\ p <= now' /\ at' = QueryTs(p)'
  <2>1. at' = QueryTs(now)'
    BY <1>1, ZoneKept
  <2>2. QED
    BY <1>1, <2>1
<1>7. Asked'
  BY <1>3, <1>4, <1>5, <1>6 DEF Asked
<1>8. Stored'
  <2> SUFFICES ASSUME NEW r \in table' PROVE r.at \in Times /\ r.ts = Local(r.at)'
    BY DEF Stored, Times
  <2>1. CASE r \in table
    BY <1>1, <2>1, ZoneKept DEF Inv, Stored
  <2>2. CASE r = [at |-> at', ts |-> Local(at')]
    BY <1>1, <1>2, <2>2, ZoneKept
  <2>3. QED
    BY <1>1, <2>1, <2>2
<1>9. QED
  BY <1>1, <1>4, <1>7, <1>8 DEF Inv, Round, TimeZoneSet

\* A step that changes nothing.
LEMMA StutterInv == Inv /\ UNCHANGED vars => Inv'
<1> SUFFICES ASSUME Inv, UNCHANGED vars PROVE Inv'
  OBVIOUS
<1>1. Asked'
  BY AskedKept DEF Inv, vars
<1>2. Stored'
  BY StoredKept DEF Inv, vars
<1>3. QED
  BY <1>1, <1>2 DEF Inv, vars, TimeZoneSet

\* Every step keeps the invariant.
LEMMA NextInv == Inv /\ [Next]_vars => Inv'
  BY TickInv, RestartInv, ReconnectInv, RoundInv, RetentionInv, StutterInv DEF Next

\* The invariant always holds.
LEMMA Invariance == Spec => []Inv
  BY InitInv, NextInv, PTL DEF Spec

-----------------------------------------------------------------------------
(* The properties                                                          *)

\* QueriesTheRecentPast, in every zone: a round asks for a moment two to three
\* minutes past.
THEOREM QueriesAreRecent == Spec => QueriesTheRecentPast
<1>1. Inv /\ [Next]_vars =>
        [Round => 2 * Minute <= now - at' /\ now - at' < 3 * Minute]_vars
  BY QueryTsRecent DEF Inv, Round
<1>2. QED
  BY <1>1, Invariance, PTL DEF Spec, QueriesTheRecentPast

\* RoundsAdvance, in every zone, however late rounds begin and whenever the process
\* is started again: the moments asked for go forward.
THEOREM RoundsGoForward == Spec => RoundsAdvance
<1>1. ASSUME Inv, Round
      PROVE  /\ at <= at'
             /\ ~fresh /\ Interval % Minute = 0 => at < at'
  <2>1. /\ Minute \in Nat \ {0} /\ StartTime \in Int /\ zone \in Zones
        /\ now \in Int /\ now >= StartTime /\ wake \in Int /\ wake <= now
        /\ at \in Int /\ at' = QueryTs(now)
    BY <1>1, LocalTimeAssumption DEF Inv, Asked, Round
  <2>2. /\ at' \in Times
        /\ now - 2 * Minute - ((now - 2 * Minute) % Minute) <= at'
        /\ now - at' < 3 * Minute
    BY <2>1, QueryTsRecent
  <2>3. at' \in Int
    BY <2>2 DEF Times
  <2>4. at <= at'
    <3>1. CASE at = StartTime - 3 * Minute
      BY <2>1, <2>2, <2>3, <3>1
    <3>2. ASSUME NEW p \in Int, StartTime <= p, p <= now, at = QueryTs(p)
          PROVE  at <= at'
      BY <2>1, <3>2, QueryTsAdvances
    <3>3. QED
      BY <1>1, <3>1, <3>2 DEF Inv, Asked
  <2>5. ASSUME ~fresh, Interval % Minute = 0
        PROVE  at < at'
    <3>1. wake % Minute = 0 /\ at + 2 * Minute < wake
      BY <1>1, <2>5 DEF Inv, Asked
    <3> DEFINE w == wake - 2 * Minute
    <3>2. w % Minute = 0
      <4>1. wake = Minute * (wake \div Minute) + (wake % Minute) /\ wake \div Minute \in Int
        BY <2>1, DivMod
      <4>2. w = Minute * ((wake \div Minute) - 2)
        BY <2>1, <3>1, <4>1
      <4>3. w \in Int /\ (wake \div Minute) - 2 \in Int
        BY <2>1, <4>1
      <4>4. QED
        BY <2>1, <4>2, <4>3, MultipleMod
    <3>3. w - (w % Minute) <= now - 2 * Minute - ((now - 2 * Minute) % Minute)
      BY <2>1, CutMonotone
    <3> DEFINE cut == now - 2 * Minute - ((now - 2 * Minute) % Minute)
    <3>4. cut \in Int
      BY <2>1, DivMod
    <3>5. w <= cut /\ cut <= at'
      BY <2>1, <2>2, <3>2, <3>3
    <3> HIDE DEF cut
    <3>6. QED
      BY <2>1, <2>3, <3>1, <3>4, <3>5
  <2>6. QED
    BY <2>4, <2>5
<1>2. Inv /\ [Next]_vars =>
        [Round => /\ at <= at'
                  /\ ~fresh /\ Interval % Minute = 0 => at < at']_vars
  BY <1>1
<1>3. QED
  BY <1>2, Invariance, PTL DEF Spec, RoundsAdvance

\* DeletesByAge, in every zone, for every retention and either kind of session: a row
\* is deleted at its age, give or take the change of the clocks.
THEOREM RetentionGoesByAge == Spec => DeletesByAge
<1>1. ASSUME Inv, Retention, NEW r \in table
      PROVE  LET age   == now - r.at
                 shift == IF byOffset THEN frozen - Offset(r.at)
                          ELSE Offset(now) - Offset(r.at)
                 most  == IF shift < 0 THEN -shift ELSE shift
             IN /\ age > Retain + most => r \notin table'
                /\ age <= Retain - most => r \in table'
  <2> DEFINE local == IF byOffset THEN frozen ELSE Offset(now)
  <2>1. /\ now \in Int /\ now \in Times /\ Retain \in Nat
        /\ r.at \in Times /\ r.ts = Local(r.at) /\ frozen \in Int
    BY <1>1, LocalTimeAssumption DEF Inv, Stored, Times
  <2>2. Offset(now) \in Int /\ Offset(r.at) \in Int /\ r.at \in Int
    BY <1>1, <2>1, OffsetFacts DEF Inv, Times
  <2>3. SessionNow = now + local
    BY <1>1, <2>1, LocalTimeAssumption DEF Inv, SessionNow, TimeZoneSet
  <2>4. local \in Int
    BY <2>1, <2>2
  <2>5. r \in table' <=> ~Expired(r)
    BY <1>1 DEF Retention
  <2> HIDE DEF local
  <2>6. Expired(r) <=> r.at + Offset(r.at) < now + local - Retain
    <3>1. r.ts = r.at + Offset(r.at)
      BY <2>1 DEF Local
    <3>2. Expired(r) <=> r.ts < SessionNow - Retain
      BY DEF Expired
    <3>3. QED
      BY <2>1, <2>2, <2>3, <2>4, <3>1, <3>2
  <2>7. local - Offset(r.at) = IF byOffset THEN frozen - Offset(r.at)
                               ELSE Offset(now) - Offset(r.at)
    BY DEF local
  <2> DEFINE shift == local - Offset(r.at)
             most  == IF shift < 0 THEN -shift ELSE shift
  <2>8. now - r.at > Retain + most => Expired(r)
    BY <2>1, <2>2, <2>4, <2>6
  <2>9. now - r.at <= Retain - most => ~Expired(r)
    BY <2>1, <2>2, <2>4, <2>6
  <2>10. QED
    BY <2>5, <2>7, <2>8, <2>9
<1>2. Inv /\ [Next]_vars =>
        [Retention =>
           \A r \in table :
             LET age   == now - r.at
                 shift == IF byOffset THEN frozen - Offset(r.at)
                          ELSE Offset(now) - Offset(r.at)
                 most  == IF shift < 0 THEN -shift ELSE shift
             IN /\ age > Retain + most => r \notin table'
                /\ age <= Retain - most => r \in table']_vars
  BY <1>1
<1>3. QED
  BY <1>2, Invariance, PTL DEF Spec, DeletesByAge
=============================================================================
