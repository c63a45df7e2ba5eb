-------------------------- MODULE SlicedSleepProofs --------------------------
(***************************************************************************)
(* The two sleeps, for every interval, every size of a second, slices of   *)
(* any lateness and a clock set as far and as often as it may be.          *)
(***************************************************************************)
EXTENDS SlicedSleep, TLAPS

\* Division with remainder, as the provers are to use it.
LEMMA DivMod ==
  ASSUME NEW t \in Int, NEW m \in Nat \ {0}
  PROVE  /\ t \div m \in Int /\ t % m \in 0 .. (m - 1)
         /\ t = m * (t \div m) + (t % m)
  OBVIOUS

\* A larger quotient is larger by a whole divisor.
LEMMA NextMultiple ==
  ASSUME NEW m \in Nat \ {0}, NEW j \in Int, NEW k \in Int, j < k
  PROVE  m * j + m <= m * k
<1>1. k - j >= 1
  OBVIOUS
<1>2. m * (k - j) >= m
  BY <1>1
<1>3. m * (k - j) = m * k - m * j
  OBVIOUS
<1>4. QED
  BY <1>2, <1>3

\* The aligned time is a multiple of the interval, later than now by at most
\* one interval.
LEMMA NextAlignedIsMultiple ==
  ASSUME NEW i \in Nat \ {0}, NEW t \in Nat
  PROVE  /\ NextAligned(t, i) \in Nat
         /\ t < NextAligned(t, i) /\ NextAligned(t, i) <= t + i
         /\ \E k \in Int : NextAligned(t, i) = i * k
<1>1. t \div i \in Int /\ t % i \in 0 .. (i - 1) /\ t = i * (t \div i) + (t % i)
  BY DivMod
<1>2. NextAligned(t, i) = i * ((t \div i) + 1)
  BY <1>1 DEF NextAligned
<1>3. \E k \in Int : NextAligned(t, i) = i * k
  <2>1. (t \div i) + 1 \in Int
    BY <1>1
  <2>2. QED
    BY <1>2, <2>1, Zenon
<1>4. NextAligned(t, i) \in Nat /\ t < NextAligned(t, i) /\ NextAligned(t, i) <= t + i
  BY <1>1 DEF NextAligned
<1>5. QED
  BY <1>3, <1>4

\* Whole seconds lose nothing: a later reading is no smaller, and larger by one if it is
\* a second later.
LEMMA SecsAdvance ==
  ASSUME NEW s \in Nat, NEW t \in Nat
  PROVE  /\ Secs(s) \in Nat
         /\ s <= t => Secs(s) <= Secs(t)
         /\ s + Second <= t => Secs(s) + 1 <= Secs(t)
<1> DEFINE j == s \div Second
           k == t \div Second
<1>0. Second \in Nat \ {0}
  BY SlicedSleepAssumption
<1>1. j \in Int /\ s % Second \in 0 .. (Second - 1) /\ s = Second * j + (s % Second)
  BY <1>0, DivMod
<1>2. k \in Int /\ t % Second \in 0 .. (Second - 1) /\ t = Second * k + (t % Second)
  BY <1>0, DivMod
<1>3. j \in Nat
  <2>1. ASSUME j < 0
        PROVE  FALSE
    <3>1. Second * j + Second <= Second * 0
      BY <1>0, <1>1, <2>1, NextMultiple
    <3>2. Second * j \in Int /\ Second * 0 = 0
      BY <1>0, <1>1
    <3>3. QED
      BY <1>0, <1>1, <3>1, <3>2
  <2>2. QED
    BY <1>1, <2>1
<1>4. Second * j \in Int /\ Second * k \in Int
  BY <1>0, <1>1, <1>2
<1>5. ASSUME s <= t
      PROVE  j <= k
  <2>1. ASSUME k < j
        PROVE  FALSE
    <3>1. Second * k + Second <= Second * j
      BY <1>0, <1>1, <1>2, <2>1, NextMultiple
    <3>2. QED
      BY <1>0, <1>1, <1>2, <1>4, <1>5, <3>1
  <2>2. QED
    BY <1>1, <1>2, <2>1
<1>6. ASSUME s + Second <= t
      PROVE  j + 1 <= k
  <2>1. ASSUME k <= j
        PROVE  FALSE
    <3>1. CASE k = j
      BY <1>0, <1>1, <1>2, <1>4, <1>6, <3>1
    <3>2. CASE k < j
      <4>1. Second * k + Second <= Second * j
        BY <1>0, <1>1, <1>2, <3>2, NextMultiple
      <4>2. QED
        BY <1>0, <1>1, <1>2, <1>4, <1>6, <4>1
    <3>3. QED
      BY <1>1, <1>2, <2>1, <3>1, <3>2
  <2>2. QED
    BY <1>1, <1>2, <2>1
<1>7. QED
  BY <1>3, <1>5, <1>6 DEF Secs

\* The saturating subtraction of the code, and the lesser of two numbers.
LEMMA MonusLeast ==
  ASSUME NEW a \in Nat, NEW b \in Nat
  PROVE  /\ Monus(a, b) \in Nat /\ a <= b + Monus(a, b) /\ Monus(a, b) <= a
         /\ b <= a => b + Monus(a, b) = a
         /\ Least(a, b) \in {a, b} /\ Least(a, b) <= a /\ Least(a, b) <= b
  BY DEF Monus, Least

-----------------------------------------------------------------------------
(***************************************************************************)
(* The invariant.  While a sleep to an aligned time lasts, what is left of *)
(* it, the clock and what the clock was set back by reach the target; the  *)
(* target itself is within the interval and what the clock was set back    *)
(* by.  Slices slept and left add up to no more than those asked for.      *)
(***************************************************************************)
Reaches(secs) == back = BackCap \/ target <= Secs(now) + secs + back

SleepInv ==
  /\ pc = "timed" => Reaches(Interval)
  /\ pc = "until" => Reaches(left)
  /\ woke => pc = "work" /\ Reaches(0)
  /\ pc = "until" => asked <= Interval + back \/ back = BackCap
  /\ slept + left <= asked
  /\ pc \in {"until", "for"} => left > 0

\* A slice after the signal is the last thing that happens.
StopInv == slow = 0 \/ (slow = 1 /\ pc = "stopped")

\* Setting the clock leaves a sleep as far from its target, up to what it was set back by.
LEMMA ReachKept ==
  ASSUME TypeOK, SetClock, NEW secs \in Nat, Reaches(secs)
  PROVE  Reaches(secs)'
<1> USE SlicedSleepAssumption DEF TypeOK
<1>1. now' \in Nat /\ target' = target
      /\ back' = Least(back + Monus(Secs(now), Secs(now')), BackCap)
  BY DEF SetClock, Monus
<1>2. Secs(now) \in Nat /\ Secs(now') \in Nat
  BY <1>1, SecsAdvance
<1> DEFINE d == Monus(Secs(now), Secs(now'))
<1>3. d \in Nat /\ Secs(now) <= Secs(now') + d
  BY <1>2, MonusLeast
<1> HIDE DEF d
<1>4. back' = BackCap \/ back' = back + d
  BY <1>1 DEF Least, d
<1>5. back = BackCap => back' = BackCap
  BY <1>1, <1>3 DEF Least, d
<1>6. QED
  BY <1>1, <1>2, <1>3, <1>4, <1>5 DEF Reaches

\* A slice moves the clock by at least a second, and leaves at most one less.
LEMMA SliceFacts ==
  ASSUME TypeOK, SleepInv, SliceUntil \/ SliceFor
  PROVE  /\ now' \in Nat /\ Secs(now) \in Nat /\ Secs(now') \in Nat
         /\ Secs(now) + 1 <= Secs(now')
         /\ left \in Nat /\ left > 0 /\ left' \in Nat /\ left' <= left - 1
         /\ slept' \in Nat /\ slept' <= slept + 1
         /\ slow' \in 0 .. 2
         /\ UNCHANGED <<shutdown, target, asked, back, sleeps, forwards>>
<1> USE SlicedSleepAssumption DEF TypeOK
<1>1. SliceSlept
  BY DEF SliceUntil, SliceFor
<1>2. PICK late \in 0 .. Late : now' = now + Second + late
  BY <1>1 DEF SliceSlept
<1>3. now' \in Nat /\ now + Second <= now'
  BY <1>2
<1>4. Secs(now) \in Nat /\ Secs(now') \in Nat /\ Secs(now) + 1 <= Secs(now')
  BY <1>3, SecsAdvance
<1>5. left \in Nat /\ left > 0 /\ left - 1 \in Nat
  BY DEF SleepInv, SliceUntil, SliceFor
<1>6. Monus(target, Secs(now')) \in Nat
  BY <1>4, MonusLeast
<1>7. left' \in Nat /\ left' <= left - 1
  BY <1>5, <1>6 DEF SliceUntil, SliceFor, LeftAfter, Least
<1>8. /\ slept' \in Nat /\ slept' <= slept + 1 /\ slow' \in 0 .. 2
      /\ UNCHANGED <<shutdown, target, asked, back, sleeps, forwards>>
  BY <1>1 DEF SliceSlept, Least
<1>9. QED
  BY <1>3, <1>4, <1>5, <1>7, <1>8

\* A sleep begins with what it is asked for, or is over at once.
LEMMA BeginFacts ==
  ASSUME TypeOK, NEW secs \in Nat, NEW kind \in {"until", "for"}, Begin(secs, kind)
  PROVE  /\ left' = secs /\ asked' = secs /\ slept' = 0 /\ sleeps' = sleeps + 1
         /\ UNCHANGED <<now, shutdown, target, slow, forwards>>
         /\ \/ pc' = kind /\ secs > 0 /\ woke' = FALSE
            \/ pc' = "work" /\ secs = 0 /\ woke' = TRUE
            \/ pc' = "stopped" /\ woke' = FALSE
<1>1. /\ left' = secs /\ asked' = secs /\ slept' = 0 /\ sleeps' = sleeps + 1
      /\ UNCHANGED <<now, shutdown, target, slow, forwards>>
  BY DEF Begin
<1>2. woke' = (~shutdown /\ secs = 0)
  BY DEF Begin
<1>3. CASE shutdown
  <2>1. pc' = "stopped"
    BY <1>3 DEF Begin
  <2>2. woke' = FALSE
    BY <1>2, <1>3, Zenon
  <2>3. QED
    BY <1>1, <2>1, <2>2
<1>4. CASE ~shutdown /\ secs = 0
  <2>1. pc' = "work"
    BY <1>4 DEF Begin
  <2>2. woke' = TRUE
    BY <1>2, <1>4, Zenon
  <2>3. QED
    BY <1>1, <1>4, <2>1, <2>2
<1>5. CASE ~shutdown /\ secs # 0
  <2>1. pc' = kind /\ secs > 0
    BY <1>5 DEF Begin
  <2>2. woke' = FALSE
    BY <1>2, <1>5, Zenon
  <2>3. QED
    BY <1>1, <2>1, <2>2
<1>6. QED
  BY <1>3, <1>4, <1>5

\* Types, and with them that no subtraction goes below zero.
LEMMA TypesStep ==
  ASSUME TypeOK, SleepInv, [Next]_vars
  PROVE  TypeOK'
<1> USE SlicedSleepAssumption DEF TypeOK
<1>1. CASE ComputeTarget
  <2>1. NextAligned(Secs(now), Interval) \in Nat
    BY SecsAdvance, NextAlignedIsMultiple
  <2>2. woke' \in BOOLEAN
    BY <1>1 DEF ComputeTarget
  <2>3. QED
    BY <1>1, <2>1, <2>2 DEF ComputeTarget
<1>2. CASE SleepUntil
  <2>1. Monus(target, Secs(now)) \in Nat
    BY SecsAdvance, MonusLeast
  <2>2. UNCHANGED back /\ Begin(Monus(target, Secs(now)), "until")
    BY <1>2 DEF SleepUntil
  <2>3. woke' \in BOOLEAN
    BY <2>1, <2>2, BeginFacts
  <2>4. /\ left' \in Nat /\ asked' \in Nat /\ slept' \in Nat /\ sleeps' \in Nat
        /\ UNCHANGED <<now, shutdown, target, slow, forwards>>
    BY <2>1, <2>2 DEF Begin
  <2>5. pc' \in {"until", "work", "stopped"}
    BY <2>2 DEF Begin
  <2>6. QED
    BY <2>2, <2>3, <2>4, <2>5
<1>3. CASE SleepFor
  <2>1. Interval \in Nat /\ Begin(Interval, "for") /\ back' = 0
    BY <1>3 DEF SleepFor
  <2>2. woke' \in BOOLEAN
    BY <2>1, BeginFacts
  <2>3. /\ left' \in Nat /\ asked' \in Nat /\ slept' \in Nat /\ sleeps' \in Nat
        /\ UNCHANGED <<now, shutdown, target, slow, forwards>>
    BY <2>1 DEF Begin
  <2>4. pc' \in {"for", "work", "stopped"}
    BY <2>1 DEF Begin
  <2>5. QED
    BY <2>1, <2>2, <2>3, <2>4
<1>4. CASE SliceUntil
  <2>1. pc' \in {"stopped", "work", "until"} /\ woke' \in BOOLEAN
    BY <1>4 DEF SliceUntil
  <2>2. QED
    BY <1>4, <2>1, SliceFacts
<1>5. CASE SliceFor
  <2>1. pc' \in {"stopped", "work", "for"} /\ woke' \in BOOLEAN
    BY <1>5 DEF SliceFor
  <2>2. QED
    BY <1>5, <2>1, SliceFacts
<1>6. CASE SetClock
  <2>1. now' \in Nat /\ forwards' \in Nat
    BY <1>6 DEF SetClock, Monus
  <2>2. Monus(Secs(now), Secs(now')) \in Nat
    BY <2>1, SecsAdvance, MonusLeast
  <2>3. back' \in 0 .. BackCap
    BY <1>6, <2>2 DEF SetClock, Least
  <2>4. QED
    BY <1>6, <2>1, <2>3 DEF SetClock
<1>7. CASE Signal
  <2>1. shutdown' \in BOOLEAN
    BY <1>7 DEF Signal
  <2>2. QED
    BY <1>7, <2>1 DEF Signal
<1>8. CASE Over \/ UNCHANGED vars
  BY <1>8 DEF Over, vars
<1>9. QED
  BY <1>1, <1>2, <1>3, <1>4, <1>5, <1>6, <1>7, <1>8 DEF Next, Sleep

\* No step loses track of the target.
LEMMA SleepStep ==
  ASSUME TypeOK, SleepInv, [Next]_vars
  PROVE  SleepInv'
<1> USE SlicedSleepAssumption DEF TypeOK
<1>0. Secs(now) \in Nat
  BY SecsAdvance
<1>1. CASE ComputeTarget
  <2>1. /\ target' = NextAligned(Secs(now), Interval) /\ pc' = "timed" /\ woke' = FALSE
        /\ UNCHANGED <<now, left, asked, slept>> /\ back' = 0
    BY <1>1 DEF ComputeTarget
  <2>2. target' \in Nat /\ target' <= Secs(now) + Interval
    BY <1>0, <2>1, NextAlignedIsMultiple
  <2>3. Reaches(Interval)'
    BY <1>0, <2>1, <2>2 DEF Reaches
  <2>4. QED
    BY <2>1, <2>3 DEF SleepInv
<1>2. CASE SleepUntil
  <2> DEFINE secs == Monus(target, Secs(now))
  <2>1. /\ secs \in Nat /\ target <= Secs(now) + secs
        /\ Secs(now) <= target => Secs(now) + secs = target
    BY <1>0, MonusLeast
  <2>2. secs = 0 \/ Secs(now) + secs = target
    BY <1>0, <2>1 DEF Monus
  <2>3. back' = back /\ Begin(secs, "until") /\ Reaches(Interval)
    BY <1>2 DEF SleepUntil, SleepInv
  <2> HIDE DEF secs
  <2>4. /\ left' = secs /\ asked' = secs /\ slept' = 0
        /\ UNCHANGED <<now, target>>
        /\ \/ pc' = "until" /\ secs > 0 /\ woke' = FALSE
           \/ pc' = "work" /\ secs = 0 /\ woke' = TRUE
           \/ pc' = "stopped" /\ woke' = FALSE
    BY <2>1, <2>3, BeginFacts
  <2>5. target <= Secs(now) + secs + back
    BY <1>0, <2>1
  <2>6. pc' = "until" => Reaches(left)'
    BY <2>3, <2>4, <2>5 DEF Reaches
  <2>7. woke' => pc' = "work" /\ Reaches(0)'
    BY <1>0, <2>1, <2>3, <2>4, <2>5 DEF Reaches
  <2>8. secs <= Interval + back \/ back = BackCap
    BY <1>0, <2>1, <2>2, <2>3 DEF Reaches
  <2>9. QED
    BY <2>1, <2>3, <2>4, <2>6, <2>7, <2>8 DEF SleepInv
<1>3. CASE SleepFor
  <2>1. Begin(Interval, "for") /\ Interval > 0 /\ Interval \in Nat
    BY <1>3 DEF SleepFor
  <2>2. /\ left' = Interval /\ asked' = Interval /\ slept' = 0
        /\ \/ pc' = "for" /\ woke' = FALSE
           \/ pc' = "stopped" /\ woke' = FALSE
    BY <2>1, BeginFacts
  <2>3. QED
    BY <2>1, <2>2 DEF SleepInv
<1>4. CASE SliceUntil
  <2>1. pc = "until" /\ Reaches(left) /\ UNCHANGED <<target, asked, back>>
    BY <1>4, SliceFacts DEF SliceUntil, SleepInv
  <2>2. Reaches(left)'
    <3>1. left' = left - 1 \/ left' = Monus(target, Secs(now'))
      BY <1>4 DEF SliceUntil, LeftAfter, Least
    <3>2. CASE left' = left - 1
      BY <1>4, <2>1, <3>2, SliceFacts DEF Reaches
    <3>3. CASE left' = Monus(target, Secs(now'))
      <4>1. target <= Secs(now') + left'
        BY <1>4, <3>3, SliceFacts, MonusLeast
      <4>2. Secs(now') + left' <= Secs(now') + left' + back
        BY <1>4, SliceFacts
      <4>3. QED
        BY <1>4, <2>1, <4>1, <4>2, SliceFacts DEF Reaches
    <3>4. QED
      BY <3>1, <3>2, <3>3
  <2>3. /\ pc' = "until" => left' > 0
        /\ pc' = "work" => left' = 0
        /\ pc' \in {"until", "work", "stopped"}
    BY <1>4, SliceFacts DEF SliceUntil
  <2>6. woke' => pc' = "work"
    <3>1. woke' = (pc' = "work")
      BY <1>4 DEF SliceUntil
    <3>2. QED
      BY <3>1, Zenon
  <2>7. woke' => Reaches(0)'
    BY <2>2, <2>3, <2>6 DEF Reaches
  <2>4. slept' + left' <= asked'
    BY <1>4, SliceFacts DEF SleepInv
  <2>8. asked' <= Interval + back' \/ back' = BackCap
    BY <2>1 DEF SleepInv
  <2>9. QED
    BY <2>2, <2>3, <2>4, <2>6, <2>7, <2>8 DEF SleepInv
<1>5. CASE SliceFor
  <2>1. pc = "for" /\ ~woke /\ woke' = woke
    BY <1>5 DEF SliceFor, SleepInv
  <2>2. /\ pc' = "for" => left' > 0
        /\ pc' \in {"for", "work", "stopped"}
    BY <1>5, SliceFacts DEF SliceFor
  <2>3. slept' + left' <= asked'
    BY <1>5, SliceFacts DEF SleepInv
  <2>4. QED
    BY <2>1, <2>2, <2>3 DEF SleepInv
<1>6. CASE SetClock
  <2>1. UNCHANGED <<pc, target, left, asked, slept, woke>> /\ pc # "work"
    BY <1>6 DEF SetClock
  <2>2. back' = BackCap \/ back <= back'
    <3>1. now' \in Nat
      BY <1>6 DEF SetClock, Monus
    <3>2. Monus(Secs(now), Secs(now')) \in Nat
      BY <3>1, SecsAdvance, MonusLeast
    <3>3. QED
      BY <1>6, <3>2 DEF SetClock, Least
  <2>3. back = BackCap => back' = BackCap
    BY <2>2, <1>6, TypesStep
  <2>4. pc = "timed" => Reaches(Interval)'
    BY <1>6, ReachKept DEF SleepInv
  <2>5. pc = "until" => Reaches(left)'
    BY <1>6, <2>1, ReachKept DEF SleepInv
  <2>6. pc = "until" => asked <= Interval + back' \/ back' = BackCap
    BY <1>6, <2>2, <2>3, TypesStep DEF SleepInv
  <2>7. QED
    BY <2>1, <2>4, <2>5, <2>6 DEF SleepInv
<1>7. CASE Signal
  BY <1>7 DEF Signal, SleepInv, Reaches
<1>8. CASE Over \/ UNCHANGED vars
  BY <1>8 DEF Over, vars, SleepInv, Reaches
<1>9. QED
  BY <1>1, <1>2, <1>3, <1>4, <1>5, <1>6, <1>7, <1>8 DEF Next, Sleep

\* Types and targets, of every sleep.
THEOREM SleepInvariant == Spec => [](TypeOK /\ SleepInv)
<1>1. Init => TypeOK /\ SleepInv
  <2> SUFFICES ASSUME Init PROVE TypeOK /\ SleepInv
    OBVIOUS
  <2>1. shutdown \in BOOLEAN /\ woke \in BOOLEAN /\ now \in Nat
    BY SlicedSleepAssumption DEF Init
  <2>2. TypeOK
    BY <2>1, SlicedSleepAssumption DEF Init, TypeOK
  <2>3. SleepInv
    BY DEF Init, SleepInv
  <2>4. QED
    BY <2>2, <2>3
<1>2. TypeOK /\ SleepInv /\ [Next]_vars => (TypeOK /\ SleepInv)'
  BY TypesStep, SleepStep
<1>3. QED
  BY <1>1, <1>2, PTL DEF Spec

\* Every variable keeps its type; what is left of a sleep never goes below zero.
THEOREM SleepTypes == Spec => []TypeOK
  BY SleepInvariant, PTL

\* A sleep to an aligned time ends early by no more than the clock was set back.
THEOREM NeverEarly == Spec => []EarlyOnlyByClock
<1>1. TypeOK /\ SleepInv => EarlyOnlyByClock
  <2> SUFFICES ASSUME TypeOK, SleepInv, woke
               PROVE  back = BackCap \/ target <= Secs(now) + back
    BY DEF EarlyOnlyByClock
  <2>1. Secs(now) \in Nat
    BY SecsAdvance DEF TypeOK
  <2>2. QED
    BY <2>1 DEF SleepInv, Reaches, TypeOK
<1>2. QED
  BY <1>1, SleepInvariant, PTL

\* No sleep is made longer while it lasts, nor begins longer than the interval.
THEOREM SleepsAreBounded == Spec => []SleepBounded
<1>1. TypeOK /\ SleepInv => SleepBounded
  BY DEF SleepInv, SleepBounded
<1>2. QED
  BY <1>1, SleepInvariant, PTL

\* At most the slice under way is slept to its end after the signal.
THEOREM StopsInTime == Spec => []StopsAfterASlice
<1>1. Init => StopInv
  BY DEF Init, StopInv
<1>2. TypeOK /\ StopInv /\ [Next]_vars => StopInv'
  <2> SUFFICES ASSUME TypeOK, StopInv, [Next]_vars
               PROVE  StopInv'
    OBVIOUS
  <2>1. CASE SliceUntil \/ SliceFor
    BY <2>1 DEF SliceUntil, SliceFor, SliceSlept, StopInv, Least
  <2>2. CASE SleepUntil \/ SleepFor
    BY <2>2 DEF SleepUntil, SleepFor, Begin, StopInv
  <2>3. CASE ComputeTarget \/ SetClock \/ Signal \/ Over \/ UNCHANGED vars
    BY <2>3 DEF ComputeTarget, SetClock, Signal, Over, vars, StopInv
  <2>4. QED
    BY <2>1, <2>2, <2>3 DEF Next, Sleep
<1>3. StopInv => StopsAfterASlice
  BY DEF StopInv, StopsAfterASlice
<1>4. QED
  BY <1>1, <1>2, <1>3, SleepTypes, PTL DEF Spec
=============================================================================
