---------------------------- MODULE SlicedSleep ----------------------------
(***************************************************************************)
(* The two sleeps of src/src/scheduler/mod.rs between which the loops run: *)
(* sleep_until_or_shutdown, to an aligned reading of the system clock, and *)
(* sleep_or_shutdown, for a number of seconds.  Both sleep slices of one   *)
(* second and look at the shutdown flag after each.  The system clock is   *)
(* read in whole seconds, may be set forward and back at any moment, and   *)
(* is not the clock the slices are timed by.                               *)
(***************************************************************************)
EXTENDS Clock

CONSTANTS
  Interval,   \* seconds between aligned times, and of the counted sleep
  Second,     \* clock ticks in a second
  Late,       \* a slice may end up to so many ticks late
  Starts,     \* clock readings to start from
  Step,       \* how far one setting of the clock goes, in ticks
  MaxForward, \* bound: settings of the clock forward
  MaxSleeps,  \* bound: sleeps
  BackCap     \* bound: seconds set back are counted up to here

ASSUME SlicedSleepAssumption ==
  /\ Interval \in Nat \ {0} /\ Second \in Nat \ {0} /\ Late \in Nat
  /\ Starts \subseteq Nat /\ Step \in Nat
  /\ MaxForward \in Nat /\ MaxSleeps \in Nat /\ BackCap \in Nat

VARIABLES
  now,       \* the system clock
  shutdown,
  pc,        \* "work", "timed" (target computed), "until", "for", "stopped"
  target,    \* seconds
  left,      \* slices left
  \* history: the slices asked for and slept (counted to one more), those slept since
  \* the flag was set, the seconds the clock was set back in this sleep, how many sleeps
  \* and settings forward there were, and whether the last sleep ended by itself
  asked, slept, slow, back, sleeps, forwards, woke

vars == <<now, shutdown, pc, target, left, asked, slept, slow, back, sleeps,
          forwards, woke>>

\* as_secs of the duration since the epoch.
Secs(t) == t \div Second

Monus(a, b) == IF a > b THEN a - b ELSE 0
Least(a, b) == IF a < b THEN a ELSE b

Init ==
  /\ now \in Starts /\ shutdown = FALSE /\ pc = "work"
  /\ target = 0 /\ left = 0 /\ asked = 0 /\ slept = 0 /\ slow = 0
  /\ back = 0 /\ sleeps = 0 /\ forwards = 0 /\ woke = FALSE

\* A round finishes: the next aligned time, from one reading of the clock.
ComputeTarget ==
  /\ pc = "work" /\ sleeps < MaxSleeps
  /\ target' = NextAligned(Secs(now), Interval)
  /\ pc' = "timed" /\ woke' = FALSE
  /\ back' = 0
  /\ UNCHANGED <<now, shutdown, left, asked, slept, slow, sleeps, forwards>>

\* A sleep begins, or ends at once: on the flag first, then if nothing is left.
Begin(secs, kind) ==
  /\ sleeps' = sleeps + 1
  /\ left' = secs /\ asked' = secs /\ slept' = 0
  /\ pc' = IF shutdown THEN "stopped" ELSE IF secs = 0 THEN "work" ELSE kind
  /\ woke' = (~shutdown /\ secs = 0)
  /\ UNCHANGED <<now, shutdown, target, slow, forwards>>

\* sleep_until_or_shutdown is entered: the clock is read a second time.
SleepUntil ==
  /\ pc = "timed"
  /\ Begin(Monus(target, Secs(now)), "until")
  /\ UNCHANGED back

\* sleep_or_shutdown is entered.
SleepFor ==
  /\ pc = "work" /\ sleeps < MaxSleeps
  /\ Begin(Interval, "for")
  /\ back' = 0

\* One slice of either sleep goes by.
SliceSlept ==
  /\ \E late \in 0 .. Late : now' = now + Second + late
  /\ slept' = Least(slept + 1, asked + 1)
  /\ slow' = IF shutdown THEN Least(slow + 1, 2) ELSE 0
  /\ UNCHANGED <<shutdown, target, asked, back, sleeps, forwards>>

\* mutant: what is left is computed afresh from the clock
LeftAfresh(remaining, t) == Monus(target, Secs(t))
\* mutant: a plain subtraction where the code has a saturating one
LeftSigned(remaining, t) == Least(remaining, target - Secs(t))
\* mutant: the running second counts as over
LeftRoundedUp(remaining, t) == Least(remaining, Monus(target, Secs(t) + 1))

\* What is left once the clock has been read again: never more than before.
LeftAfter(remaining, t) == Least(remaining, Monus(target, Secs(t)))

\* A slice of the aligned sleep ends: the flag, the clock, then what is left.
SliceUntil ==
  /\ pc = "until" /\ SliceSlept
  /\ left' = LeftAfter(left - 1, now')
  /\ pc' = IF shutdown THEN "stopped" ELSE IF left' = 0 THEN "work" ELSE "until"
  /\ woke' = (pc' = "work")

\* mutant: the flag is looked at only once the sleep is over
SliceForDeaf ==
  /\ pc = "for" /\ SliceSlept
  /\ left' = left - 1
  /\ pc' = IF left' > 0 THEN "for" ELSE IF shutdown THEN "stopped" ELSE "work"
  /\ UNCHANGED woke

\* A slice of the counted sleep ends: the clock does not matter.
SliceFor ==
  /\ pc = "for" /\ SliceSlept
  /\ left' = left - 1
  /\ pc' = IF shutdown THEN "stopped" ELSE IF left' = 0 THEN "work" ELSE "for"
  /\ UNCHANGED woke

\* The clock is set, forward or back, before or during a sleep.
SetClock ==
  /\ \/ now' = now + Step /\ forwards < MaxForward /\ forwards' = forwards + 1
     \/ now' = Monus(now, Step) /\ UNCHANGED forwards
  /\ back' = Least(back + Monus(Secs(now), Secs(now')), BackCap)
  /\ pc \in {"timed", "until", "for"}
  /\ UNCHANGED <<shutdown, pc, target, left, asked, slept, slow, sleeps, woke>>

Signal ==
  /\ ~shutdown /\ shutdown' = TRUE
  /\ UNCHANGED <<now, pc, target, left, asked, slept, slow, back, sleeps,
                 forwards, woke>>

Over ==
  /\ pc = "stopped" \/ (pc = "work" /\ sleeps = MaxSleeps)
  /\ UNCHANGED vars

Sleep == ComputeTarget \/ SleepUntil \/ SleepFor \/ SliceUntil \/ SliceFor

Next == Sleep \/ SetClock \/ Signal \/ Over

Spec == Init /\ [][Next]_vars

\* tokio's timer, which the system clock does not drive, ends every slice.
FairSpec == Spec /\ WF_vars(Sleep)

-----------------------------------------------------------------------------
TypeOK ==
  /\ now \in Nat /\ shutdown \in BOOLEAN /\ woke \in BOOLEAN
  /\ pc \in {"work", "timed", "until", "for", "stopped"}
  /\ target \in Nat /\ left \in Nat /\ asked \in Nat /\ slept \in Nat
  /\ slow \in 0 .. 2 /\ back \in 0 .. BackCap /\ sleeps \in Nat
  /\ forwards \in Nat

\* A sleep to an aligned time ends before it only by as much as the clock was
\* set back while it lasted, however often it was set forward and back: the
\* whole-second readings lose nothing.
EarlyOnlyByClock == woke => back = BackCap \/ target <= Secs(now) + back

\* No setting of the clock makes a sleep longer than it was when it began, and a
\* sleep to an aligned time begins with at most the interval, unless the clock
\* was set back between the two readings.
SleepBounded ==
  /\ slept + left <= asked
  /\ pc = "until" => asked <= Interval + back \/ back = BackCap

\* After the signal at most the slice under way is slept to its end.
StopsAfterASlice == slow <= 1

\* Every sleep ends, though the clock be set back again and again.
SleepEnds == pc \in {"until", "for"} ~> pc \notin {"until", "for"}
=============================================================================
