------------------------------- MODULE Clock -------------------------------
(* The two functions of the clock a round is timed by, over whole ticks.   *)
EXTENDS Integers

NextAlignedOrNow(t, interval) ==         \* mutant: an aligned time is its own next
  t + ((interval - (t % interval)) % interval)

\* next_aligned_time: the first multiple of interval strictly after t.
NextAligned(t, interval) == t + (interval - (t % interval))

QueryTsEarlier(t, minute) ==             \* mutant: three minutes ago
  (t - 3 * minute) - ((t - 3 * minute) % minute)

\* compute_query_ts: two minutes ago, cut to the minute.  (In an hour a clock
\* change repeats, `with_second` has two answers and the code cuts nothing.)
QueryTsAt(t, minute) == (t - 2 * minute) - ((t - 2 * minute) % minute)
=============================================================================
