----------------------------- MODULE SampleLog -----------------------------
(***************************************************************************)
(* What the reporter promises to whoever reads its table, with nothing     *)
(* said of rounds, tasks, failures, signals or restarts: the table is a    *)
(* log.  A row is added behind every other row; it is a sample of a minute *)
(* that was over at least two minutes ago; among the rows one process      *)
(* wrote the log runs by time and then by source and card, so no card is   *)
(* sampled twice at one time; and rows leave it only by age.               *)
(***************************************************************************)
EXTENDS Integers

CONSTANTS Sources, Cards, Minute, Retain

VARIABLES now, table

Row == [id : Nat, boot : Nat, src : Sources, card : Cards, ts : Int]

\* d is the later row of a process's log.
Follows(d, e) ==
  \/ e.ts < d.ts
  \/ e.ts = d.ts /\ e.src < d.src
  \/ e.ts = d.ts /\ e.src = d.src /\ e.card < d.card

Init == now \in Nat /\ table = {}

Advance == now' > now /\ UNCHANGED table

Record ==
  /\ \E d \in table' :
       /\ d \in Row
       /\ \A e \in table : e.id < d.id /\ e.boot <= d.boot
       /\ \A e \in table : e.boot = d.boot => Follows(d, e)
       /\ d.ts + 2 * Minute <= now
       /\ table' = table \cup {d}
  /\ UNCHANGED now

Expire ==
  /\ table' = {d \in table : d.ts >= now - Retain}
  /\ UNCHANGED now

Next == Advance \/ Record \/ Expire

Spec == Init /\ [][Next]_<<now, table>>
=============================================================================
