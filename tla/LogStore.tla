----------------------------- MODULE LogStore ------------------------------
(***************************************************************************)
(* What the log directory promises to its reader, whatever the daily files *)
(* and packages it is made of: of each day, what can be read of the full   *)
(* and of the error log only grows, until the day is sealed in a package;  *)
(* from then on it does not change, unless the day was sealed damaged.  No *)
(* day is sealed early, and a day is damaged only by being sealed.         *)
(***************************************************************************)
EXTENDS Integers

CONSTANTS Kinds, Days, After

VARIABLES today, readable, sealedDays, damaged

Init ==
  /\ today \in Days
  /\ readable = [f \in Kinds \X Days |-> {}]
  /\ sealedDays = {} /\ damaged = {}

NewDay == today' = today + 1 /\ UNCHANGED <<readable, sealedDays, damaged>>

Write ==
  /\ \E f \in Kinds \X Days :
       /\ f[2] \notin sealedDays /\ f[2] <= today
       /\ readable[f] \subseteq readable'[f]
       /\ readable' = [readable EXCEPT ![f] = readable'[f]]
  /\ UNCHANGED <<today, sealedDays, damaged>>

Seal ==
  /\ \E d \in Days \ sealedDays :
       /\ d <= today - After
       /\ sealedDays' = sealedDays \cup {d}
       /\ damaged' \in {damaged, damaged \cup {d}}
  /\ UNCHANGED <<today, readable>>

\* A log of a damaged day loses lines.
Lose ==
  /\ \E f \in Kinds \X damaged :
       /\ readable'[f] \subseteq readable[f]
       /\ readable' = [readable EXCEPT ![f] = readable'[f]]
  /\ UNCHANGED <<today, sealedDays, damaged>>

Next == NewDay \/ Write \/ Seal \/ Lose

Spec == Init /\ [][Next]_<<today, readable, sealedDays, damaged>>
=============================================================================
