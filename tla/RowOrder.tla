------------------------------ MODULE RowOrder ------------------------------
(***************************************************************************)
(* The comparator of the sort that ends a round's collection               *)
(* (src/src/scheduler/mod.rs): by source, then by host, then by card.      *)
(* Texts are numbered in the order of strings, "" being 0.                 *)
(***************************************************************************)
EXTENDS Integers

CONSTANTS
  IpNumber,    \* the dotted addresses, [texts -> the order of their four numbers]
  CardNumber   \* the card ids that are a u32, [texts -> that number]

ASSUME RowOrderAssumption ==
  /\ DOMAIN IpNumber \subseteq Nat /\ \A t \in DOMAIN IpNumber : IpNumber[t] \in Nat
  /\ DOMAIN CardNumber \subseteq Nat /\ \A t \in DOMAIN CardNumber : CardNumber[t] \in Nat

Numbered(f, a, b) == a \in DOMAIN f /\ b \in DOMAIN f

\* Two texts are compared as numbers if both are numbers, otherwise as texts.
Less(f, a, b) == IF Numbered(f, a, b) THEN f[a] < f[b] ELSE a < b
Same(f, a, b) == IF Numbered(f, a, b) THEN f[a] = f[b] ELSE a = b

SameHost(a, b) == a.source = b.source /\ Same(IpNumber, a.ip, b.ip)

CardsBeforeHosts(a, b) ==       \* mutant: cards compared before hosts
  \/ a.source < b.source
  \/ a.source = b.source /\ Less(CardNumber, a.card_id, b.card_id)
  \/ /\ a.source = b.source /\ Same(CardNumber, a.card_id, b.card_id)
     /\ Less(IpNumber, a.ip, b.ip)

RowLess(a, b) ==
  \/ a.source < b.source
  \/ a.source = b.source /\ Less(IpNumber, a.ip, b.ip)
  \/ SameHost(a, b) /\ Less(CardNumber, a.card_id, b.card_id)

\* Neither comes first: sort_by keeps them as they are.
Tied(a, b) == ~RowLess(a, b) /\ ~RowLess(b, a)

\* The hosts of a source are all addresses or all names, the card ids of a host all
\* numbers or all texts.  Without it RowLess may run in circles: "2" < "10" as
\* numbers, "10" < "10b" < "2" as texts.
Orderly(R) ==
  \A a, b \in R :
    /\ a.source = b.source => (a.ip \in DOMAIN IpNumber <=> b.ip \in DOMAIN IpNumber)
    /\ SameHost(a, b) => (a.card_id \in DOMAIN CardNumber <=> b.card_id \in DOMAIN CardNumber)
=============================================================================
