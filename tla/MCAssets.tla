------------------------------ MODULE MCAssets ------------------------------
(* Small instances of Assets: tables joined to one row, and unjoined rows   *)
(* sorted.  The texts stand for, in the order of strings,                   *)
(*   0 "", 1 "10", 2 "10.0.0.10", 3 "10.0.0.9", 4 "10b", 5 "2", 6 "a", 7 "b" *)
EXTENDS Assets, TLC

SomeTexts  == 0..7
SomeFloats == {1, 5}
Addresses  == 2 :> 10 @@ 3 :> 9
CardIds    == 1 :> 10 @@ 5 :> 2

MapCol(n, num) == [name |-> n, numeric |-> num]
Namespace == [srcKey |-> "namespace", columns |-> <<MapCol("dept", FALSE), MapCol("cap", TRUE)>>]
Host      == [srcKey |-> "ip", columns |-> <<MapCol("cap", TRUE)>>]
Dept      == [srcKey |-> "dept", columns |-> <<MapCol("owner", FALSE)>>]

Collected(s, ip, card, strings) ==
  [source |-> s, ip |-> ip, card_id |-> card, strings |-> strings]
Tenant(key) == Collected(6, 2, 1, "namespace" :> key)

\* A table of namespaces, or of hosts, of two rows.
Keys == {NULL, Clean(0), [text |-> 0, dirt |-> "spaceBom"]}
          \cup {[text |-> 2, dirt |-> d] : d \in Dirts}
Firsts == {[key |-> k, values |-> v] :
  k \in Keys,
  v \in {"dept" :> Clean(6) @@ "cap" :> Clean(5),
         "dept" :> Clean(6) @@ "cap" :> [text |-> 5, dirt |-> "space"],
         "cap" :> Clean(6)}}
Seconds == {[key |-> Clean(2), values |-> "dept" :> Clean(7) @@ "cap" :> Clean(1)]}

\* A table of departments, keyed by a column of the other.
Departments == {<<[key |-> k, values |-> "owner" :> Clean(4)]>> :
  k \in {Clean(0), Clean(6), [text |-> 7, dirt |-> "bomSpace"]}}

JoinInputs ==
  {[sources |-> in.sources, tables |-> in.tables, batch |-> <<Tenant(k)>>] :
     in \in {[sources |-> <<Namespace, Dept>>, tables |-> <<<<f, s>>, d>>] :
               f \in Firsts, s \in Seconds, d \in Departments}
       \cup {[sources |-> <<Dept, Namespace>>, tables |-> <<d, <<f, s>>>>] :
               f \in Firsts, s \in Seconds, d \in Departments}
       \cup {[sources |-> <<Host>>, tables |-> <<<<f, s>>>>] : f \in Firsts, s \in Seconds},
     k \in Keys}

\* Three rows of two sources, addresses and names, numbered cards and others.
Bare == {Collected(s, ip, c, <<>>) : s \in {6, 7}, ip \in {2, 3, 6}, c \in {1, 4, 5}}
SortInputs == {[sources |-> <<>>, tables |-> <<>>, batch |-> <<a, b, c>>] : a, b, c \in Bare}

JoinsAndSorts == JoinInputs \cup SortInputs
=============================================================================
