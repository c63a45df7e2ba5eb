--------------------------- MODULE ExtractorProofs ---------------------------
(***************************************************************************)
(* What the rows of a call hold, for any configurations, any number of     *)
(* endpoints, cards and series, and any answers of Prometheus.             *)
(***************************************************************************)
EXTENDS Extractor, FiniteSetTheorems, WellFoundedInduction, TLAPS

-----------------------------------------------------------------------------
(* Sets of positions                                                       *)

\* A set of numbers has a least.
LEMMA LeastNumber ==
  ASSUME NEW S \in SUBSET Nat, S # {}
  PROVE  \E x \in S : \A y \in S : x <= y
<1> DEFINE R == OpToRel(<, Nat)
<1>1. IsWellFoundedOn(R, Nat)
  BY NatLessThanWellFounded
<1> HIDE DEF R
<1>2. PICK x \in S : \A y \in S : ~ (<<y, x>> \in R)
  BY <1>1, WFMin
<1> USE DEF R
<1>3. \A y \in S : ~ (y < x)
  BY <1>2 DEF OpToRel
<1>4. QED
  BY <1>3

\* A set of positions has a greatest, and Max is in it.
LEMMA MaxIsMember ==
  ASSUME NEW n \in Nat, NEW places \in SUBSET (1 .. n), places # {}
  PROVE  Max(places) \in places
<1> DEFINE above == {u \in Nat : \A i \in places : i <= u}
<1>1. n \in above
  OBVIOUS
<1>2. PICK u \in above : \A v \in above : u <= v
  BY <1>1, LeastNumber
<1>3. u \in places
  <2>1. ASSUME u \notin places
        PROVE  FALSE
    <3>1. \A i \in places : i \in Nat /\ i > 0 /\ i <= u - 1
      BY <1>2, <2>1
    <3>2. PICK i \in places : TRUE
      OBVIOUS
    <3>3. u - 1 \in Nat
      BY <1>2, <3>1, <3>2
    <3>4. u - 1 \in above
      BY <3>1, <3>3
    <3>5. QED
      BY <1>2, <3>4
  <2>2. QED
    BY <2>1
<1>4. \E x \in places : \A y \in places : x >= y
  BY <1>2, <1>3
<1>5. QED
  BY <1>4 DEF Max

\* The n-th positions of a set, n up to its size, are its members, each of them once.
LEMMA NthFacts ==
  ASSUME NEW n \in Nat, NEW places \in SUBSET (1 .. n)
  PROVE  /\ Cardinality(places) \in Nat
         /\ \A k \in 1 .. Cardinality(places) : NthOf(places, k) \in places
         /\ \A i \in places : \E k \in 1 .. Cardinality(places) : NthOf(places, k) = i
<1> DEFINE UpTo(i) == {j \in places : j <= i}
           Rank(i) == Cardinality(UpTo(i))
           size    == Cardinality(places)
<1>0. \A j \in places : j \in Nat /\ j > 0 /\ j <= n
  OBVIOUS
<1>1. IsFiniteSet(places) /\ size \in Nat
  <2>1. IsFiniteSet(1 .. n)
    BY FS_Interval
  <2>2. QED
    BY <2>1, FS_Subset, FS_CardinalityType
<1>2. \A i \in Nat : IsFiniteSet(UpTo(i)) /\ Rank(i) \in Nat /\ Rank(i) <= size
  <2> TAKE i \in Nat
  <2>1. UpTo(i) \in SUBSET places
    OBVIOUS
  <2>2. QED
    BY <1>1, <2>1, FS_Subset, FS_CardinalityType
<1>3. Rank(0) = 0 /\ Rank(n) = size
  <2>1. \A j \in places : ~(j <= 0) /\ j <= n
    BY <1>0
  <2>3. UpTo(0) = {} /\ UpTo(n) = places
    BY <2>1, Zenon
  <2>2. QED
    BY <2>3, FS_EmptySet
<1>4. ASSUME NEW i \in Nat, i > 0
      PROVE  Rank(i) = IF i \in places THEN Rank(i - 1) + 1 ELSE Rank(i - 1)
  <2>1. CASE i \in places
    <3>0. ~(i <= i - 1) /\ \A j \in places : j <= i <=> j <= i - 1 \/ j = i
      BY <1>0, <1>4
    <3>1. UpTo(i) = UpTo(i - 1) \cup {i} /\ i \notin UpTo(i - 1)
      BY <2>1, <3>0, Zenon
    <3>2. IsFiniteSet(UpTo(i - 1))
      <4>1. i - 1 \in Nat
        BY <1>4
      <4> HIDE DEF UpTo
      <4>2. QED
        BY <1>2, <4>1
    <3> HIDE DEF UpTo
    <3>3. QED
      BY <2>1, <3>1, <3>2, FS_AddElement
  <2>2. CASE i \notin places
    <3>0. \A j \in places : j <= i <=> j <= i - 1
      BY <1>0, <1>4, <2>2
    <3>1. UpTo(i) = UpTo(i - 1)
      BY <3>0, Zenon
    <3>2. QED
      BY <2>2, <3>1
  <2>3. QED
    BY <2>1, <2>2
<1>5. ASSUME NEW i \in places, NEW j \in places, i < j
      PROVE  Rank(i) < Rank(j)
  <2>0. ~(j <= i) /\ j <= j /\ \A k \in places : k <= i => k <= j
    BY <1>0, <1>5
  <2>1. UpTo(i) \cup {j} \in SUBSET UpTo(j) /\ j \notin UpTo(i)
    BY <2>0, Zenon
  <2>2. IsFiniteSet(UpTo(i)) /\ IsFiniteSet(UpTo(j)) /\ Rank(i) \in Nat /\ Rank(j) \in Nat
    BY <1>2
  <2> HIDE DEF UpTo
  <2>3. Cardinality(UpTo(i) \cup {j}) = Rank(i) + 1
    BY <2>1, <2>2, FS_AddElement
  <2>4. Cardinality(UpTo(i) \cup {j}) <= Rank(j)
    BY <2>1, <2>2, FS_Subset
  <2>5. QED
    BY <2>2, <2>3, <2>4
<1>6. ASSUME NEW k \in 1 .. size
      PROVE  \E i \in places : Rank(i) = k
  <2> HIDE DEF Rank, size
  <2> DEFINE far == {i \in 0 .. n : Rank(i) >= k}
  <2>1. n \in far /\ far \in SUBSET Nat
    BY <1>1, <1>3
  <2>2. PICK i \in far : \A j \in far : i <= j
    BY <2>1, LeastNumber
  <2>3. i \in 0 .. n /\ Rank(i) >= k /\ i > 0
    BY <1>1, <1>3, <2>2
  <2>4. i - 1 \in 0 .. n /\ i - 1 \in Nat /\ ~(i - 1 \in far)
    BY <2>2, <2>3
  <2>5. Rank(i - 1) \in Nat /\ Rank(i) \in Nat
    <3>1. i \in Nat
      BY <2>3
    <3>2. QED
      BY <1>2, <2>4, <3>1
  <2>7. ~(Rank(i - 1) >= k)
    BY <2>4
  <2>6. QED
    BY <1>1, <1>4, <2>3, <2>5, <2>7
<1>7. ASSUME NEW k \in 1 .. size
      PROVE  NthOf(places, k) \in places /\ Rank(NthOf(places, k)) = k
  BY <1>6 DEF NthOf
<1>8. ASSUME NEW i \in places
      PROVE  \E k \in 1 .. size : NthOf(places, k) = i
  <2>1. Rank(i) \in Nat /\ Rank(i) <= size /\ i \in Nat /\ i > 0
    BY <1>0, <1>2
  <2>2. Rank(i) > 0
    <3>1. i \in UpTo(i) /\ IsFiniteSet(UpTo(i))
      BY <1>2, <2>1
    <3> HIDE DEF UpTo
    <3>2. QED
      BY <2>1, <3>1, FS_EmptySet
  <2> DEFINE k == Rank(i)
             j == NthOf(places, k)
  <2>3. k \in 1 .. size
    BY <1>1, <2>1, <2>2
  <2>4. j \in places /\ Rank(j) = Rank(i)
    BY <1>7, <2>3
  <2> HIDE DEF Rank, j, size
  <2>5. j \in Nat /\ i \in Nat /\ Rank(i) \in Nat
    BY <1>0, <2>1, <2>4
  <2>6. ~(i < j) /\ ~(j < i)
    BY <1>5, <2>4, <2>5
  <2>7. i = j
    BY <2>5, <2>6
  <2>8. QED
    BY <2>3, <2>7 DEF j
<1>9. QED
  BY <1>1, <1>7, <1>8

-----------------------------------------------------------------------------
(* The operators of the call                                               *)

\* A bounded sequence is a sequence.
LEMMA SeqOfIsSeq ==
  ASSUME NEW S, NEW n \in Nat, NEW s \in SeqOf(S, n)
  PROVE  s \in Seq(S)
<1>1. SeqOf(S, n) = UNION {[1 .. m -> S] : m \in 0 .. n}
  BY DEF SeqOf
<1>2. \E m \in 0 .. n : s \in [1 .. m -> S]
  BY <1>1
<1>3. \A m \in 0 .. n : \A t \in [1 .. m -> S] : t \in Seq(S)
  OBVIOUS
<1>4. QED
  BY <1>2, <1>3

\* A position looked up is one of a sample with the key asked for.
LEMMA LookupFacts ==
  ASSUME NEW S, NEW samples \in Seq(S), NEW key
  PROVE  LET v == Lookup(samples, key)
         IN v # 0 => v \in DOMAIN samples /\ Key(samples[v]) = key
<1> DEFINE hits == {i \in 1 .. Len(samples) : Key(samples[i]) = key}
<1>1. Lookup(samples, key) = IF hits # {} THEN Max(hits) ELSE 0
  BY DEF Lookup, SelectLastInSeq
<1>2. Len(samples) \in Nat /\ hits \in SUBSET (1 .. Len(samples))
  OBVIOUS
<1>4. hits # {} => Max(hits) \in hits
  BY <1>2, MaxIsMember
<1>5. QED
  BY <1>1, <1>4

\* The samples parsed are those of the series that give a number.
LEMMA ParseFacts ==
  ASSUME NEW series \in Seq(Series)
  PROVE  /\ Parse(series) \in Seq(CardSample)
         /\ \A k \in DOMAIN Parse(series) : \E i \in DOMAIN series :
              series[i].finite /\ CardOf(Parse(series)[k]) = CardOf(series[i])
         /\ \A i \in DOMAIN series : series[i].finite =>
              \E k \in DOMAIN Parse(series) : CardOf(Parse(series)[k]) = CardOf(series[i])
<1> DEFINE kept  == {i \in DOMAIN series : series[i].finite}
           strip(s) == [label |-> s.label, card |-> s.card]
<1>1. /\ Len(series) \in Nat /\ DOMAIN series = 1 .. Len(series)
      /\ kept \in SUBSET (1 .. Len(series))
  OBVIOUS
<1>2. /\ Cardinality(kept) \in Nat
      /\ \A k \in 1 .. Cardinality(kept) : NthOf(kept, k) \in kept
      /\ \A i \in kept : \E k \in 1 .. Cardinality(kept) : NthOf(kept, k) = i
  BY <1>1, NthFacts
<1>3. Parse(series) = [k \in 1 .. Cardinality(kept) |-> strip(series[NthOf(kept, k)])]
  BY DEF Parse
<1>4. \A i \in kept : /\ i \in DOMAIN series /\ series[i].finite
                      /\ strip(series[i]) \in CardSample
                      /\ CardOf(strip(series[i])) = CardOf(series[i])
  BY DEF Series, CardSample, CardOf, RowIp
<1> HIDE DEF kept, strip
<1>5. Parse(series) \in Seq(CardSample)
  BY <1>2, <1>3, <1>4
<1>6. DOMAIN Parse(series) = 1 .. Cardinality(kept)
  BY <1>3
<1>7. ASSUME NEW k \in DOMAIN Parse(series)
      PROVE  \E i \in DOMAIN series :
               series[i].finite /\ CardOf(Parse(series)[k]) = CardOf(series[i])
  BY <1>2, <1>3, <1>4, <1>6
<1>8. ASSUME NEW i \in DOMAIN series, series[i].finite
      PROVE  \E k \in DOMAIN Parse(series) : CardOf(Parse(series)[k]) = CardOf(series[i])
  <2>1. i \in kept
    BY <1>8 DEF kept
  <2>2. QED
    BY <1>2, <1>3, <1>4, <1>6, <2>1
<1>9. QED
  BY <1>5, <1>7, <1>8

-----------------------------------------------------------------------------
(***************************************************************************)
(* The invariant.  The answers are complete when the rows begin; what is   *)
(* kept of each host is a value of it exactly if its field's answer had    *)
(* one; a row is still what RowOf makes of a sample, for the answers no    *)
(* longer change; and the rows are the cards of the samples gone through.  *)
(***************************************************************************)
QueryInv ==
  /\ cfg \in Configs
  /\ exported \in Seq(Series) /\ primary = Parse(exported)
  /\ phase \in {"metrics", "host", "rows"} => primary # <<>>
  /\ phase \in {"host", "rows"} => DOMAIN answers = Metrics
  /\ phase = "rows" => DOMAIN hostAnswers = HostFields

\* The hosts a row may be of.
Ips == {RowIp(s) : s \in CardSample}

\* The positions of a host_field's answer that speak of a host.
Own(h, ip) ==
  {j \in DOMAIN hostAnswers[h] : MultiHost => HostOf(hostAnswers[h][j]) = ip}

HostInv ==
  /\ \A h \in DOMAIN hostAnswers : hostAnswers[h] \in Seq(HostSample)
  /\ \A ip \in Ips, h \in HostFields :
       IF h \in DOMAIN hostAnswers /\ Own(h, ip) # {}
       THEN <<ip, h>> \in DOMAIN hostValues /\ hostValues[<<ip, h>>] \in Own(h, ip)
       ELSE <<ip, h>> \notin DOMAIN hostValues

RowsInv ==
  /\ rows \in Seq({RowOf(s) : s \in CardSample})
  /\ rows # <<>> => /\ phase \in {"rows", "done"}
                    /\ DOMAIN answers = Metrics /\ DOMAIN hostAnswers = HostFields

CardsInv ==
  /\ Len(rows) < next
  /\ phase = "rows" => next <= Len(primary)
  /\ phase = "done" => next = Len(primary) + 1
  /\ phase \notin {"rows", "done"} => next = 1
  /\ seen = {CardOf(primary[i]) : i \in 1 .. next - 1}
  /\ seen = {CardOfRow(rows[i]) : i \in DOMAIN rows}
  /\ \A i, j \in DOMAIN rows : CardOfRow(rows[i]) = CardOfRow(rows[j]) => i = j

ExtractInv == TypeOK /\ QueryInv /\ HostInv /\ RowsInv /\ CardsInv

\* A row, and the key of a card, speak of the configuration and the answers only.
LEMMA RowKept ==
  ASSUME UNCHANGED <<cfg, answers, hostValues>>
  PROVE  /\ Metrics' = Metrics /\ HostFields' = HostFields
         /\ \A s : RowIp(s)' = RowIp(s) /\ CardOf(s)' = CardOf(s)
         /\ \A s : RowOf(s)' = RowOf(s)
<1>1. /\ Metrics' = Metrics /\ HostFields' = HostFields /\ MultiHost' = MultiHost
  BY DEF Metrics, HostFields, MultiHost
<1>2. \A s : RowIp(s)' = RowIp(s) /\ CardOf(s)' = CardOf(s) /\ Key(s)' = Key(s)
  BY <1>1 DEF RowIp, CardOf, Key
<1>3. \A samples, key : Lookup(samples, key)' = Lookup(samples, key)
  <2> TAKE samples, key
  <2>1. {i \in 1 .. Len(samples) : Key(samples[i])' = key}
          = {i \in 1 .. Len(samples) : Key(samples[i]) = key}
    BY <1>2
  <2>2. QED
    BY <2>1 DEF Lookup, SelectLastInSeq
<1>4. ASSUME NEW s
      PROVE  RowOf(s)' = RowOf(s)
  BY <1>1, <1>2, <1>3 DEF RowOf
<1>5. QED
  BY <1>1, <1>2, <1>4

\* The same of the hosts asked for.
LEMMA HostsKept ==
  ASSUME cfg' = cfg
  PROVE  /\ HostFields' = HostFields /\ MultiHost' = MultiHost /\ Ips' = Ips
         /\ \A s : HostOf(s)' = HostOf(s)
  BY DEF HostFields, MultiHost, Ips, RowIp, HostOf

-----------------------------------------------------------------------------
(* Each part is kept by every step                                         *)

\* A call begins with nothing.
LEMMA InitHolds ==
  ASSUME Init
  PROVE  ExtractInv
<1>1. /\ cfg \in Configs /\ phase = "primary" /\ seen = {} /\ next = 1
      /\ exported = <<>> /\ primary = <<>> /\ rows = <<>>
      /\ answers = <<>> /\ hostAnswers = <<>> /\ hostValues = <<>>
  BY DEF Init
<1>2. DOMAIN <<>> = {} /\ Len(<<>>) = 0 /\ \A S : <<>> \in Seq(S)
  OBVIOUS
<1>3. Parse(<<>>) = <<>>
  <2>1. {i \in DOMAIN <<>> : <<>>[i].finite} = {}
    BY <1>2
  <2>2. QED
    BY <2>1, FS_EmptySet DEF Parse
<1>4. TypeOK
  BY <1>1, <1>2 DEF TypeOK
<1>5. QueryInv
  BY <1>1, <1>2, <1>3 DEF QueryInv
<1>6. HostInv
  BY <1>1, <1>2 DEF HostInv
<1>7. RowsInv
  BY <1>1, <1>2 DEF RowsInv
<1>8. CardsInv
  <2>1. {CardOf(primary[i]) : i \in 1 .. next - 1} = {}
    BY <1>1
  <2>2. {CardOfRow(rows[i]) : i \in DOMAIN rows} = {}
    BY <1>1, <1>2
  <2>3. QED
    BY <1>1, <1>2, <2>1, <2>2 DEF CardsInv
<1>9. QED
  BY <1>4, <1>5, <1>6, <1>7, <1>8 DEF ExtractInv

\* Rows begin when all there is to ask has been asked.
LEMMA QueryStep ==
  ASSUME ExtractInv, [Next]_vars
  PROVE  QueryInv'
<1> USE ExtractorAssumption DEF ExtractInv, QueryInv, TypeOK
<1>0. cfg' = cfg => Metrics' = Metrics /\ HostFields' = HostFields
  BY DEF Metrics, HostFields
<1>1. CASE QueryPrimary
  <2>1. exported' \in Seq(Series)
    <3>1. exported' \in SeqOf(Series, MaxSeries) /\ MaxSeries \in Nat
      BY <1>1 DEF QueryPrimary
    <3>2. QED
      BY <3>1, SeqOfIsSeq
  <2>2. cfg' = cfg /\ primary' = Parse(exported')
    BY <1>1 DEF QueryPrimary
  <2>3. QED
    BY <1>0, <1>1, <2>1, <2>2 DEF QueryPrimary, AfterMetrics
<1>2. ASSUME NEW m \in Metrics, QueryMetric(m)
      PROVE  QueryInv'
  BY <1>0, <1>2 DEF QueryMetric, AfterMetrics
<1>3. ASSUME NEW h \in HostFields, QueryHostField(h) \/ HostFieldFails(h)
      PROVE  QueryInv'
  BY <1>0, <1>3 DEF QueryHostField, HostFieldFails, HostAsked
<1>4. CASE BuildRow \/ SkipSeries
  BY <1>0, <1>4 DEF BuildRow, SkipSeries, Advance
<1>5. CASE QueryFails \/ Over \/ UNCHANGED vars
  BY <1>0, <1>5 DEF QueryFails, Over, vars
<1>6. QED
  BY <1>1, <1>2, <1>3, <1>4, <1>5 DEF Next

\* What one field's answer leaves: a value of each host it speaks of, and of no other.
LEMMA EntriesFacts ==
  ASSUME NEW h, NEW samples \in Seq(HostSample), NEW ip \in Ips
  PROVE  LET entries == HostEntries(h, samples)
             own == {j \in DOMAIN samples : MultiHost => HostOf(samples[j]) = ip}
         IN /\ IF own # {} THEN <<ip, h>> \in DOMAIN entries /\ entries[<<ip, h>>] \in own
                           ELSE <<ip, h>> \notin DOMAIN entries
            /\ \A k \in DOMAIN entries : k[2] = h
<1> DEFINE entries == HostEntries(h, samples)
           own == {j \in DOMAIN samples : MultiHost => HostOf(samples[j]) = ip}
<1>0. Len(samples) \in Nat /\ DOMAIN samples = 1 .. Len(samples)
  OBVIOUS
<1>1. CASE MultiHost
  <2> DEFINE last(k) == SelectLastInSeq(samples, LAMBDA s : HostOf(s) = k[1])
             keys == {<<HostOf(samples[i]), h>> : i \in DOMAIN samples}
  <2>1. entries = [k \in keys |-> last(k)]
    BY <1>1 DEF HostEntries
  <2>2. own = {j \in 1 .. Len(samples) : HostOf(samples[j]) = ip}
    BY <1>0, <1>1
  <2>3. <<ip, h>> \in keys <=> own # {}
    BY <1>0, <2>2
  <2>4. own # {} => last(<<ip, h>>) \in own
    <3>1. last(<<ip, h>>) = IF own # {} THEN Max(own) ELSE 0
      BY <2>2 DEF SelectLastInSeq
    <3>2. own \in SUBSET (1 .. Len(samples))
      BY <2>2
    <3> HIDE DEF own, last
    <3>3. QED
      BY <1>0, <3>1, <3>2, MaxIsMember
  <2>5. \A k \in keys : k[2] = h
    OBVIOUS
  <2> HIDE DEF own, keys, last, entries
  <2>6. QED
    BY <2>1, <2>3, <2>4, <2>5 DEF own, entries
<1>2. CASE ~MultiHost
  <2>1. entries = [k \in {<<"", h>> : i \in DOMAIN samples} |-> 1]
    BY <1>2 DEF HostEntries
  <2>2. own = 1 .. Len(samples)
    BY <1>0, <1>2
  <2>7. ip = ""
    BY <1>2 DEF Ips, RowIp
  <2> HIDE DEF entries, own
  <2>3. ASSUME own # {}
        PROVE  1 \in own
    <3>1. PICK i \in own : TRUE
      BY <2>3
    <3>2. QED
      BY <1>0, <2>2, <3>1
  <2>4. DOMAIN entries = IF own # {} THEN {<<ip, h>>} ELSE {}
    BY <1>0, <2>1, <2>2, <2>7
  <2>5. \A k \in DOMAIN entries : entries[k] = 1 /\ k[2] = h
    <3>1. \A k \in DOMAIN entries : k = <<ip, h>> /\ entries[k] = 1
      BY <2>1, <2>7
    <3>2. QED
      BY <3>1
  <2>6. QED
    BY <2>3, <2>4, <2>5 DEF entries, own
<1>3. QED
  BY <1>1, <1>2

\* The host asked about is answered for, the others stand.
LEMMA HostAskedStep ==
  ASSUME TypeOK, HostInv, NEW h \in HostFields, NEW samples \in Seq(HostSample),
         HostAsked(h, samples),
         LET entries == HostEntries(h, samples)
         IN hostValues' = [k \in DOMAIN hostValues \cup DOMAIN entries |->
                             IF k \in DOMAIN entries THEN entries[k] ELSE hostValues[k]]
  PROVE  HostInv'
<1> DEFINE entries == HostEntries(h, samples)
<1>1. /\ h \notin DOMAIN hostAnswers /\ cfg' = cfg
      /\ hostAnswers' = [g \in DOMAIN hostAnswers \cup {h} |->
                           IF g = h THEN samples ELSE hostAnswers[g]]
  BY DEF HostAsked
<1>2. /\ DOMAIN hostAnswers' = DOMAIN hostAnswers \cup {h} /\ hostAnswers'[h] = samples
      /\ \A g \in DOMAIN hostAnswers : hostAnswers'[g] = hostAnswers[g]
  BY <1>1
<1>3. /\ DOMAIN hostValues' = DOMAIN hostValues \cup DOMAIN entries
      /\ \A k \in DOMAIN entries : hostValues'[k] = entries[k]
      /\ \A k \in DOMAIN hostValues : k \notin DOMAIN entries => hostValues'[k] = hostValues[k]
  OBVIOUS
<1>4. HostFields' = HostFields /\ MultiHost' = MultiHost /\ Ips' = Ips
      /\ \A s : HostOf(s)' = HostOf(s)
  BY <1>1, HostsKept
<1> HIDE DEF entries
<1>5. \A g \in DOMAIN hostAnswers' : hostAnswers'[g] \in Seq(HostSample)
  BY <1>2 DEF HostInv
<1>6. ASSUME NEW ip \in Ips, NEW g \in HostFields
      PROVE  IF g \in DOMAIN hostAnswers' /\ Own(g, ip)' # {}
             THEN <<ip, g>> \in DOMAIN hostValues' /\ hostValues'[<<ip, g>>] \in Own(g, ip)'
             ELSE <<ip, g>> \notin DOMAIN hostValues'
  <2>1. IF g \in DOMAIN hostAnswers /\ Own(g, ip) # {}
        THEN <<ip, g>> \in DOMAIN hostValues /\ hostValues[<<ip, g>>] \in Own(g, ip)
        ELSE <<ip, g>> \notin DOMAIN hostValues
    BY <1>6 DEF HostInv
  <2>2. CASE g = h
    <3> DEFINE own == {j \in DOMAIN samples : MultiHost => HostOf(samples[j]) = ip}
    <3>1. Own(g, ip)' = own
      BY <1>2, <1>4, <2>2 DEF Own
    <3>2. IF own # {} THEN <<ip, h>> \in DOMAIN entries /\ entries[<<ip, h>>] \in own
                      ELSE <<ip, h>> \notin DOMAIN entries
      BY <1>6, EntriesFacts DEF entries
    <3> HIDE DEF own
    <3>3. QED
      BY <1>1, <1>2, <1>3, <2>1, <2>2, <3>1, <3>2
  <2>3. CASE g # h
    <3>1. g \in DOMAIN hostAnswers => Own(g, ip)' = Own(g, ip)
      BY <1>2, <1>4 DEF Own
    <3>2. <<ip, g>> \notin DOMAIN entries
      <4>1. \A k \in DOMAIN entries : k[2] = h
        BY <1>6, EntriesFacts DEF entries
      <4>2. <<ip, g>>[2] = g
        OBVIOUS
      <4>3. QED
        BY <2>3, <4>1, <4>2
    <3>3. QED
      BY <1>2, <1>3, <2>1, <2>3, <3>1, <3>2
  <2>4. QED
    BY <2>2, <2>3
<1>7. QED
  BY <1>4, <1>5, <1>6 DEF HostInv

\* A host has a value of a field exactly if its answer speaks of it.
LEMMA HostStep ==
  ASSUME ExtractInv, [Next]_vars
  PROVE  HostInv'
<1>0. MaxSeries \in Nat /\ TypeOK /\ HostInv
  BY ExtractorAssumption DEF ExtractInv
<1>1. ASSUME NEW h \in HostFields, QueryHostField(h)
      PROVE  HostInv'
  <2>1. PICK samples \in SeqOf(HostSample, MaxSeries) :
          /\ HostAsked(h, samples)
          /\ LET entries == HostEntries(h, samples)
             IN hostValues' = [k \in DOMAIN hostValues \cup DOMAIN entries |->
                                 IF k \in DOMAIN entries THEN entries[k] ELSE hostValues[k]]
    BY <1>1 DEF QueryHostField
  <2>2. samples \in Seq(HostSample)
    BY <1>0, SeqOfIsSeq
  <2>3. QED
    BY <1>0, <1>1, <2>1, <2>2, HostAskedStep
<1>2. ASSUME NEW h \in HostFields, HostFieldFails(h)
      PROVE  HostInv'
  <2>1. /\ h \notin DOMAIN hostAnswers /\ cfg' = cfg /\ hostValues' = hostValues
        /\ hostAnswers' = [g \in DOMAIN hostAnswers \cup {h} |->
                             IF g = h THEN <<>> ELSE hostAnswers[g]]
    BY <1>2 DEF HostFieldFails, HostAsked
  <2>2. /\ DOMAIN hostAnswers' = DOMAIN hostAnswers \cup {h} /\ hostAnswers'[h] = <<>>
        /\ \A g \in DOMAIN hostAnswers : hostAnswers'[g] = hostAnswers[g]
    BY <2>1
  <2>3. HostFields' = HostFields /\ MultiHost' = MultiHost /\ Ips' = Ips
        /\ \A s : HostOf(s)' = HostOf(s)
    BY <2>1, HostsKept
  <2>8. DOMAIN <<>> = {} /\ <<>> \in Seq(HostSample)
    OBVIOUS
  <2>9. DOMAIN hostAnswers'[h] = {} /\ hostAnswers'[h] \in Seq(HostSample)
    BY <2>2, <2>8
  <2>4. ASSUME NEW ip
        PROVE  Own(h, ip)' = {}
    BY <2>9 DEF Own
  <2>5. ASSUME NEW ip, NEW g \in DOMAIN hostAnswers
        PROVE  Own(g, ip)' = Own(g, ip)
    BY <2>2, <2>3 DEF Own
  <2>6. \A g \in DOMAIN hostAnswers' : hostAnswers'[g] \in Seq(HostSample)
    BY <1>0, <2>2, <2>9 DEF HostInv
  <2>7. ASSUME NEW ip \in Ips, NEW g \in HostFields
        PROVE  IF g \in DOMAIN hostAnswers' /\ Own(g, ip)' # {}
               THEN <<ip, g>> \in DOMAIN hostValues' /\ hostValues'[<<ip, g>>] \in Own(g, ip)'
               ELSE <<ip, g>> \notin DOMAIN hostValues'
    <3>1. IF g \in DOMAIN hostAnswers /\ Own(g, ip) # {}
          THEN <<ip, g>> \in DOMAIN hostValues /\ hostValues[<<ip, g>>] \in Own(g, ip)
          ELSE <<ip, g>> \notin DOMAIN hostValues
      BY <1>0, <2>7 DEF HostInv
    <3>2. CASE g = h
      BY <2>1, <2>4, <3>1, <3>2
    <3>3. CASE g # h
      BY <2>1, <2>2, <2>5, <3>1, <3>3
    <3>4. QED
      BY <3>2, <3>3
  <2>10. QED
    BY <2>3, <2>6, <2>7 DEF HostInv
<1>3. ASSUME UNCHANGED <<cfg, hostAnswers, hostValues>>
      PROVE  HostInv'
  <2>1. /\ HostFields' = HostFields /\ MultiHost' = MultiHost /\ Ips' = Ips
        /\ \A s : HostOf(s)' = HostOf(s)
    BY <1>3, HostsKept
  <2>2. ASSUME NEW h, NEW ip
        PROVE  Own(h, ip)' = Own(h, ip)
    BY <1>3, <2>1 DEF Own
  <2>3. QED
    BY <1>0, <1>3, <2>1, <2>2 DEF HostInv
<1>4. CASE QueryPrimary \/ QueryFails \/ BuildRow \/ SkipSeries \/ Over
  BY <1>3, <1>4 DEF QueryPrimary, QueryFails, BuildRow, SkipSeries, Advance, Over, vars
<1>5. ASSUME NEW m \in Metrics, QueryMetric(m)
      PROVE  HostInv'
  BY <1>3, <1>5 DEF QueryMetric
<1>6. CASE UNCHANGED vars
  BY <1>3, <1>6 DEF vars
<1>7. QED
  BY <1>1, <1>2, <1>4, <1>5, <1>6 DEF Next

\* What a turn of the row loop does to the rows.
LEMMA TurnFacts ==
  ASSUME ExtractInv, BuildRow \/ SkipSeries
  PROVE  /\ next \in 1 .. Len(primary) /\ primary[next] \in CardSample
         /\ next' = next + 1
         /\ phase = "rows" /\ phase' = IF next' > Len(primary) THEN "done" ELSE "rows"
         /\ UNCHANGED <<cfg, exported, primary, answers, hostAnswers, hostValues>>
         /\ \/ /\ CardOf(primary[next]) \notin seen
               /\ rows' = Append(rows, RowOf(primary[next]))
               /\ seen' = seen \cup {CardOf(primary[next])}
            \/ CardOf(primary[next]) \in seen /\ UNCHANGED <<seen, rows>>
<1>1. Advance
  BY DEF BuildRow, SkipSeries
<1>2. primary \in Seq(CardSample) /\ next \in 1 .. Len(primary) + 1
  BY DEF ExtractInv, TypeOK
<1>3. next \in 1 .. Len(primary) /\ primary[next] \in CardSample
  BY <1>1, <1>2 DEF Advance
<1>4. QED
  BY <1>1, <1>3 DEF BuildRow, SkipSeries, Advance

\* The rows stay what the answers make of them.
LEMMA RowsStep ==
  ASSUME ExtractInv, [Next]_vars
  PROVE  RowsInv'
<1>1. RowsInv /\ CardsInv
  BY DEF ExtractInv
<1>2. ASSUME phase \notin {"rows", "done"}, rows' = rows
      PROVE  RowsInv'
  <2>1. rows' = <<>>
    BY <1>1, <1>2 DEF RowsInv
  <2>2. QED
    BY <2>1 DEF RowsInv
<1>3. CASE QueryPrimary \/ QueryFails
  BY <1>2, <1>3 DEF QueryPrimary, QueryFails
<1>4. ASSUME NEW m \in Metrics, QueryMetric(m)
      PROVE  RowsInv'
  BY <1>2, <1>4 DEF QueryMetric
<1>5. ASSUME NEW h \in HostFields, QueryHostField(h) \/ HostFieldFails(h)
      PROVE  RowsInv'
  BY <1>2, <1>5 DEF QueryHostField, HostFieldFails, HostAsked
<1>6. CASE BuildRow \/ SkipSeries
  <2>1. UNCHANGED <<cfg, answers, hostAnswers, hostValues>>
    BY <1>6, TurnFacts
  <2>2. Metrics' = Metrics /\ HostFields' = HostFields /\ \A s : RowOf(s)' = RowOf(s)
    BY <2>1, RowKept
  <2> DEFINE made == {RowOf(s) : s \in CardSample}
  <2>3. made' = made
    BY <2>2
  <2>4. rows \in Seq(made)
    BY <1>1 DEF RowsInv
  <2>5. RowOf(primary[next]) \in made
    BY <1>6, TurnFacts
  <2>6. rows' \in Seq(made)
    <3>1. rows' = rows \/ rows' = Append(rows, RowOf(primary[next]))
      BY <1>6, TurnFacts
    <3> HIDE DEF made
    <3>2. QED
      BY <2>4, <2>5, <3>1
  <2>7. /\ phase' \in {"rows", "done"}
        /\ DOMAIN answers' = Metrics' /\ DOMAIN hostAnswers' = HostFields'
    BY <1>6, <2>1, <2>2, TurnFacts DEF ExtractInv, QueryInv
  <2>8. rows' \in Seq(made)'
    BY <2>3, <2>6
  <2>9. QED
    BY <2>7, <2>8 DEF RowsInv
<1>7. CASE Over \/ UNCHANGED vars
  <2>1. UNCHANGED vars
    BY <1>7 DEF Over
  <2>2. Metrics' = Metrics /\ HostFields' = HostFields /\ \A s : RowOf(s)' = RowOf(s)
    BY <2>1, RowKept DEF vars
  <2>3. {RowOf(s) : s \in CardSample}' = {RowOf(s) : s \in CardSample}
    BY <2>2
  <2>4. QED
    BY <1>1, <2>1, <2>2, <2>3 DEF RowsInv, vars
<1>8. QED
  BY <1>3, <1>4, <1>5, <1>6, <1>7 DEF Next

\* The rows and the cards seen are those of the samples gone through.
LEMMA CardsStep ==
  ASSUME ExtractInv, [Next]_vars
  PROVE  CardsInv'
<1>1. TypeOK /\ QueryInv /\ RowsInv /\ CardsInv
  BY DEF ExtractInv
<1>2. ASSUME phase \notin {"rows", "done"}, UNCHANGED <<rows, next, seen>>,
             phase' \in {"rows", "done"} => (phase' = "rows" <=> primary' # <<>>),
             primary' \in Seq(CardSample)
      PROVE  CardsInv'
  <2>1. rows' = <<>> /\ next' = 1 /\ Len(rows') = 0 /\ DOMAIN rows' = {}
    BY <1>1, <1>2 DEF RowsInv, CardsInv
  <2>2. seen' = {}
    <3>1. seen = {CardOf(primary[i]) : i \in 1 .. next - 1} /\ next = 1
      BY <1>1, <1>2 DEF CardsInv
    <3>2. 1 .. next - 1 = {}
      BY <3>1
    <3>3. QED
      BY <1>2, <3>1, <3>2
  <2>3. {CardOf(primary[i]) : i \in 1 .. next - 1}' = {}
    <3>1. 1 .. next' - 1 = {}
      BY <2>1
    <3>2. QED
      BY <3>1
  <2>4. {CardOfRow(rows[i]) : i \in DOMAIN rows}' = {}
    BY <2>1
  <2>5. /\ phase' = "rows" => next' <= Len(primary')
        /\ phase' = "done" => next' = Len(primary') + 1
    BY <1>2, <2>1
  <2>6. QED
    BY <2>1, <2>2, <2>3, <2>4, <2>5 DEF CardsInv
<1>3. CASE QueryPrimary
  <2>1. primary' \in Seq(CardSample)
    <3>1. exported' \in SeqOf(Series, MaxSeries) /\ MaxSeries \in Nat
      BY <1>3, ExtractorAssumption DEF QueryPrimary
    <3>2. exported' \in Seq(Series)
      BY <3>1, SeqOfIsSeq
    <3>3. QED
      BY <1>3, <3>2, ParseFacts DEF QueryPrimary
  <2>2. QED
    BY <1>2, <1>3, <2>1 DEF QueryPrimary, AfterMetrics
<1>4. CASE QueryFails
  BY <1>1, <1>2, <1>4 DEF QueryFails, TypeOK
<1>5. ASSUME NEW m \in Metrics, QueryMetric(m)
      PROVE  CardsInv'
  BY <1>1, <1>2, <1>5 DEF QueryMetric, TypeOK, QueryInv, AfterMetrics
<1>6. ASSUME NEW h \in HostFields, QueryHostField(h) \/ HostFieldFails(h)
      PROVE  CardsInv'
  BY <1>1, <1>2, <1>6 DEF QueryHostField, HostFieldFails, HostAsked, TypeOK, QueryInv
<1>7. CASE BuildRow \/ SkipSeries
  <2> DEFINE card == CardOf(primary[next])
             row  == RowOf(primary[next])
  <2>1. /\ next \in 1 .. Len(primary) /\ next' = next + 1
        /\ phase' = IF next' > Len(primary) THEN "done" ELSE "rows"
        /\ UNCHANGED <<cfg, primary, answers, hostValues>>
        /\ \/ card \notin seen /\ rows' = Append(rows, row) /\ seen' = seen \cup {card}
           \/ card \in seen /\ UNCHANGED <<seen, rows>>
    BY <1>7, TurnFacts
  <2>2. CardOfRow(row) = card
    BY DEF RowOf, CardOf, CardOfRow
  <2>3. \A s : CardOf(s)' = CardOf(s)
    BY <2>1, RowKept
  <2>4. seen' = seen \cup {card}
    BY <2>1
  <2>5. {CardOf(primary[i]) : i \in 1 .. next - 1}'
          = {CardOf(primary[i]) : i \in 1 .. next - 1} \cup {card}
    <3>1. {CardOf(primary[i]) : i \in 1 .. next - 1}' = {CardOf(primary[i]) : i \in 1 .. next}
      BY <2>1, <2>3
    <3>2. 1 .. next = (1 .. next - 1) \cup {next}
      BY <2>1
    <3>3. QED
      BY <3>1, <3>2
  <2> HIDE DEF card, row
  <2>6. Len(rows) \in Nat /\ DOMAIN rows = 1 .. Len(rows) /\ next \in Nat /\ Len(primary) \in Nat
    BY <1>1, <2>1 DEF RowsInv, TypeOK
  <2>10. /\ seen = {CardOf(primary[i]) : i \in 1 .. next - 1}
         /\ seen = {CardOfRow(rows[i]) : i \in DOMAIN rows}
         /\ Len(rows) < next
    BY <1>1 DEF CardsInv
  <2>11. /\ phase' = "rows" => next' <= Len(primary')
         /\ phase' = "done" => next' = Len(primary') + 1
         /\ phase' \in {"rows", "done"}
         /\ seen' = {CardOf(primary[i]) : i \in 1 .. next - 1}'
    <3>1. seen' = {CardOf(primary[i]) : i \in 1 .. next - 1}'
      BY <2>4, <2>5, <2>10
    <3>2. QED
      BY <2>1, <2>6, <3>1
  <2>7. CASE card \notin seen /\ rows' = Append(rows, row)
    <3>1. /\ Len(rows') = Len(rows) + 1 /\ DOMAIN rows' = 1 .. Len(rows) + 1
          /\ \A i \in DOMAIN rows : rows'[i] = rows[i]
          /\ rows'[Len(rows) + 1] = row
      BY <1>1, <2>7 DEF RowsInv
    <3>2. \A i \in DOMAIN rows' : i \in DOMAIN rows \/ i = Len(rows) + 1
      BY <2>6, <3>1
    <3>3. \A i \in DOMAIN rows : i \in DOMAIN rows' /\ CardOfRow(rows[i]) \in seen
      BY <2>6, <2>10, <3>1
    <3>4. {CardOfRow(rows[i]) : i \in DOMAIN rows}'
            = {CardOfRow(rows[i]) : i \in DOMAIN rows} \cup {card}
      <4>1. Len(rows) + 1 \in DOMAIN rows'
        BY <2>6, <3>1
      <4>2. QED
        BY <2>2, <3>1, <3>2, <3>3, <4>1
    <3>5. \A i, j \in DOMAIN rows' : CardOfRow(rows'[i]) = CardOfRow(rows'[j]) => i = j
      BY <1>1, <2>2, <2>7, <3>1, <3>2, <3>3 DEF CardsInv
    <3>6. Len(rows') < next'
      BY <2>1, <2>6, <2>10, <3>1
    <3>7. seen' = {CardOfRow(rows[i]) : i \in DOMAIN rows}'
      BY <2>4, <2>10, <3>4
    <3>8. QED
      BY <2>11, <3>5, <3>6, <3>7 DEF CardsInv
  <2>8. CASE card \in seen /\ rows' = rows
    <3>1. seen' = {CardOfRow(rows[i]) : i \in DOMAIN rows}'
      BY <2>4, <2>8, <2>10
    <3>2. Len(rows') < next'
      <4>1. Len(rows) < next /\ next' = next + 1
        BY <2>1, <2>10
      <4>2. QED
        BY <2>6, <2>8, <4>1
    <3>3. \A i, j \in DOMAIN rows' : CardOfRow(rows'[i]) = CardOfRow(rows'[j]) => i = j
      BY <1>1, <2>8 DEF CardsInv
    <3>4. QED
      BY <2>11, <3>1, <3>2, <3>3 DEF CardsInv
  <2>9. QED
    BY <2>1, <2>7, <2>8
<1>8. CASE Over \/ UNCHANGED vars
  <2>1. UNCHANGED vars
    BY <1>8 DEF Over
  <2>2. \A s : CardOf(s)' = CardOf(s)
    BY <2>1, RowKept DEF vars
  <2>3. {CardOf(primary[i]) : i \in 1 .. next - 1}' = {CardOf(primary[i]) : i \in 1 .. next - 1}
    BY <2>1, <2>2 DEF vars
  <2>4. QED
    BY <1>1, <2>1, <2>3 DEF CardsInv, vars
<1>9. QED
  BY <1>3, <1>4, <1>5, <1>6, <1>7, <1>8 DEF Next

\* The types follow.
LEMMA TypesStep ==
  ASSUME ExtractInv, [Next]_vars
  PROVE  TypeOK'
<1>1. TypeOK /\ QueryInv /\ RowsInv /\ CardsInv
  BY DEF ExtractInv
<1>2. RowsInv' /\ CardsInv' /\ QueryInv'
  BY RowsStep, CardsStep, QueryStep
<1>3. phase' \in {"primary", "metrics", "host", "rows", "done", "failed"}
  <2>1. CASE QueryPrimary \/ QueryFails \/ BuildRow \/ SkipSeries \/ Over \/ UNCHANGED vars
    BY <1>1, <2>1 DEF QueryPrimary, QueryFails, BuildRow, SkipSeries, Advance, Over, vars,
                      AfterMetrics, TypeOK
  <2>2. ASSUME NEW m \in Metrics, QueryMetric(m)
        PROVE  phase' \in {"metrics", "host", "rows"}
    BY <2>2 DEF QueryMetric, AfterMetrics
  <2>3. ASSUME NEW h \in HostFields, QueryHostField(h) \/ HostFieldFails(h)
        PROVE  phase' \in {"host", "rows"}
    BY <2>3 DEF QueryHostField, HostFieldFails, HostAsked
  <2>4. QED
    BY <2>1, <2>2, <2>3 DEF Next
<1>4. primary' \in Seq(CardSample)
  BY <1>2, ParseFacts DEF QueryInv
<1> DEFINE AnswersOK ==
             /\ DOMAIN answers \subseteq Metrics /\ DOMAIN hostAnswers \subseteq HostFields
             /\ \A m \in DOMAIN answers : answers[m] \in Seq(CardSample)
<1>5. AnswersOK'
  <2>0. cfg' = cfg
    BY DEF Next, QueryPrimary, QueryFails, QueryMetric, QueryHostField, HostFieldFails,
           HostAsked, BuildRow, SkipSeries, Advance, Over, vars
  <2>1. Metrics' = Metrics /\ HostFields' = HostFields
    BY <2>0 DEF Metrics, HostFields
  <2>2. ASSUME NEW m \in Metrics, QueryMetric(m)
        PROVE  AnswersOK'
    <3>1. PICK samples \in SeqOf(CardSample, MaxSeries) :
            answers' = [n \in DOMAIN answers \cup {m} |->
                          IF n = m THEN samples ELSE answers[n]]
      BY <2>2 DEF QueryMetric
    <3>2. samples \in Seq(CardSample)
      BY ExtractorAssumption, SeqOfIsSeq
    <3>3. hostAnswers' = hostAnswers
      BY <2>2 DEF QueryMetric
    <3>4. QED
      BY <1>1, <2>1, <2>2, <3>1, <3>2, <3>3 DEF TypeOK
  <2>3. ASSUME NEW h \in HostFields, QueryHostField(h) \/ HostFieldFails(h)
        PROVE  AnswersOK'
    BY <1>1, <2>1, <2>3 DEF QueryHostField, HostFieldFails, HostAsked, TypeOK
  <2>4. CASE QueryPrimary \/ QueryFails \/ BuildRow \/ SkipSeries \/ Over \/ UNCHANGED vars
    BY <1>1, <2>1, <2>4 DEF QueryPrimary, QueryFails, BuildRow, SkipSeries, Advance, Over, vars,
                            TypeOK
  <2>5. QED
    BY <2>2, <2>3, <2>4 DEF Next
<1>6. next' \in 1 .. Len(primary') + 1
  <2>1. CASE BuildRow \/ SkipSeries
    <3>1. next \in 1 .. Len(primary) /\ next' = next + 1 /\ primary' = primary
      BY <2>1, TurnFacts
    <3>2. Len(primary') \in Nat
      BY <1>4
    <3>3. QED
      BY <3>1, <3>2
  <2>2. CASE UNCHANGED <<next, primary>>
    BY <1>1, <2>2 DEF TypeOK
  <2>3. CASE QueryPrimary
    <3>1. next' = 1 /\ Len(primary') \in Nat
      BY <1>1, <1>4, <2>3 DEF QueryPrimary, CardsInv
    <3>2. QED
      BY <3>1
  <2>4. QED
    BY <2>1, <2>2, <2>3 DEF Next, QueryFails, QueryMetric, QueryHostField, HostFieldFails,
                            HostAsked, Over, vars
<1>7. Len(rows') <= Len(primary')
  <2>1. Len(rows') < next' /\ Len(rows') \in Nat /\ Len(primary') \in Nat
    BY <1>2, <1>4 DEF CardsInv, RowsInv
  <2>2. QED
    BY <1>6, <2>1
<1>8. ASSUME NEW i \in DOMAIN rows'
      PROVE  DOMAIN rows'[i].fields = Metrics' /\ DOMAIN rows'[i].host = HostFields'
  <2>1. rows'[i] \in {RowOf(s) : s \in CardSample}'
    BY <1>2, <1>8 DEF RowsInv
  <2>2. \A s : DOMAIN RowOf(s)'.fields = Metrics' /\ DOMAIN RowOf(s)'.host = HostFields'
    BY DEF RowOf
  <2>3. QED
    BY <2>1, <2>2
<1>9. QED
  BY <1>3, <1>4, <1>5, <1>6, <1>7, <1>8 DEF TypeOK

-----------------------------------------------------------------------------
(* What the runs check                                                     *)

\* The invariant, of every call of collect_source_at.
THEOREM CallInvariant == Spec => []ExtractInv
<1>1. Init => ExtractInv
  BY InitHolds
<1>2. ExtractInv /\ [Next]_vars => ExtractInv'
  <2> SUFFICES ASSUME ExtractInv, [Next]_vars
               PROVE  ExtractInv'
    OBVIOUS
  <2>1. TypeOK' /\ QueryInv' /\ HostInv' /\ RowsInv' /\ CardsInv'
    BY TypesStep, QueryStep, HostStep, RowsStep, CardsStep
  <2>2. QED
    BY <2>1 DEF ExtractInv
<1>3. QED
  BY <1>1, <1>2, PTL DEF Spec

\* Every variable keeps its type, and the row loop stays within the samples.
THEOREM CallTypes == Spec => []TypeOK
<1>1. ExtractInv => TypeOK
  BY DEF ExtractInv
<1>2. QED
  BY <1>1, CallInvariant, PTL

\* Each row was made of one sample of the primary metric, and its metrics were asked for.
LEMMA RowFacts ==
  ASSUME ExtractInv, NEW i \in DOMAIN rows
  PROVE  /\ \E s \in CardSample : rows[i] = RowOf(s)
         /\ DOMAIN answers = Metrics /\ DOMAIN hostAnswers = HostFields
<1>1. RowsInv
  BY DEF ExtractInv
<1>2. rows # <<>>
  <2>1. DOMAIN <<>> = {}
    OBVIOUS
  <2>2. QED
    BY <2>1
<1>3. rows[i] \in {RowOf(s) : s \in CardSample}
  BY <1>1 DEF RowsInv
<1>4. QED
  BY <1>1, <1>2, <1>3 DEF RowsInv

\* One row for every card the primary metric gave a number for, and for no other.
THEOREM RowsOfTheCards == Spec => []RowsAreTheCards
<1>1. ASSUME ExtractInv, phase = "done"
      PROVE  LET numbers == {exported[i] : i \in {i \in DOMAIN exported : exported[i].finite}}
             IN /\ {CardOfRow(rows[i]) : i \in DOMAIN rows} = {CardOf(s) : s \in numbers}
                /\ \A i, j \in DOMAIN rows :
                     CardOfRow(rows[i]) = CardOfRow(rows[j]) => i = j
  <2> DEFINE numbers == {exported[i] : i \in {i \in DOMAIN exported : exported[i].finite}}
  <2>1. exported \in Seq(Series) /\ primary = Parse(exported) /\ CardsInv
    BY <1>1 DEF ExtractInv, QueryInv
  <2>2. /\ primary \in Seq(CardSample)
        /\ \A k \in DOMAIN primary : \E i \in DOMAIN exported :
             exported[i].finite /\ CardOf(primary[k]) = CardOf(exported[i])
        /\ \A i \in DOMAIN exported : exported[i].finite =>
             \E k \in DOMAIN primary : CardOf(primary[k]) = CardOf(exported[i])
    BY <2>1, ParseFacts
  <2>3. next = Len(primary) + 1
    BY <1>1, <2>1 DEF CardsInv
  <2>4. 1 .. next - 1 = DOMAIN primary
    BY <2>2, <2>3
  <2>5. {CardOfRow(rows[i]) : i \in DOMAIN rows} = {CardOf(primary[k]) : k \in DOMAIN primary}
    BY <2>1, <2>4 DEF CardsInv
  <2>6. {CardOf(primary[k]) : k \in DOMAIN primary} = {CardOf(s) : s \in numbers}
    <3>1. ASSUME NEW k \in DOMAIN primary
          PROVE  \E s \in numbers : CardOf(primary[k]) = CardOf(s)
      BY <2>2
    <3>2. ASSUME NEW s \in numbers
          PROVE  \E k \in DOMAIN primary : CardOf(primary[k]) = CardOf(s)
      BY <2>2
    <3> HIDE DEF numbers
    <3>3. QED
      BY <3>1, <3>2
  <2>7. QED
    BY <2>1, <2>5, <2>6 DEF CardsInv
<1>2. ExtractInv => RowsAreTheCards
  BY <1>1 DEF RowsAreTheCards
<1>3. QED
  BY <1>2, CallInvariant, PTL

\* No value comes from another host's card of the same number.
THEOREM ValuesAreOwn == Spec => []ValuesOfOwnCard
<1>1. ASSUME ExtractInv, NEW i \in DOMAIN rows, NEW m \in Metrics, rows[i].fields[m] # 0
      PROVE  /\ RowIp(answers[m][rows[i].fields[m]]) = rows[i].ip
             /\ answers[m][rows[i].fields[m]].card = rows[i].card
  <2>1. PICK s \in CardSample : rows[i] = RowOf(s)
    BY <1>1, RowFacts
  <2>2. /\ rows[i].fields[m] = Lookup(answers[m], Key(s))
        /\ rows[i].ip = RowIp(s) /\ rows[i].card = s.card
    BY <2>1 DEF RowOf
  <2>3. answers[m] \in Seq(CardSample)
    BY <1>1, RowFacts DEF ExtractInv, TypeOK
  <2> DEFINE v == rows[i].fields[m]
  <2>4. Key(answers[m][v]) = Key(s)
    BY <1>1, <2>2, <2>3, LookupFacts
  <2> HIDE DEF v
  <2>5. RowIp(answers[m][v]) = RowIp(s) /\ answers[m][v].card = s.card
    BY <2>4 DEF Key, RowIp
  <2>6. QED
    BY <2>2, <2>5 DEF v
<1>2. ExtractInv => ValuesOfOwnCard
  BY <1>1 DEF ValuesOfOwnCard
<1>3. QED
  BY <1>2, CallInvariant, PTL

\* A host's value of a field is in all of its rows, whatever became of other fields.
THEOREM HostValuesAreOwn == Spec => []HostValueOfOwnHost
<1>1. ASSUME ExtractInv, NEW i \in DOMAIN rows, NEW h \in HostFields
      PROVE  LET own == {j \in DOMAIN hostAnswers[h] :
                           MultiHost => HostOf(hostAnswers[h][j]) = rows[i].ip}
             IN IF own = {} THEN rows[i].host[h] = 0 ELSE rows[i].host[h] \in own
  <2>1. PICK s \in CardSample : rows[i] = RowOf(s)
    BY <1>1, RowFacts
  <2>2. /\ rows[i].ip = RowIp(s) /\ RowIp(s) \in Ips
        /\ rows[i].host[h] = IF <<RowIp(s), h>> \in DOMAIN hostValues
                             THEN hostValues[<<RowIp(s), h>>] ELSE 0
    BY <2>1 DEF RowOf, Ips
  <2>3. DOMAIN hostAnswers = HostFields
    BY <1>1, RowFacts
  <2>4. IF h \in DOMAIN hostAnswers /\ Own(h, RowIp(s)) # {}
        THEN /\ <<RowIp(s), h>> \in DOMAIN hostValues
             /\ hostValues[<<RowIp(s), h>>] \in Own(h, RowIp(s))
        ELSE <<RowIp(s), h>> \notin DOMAIN hostValues
    BY <1>1, <2>2 DEF ExtractInv, HostInv
  <2>5. Own(h, RowIp(s)) = {j \in DOMAIN hostAnswers[h] :
                              MultiHost => HostOf(hostAnswers[h][j]) = rows[i].ip}
    BY <2>2 DEF Own
  <2>6. IF Own(h, RowIp(s)) = {} THEN rows[i].host[h] = 0
                                ELSE rows[i].host[h] \in Own(h, RowIp(s))
    BY <2>2, <2>3, <2>4
  <2>7. QED
    BY <2>5, <2>6
<1>2. ExtractInv => HostValueOfOwnHost
  BY <1>1 DEF HostValueOfOwnHost
<1>3. QED
  BY <1>2, CallInvariant, PTL
=============================================================================
