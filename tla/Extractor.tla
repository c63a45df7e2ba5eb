----------------------------- MODULE Extractor -----------------------------
(***************************************************************************)
(* One call of collect_source_at (src/src/extractor/mod.rs): the queries   *)
(* it sends to Prometheus and the rows it makes of the answers, a row per  *)
(* card of the primary metric.                                             *)
(*                                                                         *)
(* Abstractions.  A series is known by its labels: the value of ip_label   *)
(* ("" if it has none), `instance` and the card label; and by whether its  *)
(* value is finite.  A value in a row is named by where it came from, the  *)
(* index of its sample in the answer, 0 for NULL.  An expression has a     *)
(* value when all its variables have one.                                  *)
(***************************************************************************)
EXTENDS Integers, Sequences, SequencesExt

CONSTANTS
  Endpoints,   \* values of ip_label and instance, "host:port"
  IpOf,        \* extract_ip_from_instance, on Endpoints and ""
  Cards,       \* values of the card label
  Configs,     \* the sources: [multiHost: it has no `ip` of its own; metrics: what
               \* its fields and expressions need; hostFields]
  NaNAt,       \* bound: where a value of the primary metric may be no number
  MaxSeries    \* bound: series in an answer

ASSUME ExtractorAssumption ==
  /\ "" \notin Endpoints /\ DOMAIN IpOf = Endpoints \cup {""}
  /\ \A c \in Configs : c.multiHost \in BOOLEAN
  /\ NaNAt \subseteq Endpoints /\ MaxSeries \in Nat

Labels     == Endpoints \cup {""}
CardSample == [label : Labels, card : Cards]
Series     == {s \in [label : Labels, card : Cards, finite : BOOLEAN] :
                 s.finite \/ s.label \in NaNAt}
\* Its instance is looked at only if it has no ip_label.
HostSample == {s \in [label : Labels, inst : Endpoints] : s.label \in {"", s.inst}}

VARIABLES
  cfg,        \* the source's configuration
  phase,      \* "primary", "metrics", "host", "rows", "done", "failed"
  exported,   \* the primary metric's series at Prometheus, NaN and Inf included
  primary,    \* primary_samples
  answers,    \* metric_cache: [a subset of Metrics -> Seq(CardSample)]
  hostAnswers, \* history: [the host_fields asked so far -> Seq(HostSample)], where
               \* an error is an empty answer
  hostValues, \* host_values_by_instance: [<<ip, field>> -> index], partial
  seen,       \* seen_cards
  next,       \* the loop's position in primary
  rows        \* Seq([ip, card, fields, expr, host])

vars == <<cfg, phase, exported, primary, answers, hostAnswers, hostValues, seen, next,
          rows>>

MultiHost  == cfg.multiHost
Metrics    == cfg.metrics
HostFields == cfg.hostFields

Init ==
  /\ cfg \in Configs
  /\ phase = "primary"
  /\ exported = <<>> /\ primary = <<>>
  /\ answers = <<>> /\ hostAnswers = <<>> /\ hostValues = <<>>
  /\ seen = {} /\ next = 1 /\ rows = <<>>

-----------------------------------------------------------------------------
(* The pure parts                                                          *)

\* The n-th of a set of positions.
NthOf(places, n) ==
  CHOOSE i \in places : Cardinality({j \in places : j <= i}) = n

\* parse_vector skips a series whose value is NaN or infinite; the rest keep their order.
Parse(series) ==
  LET kept == {i \in DOMAIN series : series[i].finite}
  IN [n \in 1 .. Cardinality(kept) |->
        LET s == series[NthOf(kept, n)] IN [label |-> s.label, card |-> s.card]]

KeyByCard(s) == <<"", s.card>>           \* mutant: aligned as on a single host

\* make_key over align_labels.
Key(s) == <<IF MultiHost THEN s.label ELSE "", s.card>>

\* The configured `ip` of a single-host source stands as "".
RowIp(s) == IF MultiHost THEN IpOf[s.label] ELSE ""

\* index_by_key, index_labels_by_key: the last sample of a key; 0 if it has none.
Lookup(samples, key) ==
  SelectLastInSeq(samples, LAMBDA s : Key(s) = key)

\* The host a host_field's sample speaks of.
HostOf(s) == IF s.label # "" THEN IpOf[s.label] ELSE IpOf[s.inst]

\* What the samples of one host_field leave in host_values_by_instance: on many
\* hosts the last of each, on one host the first.
HostEntries(h, samples) ==
  IF MultiHost
  THEN [k \in {<<HostOf(samples[i]), h>> : i \in DOMAIN samples} |->
          SelectLastInSeq(samples, LAMBDA s : HostOf(s) = k[1])]
  ELSE [k \in {<<"", h>> : i \in DOMAIN samples} |-> 1]

-----------------------------------------------------------------------------
(* The call, query by query                                                *)

AfterMetrics == IF HostFields = {} THEN "rows" ELSE "host"

\* The primary metric; without a sample of it there is nothing more to do.
QueryPrimary ==
  /\ phase = "primary"
  /\ exported' \in SeqOf(Series, MaxSeries)
  /\ primary' = Parse(exported')
  /\ phase' = IF primary' = <<>> THEN "done"
              ELSE IF Metrics = {} THEN AfterMetrics ELSE "metrics"
  /\ UNCHANGED <<cfg, answers, hostAnswers, hostValues, seen, next, rows>>

\* Each needed metric, in the order of a hash set.
QueryMetric(m) ==
  /\ phase = "metrics" /\ m \notin DOMAIN answers
  /\ \E samples \in SeqOf(CardSample, MaxSeries) :
       answers' = [n \in DOMAIN answers \cup {m} |->
                     IF n = m THEN samples ELSE answers[n]]
  /\ phase' = IF DOMAIN answers' = Metrics THEN AfterMetrics ELSE "metrics"
  /\ UNCHANGED <<cfg, exported, primary, hostAnswers, hostValues, seen, next, rows>>

\* Either query returns an error, and with it the call.
QueryFails ==
  /\ phase \in {"primary", "metrics"}
  /\ phase' = "failed"
  /\ UNCHANGED <<cfg, exported, primary, answers, hostAnswers, hostValues, seen, next,
                 rows>>

HostAsked(h, answer) ==
  /\ phase = "host" /\ h \notin DOMAIN hostAnswers
  /\ hostAnswers' = [g \in DOMAIN hostAnswers \cup {h} |->
                       IF g = h THEN answer ELSE hostAnswers[g]]
  /\ phase' = IF DOMAIN hostAnswers' = HostFields THEN "rows" ELSE "host"
  /\ UNCHANGED <<cfg, exported, primary, answers, seen, next, rows>>

QueryHostField(h) ==
  \E samples \in SeqOf(HostSample, MaxSeries) :
    LET entries == HostEntries(h, samples)
    IN /\ HostAsked(h, samples)
       /\ hostValues' = [k \in DOMAIN hostValues \cup DOMAIN entries |->
                           IF k \in DOMAIN entries THEN entries[k] ELSE hostValues[k]]

HostFieldFailsAll(h) ==                  \* mutant: what was collected is dropped
  HostAsked(h, <<>>) /\ hostValues' = <<>>

\* A host_field's query fails: that field is NULL this round, nothing else.
HostFieldFails(h) == HostAsked(h, <<>>) /\ UNCHANGED hostValues

RowOfPresent(s) ==                       \* mutant: a missing value is left out
  LET found == {m \in Metrics : Lookup(answers[m], Key(s)) # 0}
  IN [ip |-> RowIp(s), card |-> s.card,
      fields |-> [m \in found |-> Lookup(answers[m], Key(s))],
      expr |-> <<>>, host |-> [h \in HostFields |-> 0]]

\* The row of one primary sample.
RowOf(s) ==
  LET value == [m \in Metrics |-> Lookup(answers[m], Key(s))]
  IN [ip |-> RowIp(s), card |-> s.card,
      fields |-> value,
      expr |-> IF \A m \in Metrics : value[m] # 0 THEN value ELSE <<>>,
      host |-> [h \in HostFields |-> IF <<RowIp(s), h>> \in DOMAIN hostValues
                                     THEN hostValues[<<RowIp(s), h>>] ELSE 0]]

CardOf(s) == <<RowIp(s), s.card>>
CardOfRow(r) == <<r.ip, r.card>>

Advance ==
  /\ phase = "rows" /\ next <= Len(primary)
  /\ next' = next + 1
  /\ phase' = IF next' > Len(primary) THEN "done" ELSE "rows"
  /\ UNCHANGED <<cfg, exported, primary, answers, hostAnswers, hostValues>>

BuildAnyRow ==                           \* mutant: every series has its row
  /\ Advance
  /\ rows' = Append(rows, RowOf(primary[next]))
  /\ UNCHANGED seen

\* The first series of a card makes its row.
BuildRow ==
  /\ Advance
  /\ CardOf(primary[next]) \notin seen
  /\ seen' = seen \cup {CardOf(primary[next])}
  /\ rows' = Append(rows, RowOf(primary[next]))

\* A further series of a card is skipped.
SkipSeries ==
  /\ Advance
  /\ CardOf(primary[next]) \in seen
  /\ UNCHANGED <<seen, rows>>

Over == phase \in {"done", "failed"} /\ UNCHANGED vars

Next ==
  \/ QueryPrimary \/ QueryFails
  \/ \E m \in Metrics : QueryMetric(m)
  \/ \E h \in HostFields : QueryHostField(h) \/ HostFieldFails(h)
  \/ BuildRow \/ SkipSeries
  \/ Over

Spec == Init /\ [][Next]_vars

-----------------------------------------------------------------------------
TypeOK ==
  /\ phase \in {"primary", "metrics", "host", "rows", "done", "failed"}
  /\ primary \in Seq(CardSample)
  /\ DOMAIN answers \subseteq Metrics /\ DOMAIN hostAnswers \subseteq HostFields
  /\ \A m \in DOMAIN answers : answers[m] \in Seq(CardSample)
  /\ next \in 1 .. Len(primary) + 1 /\ Len(rows) <= Len(primary)
  /\ \A i \in DOMAIN rows : /\ DOMAIN rows[i].fields = Metrics
                            /\ DOMAIN rows[i].host = HostFields

\* Every card the primary metric gave a number for has one row, and no other has any,
\* though the metric has many series of a card: of several pods, of two exporters.
RowsAreTheCards ==
  phase = "done" =>
    LET numbers == {exported[i] : i \in {i \in DOMAIN exported : exported[i].finite}}
    IN /\ {CardOfRow(rows[i]) : i \in DOMAIN rows} = {CardOf(s) : s \in numbers}
       /\ \A i, j \in DOMAIN rows : CardOfRow(rows[i]) = CardOfRow(rows[j]) => i = j

\* A value, of a field or in an expression, is one measured on the row's own host
\* and card, never another's with the same card number.
ValuesOfOwnCard ==
  \A i \in DOMAIN rows, m \in Metrics :
    LET v == rows[i].fields[m]
    IN v # 0 => /\ RowIp(answers[m][v]) = rows[i].ip
                /\ answers[m][v].card = rows[i].card

\* A host_field has, in every row of a host, a value of that host whenever its
\* query returned one: another field's failed query does not matter, nor does the
\* label the host is named by.
HostValueOfOwnHost ==
  \A i \in DOMAIN rows, h \in HostFields :
    LET samples == hostAnswers[h]
        own == {j \in DOMAIN samples : MultiHost => HostOf(samples[j]) = rows[i].ip}
    IN IF own = {} THEN rows[i].host[h] = 0 ELSE rows[i].host[h] \in own
=============================================================================
