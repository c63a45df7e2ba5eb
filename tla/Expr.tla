------------------------------- MODULE Expr --------------------------------
(***************************************************************************)
(* The formulas of a source's `expressions` (src/src/expr/mod.rs): parsed  *)
(* once when the configuration is loaded, to refuse a bad one, and again   *)
(* for every card, on the samples the extractor asked for because the      *)
(* formula's text names them (src/src/extractor/mod.rs).                   *)
(*                                                                         *)
(* Abstractions.  A text is a sequence of tokens: a name or a number as    *)
(* long as it goes, an operator, a bracket, anything else; white space     *)
(* between tokens means nothing.  A number is a fraction <<n, d>>: no      *)
(* rounding, but one beyond Top is an infinity, as beyond the largest f64, *)
(* and NaN is <<0, 0>>.                                                    *)
(***************************************************************************)
EXTENDS Integers, Sequences, FiniteSetsExt

CONSTANTS
  Names,         \* tokens that are metric names
  FloatNames,    \* those that are also the text of an f64: "inf", "nan"
  Literal,       \* [token that is a number -> its value]
  Texts,         \* the formulas that may be configured
  FieldMetrics,  \* the metrics of the source's `fields`
  Values,        \* the values a sample may have, finite
  Top,           \* the largest finite number
  NULL

ASSUME ExprAssumption ==
  /\ FloatNames \subseteq Names /\ FieldMetrics \subseteq Names
  /\ Texts \subseteq Seq(STRING)
  \* A name starts with a letter or "_", a number with a digit or ".".
  /\ DOMAIN Literal \cap Names = {}
  /\ {"(", ")", "+", "-", "*", "/", ""} \cap (Names \cup DOMAIN Literal) = {}

-----------------------------------------------------------------------------
(* Numbers                                                                 *)

Sign(n) == CASE n > 0 -> 1 [] n = 0 -> 0 [] OTHER -> -1
Abs(n)  == Sign(n) * n

Reduced(n, d) ==
  LET k == Max({i \in 1 .. Abs(n) + d : n % i = 0 /\ d % i = 0}) IN <<n \div k, d \div k>>

\* The number n / d.
Norm(n, d) ==
  IF d = 0 \/ Abs(n) > Top * Abs(d) THEN <<Sign(n) * (IF d < 0 THEN -1 ELSE 1), 0>>
  ELSE IF d < 0 THEN Reduced(-n, -d) ELSE Reduced(n, d)

Zero == <<0, 1>>
IsFinite(x) == x[2] # 0

Add(x, y) ==
  IF x = y /\ ~IsFinite(x) THEN x ELSE Norm(x[1] * y[2] + y[1] * x[2], x[2] * y[2])
Neg(x)    == <<-x[1], x[2]>>
Mul(x, y) == Norm(x[1] * y[1], x[2] * y[2])
Div(x, y) == Mul(x, IF y[1] < 0 THEN <<-y[2], -y[1]>> ELSE <<y[2], y[1]>>)

-----------------------------------------------------------------------------
(* parse: recursive descent.  A result is {<<tree, position after it>>},   *)
(* or {} for a ParseError; p[<<rule, i>>] is that of the rule's function   *)
(* at position i.                                                          *)

Token(t, i) == IF i <= Len(t) THEN t[i] ELSE ""

ParseFactor(p, t, i) ==
  CASE Token(t, i) = "(" ->
         {<<r[1], r[2] + 1>> : r \in {q \in p[<<"expr", i + 1>>] : Token(t, q[2]) = ")"}}
    [] Token(t, i) = "-" -> {<<<<"neg", r[1]>>, r[2]>> : r \in p[<<"factor", i + 1>>]}
    [] Token(t, i) \in DOMAIN Literal -> {<<<<"num", Literal[t[i]]>>, i + 1>>}
    [] Token(t, i) \in Names -> {<<<<"var", t[i]>>, i + 1>>}
    [] OTHER -> {}

\* A turn of a loop that has come to r: over, or one more operand.
Turn(p, t, operand, ops, r) ==
  IF Token(t, r[2]) \in ops
  THEN {<<<<t[r[2]], r[1], q[1]>>, q[2]>> : q \in p[<<operand, r[2] + 1>>]}
  ELSE {r}

\* No loop has more turns than there are tokens.
Loop(p, t, operand, ops, i) ==
  LET after[n \in 0 .. Len(t)] ==
        IF n = 0 THEN p[<<operand, i>>]
        ELSE UNION {Turn(p, t, operand, ops, r) : r \in after[n - 1]}
  IN after[Len(t)]

ParseTerm(p, t, i) == Loop(p, t, "factor", {"*", "/"}, i)

ParseExprRight(p, t, i) ==               \* mutant: A - B - C is A - (B - C)
  UNION {Turn(p, t, "expr", {"+", "-"}, r) : r \in p[<<"term", i>>]}

ParseExpr(p, t, i) == Loop(p, t, "term", {"+", "-"}, i)

Rules == {"expr", "term", "factor"}

Parser(t) ==
  LET p[x \in Rules \X (1 .. Len(t) + 1)] ==
        CASE x[1] = "expr"   -> ParseExpr(p, t, x[2])
          [] x[1] = "term"   -> ParseTerm(p, t, x[2])
          [] x[1] = "factor" -> ParseFactor(p, t, x[2])
  IN p

ParsePrefix(t) == {r[1] : r \in Parser(t)[<<"expr", 1>>]}   \* mutant: "A B" is A

\* The trees of a text, one or none: nothing may be left over.
Parse(t) == {r[1] : r \in {q \in Parser(t)[<<"expr", 1>>] : q[2] = Len(t) + 1}}

-----------------------------------------------------------------------------
(* evaluate                                                                *)

\* The trees up to a height.
Ast(height) ==
  LET leaves == ({"num"} \X {Literal[n] : n \in DOMAIN Literal}) \cup ({"var"} \X Names)
      upTo[h \in 0 .. height] ==
        IF h = 0 THEN leaves
        ELSE leaves \cup ({"neg"} \X upTo[h - 1])
                    \cup ({"+", "-", "*", "/"} \X upTo[h - 1] \X upTo[h - 1])
  IN upTo[height]

\* The value of a tree, from the values v of its subtrees.
ValueOf(v, ast, given) ==
  CASE ast[1] = "num" -> ast[2]
    [] ast[1] = "var" -> IF ast[2] \in DOMAIN given THEN given[ast[2]] ELSE NULL
    [] ast[1] = "neg" -> IF v[ast[2]] = NULL THEN NULL ELSE Neg(v[ast[2]])
    [] ast[1] \in {"+", "-", "*", "/"} ->
         LET l == v[ast[2]]
             r == v[ast[3]]
         IN IF NULL \in {l, r} THEN NULL
            ELSE CASE ast[1] = "+" -> Add(l, r)
                   [] ast[1] = "-" -> Add(l, Neg(r))
                   [] ast[1] = "*" -> Mul(l, r)
                   [] ast[1] = "/" -> IF r = Zero THEN NULL ELSE Div(l, r)

Evaluate(ast, height, given) ==
  LET v[a \in Ast(height)] == ValueOf(v, a, given) IN v[ast]

\* A tree is no higher than its text is long.
Eval(t, given) ==
  IF Parse(t) = {} THEN NULL
  ELSE Evaluate(CHOOSE a \in Parse(t) : TRUE, Len(t), given)

-----------------------------------------------------------------------------
(* The extractor's side                                                    *)

ExtractVarNames(t) == {t[i] : i \in DOMAIN t} \cap (Names \ FloatNames)

CollectNeededMetrics(t) == FieldMetrics \cup ExtractVarNames(t)

\* `value_idx` holds, of the metrics asked for, those the card has a sample of.
BuildVars(t, valueIdx) ==
  [v \in ExtractVarNames(t) \cap DOMAIN valueIdx |-> valueIdx[v]]

StoreAnything(v) == v                    \* mutant: infinities go to the database
FiniteOrNone(v) == IF v # NULL /\ IsFinite(v) THEN v ELSE NULL

-----------------------------------------------------------------------------
VARIABLES
  text,      \* the formula configured
  phase,     \* "loading", "refused", "ready", "asked", "answered", "stored"
  asked,     \* the metrics queried this round
  card,      \* what the card exports, [metric -> Values], partial
  valueIdx,  \* what of it is known here
  value      \* the derived column of the card's row

vars == <<text, phase, asked, card, valueIdx, value>>

Init ==
  /\ text \in Texts
  /\ phase = "loading"
  /\ asked = {} /\ card = <<>> /\ valueIdx = <<>> /\ value = NULL

\* validate_expressions: a formula that does not parse ends the start.
Load ==
  /\ phase = "loading"
  /\ phase' = IF Parse(text) # {} THEN "ready" ELSE "refused"
  /\ UNCHANGED <<text, asked, card, valueIdx, value>>

Ask ==
  /\ phase = "ready"
  /\ asked' = CollectNeededMetrics(text)
  /\ phase' = "asked"
  /\ UNCHANGED <<text, card, valueIdx, value>>

\* Prometheus answers the queries; a metric the card lacks is in no answer.
Answer ==
  /\ phase = "asked"
  /\ \E has \in SUBSET Names : card' \in [has -> Values]
  /\ valueIdx' = [m \in asked \cap DOMAIN card' |-> card'[m]]
  /\ phase' = "answered"
  /\ UNCHANGED <<text, asked, value>>

Store ==
  /\ phase = "answered"
  /\ value' = FiniteOrNone(Eval(text, BuildVars(text, valueIdx)))
  /\ phase' = "stored"
  /\ UNCHANGED <<text, asked, card, valueIdx>>

Over == phase \in {"refused", "stored"} /\ UNCHANGED vars

Next == Load \/ Ask \/ Answer \/ Store \/ Over

Spec == Init /\ [][Next]_vars

-----------------------------------------------------------------------------
(* The grammar the module's documentation gives, read as a relation on     *)
(* spans of the text.  What a span may mean is a set of values, NULL where *)
(* a variable has no sample or a divisor is zero; a span that is no phrase *)
(* means nothing.                                                          *)

Meaning(op, x, y) ==
  IF NULL \in {x, y} \/ (op = "/" /\ y = Zero) THEN NULL
  ELSE CASE op = "+" -> Add(x, y) [] op = "-" -> Add(x, Neg(y))
         [] op = "*" -> Mul(x, y) [] op = "/" -> Div(x, y)

Atom(tok, given) ==
  IF tok \in DOMAIN Literal THEN {Literal[tok]}
  ELSE IF tok \notin Names THEN {}
  ELSE IF tok \in DOMAIN given THEN {given[tok]} ELSE {NULL}

FactorMeans(m, t, given, i, j) ==
  IF i = j THEN Atom(t[i], given)
  ELSE IF t[i] = "(" /\ t[j] = ")" /\ i + 1 < j THEN m[<<"expr", i + 1, j - 1>>]
  ELSE IF t[i] = "-" THEN {IF x = NULL THEN NULL ELSE Neg(x) : x \in m[<<"factor", i + 1, j>>]}
  ELSE {}

ChainMeans(m, t, rule, operand, ops, i, j) ==
  m[<<operand, i, j>>] \cup
  UNION {{Meaning(t[k], x, y) : x \in m[<<rule, i, k - 1>>], y \in m[<<operand, k + 1, j>>]} :
           k \in {k \in i + 1 .. j - 1 : t[k] \in ops}}

Phrases(t, given) ==
  LET m[x \in Rules \X (1 .. Len(t)) \X (0 .. Len(t))] ==
        IF x[2] > x[3] THEN {}
        ELSE CASE x[1] = "expr"   -> ChainMeans(m, t, "expr", "term", {"+", "-"}, x[2], x[3])
               [] x[1] = "term"   -> ChainMeans(m, t, "term", "factor", {"*", "/"}, x[2], x[3])
               [] x[1] = "factor" -> FactorMeans(m, t, given, x[2], x[3])
  IN m

Means(t, given) == IF t = <<>> THEN {} ELSE Phrases(t, given)[<<"expr", 1, Len(t)>>]

-----------------------------------------------------------------------------
\* Whatever a formula overflows to, the column gets a finite number or NULL.
TypeOK ==
  /\ phase \in {"loading", "refused", "ready", "asked", "answered", "stored"}
  /\ asked \subseteq Names /\ DOMAIN valueIdx \subseteq asked \cap DOMAIN card
  /\ value = NULL \/ IsFinite(value)

\* The program starts with exactly the texts the grammar derives.
AcceptsTheGrammar ==
  phase # "loading" => (phase = "refused" <=> Means(text, <<>>) = {})

\* The value stored is that of the formula, read with the usual precedence and from
\* the left, on what this card exports, whatever the queries were derived from; it
\* is NULL for a missing metric, a zero divisor, an infinity.  Only a metric that is
\* named like a number is never found.
ValueOfTheFormula ==
  phase = "stored" =>
    LET given == [n \in DOMAIN card \ FloatNames |-> card[n]]
    IN {value} = {FiniteOrNone(v) : v \in Means(text, given)}
=============================================================================
