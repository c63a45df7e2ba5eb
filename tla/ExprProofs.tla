----------------------------- MODULE ExprProofs -----------------------------
(***************************************************************************)
(* For every text: the parser returns one tree or none, exactly when the   *)
(* grammar derives the text, and evaluating the tree gives the meaning the *)
(* grammar gives it.  First the trees, the parser's results and the        *)
(* grammar's meanings are shown to exist, each by induction on what it     *)
(* recurs on; then the two are compared from the end of the text to its    *)
(* start, and in a loop turn by turn.                                      *)
(***************************************************************************)
EXTENDS Expr, WellFoundedInduction, TLAPS

-----------------------------------------------------------------------------
(* Induction                                                               *)

\* What holds of a number when it holds of all smaller ones holds of every number.
LEMMA StrongInduction ==
  ASSUME NEW S, \A k \in Nat : (\A j \in 0 .. k - 1 : j \in S) => k \in S
  PROVE  \A k \in Nat : k \in S
<1> DEFINE R == OpToRel(<, Nat)
           Bad == Nat \ S
<1>1. IsWellFoundedOn(R, Nat)
  BY NatLessThanWellFounded
<1>2. ASSUME Bad # {}
      PROVE  FALSE
  <2> HIDE DEF R
  <2>1. Bad \in SUBSET Nat
    OBVIOUS
  <2>2. PICK x \in Bad : \A y \in Bad : ~ (<<y, x>> \in R)
    BY <1>1, <1>2, <2>1, WFMin
  <2> USE DEF R
  <2>3. x \in Nat /\ \A y \in Bad : ~ (y < x)
    BY <2>1, <2>2 DEF OpToRel
  <2>4. \A j \in 0 .. x - 1 : j \in S
    BY <2>3
  <2>5. QED
    BY <2>3, <2>4
<1>3. QED
  BY <1>2

\* The usual form.
LEMMA Induction ==
  ASSUME NEW S, 0 \in S, \A k \in Nat : k \in S => k + 1 \in S
  PROVE  \A k \in Nat : k \in S
<1>1. ASSUME NEW k \in Nat, \A j \in 0 .. k - 1 : j \in S
      PROVE  k \in S
  <2>1. CASE k = 0
    BY <2>1
  <2>2. CASE k # 0
    <3>1. k - 1 \in 0 .. k - 1 /\ k - 1 \in Nat /\ (k - 1) + 1 = k
      BY <2>2
    <3>2. QED
      BY <1>1, <3>1
  <2>3. QED
    BY <2>1, <2>2
<1>2. QED
  BY <1>1, StrongInduction

-----------------------------------------------------------------------------
(* Trees                                                                   *)

Ops == {"+", "-", "*", "/"}
Leaves == ({"num"} \X {Literal[n] : n \in DOMAIN Literal}) \cup ({"var"} \X Names)
Above(lower) == Leaves \cup ({"neg"} \X lower) \cup (Ops \X lower \X lower)

\* u[h] is the set of the trees up to height h, for each h up to n.
Levels(u, n) == u = [h \in 0 .. n |-> IF h = 0 THEN Leaves ELSE Above(u[h - 1])]

\* The levels of `Ast` exist.
LEMMA LevelsExist ==
  ASSUME NEW n \in Nat
  PROVE  \E u : Levels(u, n) /\ Ast(n) = u[n]
<1> DEFINE S == {k \in Nat : \E u : Levels(u, k)}
<1>1. 0 \in S
  <2>1. Levels([h \in 0 .. 0 |-> Leaves], 0)
    BY DEF Levels
  <2>2. QED
    BY <2>1
<1>2. ASSUME NEW k \in Nat, k \in S
      PROVE  k + 1 \in S
  <2>1. PICK u : Levels(u, k)
    BY <1>2
  <2> DEFINE w == [h \in 0 .. k + 1 |-> IF h = k + 1 THEN Above(u[k]) ELSE u[h]]
  <2>2. ASSUME NEW h \in 0 .. k + 1
        PROVE  w[h] = IF h = 0 THEN Leaves ELSE Above(w[h - 1])
    <3>1. CASE h = k + 1
      <4>1. k \in 0 .. k + 1 /\ k # k + 1 /\ h - 1 = k /\ h # 0
        BY <3>1
      <4>2. w[k] = u[k] /\ w[h] = Above(u[k])
        BY <3>1, <4>1
      <4>3. QED
        BY <4>1, <4>2
    <3>2. CASE h # k + 1 /\ h # 0
      <4>1. h \in 0 .. k /\ h - 1 \in 0 .. k /\ h - 1 \in 0 .. k + 1 /\ h - 1 # k + 1
        BY <3>2
      <4>2. w[h - 1] = u[h - 1] /\ w[h] = u[h]
        BY <3>2, <4>1
      <4>3. u[h] = Above(u[h - 1])
        BY <2>1, <3>2, <4>1 DEF Levels
      <4>4. QED
        BY <3>2, <4>2, <4>3
    <3>3. CASE h = 0
      <4>1. 0 \in 0 .. k /\ 0 # k + 1
        OBVIOUS
      <4>2. w[h] = u[0] /\ u[0] = Leaves
        BY <2>1, <3>3, <4>1 DEF Levels
      <4>3. QED
        BY <3>3, <4>2
    <3>4. QED
      BY <3>1, <3>2, <3>3
  <2>3. Levels(w, k + 1)
    <3> DEFINE x == [h \in 0 .. k + 1 |-> IF h = 0 THEN Leaves ELSE Above(w[h - 1])]
    <3>1. w = x
      BY <2>2
    <3> HIDE DEF w
    <3>2. QED
      BY <3>1 DEF Levels
  <2>4. QED
    BY <2>3
<1>3. n \in S
  <2> HIDE DEF S
  <2>1. \A k \in Nat : k \in S
    BY <1>1, <1>2, Induction
  <2>2. QED
    BY <2>1
<1> DEFINE u == CHOOSE u : Levels(u, n)
<1>4. Levels(u, n)
  BY <1>3
<1>5. Ast(n) = u[n]
  BY DEF Ast, Levels, Leaves, Above, Ops
<1>6. QED
  BY <1>4, <1>5

\* One level from the one below.
LEMMA LevelAt ==
  ASSUME NEW n \in Nat, NEW u, Levels(u, n)
  PROVE  u[0] = Leaves /\ \A h \in 1 .. n : u[h] = Above(u[h - 1])
  BY DEF Levels

\* Higher levels have the trees of the lower ones.
LEMMA LevelsGrow ==
  ASSUME NEW n \in Nat, NEW u, Levels(u, n)
  PROVE  \A h, k \in 0 .. n : h <= k => u[h] \subseteq u[k]
<1>1. u[0] = Leaves /\ \A h \in 1 .. n : u[h] = Above(u[h - 1])
  BY LevelAt
<1> DEFINE S == {h \in Nat : h + 1 <= n => u[h] \subseteq u[h + 1]}
<1>2. 0 \in S
  <2>1. Leaves \subseteq Above(Leaves)
    BY DEF Above
  <2>2. ASSUME 1 <= n
        PROVE  u[1] = Above(u[0])
    <3>1. 1 \in 1 .. n /\ 1 - 1 = 0
      BY <2>2
    <3>2. QED
      BY <1>1, <3>1
  <2>3. QED
    BY <1>1, <2>1, <2>2
<1>3. ASSUME NEW h \in Nat, h \in S
      PROVE  h + 1 \in S
  <2>1. SUFFICES ASSUME h + 2 <= n
                 PROVE  u[h + 1] \subseteq u[h + 2]
    OBVIOUS
  <2>2. u[h] \subseteq u[h + 1]
    BY <1>3, <2>1
  <2>3. h + 1 \in 1 .. n /\ h + 2 \in 1 .. n /\ (h + 1) - 1 = h /\ (h + 2) - 1 = h + 1
    BY <2>1
  <2>4. u[h + 1] = Above(u[h]) /\ u[h + 2] = Above(u[h + 1])
    BY <1>1, <2>3
  <2>5. ASSUME NEW A, NEW B, A \subseteq B
        PROVE  Above(A) \subseteq Above(B)
    BY <2>5 DEF Above
  <2>6. QED
    BY <2>2, <2>4, <2>5
<1>4. \A h \in Nat : h + 1 <= n => u[h] \subseteq u[h + 1]
  <2>1. \A h \in Nat : h \in S
    <3> HIDE DEF S
    <3>1. QED
      BY <1>2, <1>3, Induction
  <2>2. QED
    BY <2>1
<1> SUFFICES ASSUME NEW h \in 0 .. n
             PROVE  \A k \in 0 .. n : h <= k => u[h] \subseteq u[k]
  OBVIOUS
<1> DEFINE T == {d \in Nat : h + d <= n => u[h] \subseteq u[h + d]}
<1>5. 0 \in T
  OBVIOUS
<1>6. ASSUME NEW d \in Nat, d \in T
      PROVE  d + 1 \in T
  <2>1. ASSUME h + (d + 1) <= n
        PROVE  u[h] \subseteq u[h + (d + 1)]
    <3>1. h + d \in Nat /\ h + d <= n /\ (h + d) + 1 <= n /\ (h + d) + 1 = h + (d + 1)
      BY <2>1
    <3>2. u[h] \subseteq u[h + d]
      BY <1>6, <3>1
    <3>3. u[h + d] \subseteq u[(h + d) + 1]
      BY <1>4, <3>1
    <3>4. QED
      BY <3>1, <3>2, <3>3
  <2>2. QED
    BY <2>1
<1>7. \A d \in Nat : d \in T
  <2> HIDE DEF T
  <2>1. QED
    BY <1>5, <1>6, Induction
<1>8. ASSUME NEW k \in 0 .. n, h <= k
      PROVE  u[h] \subseteq u[k]
  <2>1. k - h \in Nat /\ h + (k - h) = k /\ h + (k - h) <= n
    BY <1>8
  <2>2. k - h \in T
    BY <1>7, <2>1
  <2>3. QED
    BY <2>1, <2>2
<1>9. QED
  BY <1>8

\* The subtrees of a tree are of the level below.
LEMMA Subtrees ==
  ASSUME NEW n \in Nat, NEW u, Levels(u, n), NEW h \in 0 .. n, NEW a \in u[h]
  PROVE  /\ a[1] \in {"num", "var", "neg"} \cup Ops
         /\ a[1] = "neg" => h # 0 /\ a[2] \in u[h - 1]
         /\ a[1] \in Ops => h # 0 /\ a[2] \in u[h - 1] /\ a[3] \in u[h - 1]
<1>1. ASSUME a \in Leaves
      PROVE  a[1] \in {"num", "var"}
  BY <1>1 DEF Leaves
<1>2. CASE h = 0
  <2>1. a \in Leaves
    BY <1>2, LevelAt
  <2>2. QED
    BY <1>1, <2>1 DEF Ops
<1>3. CASE h # 0
  <2>1. h \in 1 .. n
    BY <1>3
  <2>2. a \in Above(u[h - 1])
    BY <2>1, LevelAt
  <2>3. CASE a \in Leaves
    BY <1>1, <2>3 DEF Ops
  <2>4. CASE a \in {"neg"} \X u[h - 1]
    BY <1>3, <2>4 DEF Ops
  <2>5. CASE a \in Ops \X u[h - 1] \X u[h - 1]
    BY <1>3, <2>5 DEF Ops
  <2>6. QED
    BY <2>2, <2>3, <2>4, <2>5 DEF Above
<1>4. QED
  BY <1>2, <1>3

\* What is a tree.
LEMMA Trees ==
  ASSUME NEW n \in Nat, NEW u, Levels(u, n)
  PROVE  /\ \A tok \in DOMAIN Literal : <<"num", Literal[tok]>> \in u[0]
         /\ \A tok \in Names : <<"var", tok>> \in u[0]
         /\ \A h \in 1 .. n : \A a \in u[h - 1] : <<"neg", a>> \in u[h]
         /\ \A h \in 1 .. n : \A op \in Ops : \A a, b \in u[h - 1] : <<op, a, b>> \in u[h]
<1>1. u[0] = Leaves /\ \A h \in 1 .. n : u[h] = Above(u[h - 1])
  BY LevelAt
<1>2. \A tok \in DOMAIN Literal : <<"num", Literal[tok]>> \in Leaves
  BY DEF Leaves
<1>3. \A tok \in Names : <<"var", tok>> \in Leaves
  BY DEF Leaves
<1>4. ASSUME NEW A
      PROVE  /\ \A a \in A : <<"neg", a>> \in Above(A)
             /\ \A op \in Ops : \A a, b \in A : <<op, a, b>> \in Above(A)
  BY DEF Above
<1>5. QED
  BY <1>1, <1>2, <1>3, <1>4

\* v holds the value of every tree of Ast(n).
IsValues(v, n, given) == v = [a \in Ast(n) |-> ValueOf(v, a, given)]

\* The values `Evaluate` computes exist.
LEMMA ValuesExist ==
  ASSUME NEW n \in Nat, NEW given
  PROVE  \E v : IsValues(v, n, given) /\ \A a : Evaluate(a, n, given) = v[a]
<1>1. PICK u : Levels(u, n) /\ Ast(n) = u[n]
  BY LevelsExist
<1> DEFINE Upto(f, k) == f = [a \in Ast(n) |-> IF a \in u[k] THEN ValueOf(f, a, given) ELSE NULL]
           S == {k \in Nat : k <= n => \E f : Upto(f, k)}
<1>2. \A h \in 0 .. n : u[h] \subseteq Ast(n)
  <2>1. n \in 0 .. n /\ \A h \in 0 .. n : h <= n
    OBVIOUS
  <2>2. QED
    BY <1>1, <2>1, LevelsGrow
<1>3. ASSUME NEW f, NEW w, NEW h \in 0 .. n, NEW a \in u[h],
             h # 0 => \A b \in u[h - 1] : f[b] = w[b]
      PROVE  ValueOf(f, a, given) = ValueOf(w, a, given)
  <2>1. /\ a[1] \in {"num", "var", "neg"} \cup Ops
        /\ a[1] = "neg" => h # 0 /\ a[2] \in u[h - 1]
        /\ a[1] \in Ops => h # 0 /\ a[2] \in u[h - 1] /\ a[3] \in u[h - 1]
    BY <1>1, Subtrees
  <2>2. CASE a[1] = "num"
    BY <2>2 DEF ValueOf
  <2>3. CASE a[1] = "var"
    BY <2>3 DEF ValueOf
  <2>4. CASE a[1] = "neg"
    <3>1. f[a[2]] = w[a[2]]
      BY <1>3, <2>1, <2>4
    <3>2. QED
      BY <2>4, <3>1 DEF ValueOf
  <2>5. CASE a[1] \in Ops
    <3>1. f[a[2]] = w[a[2]] /\ f[a[3]] = w[a[3]]
      BY <1>3, <2>1, <2>5
    <3>2. QED
      BY <2>5, <3>1 DEF ValueOf, Ops
  <2>6. QED
    BY <2>1, <2>2, <2>3, <2>4, <2>5
<1>4. 0 \in S
  <2> DEFINE f == [a \in Ast(n) |-> IF a \in u[0] THEN ValueOf(<<>>, a, given) ELSE NULL]
  <2>1. \A a \in u[0] : ValueOf(<<>>, a, given) = ValueOf(f, a, given)
    <3>1. 0 \in 0 .. n
      OBVIOUS
    <3> HIDE DEF f
    <3>2. QED
      BY <1>3, <3>1
  <2>2. Upto(f, 0)
    <3> DEFINE w == [a \in Ast(n) |-> IF a \in u[0] THEN ValueOf(f, a, given) ELSE NULL]
    <3>1. f = w
      BY <2>1
    <3> HIDE DEF f
    <3>2. QED
      BY <3>1
  <2>3. QED
    BY <2>2
<1>5. ASSUME NEW k \in Nat, k \in S
      PROVE  k + 1 \in S
  <2>1. SUFFICES ASSUME k + 1 <= n
                 PROVE  \E f : Upto(f, k + 1)
    OBVIOUS
  <2>2. PICK f : Upto(f, k)
    BY <1>5, <2>1
  <2> DEFINE w == [a \in Ast(n) |-> IF a \in u[k + 1] THEN ValueOf(f, a, given) ELSE NULL]
  <2>3. k \in 0 .. n /\ k + 1 \in 0 .. n /\ k <= k + 1 /\ (k + 1) - 1 = k
    BY <2>1
  <2>4. u[k] \subseteq u[k + 1]
    BY <1>1, <2>3, LevelsGrow
  <2>5. \A b \in u[k] : f[b] = w[b]
    <3>1. ASSUME NEW b \in u[k]
          PROVE  f[b] = w[b]
      <4>1. b \in Ast(n) /\ b \in u[k + 1]
        BY <1>2, <2>3, <2>4
      <4>2. f[b] = ValueOf(f, b, given)
        BY <2>2, <4>1
      <4>3. w[b] = ValueOf(f, b, given)
        BY <4>1
      <4>4. QED
        BY <4>2, <4>3
    <3>2. QED
      BY <3>1
  <2>6. \A a \in u[k + 1] : ValueOf(f, a, given) = ValueOf(w, a, given)
    <3> HIDE DEF w
    <3>1. QED
      BY <1>3, <2>3, <2>5
  <2>7. Upto(w, k + 1)
    <3> DEFINE x == [a \in Ast(n) |-> IF a \in u[k + 1] THEN ValueOf(w, a, given) ELSE NULL]
    <3>1. w = x
      BY <2>6
    <3> HIDE DEF w
    <3>2. QED
      BY <3>1
  <2>8. QED
    BY <2>7
<1>6. \E f : Upto(f, n)
  <2>1. \A k \in Nat : k \in S
    <3> HIDE DEF S
    <3>1. QED
      BY <1>4, <1>5, Induction
  <2>2. n \in S /\ n <= n
    BY <2>1
  <2>3. QED
    BY <2>2
<1>7. \E v : IsValues(v, n, given)
  <2>1. PICK f : Upto(f, n)
    BY <1>6
  <2>2. IsValues(f, n, given)
    BY <1>1, <2>1 DEF IsValues
  <2>3. QED
    BY <2>2
<1> DEFINE v == CHOOSE v : IsValues(v, n, given)
<1>8. IsValues(v, n, given)
  BY <1>7
<1>9. \A a : Evaluate(a, n, given) = v[a]
  BY DEF Evaluate, IsValues
<1>10. QED
  BY <1>8, <1>9

\* The levels are all in `Ast`.
LEMMA LevelsInAst ==
  ASSUME NEW n \in Nat, NEW u, Levels(u, n), Ast(n) = u[n], NEW h \in 0 .. n
  PROVE  u[h] \subseteq Ast(n)
<1>1. n \in 0 .. n /\ h <= n
  OBVIOUS
<1>2. QED
  BY <1>1, LevelsGrow

\* The value of a tree is its `ValueOf`, with the values of its subtrees.
LEMMA EvaluateStep ==
  ASSUME NEW n \in Nat, NEW given
  PROVE  \E v : /\ \A a : v[a] = Evaluate(a, n, given)
                /\ \A a \in Ast(n) : Evaluate(a, n, given) = ValueOf(v, a, given)
<1>1. PICK v : IsValues(v, n, given) /\ \A a : Evaluate(a, n, given) = v[a]
  BY ValuesExist
<1>2. \A a \in Ast(n) : v[a] = ValueOf(v, a, given)
  BY <1>1 DEF IsValues
<1>3. QED
  BY <1>1, <1>2

\* The value of a leaf.
LEMMA EvaluateLeaf ==
  ASSUME NEW n \in Nat, NEW given, NEW u, Levels(u, n), Ast(n) = u[n]
  PROVE  /\ \A tok \in DOMAIN Literal :
              Evaluate(<<"num", Literal[tok]>>, n, given) = Literal[tok]
         /\ \A tok \in Names :
              Evaluate(<<"var", tok>>, n, given) =
                IF tok \in DOMAIN given THEN given[tok] ELSE NULL
<1>1. PICK v : \A a \in Ast(n) : Evaluate(a, n, given) = ValueOf(v, a, given)
  BY EvaluateStep
<1>2. u[0] \subseteq Ast(n)
  BY LevelsInAst
<1>3. ASSUME NEW tok \in DOMAIN Literal
      PROVE  Evaluate(<<"num", Literal[tok]>>, n, given) = Literal[tok]
  <2>1. <<"num", Literal[tok]>> \in Ast(n)
    BY <1>2, Trees
  <2>2. QED
    BY <1>1, <2>1 DEF ValueOf
<1>4. ASSUME NEW tok \in Names
      PROVE  Evaluate(<<"var", tok>>, n, given)
               = IF tok \in DOMAIN given THEN given[tok] ELSE NULL
  <2>1. <<"var", tok>> \in Ast(n)
    BY <1>2, Trees
  <2>2. QED
    BY <1>1, <2>1 DEF ValueOf
<1>5. QED
  BY <1>3, <1>4

\* The value of a tree under a minus.
LEMMA EvaluateNeg ==
  ASSUME NEW n \in Nat, NEW given, NEW u, Levels(u, n), Ast(n) = u[n],
         NEW h \in 1 .. n, NEW a \in u[h - 1]
  PROVE  LET x == Evaluate(a, n, given)
         IN Evaluate(<<"neg", a>>, n, given) = IF x = NULL THEN NULL ELSE Neg(x)
<1>1. PICK v : /\ \A b : v[b] = Evaluate(b, n, given)
               /\ \A b \in Ast(n) : Evaluate(b, n, given) = ValueOf(v, b, given)
  BY EvaluateStep
<1>2. <<"neg", a>> \in Ast(n)
  <2>1. <<"neg", a>> \in u[h] /\ h \in 0 .. n
    BY Trees
  <2>2. QED
    BY <2>1, LevelsInAst
<1>3. ValueOf(v, <<"neg", a>>, given) = IF v[a] = NULL THEN NULL ELSE Neg(v[a])
  BY DEF ValueOf
<1>4. QED
  BY <1>1, <1>2, <1>3

\* The value of an operator on two trees.
LEMMA EvaluateOp ==
  ASSUME NEW n \in Nat, NEW given, NEW u, Levels(u, n), Ast(n) = u[n],
         NEW h \in 1 .. n, NEW a \in u[h - 1], NEW b \in u[h - 1], NEW op \in Ops
  PROVE  Evaluate(<<op, a, b>>, n, given) =
           Meaning(op, Evaluate(a, n, given), Evaluate(b, n, given))
<1>1. PICK v : /\ \A c : v[c] = Evaluate(c, n, given)
               /\ \A c \in Ast(n) : Evaluate(c, n, given) = ValueOf(v, c, given)
  BY EvaluateStep
<1>2. <<op, a, b>> \in Ast(n)
  <2>1. <<op, a, b>> \in u[h] /\ h \in 0 .. n
    BY Trees
  <2>2. QED
    BY <2>1, LevelsInAst
<1>3. ValueOf(v, <<op, a, b>>, given) = Meaning(op, v[a], v[b])
  BY DEF ValueOf, Meaning, Ops
<1>4. QED
  BY <1>1, <1>2, <1>3

-----------------------------------------------------------------------------
(* Loops and factors                                                       *)

\* A result of rule at i is one pair of a tree and a later position.
Fits(p, t, rule, i) ==
  /\ \A r \in p[<<rule, i>>] : r = <<r[1], r[2]>> /\ r[2] \in i + 1 .. Len(t) + 1
  /\ \A r, s \in p[<<rule, i>>] : r = s

\* a[n] is what a loop has come to after n turns.
Turns(a, p, t, operand, ops, i) ==
  /\ a[0] = p[<<operand, i>>]
  /\ \A n \in 1 .. Len(t) : a[n] = UNION {Turn(p, t, operand, ops, r) : r \in a[n - 1]}

\* The turns of a `Loop` exist.
LEMMA TurnsExist ==
  ASSUME NEW t \in Seq(STRING), NEW p, NEW operand, NEW ops, NEW i
  PROVE  \E a : Turns(a, p, t, operand, ops, i) /\ Loop(p, t, operand, ops, i) = a[Len(t)]
<1> DEFINE Next1(S) == UNION {Turn(p, t, operand, ops, r) : r \in S}
           Is(a, n) == a = [m \in 0 .. n |-> IF m = 0 THEN p[<<operand, i>>] ELSE Next1(a[m - 1])]
           S == {k \in Nat : \E a : Is(a, k)}
<1>1. Len(t) \in Nat
  OBVIOUS
<1>2. 0 \in S
  <2> HIDE DEF Next1
  <2>1. Is([m \in 0 .. 0 |-> p[<<operand, i>>]], 0)
    OBVIOUS
  <2>2. QED
    BY <2>1
<1>3. ASSUME NEW k \in Nat, k \in S
      PROVE  k + 1 \in S
  <2> HIDE DEF Next1
  <2>1. PICK a : Is(a, k)
    BY <1>3
  <2> DEFINE b == [m \in 0 .. k + 1 |-> IF m = k + 1 THEN Next1(a[k]) ELSE a[m]]
  <2>2. ASSUME NEW m \in 0 .. k + 1
        PROVE  b[m] = IF m = 0 THEN p[<<operand, i>>] ELSE Next1(b[m - 1])
    <3>1. CASE m = k + 1
      <4>1. k \in 0 .. k + 1 /\ k # k + 1 /\ m - 1 = k /\ m # 0
        BY <3>1
      <4>2. b[k] = a[k] /\ b[m] = Next1(a[k])
        BY <3>1, <4>1
      <4>3. QED
        BY <4>1, <4>2
    <3>2. CASE m # k + 1 /\ m # 0
      <4>1. m \in 0 .. k /\ m - 1 \in 0 .. k /\ m - 1 \in 0 .. k + 1 /\ m - 1 # k + 1
        BY <3>2
      <4>2. b[m - 1] = a[m - 1] /\ b[m] = a[m]
        BY <3>2, <4>1
      <4>3. a[m] = Next1(a[m - 1])
        BY <2>1, <3>2, <4>1
      <4>4. QED
        BY <3>2, <4>2, <4>3
    <3>3. CASE m = 0
      <4>1. 0 \in 0 .. k /\ 0 # k + 1
        OBVIOUS
      <4>2. b[m] = a[0] /\ a[0] = p[<<operand, i>>]
        BY <2>1, <3>3, <4>1
      <4>3. QED
        BY <3>3, <4>2
    <3>4. QED
      BY <3>1, <3>2, <3>3
  <2>3. Is(b, k + 1)
    <3> DEFINE x == [m \in 0 .. k + 1 |-> IF m = 0 THEN p[<<operand, i>>] ELSE Next1(b[m - 1])]
    <3>1. b = x
      BY <2>2
    <3> HIDE DEF b
    <3>2. QED
      BY <3>1
  <2> HIDE DEF Is, b
  <2>4. QED
    BY <2>3
<1> DEFINE a == CHOOSE a : Is(a, Len(t))
<1>4. Is(a, Len(t))
  <2> HIDE DEF Is
  <2>1. \A k \in Nat : k \in S
    <3> HIDE DEF S
    <3>1. QED
      BY <1>2, <1>3, Induction
  <2>2. \E b : Is(b, Len(t))
    BY <1>1, <2>1
  <2>3. QED
    BY <2>2
<1>5. Loop(p, t, operand, ops, i) = a[Len(t)]
  BY DEF Loop
<1>6. Turns(a, p, t, operand, ops, i)
  <2> HIDE DEF Next1
  <2>1. a = [m \in 0 .. Len(t) |-> IF m = 0 THEN p[<<operand, i>>] ELSE Next1(a[m - 1])]
    BY <1>4
  <2> HIDE DEF a
  <2>2. a[0] = p[<<operand, i>>]
    BY <1>1, <2>1
  <2>4. ASSUME NEW n \in 1 .. Len(t)
        PROVE  a[n] = Next1(a[n - 1])
    <3>1. n \in 0 .. Len(t) /\ n # 0
      OBVIOUS
    <3>2. QED
      BY <2>1, <3>1
  <2> USE DEF Next1
  <2>3. QED
    BY <2>2, <2>4 DEF Turns
<1>7. QED
  BY <1>5, <1>6

\* The end of a text is no operator.
LEMMA OpToken ==
  ASSUME NEW t \in Seq(STRING), NEW i \in Nat, Token(t, i) \in Ops
  PROVE  i <= Len(t) /\ Token(t, i) = t[i]
  BY DEF Token, Ops

\* What a turn makes of r.
LEMMA TurnOf ==
  ASSUME NEW p, NEW t, NEW operand, NEW ops, NEW r, NEW s
  PROVE  s \in Turn(p, t, operand, ops, r) <=>
           \/ Token(t, r[2]) \notin ops /\ s = r
           \/ /\ Token(t, r[2]) \in ops
              /\ \E q \in p[<<operand, r[2] + 1>>] : s = <<<<t[r[2]], r[1], q[1]>>, q[2]>>
  BY DEF Turn

\* a[n], of at most one result, is what a loop from i comes to in n turns, each over a token.
Advances(a, t, ops, i) ==
  \A n \in 0 .. Len(t) :
    /\ \A r \in a[n] : /\ r = <<r[1], r[2]>> /\ r[2] \in i + 1 .. Len(t) + 1
                       /\ Token(t, r[2]) \in ops => r[2] >= i + 1 + n
    /\ \A r, s \in a[n] : r = s

\* After n turns a loop has come to one tree at most, and is over or has consumed a
\* token a turn: after Len(t) turns it is over.
LEMMA LoopEnds ==
  ASSUME NEW t \in Seq(STRING), NEW p, NEW operand, NEW ops \in SUBSET Ops, NEW a,
         NEW i \in 1 .. Len(t) + 1,
         Turns(a, p, t, operand, ops, i),
         \A j \in i .. Len(t) + 1 : Fits(p, t, operand, j)
  PROVE  Advances(a, t, ops, i)
<1> DEFINE N == Len(t)
           Good(r, n) == /\ r = <<r[1], r[2]>> /\ r[2] \in i + 1 .. N + 1
                         /\ Token(t, r[2]) \in ops => r[2] >= i + 1 + n
           S == {n \in Nat : n <= N => (\A r \in a[n] : Good(r, n)) /\ (\A r, s \in a[n] : r = s)}
<1>0. N \in Nat /\ i \in Nat /\ i <= N + 1 /\ i \in i .. N + 1
  OBVIOUS
<1>1. 0 \in S
  <2>1. Fits(p, t, operand, i) /\ a[0] = p[<<operand, i>>]
    BY <1>0 DEF Turns
  <2>2. ASSUME NEW r \in a[0]
        PROVE  Good(r, 0)
    <3>1. r = <<r[1], r[2]>> /\ r[2] \in i + 1 .. N + 1
      BY <2>1 DEF Fits
    <3>2. QED
      BY <1>0, <3>1
  <2>3. \A r, s \in a[0] : r = s
    BY <2>1 DEF Fits
  <2> HIDE DEF Good
  <2>4. QED
    BY <2>2, <2>3
<1>2. ASSUME NEW n \in Nat, n \in S
      PROVE  n + 1 \in S
  <2>1. SUFFICES ASSUME n + 1 <= N
                 PROVE  (\A r \in a[n + 1] : Good(r, n + 1)) /\ (\A r, s \in a[n + 1] : r = s)
    OBVIOUS
  <2>2. (\A r \in a[n] : Good(r, n)) /\ (\A r, s \in a[n] : r = s)
    BY <1>0, <1>2, <2>1
  <2>3. a[n + 1] = UNION {Turn(p, t, operand, ops, r) : r \in a[n]}
    <3>1. n + 1 \in 1 .. N /\ (n + 1) - 1 = n
      BY <1>0, <2>1
    <3>2. QED
      BY <3>1 DEF Turns
  <2>4. ASSUME NEW r \in a[n], Token(t, r[2]) \in ops
        PROVE  /\ r[2] \in Nat /\ i + 1 + n <= r[2] /\ r[2] <= N
               /\ Fits(p, t, operand, r[2] + 1)
    <3>1. r[2] \in i + 1 .. N + 1 /\ r[2] >= i + 1 + n
      BY <2>2, <2>4
    <3>2. r[2] <= N
      BY <1>0, <2>4, <3>1, OpToken
    <3>3. r[2] + 1 \in i .. N + 1
      BY <1>0, <3>1, <3>2
    <3>4. QED
      BY <1>0, <3>1, <3>2, <3>3
  <2>5. ASSUME NEW s \in a[n + 1]
        PROVE  Good(s, n + 1)
    <3>1. PICK r \in a[n] : s \in Turn(p, t, operand, ops, r)
      BY <2>3
    <3>2. CASE Token(t, r[2]) \notin ops
      <4>1. s = r
        BY <3>1, <3>2, TurnOf
      <4>2. Good(r, n)
        BY <2>2
      <4>3. QED
        BY <3>2, <4>1, <4>2
    <3>3. CASE Token(t, r[2]) \in ops
      <4>1. PICK q \in p[<<operand, r[2] + 1>>] : s = <<<<t[r[2]], r[1], q[1]>>, q[2]>>
        BY <3>1, <3>3, TurnOf
      <4>2. r[2] \in Nat /\ i + 1 + n <= r[2] /\ r[2] <= N
        BY <2>4, <3>3
      <4>3. q[2] \in r[2] + 1 + 1 .. N + 1
        BY <2>4, <3>3 DEF Fits
      <4>4. s[2] = q[2] /\ s = <<s[1], s[2]>>
        BY <4>1
      <4>5. s[2] \in i + 1 .. N + 1 /\ s[2] >= i + 1 + (n + 1)
        BY <1>0, <4>2, <4>3, <4>4
      <4>6. QED
        BY <4>4, <4>5
    <3>4. QED
      BY <3>2, <3>3
  <2>6. ASSUME NEW s \in a[n + 1], NEW z \in a[n + 1]
        PROVE  s = z
    <3>1. PICK r \in a[n] : s \in Turn(p, t, operand, ops, r)
      BY <2>3
    <3>2. z \in Turn(p, t, operand, ops, r)
      <4>1. PICK w \in a[n] : z \in Turn(p, t, operand, ops, w)
        BY <2>3
      <4>2. QED
        BY <2>2, <4>1
    <3>3. CASE Token(t, r[2]) \notin ops
      <4>1. s = r
        BY <3>1, <3>3, TurnOf
      <4>2. z = r
        BY <3>2, <3>3, TurnOf
      <4>3. QED
        BY <4>1, <4>2
    <3>4. CASE Token(t, r[2]) \in ops
      <4>1. PICK q \in p[<<operand, r[2] + 1>>] : s = <<<<t[r[2]], r[1], q[1]>>, q[2]>>
        BY <3>1, <3>4, TurnOf
      <4>2. PICK w \in p[<<operand, r[2] + 1>>] : z = <<<<t[r[2]], r[1], w[1]>>, w[2]>>
        BY <3>2, <3>4, TurnOf
      <4>3. q = w
        BY <2>4, <3>4 DEF Fits
      <4>4. QED
        BY <4>1, <4>2, <4>3
    <3>5. QED
      BY <3>3, <3>4
  <2>7. QED
    BY <2>5, <2>6
<1>3. \A n \in Nat : n \in S
  <2> HIDE DEF S
  <2>1. QED
    BY <1>1, <1>2, Induction
<1>4. QED
  BY <1>3 DEF Advances

\* A loop's result fits, and is followed by none of its operators.
LEMMA LoopFits ==
  ASSUME NEW t \in Seq(STRING), NEW p, NEW operand, NEW ops \in SUBSET Ops,
         NEW i \in 1 .. Len(t) + 1,
         \A j \in i .. Len(t) + 1 : Fits(p, t, operand, j)
  PROVE  /\ \A r \in Loop(p, t, operand, ops, i) :
              /\ r = <<r[1], r[2]>> /\ r[2] \in i + 1 .. Len(t) + 1
              /\ Token(t, r[2]) \notin ops
         /\ \A r, s \in Loop(p, t, operand, ops, i) : r = s
<1>1. PICK a : Turns(a, p, t, operand, ops, i) /\ Loop(p, t, operand, ops, i) = a[Len(t)]
  BY TurnsExist
<1>2. Len(t) \in 0 .. Len(t) /\ Len(t) \in Nat /\ i \in Nat /\ i >= 1
  OBVIOUS
<1>3. /\ \A r \in a[Len(t)] : /\ r = <<r[1], r[2]>> /\ r[2] \in i + 1 .. Len(t) + 1
                              /\ Token(t, r[2]) \in ops => r[2] >= i + 1 + Len(t)
      /\ \A r, s \in a[Len(t)] : r = s
  <2>1. Advances(a, t, ops, i)
    BY <1>1, LoopEnds
  <2>2. QED
    BY <1>2, <2>1 DEF Advances
<1>4. ASSUME NEW r \in a[Len(t)]
      PROVE  Token(t, r[2]) \notin ops
  <2>1. r[2] \in i + 1 .. Len(t) + 1
    BY <1>3
  <2>2. ~ (r[2] >= i + 1 + Len(t))
    BY <1>2, <2>1
  <2>3. QED
    BY <1>3, <2>2
<1>5. QED
  BY <1>1, <1>3, <1>4

\* A loop looks at its operands from i on, and at nothing else of p.
LEMMA LoopLooksAhead ==
  ASSUME NEW t \in Seq(STRING), NEW p, NEW f, NEW operand, NEW ops \in SUBSET Ops,
         NEW i \in 1 .. Len(t) + 1,
         \A j \in i .. Len(t) + 1 : Fits(p, t, operand, j),
         \A j \in i .. Len(t) + 1 : p[<<operand, j>>] = f[<<operand, j>>]
  PROVE  Loop(p, t, operand, ops, i) = Loop(f, t, operand, ops, i)
<1> DEFINE N == Len(t)
<1>0. N \in Nat /\ i \in Nat /\ i <= N + 1 /\ i \in i .. N + 1
  OBVIOUS
<1>1. PICK a : Turns(a, p, t, operand, ops, i) /\ Loop(p, t, operand, ops, i) = a[N]
  BY TurnsExist
<1>2. PICK b : Turns(b, f, t, operand, ops, i) /\ Loop(f, t, operand, ops, i) = b[N]
  BY TurnsExist
<1>8. Advances(a, t, ops, i)
  BY <1>1, LoopEnds
<1> DEFINE S == {n \in Nat : n <= N => a[n] = b[n]}
<1>3. 0 \in S
  BY <1>0, <1>1, <1>2 DEF Turns
<1>4. ASSUME NEW n \in Nat, n \in S
      PROVE  n + 1 \in S
  <2>1. SUFFICES ASSUME n + 1 <= N
                 PROVE  a[n + 1] = b[n + 1]
    OBVIOUS
  <2>2. a[n] = b[n]
    BY <1>0, <1>4, <2>1
  <2>3. n + 1 \in 1 .. N /\ (n + 1) - 1 = n /\ n \in 0 .. N
    BY <1>0, <2>1
  <2>4. a[n + 1] = UNION {Turn(p, t, operand, ops, r) : r \in a[n]}
    BY <1>1, <2>3 DEF Turns
  <2>5. b[n + 1] = UNION {Turn(f, t, operand, ops, r) : r \in a[n]}
    BY <1>2, <2>2, <2>3 DEF Turns
  <2>6. ASSUME NEW r \in a[n]
        PROVE  Turn(p, t, operand, ops, r) = Turn(f, t, operand, ops, r)
    <3>1. CASE Token(t, r[2]) \notin ops
      BY <3>1 DEF Turn
    <3>2. CASE Token(t, r[2]) \in ops
      <4>1. r[2] \in i + 1 .. N + 1
        BY <1>8, <2>3 DEF Advances
      <4>2. r[2] <= N
        BY <1>0, <3>2, <4>1, OpToken
      <4>3. r[2] + 1 \in i .. N + 1
        BY <1>0, <4>1, <4>2
      <4>4. p[<<operand, r[2] + 1>>] = f[<<operand, r[2] + 1>>]
        BY <4>3
      <4>5. QED
        BY <4>4 DEF Turn
    <3>3. QED
      BY <3>1, <3>2
  <2>7. QED
    BY <2>4, <2>5, <2>6
<1>5. \A n \in Nat : n \in S
  <2> HIDE DEF S
  <2>1. QED
    BY <1>3, <1>4, Induction
<1>6. a[N] = b[N]
  BY <1>0, <1>5
<1>7. QED
  BY <1>1, <1>2, <1>6

\* The end of a text is no token of it.
LEMMA TokenThere ==
  ASSUME NEW t \in Seq(STRING), NEW i \in 1 .. Len(t) + 1
  PROVE  Token(t, i) # "" =>
           i <= Len(t) /\ i \in 1 .. Len(t) /\ i + 1 \in 1 .. Len(t) + 1 /\ Token(t, i) = t[i]
<1>1. Len(t) \in Nat /\ i \in Nat /\ i >= 1
  OBVIOUS
<1>2. Token(t, i) # "" => i <= Len(t) /\ Token(t, i) = t[i]
  BY DEF Token
<1>3. i <= Len(t) => i \in 1 .. Len(t) /\ i + 1 \in 1 .. Len(t) + 1
  BY <1>1
<1>4. QED
  BY <1>2, <1>3

\* The kinds of token exclude one another.
LEMMA Kinds ==
  /\ \A tok \in Names \cup DOMAIN Literal : tok \notin Ops \cup {"(", ")", ""}
  /\ \A tok \in DOMAIN Literal : tok \notin Names
  BY ExprAssumption DEF Ops

\* What ParseFactor does for each kind of token.
LEMMA FactorOf ==
  ASSUME NEW p, NEW t, NEW i
  PROVE  /\ Token(t, i) = "(" =>
              ParseFactor(p, t, i) =
                {<<r[1], r[2] + 1>> : r \in {q \in p[<<"expr", i + 1>>] : Token(t, q[2]) = ")"}}
         /\ Token(t, i) = "-" =>
              ParseFactor(p, t, i) = {<<<<"neg", r[1]>>, r[2]>> : r \in p[<<"factor", i + 1>>]}
         /\ Token(t, i) \in DOMAIN Literal =>
              ParseFactor(p, t, i) = {<<<<"num", Literal[t[i]]>>, i + 1>>}
         /\ Token(t, i) \in Names => ParseFactor(p, t, i) = {<<<<"var", t[i]>>, i + 1>>}
         /\ Token(t, i) \notin {"(", "-"} \cup Names \cup DOMAIN Literal =>
              ParseFactor(p, t, i) = {}
<1>1. CASE Token(t, i) = "("
  <2>1. Token(t, i) # "-" /\ Token(t, i) \notin Names /\ Token(t, i) \notin DOMAIN Literal
    BY <1>1, Kinds
  <2>2. QED
    BY <1>1, <2>1 DEF ParseFactor
<1>2. CASE Token(t, i) = "-"
  <2>1. Token(t, i) # "(" /\ Token(t, i) \notin Names /\ Token(t, i) \notin DOMAIN Literal
    BY <1>2, Kinds DEF Ops
  <2>2. QED
    BY <1>2, <2>1 DEF ParseFactor
<1>3. CASE Token(t, i) \in DOMAIN Literal
  <2>1. Token(t, i) # "-" /\ Token(t, i) # "(" /\ Token(t, i) \notin Names
    BY <1>3, Kinds DEF Ops
  <2>2. QED
    BY <1>3, <2>1 DEF ParseFactor
<1>4. CASE Token(t, i) \in Names
  <2>1. Token(t, i) # "-" /\ Token(t, i) # "(" /\ Token(t, i) \notin DOMAIN Literal
    BY <1>4, Kinds DEF Ops
  <2>2. QED
    BY <1>4, <2>1 DEF ParseFactor
<1>5. CASE Token(t, i) \notin {"(", "-"} \cup Names \cup DOMAIN Literal
  BY <1>5 DEF ParseFactor
<1>6. QED
  BY <1>1, <1>2, <1>3, <1>4, <1>5

\* A factor's result fits if those of the expression or the factor in it do.
LEMMA FactorFits ==
  ASSUME NEW t \in Seq(STRING), NEW p, NEW i \in 1 .. Len(t) + 1,
         i + 1 \in 1 .. Len(t) + 1 => Fits(p, t, "expr", i + 1) /\ Fits(p, t, "factor", i + 1)
  PROVE  /\ \A r \in ParseFactor(p, t, i) : r = <<r[1], r[2]>> /\ r[2] \in i + 1 .. Len(t) + 1
         /\ \A r, s \in ParseFactor(p, t, i) : r = s
<1> DEFINE N == Len(t)
           F == ParseFactor(p, t, i)
           Goal == (\A r \in F : r = <<r[1], r[2]>> /\ r[2] \in i + 1 .. N + 1)
                   /\ (\A r, s \in F : r = s)
<1>0. N \in Nat /\ i \in Nat /\ i >= 1
  OBVIOUS
<1>1. ASSUME Token(t, i) # ""
      PROVE  i <= N /\ i + 1 \in 1 .. N + 1
  BY <1>1, TokenThere
<1>2. CASE Token(t, i) = "("
  <2>1. Fits(p, t, "expr", i + 1)
    BY <1>1, <1>2
  <2> DEFINE Q == {q \in p[<<"expr", i + 1>>] : Token(t, q[2]) = ")"}
  <2>2. F = {<<r[1], r[2] + 1>> : r \in Q}
    BY <1>2, FactorOf
  <2>3. ASSUME NEW q \in Q
        PROVE  q[2] + 1 \in i + 1 .. N + 1
    <3>1. q[2] \in i + 1 + 1 .. N + 1 /\ Token(t, q[2]) = ")"
      BY <2>1 DEF Fits
    <3>2. q[2] \in 1 .. N + 1 /\ Token(t, q[2]) # ""
      BY <1>0, <3>1
    <3>3. q[2] <= N
      BY <3>2, TokenThere
    <3>4. QED
      BY <1>0, <3>1, <3>3
  <2>4. \A q, w \in Q : q = w
    BY <2>1 DEF Fits
  <2> HIDE DEF Q, F
  <2>5. \A r \in F : r = <<r[1], r[2]>> /\ r[2] \in i + 1 .. N + 1
    BY <2>2, <2>3
  <2>6. \A r, s \in F : r = s
    BY <2>2, <2>4
  <2>7. QED
    BY <2>5, <2>6 DEF F
<1>3. CASE Token(t, i) = "-"
  <2>1. Fits(p, t, "factor", i + 1)
    BY <1>1, <1>3
  <2>2. F = {<<<<"neg", r[1]>>, r[2]>> : r \in p[<<"factor", i + 1>>]}
    BY <1>3, FactorOf
  <2>3. \A q \in p[<<"factor", i + 1>>] : q[2] \in i + 1 + 1 .. N + 1
    BY <2>1 DEF Fits
  <2>4. \A q, w \in p[<<"factor", i + 1>>] : q = w
    BY <2>1 DEF Fits
  <2> HIDE DEF F
  <2>5. ASSUME NEW r \in F
        PROVE  r = <<r[1], r[2]>> /\ r[2] \in i + 1 .. N + 1
    <3>1. PICK q \in p[<<"factor", i + 1>>] : r = <<<<"neg", q[1]>>, q[2]>>
      BY <2>2
    <3>2. q[2] \in i + 1 .. N + 1
      BY <1>0, <2>3
    <3>3. QED
      BY <3>1, <3>2
  <2>6. \A r, s \in F : r = s
    BY <2>2, <2>4
  <2>7. QED
    BY <2>5, <2>6 DEF F
<1>4. CASE Token(t, i) \in DOMAIN Literal
  <2>1. F = {<<<<"num", Literal[t[i]]>>, i + 1>>}
    BY <1>4, FactorOf
  <2>2. i + 1 \in i + 1 .. N + 1
    <3>1. Token(t, i) # ""
      BY <1>4, Kinds
    <3>2. i <= N
      BY <1>1, <3>1
    <3>3. QED
      BY <1>0, <3>2
  <2> HIDE DEF F
  <2>3. \A r \in F : r = <<r[1], r[2]>> /\ r[2] \in i + 1 .. N + 1
    BY <2>1, <2>2
  <2>4. \A r, s \in F : r = s
    BY <2>1
  <2>5. QED
    BY <2>3, <2>4 DEF F
<1>5. CASE Token(t, i) \in Names
  <2>1. F = {<<<<"var", t[i]>>, i + 1>>}
    BY <1>5, FactorOf
  <2>2. i + 1 \in i + 1 .. N + 1
    <3>1. Token(t, i) # ""
      BY <1>5, Kinds
    <3>2. i <= N
      BY <1>1, <3>1
    <3>3. QED
      BY <1>0, <3>2
  <2> HIDE DEF F
  <2>3. \A r \in F : r = <<r[1], r[2]>> /\ r[2] \in i + 1 .. N + 1
    BY <2>1, <2>2
  <2>4. \A r, s \in F : r = s
    BY <2>1
  <2>5. QED
    BY <2>3, <2>4 DEF F
<1>6. CASE Token(t, i) \notin {"(", "-"} \cup Names \cup DOMAIN Literal
  <2>1. F = {}
    BY <1>6, FactorOf
  <2>2. QED
    BY <2>1
<1>7. QED
  BY <1>2, <1>3, <1>4, <1>5, <1>6

\* A factor looks at the expression or the factor that starts one token later.
LEMMA FactorLooksAhead ==
  ASSUME NEW t \in Seq(STRING), NEW p, NEW f, NEW i \in 1 .. Len(t) + 1,
         i + 1 \in 1 .. Len(t) + 1 =>
           p[<<"expr", i + 1>>] = f[<<"expr", i + 1>>]
           /\ p[<<"factor", i + 1>>] = f[<<"factor", i + 1>>]
  PROVE  ParseFactor(p, t, i) = ParseFactor(f, t, i)
<1>1. CASE Token(t, i) = ""
  <2>1. Token(t, i) \notin {"(", "-"} \cup Names \cup DOMAIN Literal
    BY <1>1, Kinds
  <2>2. ParseFactor(p, t, i) = {} /\ ParseFactor(f, t, i) = {}
    BY <2>1, FactorOf
  <2>3. QED
    BY <2>2
<1>2. CASE Token(t, i) # ""
  <2>1. p[<<"expr", i + 1>>] = f[<<"expr", i + 1>>]
        /\ p[<<"factor", i + 1>>] = f[<<"factor", i + 1>>]
    BY <1>2, TokenThere
  <2>2. QED
    BY <2>1 DEF ParseFactor
<1>3. QED
  BY <1>1, <1>2

-----------------------------------------------------------------------------
(* The parser                                                              *)

Level(rule) == CASE rule = "factor" -> 0 [] rule = "term" -> 1 [] rule = "expr" -> 2

\* What a rule's function returns at i, p being what the functions it calls return.
Body(p, t, rule, i) ==
  CASE rule = "expr"   -> ParseExpr(p, t, i)
    [] rule = "term"   -> ParseTerm(p, t, i)
    [] rule = "factor" -> ParseFactor(p, t, i)

Places(t) == Rules \X (1 .. Len(t) + 1)

\* p holds what each function returns at each position.
IsParser(p, t) == p = [x \in Places(t) |-> Body(p, t, x[1], x[2])]

\* The rules by level, and their operators.
LEMMA Lower ==
  /\ Rules = {"expr", "term", "factor"}
  /\ Level("factor") = 0 /\ Level("term") = 1 /\ Level("expr") = 2
  /\ {"*", "/"} \in SUBSET Ops /\ {"+", "-"} \in SUBSET Ops
<1>1. Level("factor") = 0 /\ Level("term") = 1 /\ Level("expr") = 2
  BY DEF Level
<1>2. QED
  BY <1>1 DEF Rules, Ops

\* How far the functions are from the end of the text, and from the factors, bounds their calls.
Rank(t, x) == 3 * (Len(t) + 1 - x[2]) + Level(x[1])

\* A function calls those of the level below from its position on, and a factor those
\* after its first token.
LEMMA RankOf ==
  ASSUME NEW t \in Seq(STRING), NEW i \in 1 .. Len(t) + 1
  PROVE  /\ \A rule \in Rules : Rank(t, <<rule, i>>) \in 0 .. 3 * Len(t) + 2
         /\ \A j \in i .. Len(t) + 1 :
              /\ Rank(t, <<"factor", j>>) < Rank(t, <<"term", i>>)
              /\ Rank(t, <<"term", j>>) < Rank(t, <<"expr", i>>)
         /\ \A rule \in Rules : Rank(t, <<rule, i + 1>>) < Rank(t, <<"factor", i>>)
<1>1. Len(t) \in Nat
  OBVIOUS
<1>2. \A rule, j : Rank(t, <<rule, j>>) = 3 * (Len(t) + 1 - j) + Level(rule)
  BY DEF Rank
<1>3. \A rule \in Rules : Level(rule) \in 0 .. 2
  BY Lower
<1>4. ASSUME NEW j \in i .. Len(t) + 1
      PROVE  /\ Rank(t, <<"factor", j>>) < Rank(t, <<"term", i>>)
             /\ Rank(t, <<"term", j>>) < Rank(t, <<"expr", i>>)
  BY <1>1, <1>2, Lower
<1>5. ASSUME NEW rule \in Rules
      PROVE  /\ Rank(t, <<rule, i>>) \in 0 .. 3 * Len(t) + 2
             /\ Rank(t, <<rule, i + 1>>) < Rank(t, <<"factor", i>>)
  BY <1>1, <1>2, <1>3, Lower
<1>6. QED
  BY <1>4, <1>5

\* What functions of a rank below k return fits.
FitBelow(p, t, k) == \A x \in Places(t) : Rank(t, x) < k => Fits(p, t, x[1], x[2])

\* One of them.
LEMMA FitBelowAt ==
  ASSUME NEW p, NEW t, NEW k, FitBelow(p, t, k),
         NEW rule \in Rules, NEW i \in 1 .. Len(t) + 1, Rank(t, <<rule, i>>) < k
  PROVE  Fits(p, t, rule, i)
<1>1. <<rule, i>> \in Places(t) /\ <<rule, i>>[1] = rule /\ <<rule, i>>[2] = i
  BY DEF Places
<1>2. Fits(p, t, <<rule, i>>[1], <<rule, i>>[2])
  BY <1>1 DEF FitBelow
<1>3. QED
  BY <1>1, <1>2

\* A function's results fit if those it calls return do.
LEMMA BodyFits ==
  ASSUME NEW t \in Seq(STRING), NEW p, NEW rule \in Rules, NEW i \in 1 .. Len(t) + 1,
         FitBelow(p, t, Rank(t, <<rule, i>>))
  PROVE  /\ \A r \in Body(p, t, rule, i) : r = <<r[1], r[2]>> /\ r[2] \in i + 1 .. Len(t) + 1
         /\ \A r, s \in Body(p, t, rule, i) : r = s
<1>1. \A j \in i .. Len(t) + 1 : j \in 1 .. Len(t) + 1
  OBVIOUS
<1>2. CASE rule = "expr"
  <2>1. \A j \in i .. Len(t) + 1 : Fits(p, t, "term", j)
    BY <1>1, <1>2, RankOf, Lower, FitBelowAt
  <2>2. Body(p, t, rule, i) = Loop(p, t, "term", {"+", "-"}, i)
    BY <1>2 DEF Body, ParseExpr
  <2>3. QED
    BY <2>1, <2>2, Lower, LoopFits
<1>3. CASE rule = "term"
  <2>1. \A j \in i .. Len(t) + 1 : Fits(p, t, "factor", j)
    BY <1>1, <1>3, RankOf, Lower, FitBelowAt
  <2>2. Body(p, t, rule, i) = Loop(p, t, "factor", {"*", "/"}, i)
    BY <1>3 DEF Body, ParseTerm
  <2>3. QED
    BY <2>1, <2>2, Lower, LoopFits
<1>4. CASE rule = "factor"
  <2>1. i + 1 \in 1 .. Len(t) + 1 => Fits(p, t, "expr", i + 1) /\ Fits(p, t, "factor", i + 1)
    BY <1>4, RankOf, Lower, FitBelowAt
  <2>2. Body(p, t, rule, i) = ParseFactor(p, t, i)
    BY <1>4 DEF Body
  <2>3. QED
    BY <2>1, <2>2, FactorFits
<1>5. QED
  BY <1>2, <1>3, <1>4, Lower

\* A function looks at functions of a lower rank only.
LEMMA BodyLooksLower ==
  ASSUME NEW t \in Seq(STRING), NEW p, NEW f, NEW rule \in Rules, NEW i \in 1 .. Len(t) + 1,
         FitBelow(p, t, Rank(t, <<rule, i>>)),
         \A y \in Places(t) : Rank(t, y) < Rank(t, <<rule, i>>) => p[y] = f[y]
  PROVE  Body(p, t, rule, i) = Body(f, t, rule, i)
<1>1. \A q \in Rules, j \in 1 .. Len(t) + 1 : <<q, j>> \in Places(t)
  BY DEF Places
<1>2. \A j \in i .. Len(t) + 1 : j \in 1 .. Len(t) + 1
  OBVIOUS
<1>3. CASE rule = "expr"
  <2>1. \A j \in i .. Len(t) + 1 : Fits(p, t, "term", j)
    BY <1>2, <1>3, RankOf, Lower, FitBelowAt
  <2>2. \A j \in i .. Len(t) + 1 : p[<<"term", j>>] = f[<<"term", j>>]
    <3>1. ASSUME NEW j \in i .. Len(t) + 1
          PROVE  p[<<"term", j>>] = f[<<"term", j>>]
      <4>1. <<"term", j>> \in Places(t)
        BY <1>1, <1>2, Lower
      <4>2. Rank(t, <<"term", j>>) < Rank(t, <<rule, i>>)
        BY <1>3, RankOf
      <4>3. QED
        BY <4>1, <4>2
    <3>2. QED
      BY <3>1
  <2>3. Loop(p, t, "term", {"+", "-"}, i) = Loop(f, t, "term", {"+", "-"}, i)
    BY <2>1, <2>2, Lower, LoopLooksAhead
  <2>4. QED
    BY <1>3, <2>3 DEF Body, ParseExpr
<1>4. CASE rule = "term"
  <2>1. \A j \in i .. Len(t) + 1 : Fits(p, t, "factor", j)
    BY <1>2, <1>4, RankOf, Lower, FitBelowAt
  <2>2. \A j \in i .. Len(t) + 1 : p[<<"factor", j>>] = f[<<"factor", j>>]
    <3>1. ASSUME NEW j \in i .. Len(t) + 1
          PROVE  p[<<"factor", j>>] = f[<<"factor", j>>]
      <4>1. <<"factor", j>> \in Places(t)
        BY <1>1, <1>2, Lower
      <4>2. Rank(t, <<"factor", j>>) < Rank(t, <<rule, i>>)
        BY <1>4, RankOf
      <4>3. QED
        BY <4>1, <4>2
    <3>2. QED
      BY <3>1
  <2>3. Loop(p, t, "factor", {"*", "/"}, i) = Loop(f, t, "factor", {"*", "/"}, i)
    BY <2>1, <2>2, Lower, LoopLooksAhead
  <2>4. QED
    BY <1>4, <2>3 DEF Body, ParseTerm
<1>5. CASE rule = "factor"
  <2>1. ASSUME i + 1 \in 1 .. Len(t) + 1, NEW q \in Rules
        PROVE  p[<<q, i + 1>>] = f[<<q, i + 1>>]
    <3>1. <<q, i + 1>> \in Places(t)
      BY <1>1, <2>1
    <3>2. Rank(t, <<q, i + 1>>) < Rank(t, <<rule, i>>)
      BY <1>5, RankOf
    <3>3. QED
      BY <3>1, <3>2
  <2>2. ParseFactor(p, t, i) = ParseFactor(f, t, i)
    BY <2>1, Lower, FactorLooksAhead
  <2>3. QED
    BY <1>5, <2>2 DEF Body
<1>6. QED
  BY <1>3, <1>4, <1>5, Lower

\* A place is a rule and a position.
LEMMA PlaceOf ==
  ASSUME NEW t, NEW x \in Places(t)
  PROVE  x[1] \in Rules /\ x[2] \in 1 .. Len(t) + 1 /\ x = <<x[1], x[2]>>
  BY DEF Places

\* Ranks are numbers.
LEMMA RankIn ==
  ASSUME NEW t \in Seq(STRING), NEW x \in Places(t)
  PROVE  Rank(t, x) \in 0 .. 3 * Len(t) + 2
<1>1. x[1] \in Rules /\ x[2] \in 1 .. Len(t) + 1 /\ x = <<x[1], x[2]>>
  BY PlaceOf
<1>2. Rank(t, <<x[1], x[2]>>) \in 0 .. 3 * Len(t) + 2
  BY <1>1, RankOf
<1>3. QED
  BY <1>1, <1>2

\* Results that are those of the functions, as far as they are any, fit.
LEMMA ResultsFit ==
  ASSUME NEW t \in Seq(STRING), NEW p,
         \A x \in Places(t) : p[x] = Body(p, t, x[1], x[2]) \/ p[x] = {}
  PROVE  \A x \in Places(t) : Fits(p, t, x[1], x[2])
<1> DEFINE S == {k \in Nat : \A x \in Places(t) : Rank(t, x) = k => Fits(p, t, x[1], x[2])}
<1>1. ASSUME NEW k \in Nat, \A j \in 0 .. k - 1 : j \in S
      PROVE  k \in S
  <2>1. FitBelow(p, t, k)
    <3>1. ASSUME NEW y \in Places(t), Rank(t, y) < k
          PROVE  Fits(p, t, y[1], y[2])
      <4>1. Rank(t, y) \in 0 .. k - 1
        BY <3>1, RankIn
      <4>2. QED
        BY <1>1, <4>1
    <3>2. QED
      BY <3>1 DEF FitBelow
  <2>2. ASSUME NEW x \in Places(t), Rank(t, x) = k
        PROVE  Fits(p, t, x[1], x[2])
    <3>1. x[1] \in Rules /\ x[2] \in 1 .. Len(t) + 1 /\ x = <<x[1], x[2]>>
      BY PlaceOf
    <3>2. FitBelow(p, t, Rank(t, <<x[1], x[2]>>))
      BY <2>1, <2>2, <3>1
    <3>3. /\ \A r \in Body(p, t, x[1], x[2]) :
               r = <<r[1], r[2]>> /\ r[2] \in x[2] + 1 .. Len(t) + 1
          /\ \A r, s \in Body(p, t, x[1], x[2]) : r = s
      BY <3>1, <3>2, BodyFits
    <3>4. p[<<x[1], x[2]>>] = p[x]
      BY <3>1
    <3>5. QED
      BY <3>3, <3>4 DEF Fits
  <2>3. QED
    BY <2>2
<1>2. \A k \in Nat : k \in S
  <2> HIDE DEF S
  <2>1. QED
    BY <1>1, StrongInduction
<1>3. ASSUME NEW x \in Places(t)
      PROVE  Fits(p, t, x[1], x[2])
  <2>1. Rank(t, x) \in Nat
    BY RankIn
  <2>2. Rank(t, x) \in S
    BY <1>2, <2>1
  <2>3. QED
    BY <2>2
<1>4. QED
  BY <1>3

\* The results the parser's functions return exist, and fit.
LEMMA ParserExists ==
  ASSUME NEW t \in Seq(STRING)
  PROVE  /\ IsParser(Parser(t), t)
         /\ \A rule \in Rules, i \in 1 .. Len(t) + 1 : Fits(Parser(t), t, rule, i)
<1> DEFINE At(f, k) == [x \in Places(t) |-> IF Rank(t, x) < k THEN Body(f, t, x[1], x[2]) ELSE {}]
           S == {k \in Nat : \E f : f = At(f, k)}
<1>1. 0 \in S
  <2> DEFINE f == [x \in Places(t) |-> {}]
  <2>1. \A x \in Places(t) : ~ (Rank(t, x) < 0)
    BY RankIn
  <2>2. f = At(f, 0)
    BY <2>1
  <2> HIDE DEF f, At
  <2>3. QED
    BY <2>2
<1>2. ASSUME NEW k \in Nat, k \in S
      PROVE  k + 1 \in S
  <2>1. PICK f : f = At(f, k)
    BY <1>2
  <2> DEFINE w == At(f, k + 1)
  <2>2. \A x \in Places(t) : Fits(f, t, x[1], x[2])
    <3>1. \A x \in Places(t) : f[x] = Body(f, t, x[1], x[2]) \/ f[x] = {}
      BY <2>1
    <3> HIDE DEF w, At
    <3>2. QED
      BY <3>1, ResultsFit
  <2>3. \A y \in Places(t) : Rank(t, y) < k => f[y] = w[y]
    <3>1. ASSUME NEW y \in Places(t), Rank(t, y) < k
          PROVE  f[y] = w[y]
      <4>1. Rank(t, y) < k + 1
        BY <3>1, RankIn
      <4>2. w[y] = Body(f, t, y[1], y[2])
        BY <4>1
      <4>3. f[y] = Body(f, t, y[1], y[2])
        BY <2>1, <3>1
      <4>4. QED
        BY <4>2, <4>3
    <3>2. QED
      BY <3>1
  <2>4. ASSUME NEW x \in Places(t), Rank(t, x) < k + 1
        PROVE  Body(f, t, x[1], x[2]) = Body(w, t, x[1], x[2])
    <3>1. x[1] \in Rules /\ x[2] \in 1 .. Len(t) + 1 /\ x = <<x[1], x[2]>>
      BY PlaceOf
    <3>2. \A y \in Places(t) : Rank(t, y) < Rank(t, x) => Rank(t, y) < k
      BY <2>4, RankIn
    <3>3. \A y \in Places(t) : Rank(t, y) < Rank(t, <<x[1], x[2]>>) => f[y] = w[y]
      BY <2>3, <3>1, <3>2
    <3>4. FitBelow(f, t, Rank(t, <<x[1], x[2]>>))
      BY <2>2 DEF FitBelow
    <3> HIDE DEF w, At
    <3>5. QED
      BY <3>1, <3>3, <3>4, BodyLooksLower
  <2>5. w = At(w, k + 1)
    <3> DEFINE z == At(w, k + 1)
    <3>1. \A x \in Places(t) : (IF Rank(t, x) < k + 1 THEN Body(f, t, x[1], x[2]) ELSE {}) =
                               (IF Rank(t, x) < k + 1 THEN Body(w, t, x[1], x[2]) ELSE {})
      <4> HIDE DEF w
      <4>1. QED
        BY <2>4
    <3>2. w = z
      BY <3>1
    <3> HIDE DEF w
    <3>3. QED
      BY <3>2
  <2> HIDE DEF w, At
  <2>6. QED
    BY <2>5
<1>3. \E f : f = At(f, 3 * Len(t) + 3)
  <2> HIDE DEF At
  <2>1. \A k \in Nat : k \in S
    <3> HIDE DEF S
    <3>1. QED
      BY <1>1, <1>2, Induction
  <2>2. 3 * Len(t) + 3 \in Nat
    OBVIOUS
  <2>3. QED
    BY <2>1, <2>2
<1>4. \E f : IsParser(f, t)
  <2>1. PICK f : f = At(f, 3 * Len(t) + 3)
    BY <1>3
  <2>2. \A x \in Places(t) : Rank(t, x) < 3 * Len(t) + 3
    BY RankIn
  <2>3. IsParser(f, t)
    BY <2>1, <2>2 DEF IsParser
  <2>4. QED
    BY <2>3
<1> DEFINE p == Parser(t)
<1>5. IsParser(p, t)
  <2>1. p = CHOOSE f : IsParser(f, t)
    BY DEF Parser, IsParser, Body, Places
  <2>2. QED
    BY <1>4, <2>1
<1>6. \A x \in Places(t) : Fits(p, t, x[1], x[2])
  <2> HIDE DEF p
  <2>1. \A x \in Places(t) : p[x] = Body(p, t, x[1], x[2])
    BY <1>5 DEF IsParser
  <2>2. QED
    BY <2>1, ResultsFit
<1>7. ASSUME NEW rule \in Rules, NEW i \in 1 .. Len(t) + 1
      PROVE  Fits(p, t, rule, i)
  <2>1. <<rule, i>> \in Places(t) /\ <<rule, i>>[1] = rule /\ <<rule, i>>[2] = i
    BY DEF Places
  <2>2. Fits(p, t, <<rule, i>>[1], <<rule, i>>[2])
    BY <1>6, <2>1
  <2>3. QED
    BY <2>1, <2>2
<1>8. QED
  BY <1>5, <1>7

-----------------------------------------------------------------------------
(* The grammar                                                             *)

\* What a span may mean as a phrase of a rule, m being what the spans in it may mean.
Phrase(m, t, given, rule, i, j) ==
  IF i > j THEN {}
  ELSE CASE rule = "expr"   -> ChainMeans(m, t, "expr", "term", {"+", "-"}, i, j)
         [] rule = "term"   -> ChainMeans(m, t, "term", "factor", {"*", "/"}, i, j)
         [] rule = "factor" -> FactorMeans(m, t, given, i, j)

Spans(t) == Rules \X (1 .. Len(t)) \X (0 .. Len(t))

\* m holds what each span may mean.
IsPhrases(m, t, given) == m = [x \in Spans(t) |-> Phrase(m, t, given, x[1], x[2], x[3])]

\* How long a span is, and how far its rule is from the factors.
SpanRank(x) == IF x[2] > x[3] THEN 0 ELSE 3 * (x[3] - x[2]) + Level(x[1])

\* A span is a rule and two positions.
LEMMA SpanOf ==
  ASSUME NEW t, NEW x \in Spans(t)
  PROVE  /\ x[1] \in Rules /\ x[2] \in 1 .. Len(t) /\ x[3] \in 0 .. Len(t)
         /\ x = <<x[1], x[2], x[3]>>
  BY DEF Spans

\* Their ranks are numbers.
LEMMA SpanRankIn ==
  ASSUME NEW t \in Seq(STRING), NEW x \in Spans(t)
  PROVE  SpanRank(x) \in 0 .. 3 * Len(t) + 2
<1>1. Len(t) \in Nat
  OBVIOUS
<1>2. x[1] \in Rules /\ x[2] \in 1 .. Len(t) /\ x[3] \in 0 .. Len(t)
  BY SpanOf
<1>3. Level(x[1]) \in 0 .. 2
  BY <1>2, Lower
<1>4. QED
  BY <1>1, <1>2, <1>3 DEF SpanRank

\* x is the meaning of a chain and, after the operator at k, a last operand.
LastOperandAt(k, x, m, t, rule, operand, i, j) ==
  \E a \in m[<<rule, i, k - 1>>] : \E b \in m[<<operand, k + 1, j>>] : x = Meaning(t[k], a, b)

\* A chain is an operand, or a chain, an operator and an operand.
LEMMA ChainMember ==
  ASSUME NEW m, NEW t, NEW rule, NEW operand, NEW ops, NEW i, NEW j, NEW x
  PROVE  x \in ChainMeans(m, t, rule, operand, ops, i, j) <=>
           \/ x \in m[<<operand, i, j>>]
           \/ \E k \in i + 1 .. j - 1 :
                t[k] \in ops /\ LastOperandAt(k, x, m, t, rule, operand, i, j)
<1> DEFINE K == {k \in i + 1 .. j - 1 : t[k] \in ops}
           C(k) == {Meaning(t[k], a, b) :
                      a \in m[<<rule, i, k - 1>>], b \in m[<<operand, k + 1, j>>]}
<1>1. ChainMeans(m, t, rule, operand, ops, i, j) =
        m[<<operand, i, j>>] \cup UNION {C(k) : k \in K}
  BY DEF ChainMeans
<1>2. \A k : x \in C(k) <=> LastOperandAt(k, x, m, t, rule, operand, i, j)
  BY DEF LastOperandAt
<1> HIDE DEF C
<1>3. x \in UNION {C(k) : k \in K} <=> \E k \in K : x \in C(k)
  BY Zenon
<1>4. QED
  BY <1>1, <1>2, <1>3

\* A chain's meaning follows from those of its parts.
LEMMA ChainLooksInside ==
  ASSUME NEW m, NEW f, NEW t, NEW rule, NEW operand, NEW ops, NEW i, NEW j,
         m[<<operand, i, j>>] = f[<<operand, i, j>>],
         \A k \in i + 1 .. j - 1 : /\ m[<<rule, i, k - 1>>] = f[<<rule, i, k - 1>>]
                                   /\ m[<<operand, k + 1, j>>] = f[<<operand, k + 1, j>>]
  PROVE  ChainMeans(m, t, rule, operand, ops, i, j) = ChainMeans(f, t, rule, operand, ops, i, j)
<1> DEFINE K == {k \in i + 1 .. j - 1 : t[k] \in ops}
           C(g, k) == {Meaning(t[k], a, b) :
                         a \in g[<<rule, i, k - 1>>], b \in g[<<operand, k + 1, j>>]}
<1>1. \A g : ChainMeans(g, t, rule, operand, ops, i, j) =
              g[<<operand, i, j>>] \cup UNION {C(g, k) : k \in K}
  BY DEF ChainMeans
<1>2. ASSUME NEW k \in K
      PROVE  C(m, k) = C(f, k)
  <2>1. /\ m[<<rule, i, k - 1>>] = f[<<rule, i, k - 1>>]
        /\ m[<<operand, k + 1, j>>] = f[<<operand, k + 1, j>>]
    OBVIOUS
  <2>2. QED
    BY <2>1
<1> HIDE DEF C, K
<1>3. {C(m, k) : k \in K} = {C(f, k) : k \in K}
  BY <1>2
<1>4. QED
  BY <1>1, <1>3

\* A span's meaning follows from those of a lower rank.
LEMMA PhraseLooksLower ==
  ASSUME NEW t \in Seq(STRING), NEW given, NEW m, NEW f,
         NEW rule \in Rules, NEW i \in 1 .. Len(t), NEW j \in 0 .. Len(t),
         \A y \in Spans(t) : SpanRank(y) < SpanRank(<<rule, i, j>>) => m[y] = f[y]
  PROVE  Phrase(m, t, given, rule, i, j) = Phrase(f, t, given, rule, i, j)
<1> DEFINE N == Len(t)
<1>0. N \in Nat /\ i \in Nat /\ i >= 1 /\ i <= N /\ j \in Nat /\ j <= N
  OBVIOUS
<1>1. CASE i > j
  BY <1>1 DEF Phrase
<1>2. ASSUME NEW q \in Rules, NEW a \in 1 .. N, NEW b \in 0 .. N
      PROVE  <<q, a, b>> \in Spans(t)
  BY DEF Spans
<1>3. \A q, a, b : SpanRank(<<q, a, b>>) = IF a > b THEN 0 ELSE 3 * (b - a) + Level(q)
  BY DEF SpanRank
<1>4. ASSUME NEW q \in Rules, NEW a \in Nat, NEW b \in Nat, i <= j, i <= a, a <= b, b <= j,
             i < a \/ b < j \/ Level(q) < Level(rule)
      PROVE  m[<<q, a, b>>] = f[<<q, a, b>>]
  <2>1. a \in 1 .. N /\ b \in 0 .. N
    BY <1>0, <1>4
  <2>2. Level(q) \in 0 .. 2 /\ Level(rule) \in 0 .. 2
    BY Lower
  <2>3. /\ SpanRank(<<q, a, b>>) = 3 * (b - a) + Level(q)
        /\ SpanRank(<<rule, i, j>>) = 3 * (j - i) + Level(rule)
    <3>1. ~ (a > b) /\ ~ (i > j)
      BY <1>0, <1>4
    <3>2. QED
      BY <1>3, <3>1
  <2>4. 3 * (b - a) + Level(q) < 3 * (j - i) + Level(rule)
    <3>1. CASE i < a \/ b < j
      <4>1. b - a + 1 <= j - i
        BY <1>0, <1>4, <3>1
      <4>2. QED
        BY <1>0, <2>2, <4>1
    <3>2. CASE Level(q) < Level(rule)
      <4>1. b - a <= j - i
        BY <1>0, <1>4
      <4>2. QED
        BY <1>0, <2>2, <3>2, <4>1
    <3>3. QED
      BY <1>4, <3>1, <3>2
  <2>5. SpanRank(<<q, a, b>>) < SpanRank(<<rule, i, j>>)
    BY <2>3, <2>4
  <2>6. QED
    BY <1>2, <2>1, <2>5
<1>5. ASSUME i <= j, NEW q \in Rules, NEW operand \in Rules, rule = q,
             Level(operand) < Level(rule), NEW ops
      PROVE  ChainMeans(m, t, q, operand, ops, i, j) = ChainMeans(f, t, q, operand, ops, i, j)
  <2>1. m[<<operand, i, j>>] = f[<<operand, i, j>>]
    BY <1>0, <1>4, <1>5
  <2>2. ASSUME NEW k \in i + 1 .. j - 1
        PROVE  m[<<q, i, k - 1>>] = f[<<q, i, k - 1>>]
    <3>1. k - 1 \in Nat /\ i <= k - 1 /\ k - 1 < j /\ k - 1 <= j /\ i <= i
      BY <1>0
    <3>2. QED
      BY <1>0, <1>4, <1>5, <3>1
  <2>3. ASSUME NEW k \in i + 1 .. j - 1
        PROVE  m[<<operand, k + 1, j>>] = f[<<operand, k + 1, j>>]
    <3>1. k + 1 \in Nat /\ i <= k + 1 /\ k + 1 <= j /\ i < k + 1 /\ j <= j
      BY <1>0
    <3>2. QED
      BY <1>0, <1>4, <1>5, <3>1
  <2>4. QED
    BY <2>1, <2>2, <2>3, ChainLooksInside
<1>6. CASE i <= j /\ rule = "expr"
  <2>1. ChainMeans(m, t, "expr", "term", {"+", "-"}, i, j) =
        ChainMeans(f, t, "expr", "term", {"+", "-"}, i, j)
    BY <1>5, <1>6, Lower
  <2>2. QED
    BY <1>6, <2>1 DEF Phrase
<1>7. CASE i <= j /\ rule = "term"
  <2>1. ChainMeans(m, t, "term", "factor", {"*", "/"}, i, j) =
        ChainMeans(f, t, "term", "factor", {"*", "/"}, i, j)
    BY <1>5, <1>7, Lower
  <2>2. QED
    BY <1>7, <2>1 DEF Phrase
<1>8. CASE i <= j /\ rule = "factor"
  <2>1. FactorMeans(m, t, given, i, j) = FactorMeans(f, t, given, i, j)
    <3>1. CASE i = j
      BY <3>1 DEF FactorMeans
    <3>2. CASE i # j
      <4>1. i + 1 \in Nat /\ i <= i + 1 /\ i + 1 <= j /\ i < i + 1 /\ j <= j
        BY <1>0, <1>8, <3>2
      <4>2. m[<<"factor", i + 1, j>>] = f[<<"factor", i + 1, j>>]
        BY <1>0, <1>4, <1>8, <4>1, Lower
      <4>3. ASSUME i + 1 < j
            PROVE  m[<<"expr", i + 1, j - 1>>] = f[<<"expr", i + 1, j - 1>>]
        <5>1. j - 1 \in Nat /\ i + 1 <= j - 1 /\ j - 1 <= j /\ j - 1 < j
          BY <1>0, <4>3
        <5>2. QED
          BY <1>0, <1>4, <1>8, <4>1, <5>1, Lower
      <4>4. QED
        BY <3>2, <4>2, <4>3 DEF FactorMeans
    <3>3. QED
      BY <3>1, <3>2
  <2>2. QED
    BY <1>8, <2>1 DEF Phrase
<1>9. i > j \/ i <= j
  BY <1>0
<1>10. QED
  BY <1>1, <1>6, <1>7, <1>8, <1>9, Lower

\* What the spans may mean exists.
LEMMA PhrasesExist ==
  ASSUME NEW t \in Seq(STRING), NEW given
  PROVE  IsPhrases(Phrases(t, given), t, given)
<1> DEFINE Of(f, x) == Phrase(f, t, given, x[1], x[2], x[3])
           At(f, k) == [x \in Spans(t) |-> IF SpanRank(x) < k THEN Of(f, x) ELSE {}]
           S == {k \in Nat : \E f : f = At(f, k)}
<1>1. 0 \in S
  <2> DEFINE f == [x \in Spans(t) |-> {}]
  <2>1. \A x \in Spans(t) : ~ (SpanRank(x) < 0)
    BY SpanRankIn
  <2> HIDE DEF Of
  <2>2. f = At(f, 0)
    BY <2>1
  <2> HIDE DEF f, At
  <2>3. QED
    BY <2>2
<1>2. ASSUME NEW k \in Nat, k \in S
      PROVE  k + 1 \in S
  <2>1. PICK f : f = At(f, k)
    BY <1>2
  <2> DEFINE w == At(f, k + 1)
  <2> HIDE DEF Of
  <2>2. \A y \in Spans(t) : SpanRank(y) < k => f[y] = w[y]
    <3>1. ASSUME NEW y \in Spans(t), SpanRank(y) < k
          PROVE  f[y] = w[y]
      <4>1. SpanRank(y) < k + 1
        BY <3>1, SpanRankIn
      <4>2. w[y] = Of(f, y)
        BY <4>1
      <4>3. f[y] = Of(f, y)
        BY <2>1, <3>1
      <4>4. QED
        BY <4>2, <4>3
    <3>2. QED
      BY <3>1
  <2>3. ASSUME NEW x \in Spans(t), SpanRank(x) < k + 1
        PROVE  Of(f, x) = Of(w, x)
    <3>1. /\ x[1] \in Rules /\ x[2] \in 1 .. Len(t) /\ x[3] \in 0 .. Len(t)
          /\ x = <<x[1], x[2], x[3]>>
      BY SpanOf
    <3>2. \A y \in Spans(t) : SpanRank(y) < SpanRank(x) => SpanRank(y) < k
      BY <2>3, SpanRankIn
    <3>3. \A y \in Spans(t) : SpanRank(y) < SpanRank(<<x[1], x[2], x[3]>>) => f[y] = w[y]
      BY <2>2, <3>1, <3>2
    <3> HIDE DEF w, At
    <3>4. QED
      BY <3>1, <3>3, PhraseLooksLower DEF Of
  <2>4. w = At(w, k + 1)
    <3> DEFINE z == At(w, k + 1)
    <3>1. \A x \in Spans(t) : (IF SpanRank(x) < k + 1 THEN Of(f, x) ELSE {}) =
                              (IF SpanRank(x) < k + 1 THEN Of(w, x) ELSE {})
      <4> HIDE DEF w
      <4>1. QED
        BY <2>3
    <3>2. w = z
      BY <3>1
    <3> HIDE DEF w
    <3>3. QED
      BY <3>2
  <2> HIDE DEF w, At
  <2>5. QED
    BY <2>4
<1>3. \E f : f = At(f, 3 * Len(t) + 3)
  <2> HIDE DEF At
  <2>1. \A k \in Nat : k \in S
    <3> HIDE DEF S
    <3>1. QED
      BY <1>1, <1>2, Induction
  <2>2. 3 * Len(t) + 3 \in Nat
    OBVIOUS
  <2>3. QED
    BY <2>1, <2>2
<1>4. \E f : IsPhrases(f, t, given)
  <2>1. PICK f : f = At(f, 3 * Len(t) + 3)
    BY <1>3
  <2>2. \A x \in Spans(t) : SpanRank(x) < 3 * Len(t) + 3
    BY SpanRankIn
  <2>3. IsPhrases(f, t, given)
    BY <2>1, <2>2 DEF IsPhrases
  <2>4. QED
    BY <2>3
<1>5. Phrases(t, given) = CHOOSE f : IsPhrases(f, t, given)
  BY DEF Phrases, IsPhrases, Phrase, Spans
<1>6. QED
  BY <1>4, <1>5

-----------------------------------------------------------------------------
(* The parser and the grammar                                              *)

\* g and h say the same of every name in t.
SameSamples(t, g, h) ==
  \A i \in 1 .. Len(t) : t[i] \in Names =>
    /\ t[i] \in DOMAIN g <=> t[i] \in DOMAIN h
    /\ t[i] \in DOMAIN g => g[t[i]] = h[t[i]]

\* p is the parser of t, u its trees, evaluated on g, and m its grammar's meanings, on h.
Reading(t, p, u, g, m, h) ==
  /\ IsParser(p, t) /\ \A rule \in Rules, i \in 1 .. Len(t) + 1 : Fits(p, t, rule, i)
  /\ Levels(u, Len(t)) /\ Ast(Len(t)) = u[Len(t)]
  /\ IsPhrases(m, t, h)
  /\ SameSamples(t, g, h)

\* The operators that a rule's function never leaves behind.
Stops(rule) == CASE rule = "factor" -> {} [] rule = "term" -> {"*", "/"} [] rule = "expr" -> Ops

\* What the rule's function returns at i is a tree of a phrase of the rule, and has its
\* value; and where a phrase is followed by no operator that belongs to it, the function
\* returns it.
Right(p, u, m, t, g, rule, i) ==
  /\ \A r \in p[<<rule, i>>] : /\ r[1] \in u[r[2] - i - 1]
                               /\ Evaluate(r[1], Len(t), g) \in m[<<rule, i, r[2] - 1>>]
  /\ \A j \in i .. Len(t) : \A x \in m[<<rule, i, j>>] :
       Token(t, j + 1) \notin Stops(rule) =>
         \E r \in p[<<rule, i>>] : r[2] = j + 1 /\ Evaluate(r[1], Len(t), g) = x

\* Function by function.
LEMMA ParserAt ==
  ASSUME NEW t, NEW p, IsParser(p, t), NEW i \in 1 .. Len(t) + 1
  PROVE  /\ p[<<"expr", i>>] = Loop(p, t, "term", {"+", "-"}, i)
         /\ p[<<"term", i>>] = Loop(p, t, "factor", {"*", "/"}, i)
         /\ p[<<"factor", i>>] = ParseFactor(p, t, i)
<1>1. \A rule \in Rules : p[<<rule, i>>] = Body(p, t, rule, i)
  BY DEF IsParser, Places
<1>2. /\ p[<<"expr", i>>] = Body(p, t, "expr", i)
      /\ p[<<"term", i>>] = Body(p, t, "term", i)
      /\ p[<<"factor", i>>] = Body(p, t, "factor", i)
  BY <1>1, Lower
<1>3. QED
  BY <1>2 DEF Body, ParseExpr, ParseTerm

\* Span by span.
LEMMA PhraseAt ==
  ASSUME NEW t \in Seq(STRING), NEW m, NEW h, IsPhrases(m, t, h),
         NEW i \in 1 .. Len(t), NEW j \in i .. Len(t)
  PROVE  /\ m[<<"expr", i, j>>] = ChainMeans(m, t, "expr", "term", {"+", "-"}, i, j)
         /\ m[<<"term", i, j>>] = ChainMeans(m, t, "term", "factor", {"*", "/"}, i, j)
         /\ m[<<"factor", i, j>>] = FactorMeans(m, t, h, i, j)
<1>1. j \in 0 .. Len(t) /\ ~ (i > j)
  OBVIOUS
<1>2. \A rule \in Rules : m[<<rule, i, j>>] = Phrase(m, t, h, rule, i, j)
  BY <1>1 DEF IsPhrases, Spans
<1>3. /\ m[<<"expr", i, j>>] = Phrase(m, t, h, "expr", i, j)
      /\ m[<<"term", i, j>>] = Phrase(m, t, h, "term", i, j)
      /\ m[<<"factor", i, j>>] = Phrase(m, t, h, "factor", i, j)
  BY <1>2, Lower
<1>4. QED
  BY <1>1, <1>3 DEF Phrase

\* At the end of a text there is neither a tree nor a phrase.
LEMMA RightAtEnd ==
  ASSUME NEW t \in Seq(STRING), NEW p, NEW u, NEW g, NEW m, NEW h, Reading(t, p, u, g, m, h),
         NEW rule \in Rules
  PROVE  Right(p, u, m, t, g, rule, Len(t) + 1)
<1>1. Len(t) \in Nat /\ Len(t) + 1 \in 1 .. Len(t) + 1
  OBVIOUS
<1>2. \A r \in p[<<rule, Len(t) + 1>>] : r[2] \in Len(t) + 1 + 1 .. Len(t) + 1
  BY <1>1 DEF Reading, Fits
<1>3. Len(t) + 1 + 1 .. Len(t) + 1 = {} /\ Len(t) + 1 .. Len(t) = {}
  BY <1>1
<1>4. QED
  BY <1>2, <1>3 DEF Right

\* Evaluating an operator applies it to the values of its operands.
Applies(op, a, b, N, g) ==
  Evaluate(<<op, a, b>>, N, g) = Meaning(op, Evaluate(a, N, g), Evaluate(b, N, g))

\* An operator on two trees that follow each other.
LEMMA OpTree ==
  ASSUME NEW N \in Nat, NEW u, Levels(u, N), Ast(N) = u[N], NEW g, NEW op \in Ops,
         NEW i \in 1 .. N, NEW k \in i + 1 .. N, NEW e \in k + 2 .. N + 1,
         NEW a \in u[k - i - 1], NEW b \in u[e - k - 2]
  PROVE  /\ <<op, a, b>> \in u[e - i - 1]
         /\ Applies(op, a, b, N, g)
<1> DEFINE H == e - i - 2
<1>1. /\ H \in 0 .. N /\ H + 1 \in 1 .. N /\ (H + 1) - 1 = H /\ H + 1 <= N /\ e - i - 1 = H + 1
      /\ k - i - 1 \in 0 .. N /\ k - i - 1 <= H
      /\ e - k - 2 \in 0 .. N /\ e - k - 2 <= H
  OBVIOUS
<1> HIDE DEF H
<1>2. a \in u[H] /\ b \in u[H]
  BY <1>1, LevelsGrow
<1>3. <<op, a, b>> \in u[H + 1]
  BY <1>1, <1>2, Trees
<1>4. Evaluate(<<op, a, b>>, N, g) = Meaning(op, Evaluate(a, N, g), Evaluate(b, N, g))
  <2>1. a \in u[(H + 1) - 1] /\ b \in u[(H + 1) - 1]
    BY <1>1, <1>2
  <2>2. QED
    BY <1>1, <2>1, EvaluateOp, SMTT(30)
<1>5. QED
  BY <1>1, <1>3, <1>4 DEF Applies

\* A minus before a tree.
LEMMA NegTree ==
  ASSUME NEW N \in Nat, NEW u, Levels(u, N), Ast(N) = u[N], NEW g,
         NEW i \in 1 .. N, NEW e \in i + 2 .. N + 1, NEW a \in u[e - i - 2]
  PROVE  /\ <<"neg", a>> \in u[e - i - 1]
         /\ LET x == Evaluate(a, N, g)
            IN Evaluate(<<"neg", a>>, N, g) = IF x = NULL THEN NULL ELSE Neg(x)
<1> DEFINE H == e - i - 2
<1>1. H \in 0 .. N /\ H + 1 \in 1 .. N /\ (H + 1) - 1 = H /\ H + 1 <= N /\ e - i - 1 = H + 1
  OBVIOUS
<1>2. a \in u[H]
  OBVIOUS
<1> HIDE DEF H
<1>3. <<"neg", a>> \in u[H + 1]
  BY <1>1, <1>2, Trees
<1>4. LET x == Evaluate(a, N, g)
      IN Evaluate(<<"neg", a>>, N, g) = IF x = NULL THEN NULL ELSE Neg(x)
  <2>1. a \in u[(H + 1) - 1]
    BY <1>1, <1>2
  <2>2. QED
    BY <1>1, <2>1, EvaluateNeg
<1>5. QED
  BY <1>1, <1>3, <1>4

\* A factor is right if the expression or the factor in it is.
LEMMA RightFactor ==
  ASSUME NEW t \in Seq(STRING), NEW p, NEW u, NEW g, NEW m, NEW h, Reading(t, p, u, g, m, h),
         NEW i \in 1 .. Len(t),
         Right(p, u, m, t, g, "expr", i + 1), Right(p, u, m, t, g, "factor", i + 1)
  PROVE  Right(p, u, m, t, g, "factor", i)
<1> DEFINE N == Len(t)
           V(a) == Evaluate(a, N, g)
           F == ParseFactor(p, t, i)
           M(j) == FactorMeans(m, t, h, i, j)
           Sound == \A r \in F : r[1] \in u[r[2] - i - 1] /\ V(r[1]) \in M(r[2] - 1)
           Complete == \A j \in i .. N : \A x \in M(j) : \E r \in F : r[2] = j + 1 /\ V(r[1]) = x
<1>0. N \in Nat /\ i \in Nat /\ i >= 1 /\ i <= N /\ i \in 1 .. N + 1 /\ i + 1 \in 1 .. N + 1
  OBVIOUS
<1>1. p[<<"factor", i>>] = F /\ \A j \in i .. N : m[<<"factor", i, j>>] = M(j)
  <2>1. p[<<"factor", i>>] = F
    BY <1>0, ParserAt DEF Reading
  <2>2. ASSUME NEW j \in i .. N
        PROVE  m[<<"factor", i, j>>] = M(j)
    <3>1. IsPhrases(m, t, h)
      BY DEF Reading
    <3>2. QED
      BY <3>1, PhraseAt
  <2>3. QED
    BY <2>1, <2>2
<1>2. Fits(p, t, "expr", i + 1) /\ Fits(p, t, "factor", i + 1) /\ Fits(p, t, "factor", i)
  BY <1>0, Lower DEF Reading
<1>3. Token(t, i) = t[i]
  BY <1>0 DEF Token
<1>4. Levels(u, N) /\ Ast(N) = u[N]
  BY DEF Reading
<1>5. t[i] \notin Names \cup DOMAIN Literal => Atom(t[i], h) = {}
  BY DEF Atom
<1>6. \A j : M(j) = IF i = j THEN Atom(t[i], h)
                    ELSE IF t[i] = "(" /\ t[j] = ")" /\ i + 1 < j THEN m[<<"expr", i + 1, j - 1>>]
                    ELSE IF t[i] = "-"
                         THEN {IF x = NULL THEN NULL ELSE Neg(x) :
                                 x \in m[<<"factor", i + 1, j>>]}
                    ELSE {}
  BY DEF FactorMeans
<1>7. ASSUME t[i] = "("
      PROVE  Sound /\ Complete
  <2> DEFINE Q == {q \in p[<<"expr", i + 1>>] : Token(t, q[2]) = ")"}
  <2>1. F = {<<r[1], r[2] + 1>> : r \in Q}
    <3>1. Token(t, i) = "("
      BY <1>3, <1>7
    <3>2. QED
      BY <3>1, FactorOf
  <2>2. ASSUME NEW q \in Q
        PROVE  q[2] \in i + 2 .. N /\ t[q[2]] = ")"
    <3>1. q[2] \in i + 1 + 1 .. N + 1 /\ Token(t, q[2]) = ")"
      BY <1>2 DEF Fits
    <3>2. q[2] \in 1 .. N + 1
      BY <1>0, <3>1
    <3>3. Token(t, q[2]) # ""
      BY <3>1
    <3>4. q[2] <= N /\ Token(t, q[2]) = t[q[2]]
      BY <3>2, <3>3, TokenThere
    <3>5. q[2] \in i + 2 .. N
      BY <1>0, <3>1, <3>4
    <3>6. QED
      BY <3>1, <3>4, <3>5
  <2>3. ASSUME NEW q \in Q
        PROVE  /\ q[1] \in u[q[2] - (i + 1) - 1]
               /\ V(q[1]) \in m[<<"expr", i + 1, q[2] - 1>>]
    BY DEF Right
  <2> HIDE DEF F, M
  <2>4. ASSUME NEW r \in F
        PROVE  r[1] \in u[r[2] - i - 1] /\ V(r[1]) \in M(r[2] - 1)
    <3>1. PICK q \in Q : r = <<q[1], q[2] + 1>>
      BY <2>1
    <3> HIDE DEF Q
    <3>2. q[2] \in i + 2 .. N /\ t[q[2]] = ")"
      BY <2>2
    <3>3. /\ q[2] - (i + 1) - 1 \in 0 .. N /\ q[2] - i \in 0 .. N
          /\ q[2] - (i + 1) - 1 <= q[2] - i
          /\ (q[2] + 1) - i - 1 = q[2] - i /\ (q[2] + 1) - 1 = q[2] /\ i # q[2] /\ i + 1 < q[2]
      <4>1. q[2] \in i + 2 .. N
        BY <3>2
      <4>2. QED
        BY <1>0, <4>1
    <3>4. q[1] \in u[q[2] - i]
      <4>1. u[q[2] - (i + 1) - 1] \subseteq u[q[2] - i]
        BY <1>0, <1>4, <3>3, LevelsGrow
      <4>2. QED
        BY <2>3, <4>1
    <3>5. M(q[2]) = m[<<"expr", i + 1, q[2] - 1>>]
      BY <1>6, <1>7, <3>2, <3>3
    <3>6. V(q[1]) \in M(q[2])
      BY <2>3, <3>5
    <3>7. r[1] = q[1] /\ r[2] = q[2] + 1
      BY <3>1
    <3> HIDE DEF V
    <3>8. QED
      BY <3>3, <3>4, <3>6, <3>7
  <2>5. ASSUME NEW j \in i .. N, NEW x \in M(j)
        PROVE  \E r \in F : r[2] = j + 1 /\ V(r[1]) = x
    <3>1. i # j
      BY <1>5, <1>6, <1>7, Kinds
    <3>2. t[j] = ")" /\ i + 1 < j /\ x \in m[<<"expr", i + 1, j - 1>>]
      BY <1>6, <1>7, <3>1
    <3>3. j - 1 \in i + 1 .. N /\ (j - 1) + 1 = j /\ j <= N
      BY <1>0, <3>2
    <3>4. Token(t, j) = ")"
      BY <3>2, <3>3 DEF Token
    <3>5. Token(t, j) \notin Stops("expr")
      BY <3>4 DEF Stops, Ops
    <3>6. PICK q \in p[<<"expr", i + 1>>] : q[2] = j /\ V(q[1]) = x
      <4>1. \A e \in i + 1 .. N : \A y \in m[<<"expr", i + 1, e>>] :
              Token(t, e + 1) \notin Stops("expr") =>
                \E r \in p[<<"expr", i + 1>>] : r[2] = e + 1 /\ V(r[1]) = y
        BY DEF Right
      <4> DEFINE e == j - 1
      <4>2. e \in i + 1 .. N /\ e + 1 = j /\ x \in m[<<"expr", i + 1, e>>]
        BY <3>2, <3>3
      <4> HIDE DEF e, V
      <4>3. QED
        BY <3>5, <4>1, <4>2
    <3>7. q \in Q
      BY <3>4, <3>6
    <3>8. <<q[1], q[2] + 1>> \in F
      BY <2>1, <3>7
    <3>9. QED
      BY <3>6, <3>8
  <2>6. QED
    BY <2>4, <2>5
<1>8. ASSUME t[i] = "-"
      PROVE  Sound /\ Complete
  <2>1. F = {<<<<"neg", r[1]>>, r[2]>> : r \in p[<<"factor", i + 1>>]}
    <3>1. Token(t, i) = "-"
      BY <1>3, <1>8
    <3>2. QED
      BY <3>1, FactorOf
  <2>2. ASSUME NEW q \in p[<<"factor", i + 1>>]
        PROVE  /\ q[2] \in i + 2 .. N + 1
               /\ q[1] \in u[q[2] - i - 2]
               /\ V(q[1]) \in m[<<"factor", i + 1, q[2] - 1>>]
    <3>1. q[2] \in i + 1 + 1 .. N + 1
      BY <1>2 DEF Fits
    <3>2. q[1] \in u[q[2] - (i + 1) - 1] /\ V(q[1]) \in m[<<"factor", i + 1, q[2] - 1>>]
      BY DEF Right
    <3>3. q[2] - (i + 1) - 1 = q[2] - i - 2 /\ q[2] \in i + 2 .. N + 1
      BY <1>0, <3>1
    <3>4. QED
      BY <3>2, <3>3
  <2>3. ASSUME NEW q \in p[<<"factor", i + 1>>]
        PROVE  /\ <<"neg", q[1]>> \in u[q[2] - i - 1]
               /\ V(<<"neg", q[1]>>) = IF V(q[1]) = NULL THEN NULL ELSE Neg(V(q[1]))
    BY <1>0, <1>4, <2>2, NegTree
  <2>4. \A j : i # j => M(j) = {IF x = NULL THEN NULL ELSE Neg(x) :
                                  x \in m[<<"factor", i + 1, j>>]}
    BY <1>6, <1>8
  <2> HIDE DEF F, M
  <2>5. ASSUME NEW r \in F
        PROVE  r[1] \in u[r[2] - i - 1] /\ V(r[1]) \in M(r[2] - 1)
    <3>1. PICK q \in p[<<"factor", i + 1>>] : r = <<<<"neg", q[1]>>, q[2]>>
      BY <2>1
    <3>2. r[1] = <<"neg", q[1]>> /\ r[2] = q[2]
      BY <3>1
    <3>3. q[2] - 1 # i
      <4>1. q[2] \in i + 2 .. N + 1
        BY <2>2
      <4>2. QED
        BY <1>0, <4>1
    <3>4. V(r[1]) \in M(q[2] - 1)
      BY <2>2, <2>3, <2>4, <3>2, <3>3
    <3>5. QED
      BY <2>3, <3>2, <3>4
  <2>6. ASSUME NEW j \in i .. N, NEW x \in M(j)
        PROVE  \E r \in F : r[2] = j + 1 /\ V(r[1]) = x
    <3>1. i # j
      BY <1>5, <1>6, <1>8, Kinds DEF Ops
    <3>2. PICK y \in m[<<"factor", i + 1, j>>] : x = IF y = NULL THEN NULL ELSE Neg(y)
      BY <2>4, <3>1
    <3>3. j \in i + 1 .. N
      BY <1>0, <3>1
    <3>4. Token(t, j + 1) \notin Stops("factor")
      BY DEF Stops
    <3>5. PICK q \in p[<<"factor", i + 1>>] : q[2] = j + 1 /\ V(q[1]) = y
      BY <3>3, <3>4 DEF Right
    <3>6. <<<<"neg", q[1]>>, q[2]>> \in F
      BY <2>1
    <3>7. V(<<"neg", q[1]>>) = x
      BY <2>3, <3>2, <3>5
    <3>8. QED
      BY <3>5, <3>6, <3>7
  <2>7. QED
    BY <2>5, <2>6
<1>9. ASSUME t[i] \in Names \cup DOMAIN Literal
      PROVE  Sound /\ Complete
  <2>1. PICK a : F = {<<a, i + 1>>} /\ a \in u[0] /\ Atom(t[i], h) = {V(a)}
    <3>1. CASE t[i] \in DOMAIN Literal
      <4>1. F = {<<<<"num", Literal[t[i]]>>, i + 1>>}
        <5>1. Token(t, i) \in DOMAIN Literal
          BY <1>3, <3>1
        <5>2. QED
          BY <5>1, FactorOf
      <4>2. <<"num", Literal[t[i]]>> \in u[0] /\ V(<<"num", Literal[t[i]]>>) = Literal[t[i]]
        <5>1. <<"num", Literal[t[i]]>> \in u[0]
          BY <1>0, <1>4, <3>1, Trees
        <5>2. Evaluate(<<"num", Literal[t[i]]>>, N, g) = Literal[t[i]]
          BY <1>0, <1>4, <3>1, EvaluateLeaf
        <5>3. QED
          BY <5>1, <5>2
      <4>3. Atom(t[i], h) = {Literal[t[i]]}
        BY <3>1 DEF Atom
      <4>4. QED
        BY <4>1, <4>2, <4>3
    <3>2. CASE t[i] \in Names
      <4>1. F = {<<<<"var", t[i]>>, i + 1>>}
        <5>1. Token(t, i) \in Names
          BY <1>3, <3>2
        <5>2. QED
          BY <5>1, FactorOf
      <4>2. /\ <<"var", t[i]>> \in u[0]
            /\ V(<<"var", t[i]>>) = IF t[i] \in DOMAIN g THEN g[t[i]] ELSE NULL
        <5>1. <<"var", t[i]>> \in u[0]
          BY <1>0, <1>4, <3>2, Trees
        <5>2. Evaluate(<<"var", t[i]>>, N, g) = IF t[i] \in DOMAIN g THEN g[t[i]] ELSE NULL
          BY <1>0, <1>4, <3>2, EvaluateLeaf
        <5>3. QED
          BY <5>1, <5>2
      <4>3. t[i] \notin DOMAIN Literal
        BY <3>2, Kinds
      <4>4. Atom(t[i], h) = {IF t[i] \in DOMAIN h THEN h[t[i]] ELSE NULL}
        BY <3>2, <4>3 DEF Atom
      <4>5. /\ t[i] \in DOMAIN g <=> t[i] \in DOMAIN h
            /\ t[i] \in DOMAIN g => g[t[i]] = h[t[i]]
        BY <1>0, <3>2 DEF Reading, SameSamples
      <4>6. QED
        BY <4>1, <4>2, <4>4, <4>5
    <3>3. QED
      BY <1>9, <3>1, <3>2
  <2>2. t[i] # "(" /\ t[i] # "-"
    BY <1>9, Kinds DEF Ops
  <2>3. M(i) = {V(a)} /\ \A j : i # j => M(j) = {}
    BY <1>6, <2>1, <2>2
  <2> HIDE DEF F, M, V
  <2>4. (i + 1) - i - 1 = 0 /\ (i + 1) - 1 = i
    BY <1>0
  <2>5. ASSUME NEW r \in F
        PROVE  r[1] \in u[r[2] - i - 1] /\ V(r[1]) \in M(r[2] - 1)
    <3>1. r[1] = a /\ r[2] = i + 1
      BY <2>1
    <3>2. QED
      BY <2>1, <2>3, <2>4, <3>1
  <2>6. ASSUME NEW j \in i .. N, NEW x \in M(j)
        PROVE  \E r \in F : r[2] = j + 1 /\ V(r[1]) = x
    <3>1. j = i /\ x = V(a)
      BY <2>3
    <3>2. <<a, i + 1>> \in F /\ <<a, i + 1>>[1] = a /\ <<a, i + 1>>[2] = i + 1
      BY <2>1
    <3>3. QED
      BY <3>1, <3>2
  <2>7. QED
    BY <2>5, <2>6
<1>10. ASSUME t[i] \notin {"(", "-"} \cup Names \cup DOMAIN Literal
       PROVE  Sound /\ Complete
  <2>1. F = {}
    <3>1. Token(t, i) \notin {"(", "-"} \cup Names \cup DOMAIN Literal
      BY <1>3, <1>10
    <3>2. QED
      BY <3>1, FactorOf
  <2>2. \A j : M(j) = {}
    BY <1>5, <1>6, <1>10
  <2> HIDE DEF F, M
  <2>3. QED
    BY <2>1, <2>2
<1>11. Sound /\ Complete
  BY <1>7, <1>8, <1>9, <1>10
<1> HIDE DEF F, M
<1>12. ASSUME NEW r \in p[<<"factor", i>>]
       PROVE  r[1] \in u[r[2] - i - 1] /\ V(r[1]) \in m[<<"factor", i, r[2] - 1>>]
  <2>1. r[2] \in i + 1 .. N + 1
    BY <1>2 DEF Fits
  <2>2. r[2] - 1 \in i .. N
    BY <1>0, <2>1
  <2>3. QED
    BY <1>1, <1>11, <2>2
<1>13. QED
  BY <1>1, <1>11, <1>12 DEF Right

\* What a loop comes to after any number of turns is right, as far as it goes.
LEMMA TurnsSound ==
  ASSUME NEW t \in Seq(STRING), NEW p, NEW u, NEW g, NEW m, NEW h, Reading(t, p, u, g, m, h),
         NEW i \in 1 .. Len(t), NEW rule, NEW operand \in Rules, NEW ops \in SUBSET Ops,
         NEW a, Turns(a, p, t, operand, ops, i), Advances(a, t, ops, i),
         \A j \in i .. Len(t) :
           m[<<rule, i, j>>] = ChainMeans(m, t, rule, operand, ops, i, j),
         \A k \in i .. Len(t) + 1 : Right(p, u, m, t, g, operand, k)
  PROVE  \A n \in 0 .. Len(t) : \A r \in a[n] :
           /\ r[1] \in u[r[2] - i - 1]
           /\ Evaluate(r[1], Len(t), g) \in m[<<rule, i, r[2] - 1>>]
<1> DEFINE N == Len(t)
           V(x) == Evaluate(x, N, g)
           Good(r) == r[1] \in u[r[2] - i - 1] /\ V(r[1]) \in m[<<rule, i, r[2] - 1>>]
           S == {n \in Nat : n <= N => \A r \in a[n] : Good(r)}
<1>0. N \in Nat /\ i \in Nat /\ i >= 1 /\ i <= N /\ i \in i .. N + 1
  OBVIOUS
<1>1. Levels(u, N) /\ Ast(N) = u[N]
  BY DEF Reading
<1>2. 0 \in S
  <2>1. 0 \in 0 .. N /\ a[0] = p[<<operand, i>>]
    BY <1>0 DEF Turns
  <2>2. ASSUME NEW r \in a[0]
        PROVE  Good(r)
    <3>1. r[2] \in i + 1 .. N + 1
      BY <2>1 DEF Advances
    <3>2. r[2] - 1 \in i .. N
      BY <1>0, <3>1
    <3>3. r[1] \in u[r[2] - i - 1] /\ V(r[1]) \in m[<<operand, i, r[2] - 1>>]
      BY <1>0, <2>1 DEF Right
    <3>4. V(r[1]) \in ChainMeans(m, t, rule, operand, ops, i, r[2] - 1)
      BY <3>3 DEF ChainMeans
    <3>5. m[<<rule, i, r[2] - 1>>] = ChainMeans(m, t, rule, operand, ops, i, r[2] - 1)
      BY <3>2
    <3> HIDE DEF V
    <3>6. QED
      BY <3>3, <3>4, <3>5
  <2> HIDE DEF Good
  <2>3. QED
    BY <2>2
<1>3. ASSUME NEW n \in Nat, n \in S
      PROVE  n + 1 \in S
  <2>1. SUFFICES ASSUME n + 1 <= N
                 PROVE  \A r \in a[n + 1] : Good(r)
    OBVIOUS
  <2>2. n \in 0 .. N /\ n + 1 \in 1 .. N /\ (n + 1) - 1 = n
    BY <1>0, <2>1
  <2>3. \A s \in a[n] : Good(s)
    BY <1>3, <2>2
  <2>4. a[n + 1] = UNION {Turn(p, t, operand, ops, s) : s \in a[n]}
    BY <2>2 DEF Turns
  <2>5. ASSUME NEW r \in a[n + 1]
        PROVE  Good(r)
    <3>1. PICK s \in a[n] : r \in Turn(p, t, operand, ops, s)
      BY <2>4
    <3> DEFINE k == s[2]
    <3>2. CASE Token(t, k) \notin ops
      <4>1. r = s
        BY <3>1, <3>2 DEF Turn
      <4> HIDE DEF Good
      <4>2. QED
        BY <2>3, <4>1
    <3>3. CASE Token(t, k) \in ops
      <4>1. PICK q \in p[<<operand, k + 1>>] : r = <<<<t[k], s[1], q[1]>>, q[2]>>
        BY <3>1, <3>3, TurnOf
      <4> DEFINE e == q[2]
      <4>2. k \in i + 1 .. N + 1
        BY <2>2 DEF Advances
      <4>3. k \in Nat /\ k <= N /\ Token(t, k) = t[k]
        <5>1. k \in Nat /\ Token(t, k) \in Ops
          BY <1>0, <3>3, <4>2
        <5>2. QED
          BY <5>1, OpToken
      <4>4. k + 1 \in 1 .. N + 1 /\ k + 1 \in i .. N + 1 /\ k \in i + 1 .. N
        BY <1>0, <4>2, <4>3
      <4>5. e \in k + 2 .. N + 1
        <5>1. Fits(p, t, operand, k + 1)
          BY <4>4 DEF Reading
        <5>2. e \in k + 1 + 1 .. N + 1
          BY <4>1, <5>1 DEF Fits
        <5>3. QED
          BY <4>3, <5>2
      <4>6. q[1] \in u[e - (k + 1) - 1] /\ V(q[1]) \in m[<<operand, k + 1, e - 1>>]
        BY <4>1, <4>4 DEF Right
      <4>7. s[1] \in u[k - i - 1] /\ V(s[1]) \in m[<<rule, i, k - 1>>]
        BY <2>3
      <4>8. t[k] \in ops /\ t[k] \in Ops
        BY <3>3, <4>3
      <4>9. r[1] = <<t[k], s[1], q[1]>> /\ r[2] = e
        BY <4>1
      <4> DEFINE x == s[1]
                 y == q[1]
                 op == t[k]
      <4> HIDE DEF e, k, V
      <4>10. /\ e - (k + 1) - 1 = e - k - 2
             /\ e - 1 \in i .. N /\ k \in i + 1 .. (e - 1) - 1
        BY <1>0, <4>4, <4>5
      <4>11. x \in u[k - i - 1] /\ y \in u[e - k - 2] /\ op \in Ops /\ op \in ops
        BY <4>6, <4>7, <4>8, <4>10
      <4>12. /\ V(x) \in m[<<rule, i, k - 1>>] /\ V(y) \in m[<<operand, k + 1, e - 1>>]
             /\ r[1] = <<op, x, y>>
        BY <4>6, <4>7, <4>9
      <4> HIDE DEF x, y, op
      <4>13. <<op, x, y>> \in u[e - i - 1] /\ V(<<op, x, y>>) = Meaning(op, V(x), V(y))
        <5>1. <<op, x, y>> \in u[e - i - 1]
          BY <1>0, <1>1, <4>4, <4>5, <4>11, OpTree
        <5>2. Applies(op, x, y, N, g)
          BY <1>0, <1>1, <4>4, <4>5, <4>11, OpTree
        <5>3. QED
          BY <5>1, <5>2 DEF V, Applies
      <4>14. Meaning(op, V(x), V(y)) \in ChainMeans(m, t, rule, operand, ops, i, e - 1)
        <5>1. LastOperandAt(k, Meaning(op, V(x), V(y)), m, t, rule, operand, i, e - 1)
          BY <4>12 DEF LastOperandAt, op
        <5>2. t[k] \in ops
          BY <4>8
        <5>3. QED
          BY <4>10, <5>1, <5>2, ChainMember
      <4>15. m[<<rule, i, e - 1>>] = ChainMeans(m, t, rule, operand, ops, i, e - 1)
        BY <4>10
      <4>16. QED
        BY <4>9, <4>12, <4>13, <4>14, <4>15
    <3>4. QED
      BY <3>2, <3>3
  <2>6. QED
    BY <2>5
<1>4. \A n \in Nat : n \in S
  <2> HIDE DEF S
  <2>1. QED
    BY <1>2, <1>3, Induction
<1>5. QED
  BY <1>0, <1>4

\* Every chain from i that no operator of the operands' own follows is what a loop, whose
\* turns are a, comes to.
ComesTo(a, m, t, g, rule, operand, i) ==
  \A j \in i .. Len(t) : \A x \in m[<<rule, i, j>>] :
    Token(t, j + 1) \notin Stops(operand) =>
      \E n \in 0 .. Len(t) : \E r \in a[n] : r[2] = j + 1 /\ Evaluate(r[1], Len(t), g) = x

\* A loop comes to all of them.
LEMMA TurnsComplete ==
  ASSUME NEW t \in Seq(STRING), NEW p, NEW u, NEW g, NEW m, NEW h, Reading(t, p, u, g, m, h),
         NEW i \in 1 .. Len(t), NEW rule, NEW operand \in Rules, NEW ops \in SUBSET Ops,
         ops \cap Stops(operand) = {},
         NEW a, Turns(a, p, t, operand, ops, i), Advances(a, t, ops, i),
         \A j \in i .. Len(t) :
           m[<<rule, i, j>>] = ChainMeans(m, t, rule, operand, ops, i, j),
         \A k \in i .. Len(t) + 1 : Right(p, u, m, t, g, operand, k)
  PROVE  ComesTo(a, m, t, g, rule, operand, i)
<1> DEFINE N == Len(t)
           V(x) == Evaluate(x, N, g)
           Found(x, j) == \E n \in 0 .. N : \E r \in a[n] : r[2] = j + 1 /\ V(r[1]) = x
           Goal(j) == \A x \in m[<<rule, i, j>>] :
                        Token(t, j + 1) \notin Stops(operand) => Found(x, j)
           S == {d \in Nat : \A j \in i .. N : j = i + d => Goal(j)}
<1>0. N \in Nat /\ i \in Nat /\ i >= 1 /\ i <= N /\ i \in i .. N + 1
  OBVIOUS
<1>1. Levels(u, N) /\ Ast(N) = u[N]
  BY DEF Reading
<1>2. \A n \in 0 .. N : \A r \in a[n] : r[1] \in u[r[2] - i - 1]
  BY TurnsSound
<1>3. ASSUME NEW k \in i .. N + 1, NEW j \in k .. N, NEW x \in m[<<operand, k, j>>],
             Token(t, j + 1) \notin Stops(operand)
      PROVE  \E r \in p[<<operand, k>>] : r[2] = j + 1 /\ V(r[1]) = x
  <2>1. Right(p, u, m, t, g, operand, k)
    OBVIOUS
  <2>2. QED
    BY <1>3, <2>1 DEF Right
<1>4. ASSUME NEW d \in Nat, \A c \in 0 .. d - 1 : c \in S
      PROVE  d \in S
  <2>1. SUFFICES ASSUME NEW j \in i .. N, j = i + d, NEW x \in m[<<rule, i, j>>],
                        Token(t, j + 1) \notin Stops(operand)
                 PROVE  Found(x, j)
    OBVIOUS
  <2>2. x \in ChainMeans(m, t, rule, operand, ops, i, j)
    OBVIOUS
  <2>3. CASE x \in m[<<operand, i, j>>]
    <3>1. PICK r \in p[<<operand, i>>] : r[2] = j + 1 /\ V(r[1]) = x
      BY <1>0, <1>3, <2>1, <2>3
    <3>2. r \in a[0] /\ 0 \in 0 .. N
      BY <1>0 DEF Turns
    <3> HIDE DEF V
    <3>3. QED
      BY <3>1, <3>2
  <2>4. ASSUME NEW k \in i + 1 .. j - 1, t[k] \in ops,
               NEW y \in m[<<rule, i, k - 1>>], NEW z \in m[<<operand, k + 1, j>>],
               x = Meaning(t[k], y, z)
        PROVE  Found(x, j)
    <3>1. /\ k \in i + 1 .. N /\ k \in Nat /\ k <= N /\ k + 1 \in i .. N + 1 /\ j \in k + 1 .. N
          /\ j + 1 \in k + 2 .. N + 1 /\ (k - 1) + 1 = k /\ k - 1 \in i .. N
          /\ k - 1 - i \in 0 .. d - 1 /\ k - 1 = i + (k - 1 - i)
      BY <1>0, <2>1, <2>4
    <3>2. Token(t, k) = t[k]
      BY <3>1 DEF Token
    <3>3. Token(t, k) \notin Stops(operand) /\ Token(t, k) \in ops /\ t[k] \in Ops
      BY <2>4, <3>2
    <3>4. Goal(k - 1)
      <4> HIDE DEF Goal
      <4>1. QED
        BY <1>4, <3>1
    <3>5. Found(y, k - 1)
      <4> HIDE DEF Found
      <4>1. QED
        BY <3>1, <3>3, <3>4
    <3>6. PICK n \in 0 .. N : \E s \in a[n] : s[2] = k /\ V(s[1]) = y
      BY <3>1, <3>5
    <3>7. PICK s \in a[n] : s[2] = k /\ V(s[1]) = y
      BY <3>6
    <3>8. PICK q \in p[<<operand, k + 1>>] : q[2] = j + 1 /\ V(q[1]) = z
      BY <1>3, <2>1, <3>1
    <3> DEFINE r == <<<<t[k], s[1], q[1]>>, q[2]>>
    <3>9. n + 1 \in 1 .. N /\ n + 1 \in 0 .. N /\ (n + 1) - 1 = n
      <4>1. k >= i + 1 + n
        BY <3>3, <3>7 DEF Advances
      <4>2. k \in Nat /\ k <= N /\ n \in Nat
        BY <3>1
      <4>3. QED
        BY <1>0, <4>1, <4>2
    <3>10. r \in a[n + 1]
      <4>1. r \in Turn(p, t, operand, ops, s)
        BY <3>3, <3>7, <3>8 DEF Turn
      <4>2. a[n + 1] = UNION {Turn(p, t, operand, ops, w) : w \in a[n]}
        BY <3>9 DEF Turns
      <4> HIDE DEF r
      <4>3. QED
        BY <4>1, <4>2
    <3>11. V(r[1]) = x
      <4>1. s[1] \in u[k - i - 1]
        BY <1>2, <3>7
      <4>2. q[1] \in u[(j + 1) - k - 2]
        <5>1. Right(p, u, m, t, g, operand, k + 1)
          BY <3>1
        <5>2. q[1] \in u[(j + 1) - (k + 1) - 1]
          <6>1. q[1] \in u[q[2] - (k + 1) - 1]
            BY <5>1 DEF Right
          <6>2. QED
            BY <3>8, <6>1
        <5>3. k \in Nat /\ j \in Nat
          <6>1. k \in Nat
            BY <3>1, Zenon
          <6>2. j \in Nat
            BY <1>0
          <6>3. QED
            BY <6>1, <6>2, Zenon
        <5>4. (j + 1) - (k + 1) - 1 = (j + 1) - k - 2
          BY <5>3
        <5>5. QED
          BY <5>2, <5>4
      <4>3. V(<<t[k], s[1], q[1]>>) = Meaning(t[k], V(s[1]), V(q[1]))
        <5> DEFINE v == s[1]
                   w == q[1]
                   op == t[k]
                   e == j + 1
        <5>1. v \in u[k - i - 1] /\ w \in u[e - k - 2] /\ op \in Ops
          BY <3>3, <4>1, <4>2
        <5>2. k \in i + 1 .. N /\ e \in k + 2 .. N + 1
          BY <3>1
        <5> HIDE DEF v, w, op, e
        <5>3. Applies(op, v, w, N, g)
          BY <1>0, <1>1, <5>1, <5>2, OpTree
        <5>4. QED
          BY <5>3 DEF v, w, op, Applies
      <4>4. r[1] = <<t[k], s[1], q[1]>>
        OBVIOUS
      <4> HIDE DEF V, r
      <4>5. QED
        BY <2>4, <3>7, <3>8, <4>3, <4>4
    <3>12. r[2] = j + 1
      BY <3>8
    <3> HIDE DEF V, r
    <3>13. QED
      BY <3>9, <3>10, <3>11, <3>12
  <2>5. \/ x \in m[<<operand, i, j>>]
        \/ \E k \in i + 1 .. j - 1 :
             t[k] \in ops /\ LastOperandAt(k, x, m, t, rule, operand, i, j)
    BY <2>2, ChainMember
  <2> HIDE DEF Found
  <2>6. QED
    BY <2>3, <2>4, <2>5 DEF LastOperandAt
<1>5. \A d \in Nat : d \in S
  <2> HIDE DEF S
  <2>1. QED
    BY <1>4, StrongInduction
<1>6. ASSUME NEW j \in i .. N
      PROVE  Goal(j)
  <2>1. j - i \in Nat /\ j = i + (j - i)
    BY <1>0
  <2> HIDE DEF Goal
  <2>2. QED
    BY <1>5, <2>1
<1>7. QED
  BY <1>6 DEF ComesTo

\* What is followed by none of a loop's operators stays what the loop has come to.
LEMMA LoopStays ==
  ASSUME NEW t \in Seq(STRING), NEW p, NEW operand, NEW ops, NEW i, NEW a,
         Turns(a, p, t, operand, ops, i), NEW n \in 0 .. Len(t), NEW r \in a[n],
         Token(t, r[2]) \notin ops
  PROVE  r \in a[Len(t)]
<1> DEFINE N == Len(t)
           S == {d \in Nat : n + d <= N => r \in a[n + d]}
<1>0. N \in Nat /\ n \in Nat /\ n <= N
  OBVIOUS
<1>1. 0 \in S
  OBVIOUS
<1>2. ASSUME NEW d \in Nat, d \in S
      PROVE  d + 1 \in S
  <2>1. SUFFICES ASSUME n + (d + 1) <= N
                 PROVE  r \in a[n + (d + 1)]
    OBVIOUS
  <2>2. n + d <= N /\ n + (d + 1) \in 1 .. N /\ (n + (d + 1)) - 1 = n + d
    BY <1>0, <2>1
  <2>3. r \in a[n + d]
    BY <1>2, <2>2
  <2>4. a[n + (d + 1)] = UNION {Turn(p, t, operand, ops, s) : s \in a[n + d]}
    BY <2>2 DEF Turns
  <2>5. r \in Turn(p, t, operand, ops, r)
    BY TurnOf
  <2>6. QED
    BY <2>3, <2>4, <2>5
<1>3. \A d \in Nat : d \in S
  <2> HIDE DEF S
  <2>1. QED
    BY <1>1, <1>2, Induction
<1>4. N - n \in Nat /\ n + (N - n) = N /\ n + (N - n) <= N
  BY <1>0
<1>5. N - n \in S
  BY <1>3, <1>4
<1>6. QED
  BY <1>4, <1>5

\* A rule that is a chain is right at i if its operand is right from i on.
LEMMA RightChain ==
  ASSUME NEW t \in Seq(STRING), NEW p, NEW u, NEW g, NEW m, NEW h, Reading(t, p, u, g, m, h),
         NEW i \in 1 .. Len(t), NEW rule, NEW operand \in Rules, NEW ops \in SUBSET Ops,
         ops \cap Stops(operand) = {}, Stops(rule) = ops \cup Stops(operand),
         p[<<rule, i>>] = Loop(p, t, operand, ops, i),
         \A j \in i .. Len(t) :
           m[<<rule, i, j>>] = ChainMeans(m, t, rule, operand, ops, i, j),
         \A k \in i .. Len(t) + 1 : Right(p, u, m, t, g, operand, k)
  PROVE  Right(p, u, m, t, g, rule, i)
<1> DEFINE N == Len(t)
           V(x) == Evaluate(x, N, g)
<1>0. N \in Nat /\ N \in 0 .. N /\ i \in 1 .. N + 1
  OBVIOUS
<1>1. PICK a : Turns(a, p, t, operand, ops, i) /\ Loop(p, t, operand, ops, i) = a[N]
  BY TurnsExist
<1>2. \A j \in i .. N + 1 : Fits(p, t, operand, j)
  <2>1. \A j \in i .. N + 1 : j \in 1 .. N + 1
    BY <1>0
  <2>2. QED
    BY <2>1 DEF Reading
<1>3. Advances(a, t, ops, i)
  BY <1>0, <1>1, <1>2, LoopEnds
<1>4. \A r \in p[<<rule, i>>] : r[1] \in u[r[2] - i - 1] /\ V(r[1]) \in m[<<rule, i, r[2] - 1>>]
  <2>1. \A n \in 0 .. N : \A r \in a[n] :
          r[1] \in u[r[2] - i - 1] /\ V(r[1]) \in m[<<rule, i, r[2] - 1>>]
    BY <1>1, <1>3, TurnsSound
  <2> HIDE DEF V
  <2>2. QED
    BY <1>0, <1>1, <2>1
<1>5. ASSUME NEW j \in i .. N, NEW x \in m[<<rule, i, j>>], Token(t, j + 1) \notin Stops(rule)
      PROVE  \E r \in p[<<rule, i>>] : r[2] = j + 1 /\ V(r[1]) = x
  <2>1. Token(t, j + 1) \notin Stops(operand) /\ Token(t, j + 1) \notin ops
    BY <1>5
  <2>2. \A e \in i .. N : \A y \in m[<<rule, i, e>>] : Token(t, e + 1) \notin Stops(operand) =>
          \E n \in 0 .. N : \E r \in a[n] : r[2] = e + 1 /\ V(r[1]) = y
    <3>1. ComesTo(a, m, t, g, rule, operand, i)
      BY <1>1, <1>3, TurnsComplete
    <3>2. QED
      BY <3>1 DEF ComesTo
  <2> HIDE DEF V
  <2>3. PICK n \in 0 .. N : \E r \in a[n] : r[2] = j + 1 /\ V(r[1]) = x
    BY <2>1, <2>2
  <2>4. PICK r \in a[n] : r[2] = j + 1 /\ V(r[1]) = x
    BY <2>3
  <2>5. r \in a[N]
    BY <1>1, <2>1, <2>4, LoopStays
  <2>6. QED
    BY <1>1, <2>4, <2>5
<1>6. QED
  BY <1>4, <1>5 DEF Right

\* From the end of the text to its start, every function is right.
LEMMA AllRight ==
  ASSUME NEW t \in Seq(STRING), NEW p, NEW u, NEW g, NEW m, NEW h, Reading(t, p, u, g, m, h)
  PROVE  \A i \in 1 .. Len(t) + 1 : \A rule \in Rules : Right(p, u, m, t, g, rule, i)
<1> DEFINE N == Len(t)
           Here(i) == \A rule \in Rules : Right(p, u, m, t, g, rule, i)
           S == {d \in Nat : \A i \in 1 .. N + 1 : i + d = N + 1 => Here(i)}
<1>0. N \in Nat
  OBVIOUS
<1>1. IsParser(p, t) /\ IsPhrases(m, t, h)
  BY DEF Reading
<1>2. /\ Stops("factor") = {} /\ Stops("term") = {"*", "/"} /\ Stops("expr") = Ops
      /\ {"+", "-"} \cap {"*", "/"} = {} /\ Ops = {"+", "-"} \cup {"*", "/"}
  BY DEF Stops, Ops
<1>3. ASSUME NEW d \in Nat, \A c \in 0 .. d - 1 : c \in S
      PROVE  d \in S
  <2>1. SUFFICES ASSUME NEW i \in 1 .. N + 1, i + d = N + 1
                 PROVE  Here(i)
    OBVIOUS
  <2>2. CASE d = 0
    <3>1. i = N + 1
      BY <1>0, <2>1, <2>2
    <3>2. QED
      BY <3>1, RightAtEnd
  <2>3. CASE d # 0
    <3>1. i \in 1 .. N /\ i \in 1 .. N + 1 /\ i + 1 \in i + 1 .. N + 1
      BY <1>0, <2>1, <2>3
    <3>2. ASSUME NEW k \in i + 1 .. N + 1
          PROVE  Here(k)
      <4>1. N + 1 - k \in 0 .. d - 1 /\ k + (N + 1 - k) = N + 1 /\ k \in 1 .. N + 1
        BY <1>0, <2>1
      <4>2. N + 1 - k \in S
        BY <1>3, <4>1
      <4> HIDE DEF Here
      <4>3. QED
        BY <4>1, <4>2
    <3>3. \A k \in i .. N + 1 : k = i \/ k \in i + 1 .. N + 1
      BY <1>0
    <3>4. Right(p, u, m, t, g, "expr", i + 1) /\ Right(p, u, m, t, g, "factor", i + 1)
      BY <3>1, <3>2, Lower
    <3>5. Right(p, u, m, t, g, "factor", i)
      BY <3>1, <3>4, RightFactor
    <3>6. \A k \in i .. N + 1 : Right(p, u, m, t, g, "factor", k)
      BY <3>2, <3>3, <3>5, Lower
    <3>7. /\ p[<<"expr", i>>] = Loop(p, t, "term", {"+", "-"}, i)
          /\ p[<<"term", i>>] = Loop(p, t, "factor", {"*", "/"}, i)
      BY <1>1, ParserAt
    <3>8. \A j \in i .. N :
            /\ m[<<"expr", i, j>>] = ChainMeans(m, t, "expr", "term", {"+", "-"}, i, j)
            /\ m[<<"term", i, j>>] = ChainMeans(m, t, "term", "factor", {"*", "/"}, i, j)
      <4>1. ASSUME NEW j \in i .. N
            PROVE  /\ m[<<"expr", i, j>>] = ChainMeans(m, t, "expr", "term", {"+", "-"}, i, j)
                   /\ m[<<"term", i, j>>] = ChainMeans(m, t, "term", "factor", {"*", "/"}, i, j)
        BY <1>1, <3>1, PhraseAt
      <4>2. QED
        BY <4>1
    <3>9. Right(p, u, m, t, g, "term", i)
      <4>1. /\ {"*", "/"} \cap Stops("factor") = {}
            /\ Stops("term") = {"*", "/"} \cup Stops("factor")
        BY <1>2
      <4>2. \A j \in i .. N :
              m[<<"term", i, j>>] = ChainMeans(m, t, "term", "factor", {"*", "/"}, i, j)
        BY <3>8
      <4>3. QED
        BY <3>1, <3>6, <3>7, <4>1, <4>2, Lower, RightChain
    <3>10. \A k \in i .. N + 1 : Right(p, u, m, t, g, "term", k)
      BY <3>2, <3>3, <3>9, Lower
    <3>11. Right(p, u, m, t, g, "expr", i)
      <4>1. {"+", "-"} \cap Stops("term") = {} /\ Stops("expr") = {"+", "-"} \cup Stops("term")
        BY <1>2
      <4>2. \A j \in i .. N :
              m[<<"expr", i, j>>] = ChainMeans(m, t, "expr", "term", {"+", "-"}, i, j)
        BY <3>8
      <4>3. QED
        BY <3>1, <3>7, <3>10, <4>1, <4>2, Lower, RightChain
    <3>12. QED
      BY <3>5, <3>9, <3>11, Lower
  <2>4. QED
    BY <2>2, <2>3
<1>4. \A d \in Nat : d \in S
  <2> HIDE DEF S
  <2>1. QED
    BY <1>3, StrongInduction
<1>5. ASSUME NEW i \in 1 .. N + 1
      PROVE  Here(i)
  <2>1. N + 1 - i \in Nat /\ i + (N + 1 - i) = N + 1
    BY <1>0
  <2> HIDE DEF Here
  <2>2. QED
    BY <1>4, <2>1
<1>6. QED
  BY <1>5

\* The parser makes one tree at most of a text, and the values of its trees, evaluated
\* on g, are the meanings the grammar gives the text on h.
LEMMA ParseMeans ==
  ASSUME NEW t \in Seq(STRING), NEW g, NEW h, SameSamples(t, g, h)
  PROVE  /\ \A a, b \in Parse(t) : a = b
         /\ Means(t, h) = {Evaluate(a, Len(t), g) : a \in Parse(t)}
<1> DEFINE N == Len(t)
           V(a) == Evaluate(a, N, g)
           p == Parser(t)
           m == Phrases(t, h)
           Q == {q \in p[<<"expr", 1>>] : q[2] = N + 1}
<1>0. N \in Nat /\ 1 \in 1 .. N + 1
  OBVIOUS
<1>1. PICK u : Levels(u, N) /\ Ast(N) = u[N]
  BY <1>0, LevelsExist
<1>2. Reading(t, p, u, g, m, h)
  BY <1>1, ParserExists, PhrasesExist DEF Reading
<1>3. Parse(t) = {r[1] : r \in Q}
  BY DEF Parse
<1>4. Fits(p, t, "expr", 1)
  BY <1>0, <1>2, Lower DEF Reading
<1>5. Right(p, u, m, t, g, "expr", 1)
  BY <1>0, <1>2, AllRight, Lower
<1> HIDE DEF p, m
<1>6. \A a, b \in Parse(t) : a = b
  BY <1>3, <1>4 DEF Fits
<1>7. CASE t = <<>>
  <2>1. N = 0
    BY <1>7
  <2>2. \A q \in p[<<"expr", 1>>] : q[2] \in 1 + 1 .. N + 1
    BY <1>4 DEF Fits
  <2>3. 1 + 1 .. N + 1 = {}
    BY <2>1
  <2>4. Parse(t) = {}
    BY <1>3, <2>2, <2>3
  <2>5. Means(t, h) = {}
    BY <1>7 DEF Means
  <2>6. QED
    BY <2>4, <2>5
<1>8. CASE t # <<>>
  <2>1. N \in 1 .. N /\ (N + 1) - 1 = N
    BY <1>0, <1>8
  <2>2. Means(t, h) = m[<<"expr", 1, N>>]
    BY <1>8 DEF Means, m
  <2>3. ASSUME NEW a \in Parse(t)
        PROVE  V(a) \in m[<<"expr", 1, N>>]
    <3>1. PICK r \in Q : a = r[1]
      BY <1>3
    <3>2. V(r[1]) \in m[<<"expr", 1, r[2] - 1>>]
      BY <1>5 DEF Right
    <3>3. r[2] - 1 = N
      BY <2>1
    <3> HIDE DEF V
    <3>4. QED
      BY <3>1, <3>2, <3>3
  <2>4. ASSUME NEW x \in m[<<"expr", 1, N>>]
        PROVE  \E a \in Parse(t) : V(a) = x
    <3>1. Token(t, N + 1) = ""
      <4>1. ~ (N + 1 <= N)
        BY <1>0
      <4>2. QED
        BY <4>1 DEF Token
    <3>2. Token(t, N + 1) \notin Stops("expr")
      BY <3>1 DEF Stops, Ops
    <3>3. \E r \in p[<<"expr", 1>>] : r[2] = N + 1 /\ V(r[1]) = x
      BY <1>5, <2>1, <3>2 DEF Right
    <3>4. QED
      BY <1>3, <3>3
  <2> HIDE DEF V
  <2>5. m[<<"expr", 1, N>>] = {V(a) : a \in Parse(t)}
    BY <2>3, <2>4
  <2>6. QED
    BY <1>6, <2>2, <2>5 DEF V
<1>9. QED
  BY <1>6, <1>7, <1>8

\* `Eval` is the one meaning of a text that parses.
LEMMA EvalMeans ==
  ASSUME NEW t \in Seq(STRING), NEW g, NEW h, SameSamples(t, g, h)
  PROVE  /\ Parse(t) = {} => Means(t, h) = {}
         /\ Parse(t) # {} => Means(t, h) = {Eval(t, g)}
<1>1. \A a, b \in Parse(t) : a = b
  BY ParseMeans
<1>2. Means(t, h) = {Evaluate(a, Len(t), g) : a \in Parse(t)}
  BY ParseMeans
<1>3. ASSUME Parse(t) # {}
      PROVE  Means(t, h) = {Eval(t, g)}
  <2> DEFINE a == CHOOSE a \in Parse(t) : TRUE
  <2>1. a \in Parse(t)
    BY <1>3
  <2>2. Eval(t, g) = Evaluate(a, Len(t), g)
    BY <1>3 DEF Eval
  <2> HIDE DEF a
  <2>3. Parse(t) = {a}
    BY <1>1, <2>1
  <2>4. QED
    BY <1>2, <2>2, <2>3
<1>4. QED
  BY <1>2, <1>3

-----------------------------------------------------------------------------
(* The card's value                                                        *)

\* What each phase knows of the text, of the samples and of the value.
FormulaInv ==
  /\ text \in Texts
  /\ phase \in {"loading", "refused", "ready", "asked", "answered", "stored"}
  /\ phase = "refused" => Parse(text) = {}
  /\ phase \notin {"loading", "refused"} => Parse(text) # {}
  /\ asked = IF phase \in {"loading", "refused", "ready"} THEN {} ELSE CollectNeededMetrics(text)
  /\ valueIdx = IF phase \in {"answered", "stored"}
                THEN [n \in asked \cap DOMAIN card |-> card[n]] ELSE <<>>
  /\ value = IF phase = "stored"
             THEN FiniteOrNone(Eval(text, BuildVars(text, valueIdx))) ELSE NULL

\* Every step keeps it.
LEMMA FormulaInvariant == Spec => []FormulaInv
<1>1. Init => FormulaInv
  BY DEF Init, FormulaInv
<1>2. FormulaInv /\ [Next]_vars => FormulaInv'
  <2> SUFFICES ASSUME FormulaInv, [Next]_vars
               PROVE  FormulaInv'
    OBVIOUS
  <2>1. CASE Load
    BY <2>1 DEF FormulaInv, Load
  <2>2. CASE Ask
    BY <2>2 DEF FormulaInv, Ask
  <2>3. CASE Answer
    BY <2>3 DEF FormulaInv, Answer
  <2>4. CASE Store
    BY <2>4 DEF FormulaInv, Store
  <2>5. CASE Over
    BY <2>5 DEF FormulaInv, Over, vars
  <2>6. CASE UNCHANGED vars
    BY <2>6 DEF FormulaInv, vars
  <2>7. QED
    BY <2>1, <2>2, <2>3, <2>4, <2>5, <2>6 DEF Next
<1>3. QED
  BY <1>1, <1>2, PTL DEF Spec

\* The names asked for are metric names, and a value is stored only if finite.
THEOREM TypeCorrect == Spec => []TypeOK
<1>1. FormulaInv => TypeOK
  <2> SUFFICES ASSUME FormulaInv
               PROVE  TypeOK
    OBVIOUS
  <2>1. CollectNeededMetrics(text) \subseteq Names
    BY ExprAssumption DEF CollectNeededMetrics, ExtractVarNames
  <2>2. asked \subseteq Names
    BY <2>1 DEF FormulaInv
  <2>3. DOMAIN valueIdx \subseteq asked \cap DOMAIN card
    <3>1. DOMAIN <<>> = {}
      OBVIOUS
    <3>2. QED
      BY <3>1 DEF FormulaInv
  <2>4. value = NULL \/ IsFinite(value)
    BY DEF FormulaInv, FiniteOrNone
  <2>5. QED
    BY <2>2, <2>3, <2>4 DEF FormulaInv, TypeOK
<1>2. QED
  BY <1>1, FormulaInvariant, PTL

\* The program refuses exactly the texts the grammar does not derive.
THEOREM GrammarAccepted == Spec => []AcceptsTheGrammar
<1>1. FormulaInv => AcceptsTheGrammar
  <2> SUFFICES ASSUME FormulaInv
               PROVE  AcceptsTheGrammar
    OBVIOUS
  <2>1. text \in Seq(STRING)
    BY ExprAssumption DEF FormulaInv
  <2>2. SameSamples(text, <<>>, <<>>)
    BY DEF SameSamples
  <2>3. Means(text, <<>>) = {} <=> Parse(text) = {}
    BY <2>1, <2>2, EvalMeans
  <2>4. QED
    BY <2>3 DEF FormulaInv, AcceptsTheGrammar
<1>2. QED
  BY <1>1, FormulaInvariant, PTL

\* What is stored for a card is the formula's meaning on the card's own samples.
THEOREM FormulaValue == Spec => []ValueOfTheFormula
<1>1. FormulaInv => ValueOfTheFormula
  <2> SUFFICES ASSUME FormulaInv, phase = "stored"
               PROVE  LET given == [n \in DOMAIN card \ FloatNames |-> card[n]]
                      IN {value} = {FiniteOrNone(v) : v \in Means(text, given)}
    BY DEF ValueOfTheFormula
  <2> DEFINE given == [n \in DOMAIN card \ FloatNames |-> card[n]]
             found == BuildVars(text, valueIdx)
  <2>1. text \in Seq(STRING)
    BY ExprAssumption DEF FormulaInv
  <2>2. SameSamples(text, found, given)
    <3>1. asked = CollectNeededMetrics(text)
      BY DEF FormulaInv
    <3>2. valueIdx = [n \in asked \cap DOMAIN card |-> card[n]]
      BY DEF FormulaInv
    <3>3. DOMAIN found = ExtractVarNames(text) \cap DOMAIN card
      BY <3>1, <3>2 DEF BuildVars, CollectNeededMetrics
    <3>4. \A n \in DOMAIN found : found[n] = card[n]
      BY <3>1, <3>2, <3>3 DEF BuildVars, CollectNeededMetrics
    <3>5. ASSUME NEW i \in 1 .. Len(text), text[i] \in Names
          PROVE  /\ text[i] \in DOMAIN found <=> text[i] \in DOMAIN given
                 /\ text[i] \in DOMAIN found => found[text[i]] = given[text[i]]
      <4>1. i \in DOMAIN text
        BY <2>1
      <4>2. text[i] \in ExtractVarNames(text) <=> text[i] \notin FloatNames
        BY <3>5, <4>1 DEF ExtractVarNames
      <4>3. text[i] \in DOMAIN found <=> text[i] \in DOMAIN given
        BY <3>3, <4>2
      <4> HIDE DEF found
      <4>4. QED
        BY <3>4, <4>3
    <3>6. QED
      BY <3>5 DEF SameSamples
  <2>3. Parse(text) # {} /\ value = FiniteOrNone(Eval(text, found))
    BY DEF FormulaInv
  <2> HIDE DEF given, found
  <2>4. Means(text, given) = {Eval(text, found)}
    BY <2>1, <2>2, <2>3, EvalMeans
  <2>5. {value} = {FiniteOrNone(v) : v \in Means(text, given)}
    BY <2>3, <2>4
  <2>6. QED
    BY <2>5 DEF given
<1>2. QED
  BY <1>1, FormulaInvariant, PTL
=============================================================================
