------------------------------- MODULE MCExpr ------------------------------
(* All short texts over every kind of token, and longer ones over few.      *)
EXTENDS Expr, SequencesExt

ThreeNames == {"A", "B", "inf"}
Numerals == [tok \in {"2", "0"} |-> IF tok = "2" THEN <<2, 1>> ELSE <<0, 1>>]

\* "1.2.3" is a number that does not parse, ":" a character of no token.
AnyToken == ThreeNames \cup DOMAIN Numerals \cup
            {"+", "-", "*", "/", "(", ")", "1.2.3", ":"}
FewTokens == {"A", "-", "/", "(", ")"}

\* Four operands and the operators between them.
Chains == {<<a[1], o[1], a[2], o[2], a[3], o[3], a[4]>> :
             a \in [1 .. 4 -> {"A", "B"}], o \in [1 .. 3 -> {"+", "-", "*", "/"}]}

ShortAndLong == BoundedSeq(AnyToken, 4) \cup BoundedSeq(FewTokens, 6) \cup Chains

SampleValues == {<<0, 1>>, <<-1, 1>>, <<3, 1>>}
=============================================================================
