---------------------------- MODULE MCHexLiteral ----------------------------
(* Instances of HexLiteral: groups that are empty, that hold one or two    *)
(* literals or something else, and that hold a group.                      *)
EXTENDS HexLiteral

Token(k, ts) == [kind |-> k, stream |-> ts]
Text == Token("string", <<>>)
Other == Token("other", <<>>)
Holding(ts) == Token("group", ts)

MCTokens ==
    {Text, Other, Holding(<<>>), Holding(<<Text>>), Holding(<<Text, Text>>),
     Holding(<<Text, Other>>), Holding(<<Holding(<<Text>>)>>)}
=============================================================================
