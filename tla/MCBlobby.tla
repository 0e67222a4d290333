------------------------------ MODULE MCBlobby ------------------------------
(* Blobby with values of 1 bit per byte, so that quantities of 1, 2, 3 and *)
(* 4 bytes begin at 0, 2, 6 and 14, and 30 is too big.                     *)
EXTENDS Wycheproof

(* The blobs the sort treats specially, two that sort by their bytes, and  *)
(* lengths whose numbers take up to 4 bytes or do not fit.                 *)
MCBlobs ==
    {<<>>, <<0>>, <<1>>, <<3>>, <<3, 0>>,
     [i \in 1..7 |-> 1], [i \in 1..15 |-> 0]}

MCFields == {"key", "iv", "aad", "msg", "ct", "tag", "ikm", "salt", "info", "okm", "sig"}

(* The fields of one case differ where a mix-up could go unseen, and share *)
(* blobs with each other, with the other case and with the result bytes.   *)
Plain == [f \in MCFields |->
    CASE f \in {"key", "ikm"} -> <<0, 1>> [] f \in {"iv", "salt"} -> <<1>>
      [] f \in {"aad", "info"} -> <<>>    [] f = "msg" -> <<3, 0>>
      [] f \in {"ct", "okm"} -> <<3>>     [] f = "tag" -> <<0>> [] f = "sig" -> <<2, 3>>]
Other == [f \in MCFields |->
    CASE f \in {"key", "ikm"} -> <<0, 1>> [] f \in {"iv", "salt"} -> <<3>>
      [] f \in {"aad", "info"} -> <<1>>   [] f = "msg" -> <<>>
      [] f \in {"ct", "okm"} -> <<0>>     [] f = "tag" -> <<3, 0>> [] f = "sig" -> <<0>>]

First == {[result |-> r, data |-> Plain] : r \in Results}
Second == {[result |-> r, data |-> Other] : r \in Results}
Group(key_size, iv_size, consistent, tests) ==
    [key_size |-> key_size, iv_size |-> iv_size, consistent |-> consistent, tests |-> tests,
     key |-> IF key_size = 128 THEN <<<<1, 0>>, <<2>>>> ELSE <<<<2>>, <<0>>>>]

(* Up to two cases in one group, or one in each of two.                    *)
Tests == {<<>>} \cup {<<t>> : t \in First} \cup {<<t, t>> : t \in First}
            \cup {<<t, u>> : t \in First, u \in Second}
MCSuites ==
    {[algorithm |-> TRUE, groups |-> <<Group(k, i, TRUE, ts)>>] :
        k \in {128, 256}, i \in {96, 192}, ts \in Tests}
    \cup {[algorithm |-> a, groups |-> <<Group(128, 96, c, <<t>>)>>] :
        a \in BOOLEAN, c \in BOOLEAN, t \in First}
    \cup {[algorithm |-> TRUE,
           groups |-> <<Group(k, 96, TRUE, <<t>>), Group(256, i, TRUE, <<u>>)>>] :
        k \in {128, 256}, i \in {96, 192}, t \in First, u \in Second}
=============================================================================
