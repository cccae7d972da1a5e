------------------------------ MODULE MCAirdude ------------------------------
(* Airdude with two boards built alike or not.                             *)
EXTENDS Airdude, TLC

CONSTANTS b1, b2

Mixes == {<<"plain", "plain">>, <<"plain", "signed">>, <<"crypt", "crypt">>,
          <<"crypt", "foreign">>}

Builds == {(b1 :> m[1]) @@ (b2 :> m[2]) : m \in Mixes}
          \cup {(b1 :> m[2]) @@ (b2 :> m[1]) : m \in Mixes}

Symmetry == Permutations(Board)
==============================================================================
