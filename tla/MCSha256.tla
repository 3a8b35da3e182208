------------------------------ MODULE MCSha256 ------------------------------
(* An instance of Sha256: blocks of 8 bytes with a length field of 2. *)
EXTENDS Sha256

Weights == [k \in {0, 1} |-> 16 ^ k]

\* Pieces of every length that matters against a block of 8, and one that is
\* as long as the loop index has values.
Pieces == {<<>>, <<1>>, <<2, 3, 4>>,  <<1, 2, 3, 4, 5, 6, 7, 8>>, <<1, 2, 3, 4, 5, 6, 7, 8, 9>>}
=============================================================================
