--------------------------- MODULE MCRandomBytes ---------------------------
(* An instance of RandomBytes with one-bit bytes, so that the fourth byte   *)
(* of the counter matters after eight blocks.                               *)
EXTENDS RandomBytes

Weights == [k \in {0, 1} |-> 2 ^ k]
SeedOf(v, last) == [k \in Index |-> IF k = BLOCK - 1 THEN last ELSE v]

\* One of each kind differ only in a byte that is never read.
Strong == {SeedOf(1, 1), SeedOf(3, 3)}
Weak == {SeedOf(4, 4), SeedOf(1, 2)}
=============================================================================
