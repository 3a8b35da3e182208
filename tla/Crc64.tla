------------------------------- MODULE Crc64 -------------------------------
(***************************************************************************)
(* The CRC-64 of redis/src/crc64.c and the tables that crcspeed.c makes of *)
(* it.  A word is the set of its bits that are 1: xor is the symmetric     *)
(* difference, and & an intersection.                                      *)
(*                                                                         *)
(* The widths are constants; the code has words of 64 and bytes of 8 bits. *)
(* crc_reflect returns `rest`, which it does not declare: ret is meant.    *)
(***************************************************************************)
EXTENDS Integers, Sequences, FiniteSets

CONSTANTS W, BYTE,      \* bits of a word and of a byte
          Polys         \* values of POLY

ASSUME WidthsOK ==
    /\ BYTE \in Nat \ {0} /\ W \in Nat \ {0} /\ W % (4 * BYTE) = 0
    /\ Polys \subseteq SUBSET (0 .. (W - 1))

Word == SUBSET (0 .. (W - 1))
Bytes == SUBSET (0 .. (BYTE - 1))
Slices == 0 .. (W \div BYTE - 1)

Xor(a, b) == (a \ b) \cup (b \ a)
Left(a, s) == {b + s : b \in a} \cap (0 .. (W - 1))
Right(a, s) == {b - s : b \in a} \cap (0 .. (W - 1))

crc_reflect(data, data_len) == {data_len - 1 - b : b \in data \cap 0 .. (data_len - 1)}

\* Mutant: the bits of a byte are taken from the highest.
takes_bit_high(c, i) == BYTE - 1 - i \in c

\* Bit i of the byte turns the bit that leaves the register.
takes_bit(c, i) == i \in c

crc_bit(POLY, crc, c, i) ==
    IF (W - 1 \in crc) # takes_bit(c, i) THEN Xor(Left(crc, 1), POLY) ELSE Left(crc, 1)

crc_byte(POLY, crc, c) ==
    LET bits[i \in 0 .. BYTE] ==
            IF i = 0 THEN crc ELSE crc_bit(POLY, bits[i - 1], c, i - 1)
    IN  bits[BYTE]

\* The register after all of data: the parameter crc goes into it as it is.
crc_bytes(POLY, crc, data) ==
    LET done[j \in 0 .. Len(data)] ==
            IF j = 0 THEN crc ELSE crc_byte(POLY, done[j - 1], data[j])
    IN  done[Len(data)]

\* The result is reflected.
_crc64(POLY, crc, data) == crc_reflect(crc_bytes(POLY, crc, data), W)

\* What a bit counts in an int, and the bits of one.
BitValue[b \in 0 .. BYTE] == IF b = 0 THEN 1 ELSE 2 * BitValue[b - 1]
Bits(m) == {b \in 0 .. (BYTE - 1) : (m \div BitValue[b]) % 2 = 1}

VARIABLES poly, little,         \* the polynomial, the order of bytes in memory
          stage, n, table

crcVars == <<poly, little, stage, n, table>>

\* The byte at the address of the int n: its highest one on a big-endian machine.
first_byte == IF little THEN Bits(n) ELSE {}

CrcInit ==
    /\ poly \in Polys /\ little \in BOOLEAN
    /\ stage = "first" /\ n = 0
    /\ table = [k \in Slices |-> [c \in Bytes |-> {}]]

Loop(next) == IF n + 1 < BitValue[BYTE] THEN n' = n + 1 /\ UNCHANGED stage
              ELSE n' = 0 /\ stage' = next

FirstSlice ==
    /\ stage = "first"
    /\ table' = [table EXCEPT ![0][Bits(n)] = _crc64(poly, {}, <<first_byte>>)]
    /\ Loop("others")
    /\ UNCHANGED <<poly, little>>

\* Mutant: the byte that is shifted out is not looked up.
shift_only(crc) == Right(crc, BYTE)
shift_byte(crc) == Xor(table[0][crc \cap 0 .. (BYTE - 1)], Right(crc, BYTE))

OtherSlices ==
    /\ stage = "others"
    /\ LET row[k \in Slices] ==
               IF k = 0 THEN table[0][Bits(n)] ELSE shift_byte(row[k - 1])
       IN  table' = [k \in Slices |-> [table[k] EXCEPT ![Bits(n)] = row[k]]]
    /\ Loop(IF little THEN "done" ELSE "swap")
    /\ UNCHANGED <<poly, little>>

\* Mutant: bytes are swapped as the name says.
rev8_real(a) == {W - BYTE * (b \div BYTE + 1) + (b % BYTE) : b \in a}

\* rev8: line 7 loses the argument, and line 8 has the mask of line 5.
EvenBytes == {b \in 0 .. (W - 1) : (b \div BYTE) % 2 = 0}
EvenPairs == {b \in 0 .. (W - 1) : (b \div (2 * BYTE)) % 2 = 0}
rev8(a) ==
    LET swapped == (Right(EvenPairs, 2 * BYTE) \cap EvenBytes)
                     \cup Left(EvenPairs \cap EvenBytes, 2 * BYTE)
    IN  Right(swapped, W \div 2) \cup Left(swapped, W \div 2)

\* The tables of a big-endian machine, a slice at a time.
Swap ==
    /\ stage = "swap"
    /\ table' = [table EXCEPT ![n] = [c \in Bytes |-> rev8(table[n][c])]]
    /\ IF n + 1 \in Slices THEN n' = n + 1 /\ UNCHANGED stage ELSE n' = 0 /\ stage' = "done"
    /\ UNCHANGED <<poly, little>>

CrcNext == FirstSlice \/ OtherSlices \/ Swap
CrcSpec == CrcInit /\ [][CrcNext]_crcVars
-----------------------------------------------------------------------------
\* The remainder of x^e modulo the polynomial POLY, the sum of those of the
\* exponents in E, and the CRC of a message as the sum for its bits, the first
\* one in the highest place.
Times_x(POLY, r) == LET up == {b + 1 : b \in r \ {W - 1}}
                    IN  IF W - 1 \in r THEN Xor(up, POLY) ELSE up
PowerOf_x(POLY, e) ==
    LET x[k \in 0 .. e] == IF k < W THEN {k} ELSE Times_x(POLY, x[k - 1])
    IN  x[e]

Sum(POLY, E) ==
    {b \in 0 .. (W - 1) : Cardinality({e \in E : b \in PowerOf_x(POLY, e)}) % 2 = 1}

Ones(data) == UNION {{BYTE * (j - 1) + b : b \in data[j]} : j \in DOMAIN data}
Exponents(data) == {W + BYTE * Len(data) - 1 - u : u \in Ones(data)}

Crc(POLY, data) == crc_reflect(Sum(POLY, Exponents(data)), W)
Zeros(k) == [j \in 1 .. k |-> {}]

\* _crc64 divides by the polynomial (crc64.c:19-41).  A message in two calls
\* is divided as one if the first result is reflected back in between; passed
\* on as it is, with a polynomial that ends in 1, as POLY does, it is so only
\* if its bits happen to read the same from both ends.
DividesByPoly ==
    stage = "first" /\ n = 0 =>
        \A a, b \in Bytes :
            LET crc == _crc64(poly, {}, <<a>>)
            IN  /\ _crc64(poly, {}, <<a, b>>) = Crc(poly, <<a, b>>)
                /\ _crc64(poly, crc_reflect(crc, W), <<b>>) = Crc(poly, <<a, b>>)
                /\ 0 \in poly =>
                      (_crc64(poly, crc, <<b>>) = Crc(poly, <<a, b>>) <=> crc_reflect(crc, W) = crc)

\* Slice k holds the CRC of a byte that k zeros follow, so that the CRC of a
\* word is the xor of one entry of each slice (crcspeed.c:12-24).
TableOfCrcs ==
    stage = "done" /\ little =>
        \A k \in Slices, c \in Bytes : table[k][c] = Crc(poly, <<c>> \o Zeros(k))

\* A big-endian machine gets a table that tells no two messages apart: every
\* byte that is looked up first is 0 (crcspeed.c:15), and then rev8 forgets
\* its argument (crcspeed.c:7).
BigEndianTableBlank ==
    ~little => \A k \in Slices, c \in Bytes :
                   /\ stage \in {"first", "others", "swap"} /\ n = 0 => table[k][c] = {}
                   /\ stage = "done" => table[k][c] = table[0][{}] /\ table[k][c] # {}
=============================================================================
