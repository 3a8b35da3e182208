---------------------------- MODULE Sha256Proofs ----------------------------
(***************************************************************************)
(* Proofs about Sha256, for every block size, message and way to split it, *)
(* and about RandomBytes, which is made of its digests, for blocks, seeds  *)
(* and calls of every size.                                                *)
(***************************************************************************)
EXTENDS Sha256, RandomBytes, CommonLemmas, TLAPS

LEMMA Sizes ==
    /\ BLOCK \in Nat /\ BLOCK > 0
    /\ LENGTH \in Nat /\ LENGTH > 0 /\ LENGTH < BLOCK
    /\ PAD \in Nat /\ PAD > 0 /\ PAD < BLOCK
    /\ BYTE_MOD \in Nat /\ BYTE_MOD > 1
    /\ 0 \in Byte /\ MARK \in Byte
    /\ BITLEN_MOD \in Nat /\ BITLEN_MOD > 0
<1>1. /\ BLOCK \in Nat /\ BLOCK > 0
      /\ LENGTH \in Nat /\ LENGTH > 0 /\ LENGTH < BLOCK
      /\ BYTE_MOD \in Nat /\ BYTE_MOD > 1
  BY SizesOK
<1>2. PAD \in Nat /\ PAD > 0 /\ PAD < BLOCK
  BY <1>1 DEF PAD
<1>3. 0 \in Byte /\ MARK \in Byte
  BY <1>1 DEF Byte, MARK
<1>4. WEIGHT[LENGTH - 1] \in Nat /\ WEIGHT[LENGTH - 1] > 0
  BY <1>1, SizesOK
<1>5. BITLEN_MOD \in Nat /\ BITLEN_MOD > 0
  BY <1>1, <1>4, SizesOK
<1> QED BY <1>1, <1>2, <1>3, <1>5

LEMMA WordsType ==
    ASSUME NEW V, NEW d \in [Index -> V]
    PROVE  Words(d) \in [WordIndex -> V \X V \X V \X V]
<1>1. ASSUME NEW w \in WordIndex
      PROVE  4 * w \in Index /\ 4 * w + 1 \in Index /\ 4 * w + 2 \in Index
  BY Sizes, SizesOK DEF WordIndex, Index
<1>2. ASSUME NEW w \in WordIndex
      PROVE  <<d[4 * w], d[4 * w + 1], d[4 * w + 2], d[4 * w]>>
                 \in V \X V \X V \X V
  BY <1>1, <1>2
<1> QED BY <1>2 DEF Words

-----------------------------------------------------------------------------
WordBlock(V) == [WordIndex -> V \X V \X V \X V]

\* A context whose data may be full.
Filling(V) == [data : [Index -> V], datalen : 0 .. BLOCK,
            bitlen : 0 .. (BITLEN_MOD - 1), state : Seq(WordBlock(V))]

LEMMA ContextFilling == \A V : Context(V) \subseteq Filling(V)
BY Sizes DEF Context, Filling, Index, WordBlock

\* sha256_transform adds the words of data to the state, and nothing else.
LEMMA TransformAppends ==
    ASSUME NEW V, NEW c \in Filling(V)
    PROVE  /\ sha256_transform(c) =
                [data |-> c.data, datalen |-> c.datalen, bitlen |-> c.bitlen,
                 state |-> Append(c.state, Words(c.data))]
           /\ Append(c.state, Words(c.data)) \in Seq(WordBlock(V))
           /\ Len(Append(c.state, Words(c.data))) = Len(c.state) + 1
           /\ Append(c.state, Words(c.data))[Len(c.state) + 1] = Words(c.data)
           /\ \A b \in 1 .. Len(c.state) :
                 Append(c.state, Words(c.data))[b] = c.state[b]
<1>1. Words(c.data) \in WordBlock(V)
  BY WordsType DEF Filling, WordBlock
<1>2. c.state \in Seq(WordBlock(V))
  BY DEF Filling
<1>3. c = [data |-> c.data, datalen |-> c.datalen, bitlen |-> c.bitlen,
           state |-> c.state]
  BY DEF Filling
<1>4. sha256_transform(c) =
        [data |-> c.data, datalen |-> c.datalen, bitlen |-> c.bitlen,
         state |-> Append(c.state, Words(c.data))]
  BY <1>3 DEF sha256_transform
<1> QED BY <1>1, <1>2, <1>4

\* One round of the loop of sha256_update keeps the types.
LEMMA AbsorbType ==
    ASSUME NEW V, NEW c \in Context(V), NEW byte \in V
    PROVE  absorb(c, byte) \in Context(V)
<1> DEFINE d == [c.data EXCEPT ![c.datalen] = byte]
<1>1. /\ c.data \in [Index -> V] /\ d \in [Index -> V]
      /\ c.datalen \in Nat /\ c.datalen < BLOCK
      /\ c.bitlen \in Nat /\ c.bitlen \in 0 .. (BITLEN_MOD - 1)
      /\ c.state \in Seq(WordBlock(V))
  BY Sizes DEF Context, Index, WordBlock
<1>2. store(c, byte) =
        [data |-> d, datalen |-> c.datalen + 1, bitlen |-> c.bitlen, state |-> c.state]
  <2>1. c = [data |-> c.data, datalen |-> c.datalen, bitlen |-> c.bitlen,
             state |-> c.state]
    BY DEF Context
  <2>2. store(c, byte) = [c EXCEPT !.data = d, !.datalen = c.datalen + 1]
    BY <2>1 DEF store
  <2> HIDE DEF d
  <2> QED BY <2>1, <2>2
<1> HIDE DEF d
<1>3. CASE c.datalen + 1 # BLOCK
  BY <1>1, <1>2, <1>3, Sizes DEF absorb, Context, Index, WordBlock
<1>4. CASE c.datalen + 1 = BLOCK
  <2>1. store(c, byte) \in Filling(V)
    BY <1>1, <1>2, <1>4, Sizes DEF Filling
  <2>2. PICK s : s = store(c, byte) /\ s \in Filling(V) /\ s.state = c.state
                 /\ s.data = d /\ s.bitlen = c.bitlen /\ s.datalen = BLOCK
    BY <1>2, <1>4, <2>1
  <2>3. PICK st \in Seq(WordBlock(V)) : sha256_transform(s) =
          [data |-> d, datalen |-> BLOCK, bitlen |-> c.bitlen, state |-> st]
    BY <2>2, TransformAppends
  <2>4. PICK t : t = sha256_transform(s)
    OBVIOUS
  <2>5. absorb(c, byte) =
          [t EXCEPT !.bitlen = (@ + 8 * BLOCK) % BITLEN_MOD, !.datalen = 0]
    BY <1>4, <2>2, <2>4 DEF absorb, flush
  <2>6. absorb(c, byte) =
          [data |-> d, datalen |-> 0,
           bitlen |-> (c.bitlen + 8 * BLOCK) % BITLEN_MOD, state |-> st]
    <3>1. t = [data |-> d, datalen |-> BLOCK, bitlen |-> c.bitlen, state |-> st]
      BY <2>3, <2>4
    <3> QED BY <2>5, <3>1
  <2>7. (c.bitlen + 8 * BLOCK) % BITLEN_MOD \in 0 .. (BITLEN_MOD - 1)
    <3>1. c.bitlen + 8 * BLOCK \in Int
      BY <1>1, Sizes
    <3> QED BY <3>1, Sizes
  <2> QED BY <1>1, <2>6, <2>7, Sizes DEF Context, Index, WordBlock
<1> QED BY <1>3, <1>4

\* The fields of a context, and how much one holds.
LEMMA ContextIs ==
    ASSUME NEW V, NEW c \in Context(V)
    PROVE  /\ c.data \in [Index -> V] /\ c.datalen \in Index
           /\ c.datalen \in Nat /\ c.datalen < BLOCK
           /\ c.bitlen \in 0 .. (BITLEN_MOD - 1) /\ c.bitlen \in Nat
           /\ c.state \in Seq(WordBlock(V)) /\ Len(c.state) \in Nat
           /\ BLOCK * Len(c.state) \in Nat
<1>1. /\ c.data \in [Index -> V] /\ c.datalen \in Index
      /\ c.bitlen \in 0 .. (BITLEN_MOD - 1)
      /\ c.state \in Seq(WordBlock(V))
  BY DEF Context, WordBlock
<1>2. PICK q \in Nat : q = Len(c.state)
  BY <1>1
<1>3. BLOCK * q \in Nat
  BY Sizes
<1> QED BY <1>1, <1>2, <1>3, Sizes DEF Index

\* One round of the loop of sha256_update takes in the next byte.
LEMMA AbsorbHolds ==
    ASSUME NEW V, NEW c \in Context(V), NEW m \in Seq(V), NEW n \in Nat, n < Len(m),
           Holds(c, m, n)
    PROVE  /\ absorb(c, m[n + 1]) \in Context(V)
           /\ Holds(absorb(c, m[n + 1]), m, n + 1)
<1> DEFINE byte == m[n + 1]
           d == [c.data EXCEPT ![c.datalen] = byte]
<1>1. byte \in V
  OBVIOUS
<1>2. /\ c.data \in [Index -> V] /\ c.datalen \in Index
      /\ c.datalen \in Nat /\ c.datalen < BLOCK
      /\ c.bitlen \in 0 .. (BITLEN_MOD - 1) /\ c.bitlen \in Nat
      /\ c.state \in Seq(WordBlock(V)) /\ Len(c.state) \in Nat
      /\ BLOCK * Len(c.state) \in Nat
      /\ n = BLOCK * Len(c.state) + c.datalen
  <2>1. n = BLOCK * Len(c.state) + c.datalen
    BY DEF Holds
  <2> QED BY <2>1, ContextIs
<1>3. PICK L \in Nat : L = BLOCK * Len(c.state)
  BY <1>2
<1>4. d \in [Index -> V]
  BY <1>1, <1>2
<1>5. \A k \in 0 .. c.datalen : d[k] = m[L + k + 1]
  <2>1. \A k \in 0 .. (c.datalen - 1) : c.data[k] = m[L + k + 1]
    BY <1>3 DEF Holds
  <2>2. d[c.datalen] = m[L + c.datalen + 1]
    BY <1>2, <1>3
  <2>3. \A k \in 0 .. (c.datalen - 1) : d[k] = c.data[k]
    BY <1>2, Sizes DEF Index
  <2>4. \A k \in 0 .. c.datalen : k \in 0 .. (c.datalen - 1) \/ k = c.datalen
    BY <1>2
  <2> HIDE DEF d
  <2> QED BY <2>1, <2>2, <2>3, <2>4
<1>6. store(c, byte) =
        [data |-> d, datalen |-> c.datalen + 1, bitlen |-> c.bitlen,
         state |-> c.state]
  <2>1. c = [data |-> c.data, datalen |-> c.datalen, bitlen |-> c.bitlen,
             state |-> c.state]
    BY DEF Context
  <2>2. store(c, byte) = [c EXCEPT !.data = d, !.datalen = c.datalen + 1]
    BY <2>1 DEF store
  <2> HIDE DEF d
  <2> QED BY <2>1, <2>2
<1> HIDE DEF d, byte
<1>7. CASE c.datalen + 1 # BLOCK
  <2>1. absorb(c, byte) = store(c, byte)
    BY <1>7 DEF absorb
  <2>2. store(c, byte) \in Context(V)
    BY <1>2, <1>4, <1>6, <1>7, Sizes DEF Context, Index, WordBlock
  <2>3. Holds(store(c, byte), m, n + 1)
    <3>1. n + 1 = L + (c.datalen + 1)
      BY <1>2, <1>3
    <3>2. \A k \in 0 .. ((c.datalen + 1) - 1) : d[k] = m[L + k + 1]
      BY <1>2, <1>5
    <3>3. /\ store(c, byte).data = d /\ store(c, byte).datalen = c.datalen + 1
          /\ store(c, byte).bitlen = c.bitlen /\ store(c, byte).state = c.state
      BY <1>6
    <3> QED BY <1>3, <3>1, <3>2, <3>3 DEF Holds
  <2> QED BY <2>1, <2>2, <2>3 DEF byte
<1>8. CASE c.datalen + 1 = BLOCK
  <2> DEFINE s == store(c, byte)
             st == Append(c.state, Words(d))
             bits == (c.bitlen + 8 * BLOCK) % BITLEN_MOD
  <2>1. /\ s \in Filling(V)
        /\ s.data = d /\ s.datalen = BLOCK /\ s.bitlen = c.bitlen /\ s.state = c.state
    BY <1>2, <1>4, <1>6, <1>8, Sizes DEF Filling
  <2>2. /\ sha256_transform(s) =
              [data |-> d, datalen |-> BLOCK, bitlen |-> c.bitlen, state |-> st]
        /\ st \in Seq(WordBlock(V))
        /\ Len(st) = Len(c.state) + 1
        /\ st[Len(c.state) + 1] = Words(d)
        /\ \A b \in 1 .. Len(c.state) : st[b] = c.state[b]
    <3> HIDE DEF s
    <3> QED BY <2>1, TransformAppends
  <2> HIDE DEF s, st
  <2>3. absorb(c, byte) = [data |-> d, datalen |-> 0, bitlen |-> bits, state |-> st]
    <3>1. PICK t : t = sha256_transform(s)
      OBVIOUS
    <3>2. absorb(c, byte) =
            [t EXCEPT !.bitlen = (@ + 8 * BLOCK) % BITLEN_MOD, !.datalen = 0]
      BY <1>8, <3>1 DEF absorb, flush, s
    <3>3. t = [data |-> d, datalen |-> BLOCK, bitlen |-> c.bitlen, state |-> st]
      BY <2>2, <3>1
    <3> QED BY <3>2, <3>3
  <2>4. bits \in 0 .. (BITLEN_MOD - 1)
    <3>1. c.bitlen + 8 * BLOCK \in Int
      BY <1>2, Sizes
    <3> QED BY <3>1, Sizes
  <2>5. bits = (8 * (BLOCK * Len(st))) % BITLEN_MOD
    <3>1. 8 * L \in Nat /\ 8 * BLOCK \in Nat
      BY <1>3, Sizes
    <3>2. BLOCK * Len(st) = L + BLOCK
      <4>1. PICK q \in Nat : q = Len(c.state)
        BY <1>2
      <4>2. BLOCK * (q + 1) = BLOCK * q + BLOCK
        BY Sizes
      <4> QED BY <1>3, <2>2, <4>1, <4>2
    <3>3. 8 * (BLOCK * Len(st)) = 8 * L + 8 * BLOCK
      <4>1. PICK x \in Nat : x = BLOCK * Len(st) /\ x = L + BLOCK
        BY <3>2, Sizes
      <4>2. 8 * x = 8 * L + 8 * BLOCK
        BY <4>1, Sizes
      <4> QED BY <4>1, <4>2
    <3>4. c.bitlen = (8 * L) % BITLEN_MOD
      BY <1>3 DEF Holds
    <3>5. (((8 * L) % BITLEN_MOD) + 8 * BLOCK) % BITLEN_MOD
            = (8 * L + 8 * BLOCK) % BITLEN_MOD
      <4>1. PICK x \in Nat, y \in Nat : x = 8 * L /\ y = 8 * BLOCK
        BY <3>1
      <4>2. BITLEN_MOD \in Nat \ {0}
        BY Sizes
      <4>3. ((x % BITLEN_MOD) + y) % BITLEN_MOD = (x + y) % BITLEN_MOD
        BY <4>2, AddModulo
      <4> QED BY <4>1, <4>3
    <3> QED BY <3>3, <3>4, <3>5
  <2>6. BLOCK * Len(st) = n + 1
    <3>1. PICK q \in Nat : q = Len(c.state)
      BY <1>2
    <3>2. BLOCK * (q + 1) = BLOCK * q + BLOCK
      BY Sizes
    <3> QED BY <1>2, <1>3, <1>8, <2>2, <3>1, <3>2
  <2>7. ASSUME NEW b \in 1 .. Len(st)
        PROVE  st[b] = Words([k \in Index |-> m[BLOCK * (b - 1) + k + 1]])
    <3>1. CASE b \in 1 .. Len(c.state)
      BY <2>2, <3>1 DEF Holds
    <3>2. CASE b = Len(c.state) + 1
      <4>1. BLOCK * (b - 1) = L
        BY <1>2, <1>3, <3>2
      <4>2. \A k \in Index : d[k] = m[BLOCK * (b - 1) + k + 1]
        BY <1>2, <1>5, <1>8, <4>1, Sizes DEF Index
      <4>3. d = [k \in Index |-> m[BLOCK * (b - 1) + k + 1]]
        BY <1>4, <4>2
      <4> QED BY <2>2, <3>2, <4>3
    <3> QED BY <1>2, <2>2, <3>1, <3>2
  <2> HIDE DEF bits
  <2>8. absorb(c, byte) \in Context(V)
    BY <1>4, <2>2, <2>3, <2>4, Sizes DEF Context, Index, WordBlock
  <2>9. Holds(absorb(c, byte), m, n + 1)
    <3>1. /\ absorb(c, byte).datalen = 0 /\ absorb(c, byte).bitlen = bits
          /\ absorb(c, byte).state = st
      BY <2>3
    <3>2. n + 1 = BLOCK * Len(st) + 0
      BY <2>6
    <3>3. \A k \in 0 .. (0 - 1) : absorb(c, byte).data[k] = m[BLOCK * Len(st) + k + 1]
      OBVIOUS
    <3> QED BY <2>5, <2>7, <3>1, <3>2, <3>3 DEF Holds
  <2> QED BY <2>8, <2>9 DEF byte
<1> QED BY <1>7, <1>8
-----------------------------------------------------------------------------
LEMMA LengthByteType ==
    ASSUME NEW bits \in Nat, NEW k \in 0 .. (LENGTH - 1)
    PROVE  LengthByte(bits, k) \in Byte
<1>1. WEIGHT[k] \in Nat \ {0}
  BY SizesOK
<1>2. bits \div WEIGHT[k] \in Int
  BY <1>1
<1>3. PICK x \in Int : x = bits \div WEIGHT[k]
  BY <1>2
<1>4. x % BYTE_MOD \in 0 .. (BYTE_MOD - 1)
  BY Sizes
<1> QED BY <1>3, <1>4 DEF LengthByte, Byte

\* The blocks of a message: one more than it fills, or two when the mark
\* and the length do not fit behind its last bytes.
LEMMA PaddedLengthIs ==
    ASSUME NEW q \in Nat, NEW r \in Index
    PROVE  /\ PaddedLength(BLOCK * q + r)
                = BLOCK * q + (IF r < PAD THEN BLOCK ELSE 2 * BLOCK)
           /\ PaddedLength(BLOCK * q + r) \div BLOCK = IF r < PAD THEN q + 1 ELSE q + 2
<1>1. /\ BLOCK \in Nat \ {0} /\ LENGTH \in Nat /\ LENGTH < BLOCK
      /\ r \in Nat /\ r < BLOCK /\ PAD = BLOCK - LENGTH
  BY Sizes DEF Index, PAD
<1>2. ASSUME NEW x \in Nat
      PROVE  (BLOCK * x + 0) \div BLOCK = x
  BY <1>1, <1>2, DivisionUnique
<1>3. BLOCK * q \in Nat /\ BLOCK * (q + 1) = BLOCK * q + BLOCK
      /\ BLOCK * (q + 2) = BLOCK * q + 2 * BLOCK
  BY <1>1
<1>4. CASE r < PAD
  <2>1. r + LENGTH \in 0 .. (BLOCK - 1)
    BY <1>1, <1>4
  <2>2. (BLOCK * q + (r + LENGTH)) \div BLOCK = q
    BY <1>1, <2>1, DivisionUnique
  <2>3. (BLOCK * q + r) + LENGTH = BLOCK * q + (r + LENGTH)
    BY <1>1, <1>3
  <2>4. PaddedLength(BLOCK * q + r) = BLOCK * (q + 1)
    BY <2>2, <2>3 DEF PaddedLength
  <2>5. PaddedLength(BLOCK * q + r) = BLOCK * (q + 1) + 0
    BY <1>1, <1>3, <2>4
  <2> QED BY <1>2, <1>3, <1>4, <2>4, <2>5
<1>5. CASE ~(r < PAD)
  <2>1. (r + LENGTH) - BLOCK \in 0 .. (BLOCK - 1)
    BY <1>1, <1>5
  <2>2. (BLOCK * (q + 1) + ((r + LENGTH) - BLOCK)) \div BLOCK = q + 1
    BY <1>1, <2>1, DivisionUnique
  <2>3. (BLOCK * q + r) + LENGTH = BLOCK * (q + 1) + ((r + LENGTH) - BLOCK)
    BY <1>1, <1>3
  <2>4. PaddedLength(BLOCK * q + r) = BLOCK * (q + 2)
    BY <2>2, <2>3 DEF PaddedLength
  <2>5. PaddedLength(BLOCK * q + r) = BLOCK * (q + 2) + 0
    BY <1>1, <1>3, <2>4
  <2> QED BY <1>2, <1>3, <1>5, <2>4, <2>5
<1> QED BY <1>4, <1>5

\* What DigestOfMessage says of a context.
DigestIs(c, m) ==
    /\ Len(c.state) = PaddedLength(Len(m)) \div BLOCK
    /\ \A b \in 1 .. Len(c.state) : c.state[b] = Words(PaddedBlock(m, b))

LEMMA PutLength ==
    ASSUME NEW V, Byte \subseteq V, NEW c \in Context(V), NEW bits \in 0 .. (BITLEN_MOD - 1)
    PROVE  LET d == [k \in Index |-> IF k < PAD THEN c.data[k]
                                     ELSE LengthByte(bits, BLOCK - 1 - k)]
           IN  /\ d \in [Index -> V]
               /\ put_length(c, bits) =
                    [data |-> d, datalen |-> c.datalen, bitlen |-> bits, state |-> c.state]
               /\ put_length(c, bits) \in Context(V)
<1> DEFINE d == [k \in Index |-> IF k < PAD THEN c.data[k]
                                 ELSE LengthByte(bits, BLOCK - 1 - k)]
<1>1. ASSUME NEW k \in Index PROVE d[k] \in V
  <2>1. CASE k < PAD
    BY <2>1 DEF Context
  <2>2. CASE ~(k < PAD)
    <3>1. BLOCK - 1 - k \in 0 .. (LENGTH - 1) /\ bits \in Nat
      BY <2>2, Sizes DEF Index, PAD
    <3>2. LengthByte(bits, BLOCK - 1 - k) \in Byte
      BY <3>1, LengthByteType
    <3> QED BY <2>2, <3>2
  <2> QED BY <2>1, <2>2
<1>2. d \in [Index -> V]
  BY <1>1
<1>3. put_length(c, bits) = [c EXCEPT !.bitlen = bits, !.data = d]
  BY DEF put_length
<1> HIDE DEF d
<1>4. put_length(c, bits) =
        [data |-> d, datalen |-> c.datalen, bitlen |-> bits, state |-> c.state]
  BY <1>3 DEF Context
<1>5. put_length(c, bits) \in Context(V)
  BY <1>2, <1>4 DEF Context
<1> QED BY <1>2, <1>4, <1>5 DEF d

LEMMA MarkAndClear ==
    ASSUME NEW V, Byte \subseteq V, NEW c \in Context(V), NEW end \in Nat
    PROVE  /\ mark_and_clear(c, end) \in Context(V)
           /\ mark_and_clear(c, end).state = c.state
           /\ \A k \in Index : mark_and_clear(c, end).data[k] =
                 IF k = c.datalen THEN MARK
                 ELSE IF k > c.datalen /\ k < end THEN 0 ELSE c.data[k]
<1> DEFINE d == [k \in Index |-> IF k = c.datalen THEN MARK
                                 ELSE IF k > c.datalen /\ k < end THEN 0
                                 ELSE c.data[k]]
<1>1. d \in [Index -> V]
  BY Sizes DEF Context
<1>2. mark_and_clear(c, end) = [c EXCEPT !.data = d]
  BY DEF mark_and_clear
<1>3. \A k \in Index : d[k] = IF k = c.datalen THEN MARK
                              ELSE IF k > c.datalen /\ k < end THEN 0 ELSE c.data[k]
  OBVIOUS
<1> HIDE DEF d
<1>4. mark_and_clear(c, end) =
        [data |-> d, datalen |-> c.datalen, bitlen |-> c.bitlen, state |-> c.state]
  BY <1>2 DEF Context
<1>5. mark_and_clear(c, end) \in Context(V)
  BY <1>1, <1>4 DEF Context
<1> QED BY <1>3, <1>4, <1>5

\* The padded message from the last, unfinished block of the message on.
LastBlocks(m, L, r, end, j) ==
    IF j < r THEN m[L + j + 1]
    ELSE IF j = r THEN MARK
    ELSE IF j < end - LENGTH THEN 0
    ELSE LengthByte((8 * Len(m)) % BITLEN_MOD, end - 1 - j)

LEMMA PaddedTail ==
    ASSUME NEW V, NEW m \in Seq(V), NEW L \in Nat, NEW r \in Index, Len(m) = L + r,
           NEW end \in Nat, PaddedLength(Len(m)) = L + end, NEW j \in 0 .. (end - 1)
    PROVE  PaddedByte(m, L + j) = LastBlocks(m, L, r, end, j)
<1>1. r \in Nat /\ LENGTH \in Nat /\ j \in Nat
  BY Sizes DEF Index
<1>2. /\ L + j < Len(m) <=> j < r
      /\ L + j = Len(m) <=> j = r
      /\ L + j < PaddedLength(Len(m)) - LENGTH <=> j < end - LENGTH
      /\ PaddedLength(Len(m)) - 1 - (L + j) = end - 1 - j
  BY <1>1
<1> QED BY <1>2 DEF PaddedByte, LastBlocks

\* A whole block of the message is a block of the padded message.
LEMMA BlockOfMessage ==
    ASSUME NEW V, NEW m \in Seq(V), NEW q \in Nat, NEW r \in Nat,
           Len(m) = BLOCK * q + r, NEW b \in 1 .. q
    PROVE  [k \in Index |-> m[BLOCK * (b - 1) + k + 1]] = PaddedBlock(m, b)
<1>1. PICK e \in Nat : e = q - b
  OBVIOUS
<1>2. /\ BLOCK * (b - 1) \in Nat /\ BLOCK * e \in Nat
      /\ BLOCK * q = BLOCK * (b - 1) + BLOCK * e + BLOCK
  <2>1. b - 1 \in Nat /\ BLOCK * (b - 1) \in Nat /\ BLOCK * e \in Nat
    BY Sizes
  <2>2. q = ((b - 1) + e) + 1
    BY <1>1
  <2>3. BLOCK * (((b - 1) + e) + 1) = BLOCK * (b - 1) + BLOCK * e + BLOCK
    BY <2>1, Sizes
  <2> QED BY <2>1, <2>2, <2>3
<1>3. ASSUME NEW k \in Index
      PROVE  PaddedByte(m, BLOCK * (b - 1) + k) = m[BLOCK * (b - 1) + k + 1]
  <2>1. PICK x \in Nat : x = BLOCK * (b - 1)
    BY <1>2
  <2>2. x + k < Len(m)
    BY <1>2, <2>1, Sizes DEF Index
  <2> QED BY <2>1, <2>2 DEF PaddedByte
<1> QED BY <1>3 DEF PaddedBlock

\* sha256_final on a context that holds the message leaves its digest.
LEMMA FinalDigest ==
    ASSUME NEW V, Byte \subseteq V, NEW c \in Context(V), NEW m \in Seq(V), Holds(c, m, Len(m))
    PROVE  sha256_final(c) \in Context(V) /\ DigestIs(sha256_final(c), m)
<1>1. PICK q \in Nat, r \in Index, L \in Nat :
        /\ q = Len(c.state) /\ r = c.datalen /\ L = BLOCK * q
        /\ Len(m) = L + r
  BY ContextIs DEF Holds
<1>20. Len(m) = L + r
  BY <1>1
<1>2. r \in Nat /\ r < BLOCK /\ BLOCK = PAD + LENGTH
  BY Sizes DEF Index, PAD
<1>3. \A k \in Index : k \in Nat /\ k < BLOCK
  BY Sizes DEF Index
<1> DEFINE bits == (8 * Len(m)) % BITLEN_MOD
<1>4. /\ (c.bitlen + 8 * c.datalen) % BITLEN_MOD = bits
      /\ bits \in 0 .. (BITLEN_MOD - 1)
  <2>1. PICK x \in Nat, y \in Nat : x = 8 * L /\ y = 8 * r
    BY <1>1, <1>2
  <2>2. c.bitlen = x % BITLEN_MOD /\ BITLEN_MOD \in Nat \ {0}
    <3>1. c.bitlen = (8 * (BLOCK * Len(c.state))) % BITLEN_MOD
      BY DEF Holds
    <3>2. BLOCK * Len(c.state) = L
      BY <1>1
    <3>3. c.bitlen = x % BITLEN_MOD
      BY <2>1, <3>1, <3>2, Zenon
    <3> QED BY <3>3, Sizes
  <2>3. ((x % BITLEN_MOD) + y) % BITLEN_MOD = (x + y) % BITLEN_MOD
    BY <2>2, AddModulo
  <2>4. x + y = 8 * Len(m)
    BY ONLY <1>2, <1>20, <2>1, L \in Nat
  <2>5. (x + y) % BITLEN_MOD \in 0 .. (BITLEN_MOD - 1)
    BY <2>2
  <2> QED BY <1>1, <2>1, <2>2, <2>3, <2>4, <2>5
<1> HIDE DEF bits
<1>5. /\ PaddedLength(Len(m)) = L + (IF r < PAD THEN BLOCK ELSE 2 * BLOCK)
      /\ PaddedLength(Len(m)) \div BLOCK = IF r < PAD THEN q + 1 ELSE q + 2
  BY <1>1, PaddedLengthIs
<1>6. \A k \in 0 .. (r - 1) : c.data[k] = m[L + k + 1]
  BY <1>1 DEF Holds
<1>7. ASSUME NEW b \in 1 .. q PROVE c.state[b] = Words(PaddedBlock(m, b))
  <2>1. c.state[b] = Words([k \in Index |-> m[BLOCK * (b - 1) + k + 1]])
    BY <1>1 DEF Holds
  <2>2. [k \in Index |-> m[BLOCK * (b - 1) + k + 1]] = PaddedBlock(m, b)
    BY <1>1, <1>2, BlockOfMessage
  <2> QED BY <2>1, <2>2
<1>8. \A b \in Nat : b = q + 1 => BLOCK * (b - 1) = L
  BY <1>1
<1>9. \A b \in Nat : b = q + 2 => BLOCK * (b - 1) = L + BLOCK
  BY <1>1, Sizes
<1>10. CASE r < PAD
  <2> DEFINE c1 == mark_and_clear(c, PAD)
             c2 == put_length(c1, bits)
  <2>20. ASSUME NEW k \in Index
         PROVE  PaddedByte(m, L + k) =
                  IF k < r THEN m[L + k + 1] ELSE IF k = r THEN MARK
                  ELSE IF k < PAD THEN 0 ELSE LengthByte(bits, BLOCK - 1 - k)
    <3>1. PaddedLength(Len(m)) = L + BLOCK
      BY <1>5, <1>10
    <3>2. k \in 0 .. (BLOCK - 1)
      BY DEF Index
    <3>3. BLOCK \in Nat
      BY Sizes
    <3>4. PaddedByte(m, L + k) = LastBlocks(m, L, r, BLOCK, k)
      BY ONLY <1>20, <3>1, <3>2, <3>3, PaddedTail,
         m \in Seq(V), L \in Nat, r \in Index, Zenon
    <3> QED BY <3>4 DEF bits, PAD, LastBlocks
  <2>1. /\ c1 \in Context(V) /\ c1.state = c.state
        /\ \A k \in Index : c1.data[k] = IF k = r THEN MARK
                                         ELSE IF k > r /\ k < PAD THEN 0 ELSE c.data[k]
    <3>1. PAD \in Nat /\ BLOCK \in Nat
      BY Sizes
    <3> QED BY <1>1, <3>1, MarkAndClear
  <2> HIDE DEF c1
  <2>2. /\ c2 \in Context(V) /\ c2.state = c.state
        /\ \A k \in Index : c2.data[k] = IF k < PAD THEN c1.data[k]
                                         ELSE LengthByte(bits, BLOCK - 1 - k)
    BY <1>4, <2>1, PutLength
  <2> HIDE DEF c2
  <2>3. sha256_final(c) = sha256_transform(c2)
    BY <1>1, <1>4, <1>10 DEF sha256_final, pad, c1, c2
  <2>4. c2.data = PaddedBlock(m, q + 1)
    <3>1. ASSUME NEW k \in Index PROVE c2.data[k] = PaddedByte(m, L + k)
      BY <1>2, <1>3, <1>6, <1>10, <2>1, <2>2, <2>20, Sizes
    <3>2. PaddedBlock(m, q + 1) = [k \in Index |-> PaddedByte(m, L + k)]
      BY <1>8 DEF PaddedBlock
    <3>3. c2.data \in [Index -> V]
      BY <2>2 DEF Context
    <3> QED BY <3>1, <3>2, <3>3
  <2>5. c2 \in Filling(V)
    BY <2>2, ContextFilling
  <2> DEFINE st == Append(c2.state, Words(c2.data))
  <2>6. /\ sha256_transform(c2) = [data |-> c2.data, datalen |-> c2.datalen,
                                   bitlen |-> c2.bitlen, state |-> st]
        /\ st \in Seq(WordBlock(V)) /\ Len(st) = q + 1
        /\ st[q + 1] = Words(PaddedBlock(m, q + 1))
        /\ \A b \in 1 .. q : st[b] = c.state[b]
    BY <1>1, <2>2, <2>4, <2>5, TransformAppends
  <2> HIDE DEF st
  <2>7. sha256_final(c) \in Context(V)
    BY <2>2, <2>3, <2>6 DEF Context, WordBlock
  <2>8. \A b \in 1 .. (q + 1) : st[b] = Words(PaddedBlock(m, b))
    BY <1>7, <2>6
  <2>9. DigestIs(sha256_final(c), m)
    BY <1>5, <1>10, <2>3, <2>6, <2>8 DEF DigestIs
  <2> QED BY <2>7, <2>9
<1>11. CASE ~(r < PAD)
  <2> DEFINE c1 == mark_and_clear(c, BLOCK)
             st1 == Append(c1.state, Words(c1.data))
             c2 == new_block(c1)
             c3 == put_length(c2, bits)
             st == Append(c3.state, Words(c3.data))
  <2>20. ASSUME NEW j \in 0 .. (2 * BLOCK - 1)
         PROVE  PaddedByte(m, L + j) =
                  IF j < r THEN m[L + j + 1] ELSE IF j = r THEN MARK
                  ELSE IF j < BLOCK + PAD THEN 0
                  ELSE LengthByte(bits, 2 * BLOCK - 1 - j)
    <3>1. PaddedLength(Len(m)) = L + 2 * BLOCK
      BY <1>5, <1>11
    <3>2. 2 * BLOCK - LENGTH = BLOCK + PAD /\ 2 * BLOCK \in Nat
      BY Sizes DEF PAD
    <3>3. PICK e \in Nat : e = 2 * BLOCK
      BY <3>2
    <3>4. PaddedByte(m, L + j) = LastBlocks(m, L, r, e, j)
      <4>1. PaddedLength(Len(m)) = L + e /\ j \in 0 .. (e - 1)
        BY <3>1, <3>3
      <4> QED BY ONLY <1>20, <4>1, PaddedTail, e \in Nat,
              m \in Seq(V), L \in Nat, r \in Index, Zenon
    <3> QED BY <3>2, <3>3, <3>4 DEF bits, LastBlocks
  <2>1. /\ c1 \in Context(V) /\ c1.state = c.state
        /\ \A k \in Index : c1.data[k] = IF k = r THEN MARK
                                         ELSE IF k > r /\ k < BLOCK THEN 0 ELSE c.data[k]
    <3>1. PAD \in Nat /\ BLOCK \in Nat
      BY Sizes
    <3> QED BY <1>1, <3>1, MarkAndClear
  <2> HIDE DEF c1
  <2>2. c1.data = PaddedBlock(m, q + 1)
    <3>1. ASSUME NEW k \in Index PROVE c1.data[k] = PaddedByte(m, L + k)
      <4>1. k \in 0 .. (2 * BLOCK - 1)
        BY <1>3, Sizes
      <4>2. k < BLOCK + PAD
        BY <1>3, Sizes
      <4>3. k < r => c.data[k] = m[L + k + 1]
        <5>1. k \in Nat /\ r \in Nat
          BY <1>2, <1>3
        <5>2. k < r => k \in 0 .. (r - 1)
          BY ONLY <5>1
        <5> QED BY ONLY <1>6, <5>2, Zenon
      <4> QED BY <1>2, <1>3, <2>1, <2>20, <4>1, <4>2, <4>3
    <3>2. PaddedBlock(m, q + 1) = [k \in Index |-> PaddedByte(m, L + k)]
      BY <1>8 DEF PaddedBlock
    <3>3. c1.data \in [Index -> V]
      BY <2>1 DEF Context
    <3> QED BY <3>1, <3>2, <3>3
  <2>3. /\ sha256_transform(c1) = [data |-> c1.data, datalen |-> c1.datalen,
                                   bitlen |-> c1.bitlen, state |-> st1]
        /\ st1 \in Seq(WordBlock(V)) /\ Len(st1) = q + 1
        /\ st1[q + 1] = Words(PaddedBlock(m, q + 1))
        /\ \A b \in 1 .. q : st1[b] = c.state[b]
    <3>1. c1 \in Filling(V)
      BY <2>1, ContextFilling
    <3> QED BY <1>1, <2>1, <2>2, <3>1, TransformAppends
  <2> HIDE DEF st1
  <2>4. /\ c2 \in Context(V) /\ c2.state = st1
        /\ \A k \in Index : c2.data[k] = IF k < PAD THEN 0 ELSE c1.data[k]
    <3> DEFINE d == [k \in Index |-> IF k < PAD THEN 0 ELSE c1.data[k]]
    <3>1. d \in [Index -> V]
      BY <2>1, Sizes DEF Context
    <3>2. PICK t : t = sha256_transform(c1)
      OBVIOUS
    <3>3. c2 = [t EXCEPT !.data = d]
      BY <3>2 DEF new_block
    <3>4. \A k \in Index : d[k] = IF k < PAD THEN 0 ELSE c1.data[k]
      OBVIOUS
    <3> HIDE DEF d, c2
    <3>5. c2 = [data |-> d, datalen |-> c1.datalen, bitlen |-> c1.bitlen,
                state |-> st1]
      BY <2>3, <3>2, <3>3
    <3> QED BY <2>1, <2>3, <3>1, <3>4, <3>5 DEF Context, WordBlock
  <2> HIDE DEF c2
  <2>5. /\ c3 \in Context(V) /\ c3.state = st1
        /\ \A k \in Index : c3.data[k] = IF k < PAD THEN c2.data[k]
                                         ELSE LengthByte(bits, BLOCK - 1 - k)
    BY <1>4, <2>4, PutLength
  <2> HIDE DEF c3
  <2>6. sha256_final(c) = sha256_transform(c3)
    BY <1>1, <1>4, <1>11 DEF sha256_final, pad, c1, c2, c3
  <2>7. c3.data = PaddedBlock(m, q + 2)
    <3>1. ASSUME NEW k \in Index PROVE c3.data[k] = PaddedByte(m, (L + BLOCK) + k)
      <4>1. /\ BLOCK + k \in 0 .. (2 * BLOCK - 1) /\ (L + BLOCK) + k = L + (BLOCK + k)
            /\ ~(BLOCK + k < r) /\ BLOCK + k # r
            /\ BLOCK + k < BLOCK + PAD <=> k < PAD
            /\ 2 * BLOCK - 1 - (BLOCK + k) = BLOCK - 1 - k
        BY <1>2, <1>3, Sizes
      <4> QED BY <2>4, <2>5, <2>20, <4>1
    <3>2. PaddedBlock(m, q + 2) = [k \in Index |-> PaddedByte(m, (L + BLOCK) + k)]
      BY <1>9 DEF PaddedBlock
    <3>3. c3.data \in [Index -> V]
      BY <2>5 DEF Context
    <3> QED BY <3>1, <3>2, <3>3
  <2>8. /\ sha256_transform(c3) = [data |-> c3.data, datalen |-> c3.datalen,
                                   bitlen |-> c3.bitlen, state |-> st]
        /\ st \in Seq(WordBlock(V)) /\ Len(st) = q + 2
        /\ st[q + 2] = Words(PaddedBlock(m, q + 2))
        /\ \A b \in 1 .. (q + 1) : st[b] = st1[b]
    <3>1. c3 \in Filling(V)
      BY <2>5, ContextFilling
    <3> QED BY <2>3, <2>5, <2>7, <3>1, TransformAppends
  <2> HIDE DEF st
  <2>9. sha256_final(c) \in Context(V)
    BY <2>5, <2>6, <2>8 DEF Context, WordBlock
  <2>10. \A b \in 1 .. (q + 2) : st[b] = Words(PaddedBlock(m, b))
    BY <1>7, <2>3, <2>8
  <2>11. DigestIs(sha256_final(c), m)
    BY <1>5, <1>11, <2>6, <2>8, <2>10 DEF DigestIs
  <2> QED BY <2>9, <2>11
<1> QED BY <1>10, <1>11

\* The words of a block do not show its fourth bytes.
LEMMA WordsSkipFourth ==
    ASSUME NEW d, NEW v
    PROVE  Words([k \in Index |-> IF k % 4 = 3 THEN v ELSE d[k]]) = Words(d)
<1> DEFINE e == [k \in Index |-> IF k % 4 = 3 THEN v ELSE d[k]]
<1>1. ASSUME NEW w \in WordIndex
      PROVE  e[4 * w] = d[4 * w] /\ e[4 * w + 1] = d[4 * w + 1]
             /\ e[4 * w + 2] = d[4 * w + 2]
  <2>1. w \in Int /\ 4 * w \in Index /\ 4 * w + 1 \in Index /\ 4 * w + 2 \in Index
    BY Sizes, SizesOK DEF WordIndex, Index
  <2>2. (4 * w) % 4 = 0 /\ (4 * w + 1) % 4 = 1 /\ (4 * w + 2) % 4 = 2
    BY <2>1
  <2> QED BY <2>1, <2>2
<1> HIDE DEF e
<1>2. Words(e) = Words(d)
  BY <1>1 DEF Words
<1> QED BY <1>2 DEF e

-----------------------------------------------------------------------------
\* The buffer in progress is the end of what was given.
BufferIsGiven ==
    /\ given \in Seq(Byte) /\ buf \in Seq(Byte) /\ Len(buf) <= Len(given)
    /\ \A k \in 1 .. Len(buf) : buf[k] = given[Len(given) - Len(buf) + k]
    /\ pc # "update" => buf = <<>> /\ i = 0

IInv == TypeOK /\ BufferIsGiven /\ AbsorbedSoFar /\ DigestOfMessage

LEMMA InitIInv == Init => IInv
<1> SUFFICES ASSUME Init PROVE IInv
  OBVIOUS
<1>1. PICK g \in Garbage :
        ctx = [data |-> [k \in Index |-> g], datalen |-> 0, bitlen |-> 0, state |-> <<>>]
  BY DEF Init
<1>2. ctx \in Context(Byte)
  BY <1>1, CallsOK, Sizes DEF Context, Index
<1>3. TypeOK
  BY <1>2, CallsOK DEF Init, TypeOK
<1> QED BY <1>3 DEF Init, IInv, BufferIsGiven, AbsorbedSoFar, DigestOfMessage

LEMMA NextIInv == IInv /\ [Next]_vars => IInv'
<1> SUFFICES ASSUME IInv, [Next]_vars PROVE IInv'
  OBVIOUS
<1> USE DEF IInv
<1>1. CASE InitCall
  <2>1. ctx' = [data |-> ctx.data, datalen |-> 0, bitlen |-> 0, state |-> <<>>]
    BY <1>1 DEF InitCall, sha256_init, TypeOK, Context
  <2>2. TypeOK' /\ BufferIsGiven'
    BY <1>1, <2>1, Sizes DEF InitCall, TypeOK, BufferIsGiven, Context, Index
  <2>3. Holds(ctx, given, 0)'
    <3>1. (8 * (BLOCK * 0)) % BITLEN_MOD = 0
      BY Sizes
    <3> QED BY <1>1, <2>1, <3>1, Sizes DEF InitCall, Holds
  <2>4. AbsorbedSoFar' /\ DigestOfMessage'
    BY <1>1, <2>3, CallsOK DEF InitCall, AbsorbedSoFar, DigestOfMessage, BufferIsGiven
  <2> QED BY <2>2, <2>4
<1>2. ASSUME NEW b \in Buffers, UpdateCall(b) PROVE IInv'
  <2>1. b \in Seq(Byte) /\ given \in Seq(Byte) /\ buf = <<>> /\ i = 0
    BY <1>2, CallsOK DEF UpdateCall, BufferIsGiven
  <2>2. /\ given \o b \in Seq(Byte) /\ Len(given \o b) = Len(given) + Len(b)
        /\ \A k \in 1 .. Len(given) : (given \o b)[k] = given[k]
        /\ \A k \in 1 .. Len(b) : (given \o b)[Len(given) + k] = b[k]
        /\ Len(given) \in Nat /\ Len(b) \in Nat
    BY <2>1
  <2>3. TypeOK' /\ BufferIsGiven'
    BY <1>2, <2>1, <2>2, CallsOK DEF UpdateCall, TypeOK, BufferIsGiven
  <2>4. Holds(ctx, given, Len(given))
    BY <1>2, <2>1, CallsOK DEF UpdateCall, AbsorbedSoFar
  <2>5. Holds(ctx, given \o b, Len(given))
    <3>1. PICK L \in Nat, q \in Nat : q = Len(ctx.state) /\ L = BLOCK * q
                                      /\ Len(given) = L + ctx.datalen
      BY <2>4, Sizes DEF Holds, TypeOK, Context
    <3>2. ctx.datalen \in Nat
      BY Sizes DEF TypeOK, Context, Index
    <3>3. \A k \in 0 .. (ctx.datalen - 1) : L + k + 1 \in 1 .. Len(given)
      BY <3>1, <3>2
    <3>4. ASSUME NEW x \in 1 .. q
          PROVE  [k \in Index |-> given[BLOCK * (x - 1) + k + 1]]
                   = [k \in Index |-> (given \o b)[BLOCK * (x - 1) + k + 1]]
      <4>1. [k \in Index |-> given[BLOCK * (x - 1) + k + 1]] = PaddedBlock(given, x)
        BY <2>1, <3>1, <3>2, BlockOfMessage
      <4>2. /\ Len(given \o b) = BLOCK * q + (ctx.datalen + Len(b))
            /\ ctx.datalen + Len(b) \in Nat
        <5>1. PICK g \in Nat, e \in Nat, d \in Nat :
                g = Len(given) /\ e = Len(b) /\ d = ctx.datalen
          BY <2>2, <3>2
        <5>2. Len(given \o b) = g + e /\ g = L + d
          BY <2>2, <3>1, <5>1
        <5>3. Len(given \o b) = L + (d + e)
          BY ONLY <5>2, L \in Nat, d \in Nat, e \in Nat
        <5> QED BY <3>1, <5>1, <5>3
      <4>3. [k \in Index |-> (given \o b)[BLOCK * (x - 1) + k + 1]]
              = PaddedBlock(given \o b, x)
        BY <2>2, <4>2, BlockOfMessage
      <4>4. ASSUME NEW k \in Index
            PROVE  BLOCK * (x - 1) + k + 1 \in 1 .. Len(given)
        <5>1. PICK e \in Nat : e = q - x
          OBVIOUS
        <5>2. BLOCK * (((x - 1) + e) + 1) = BLOCK * (x - 1) + BLOCK * e + BLOCK
          BY <5>1, Sizes
        <5>3. BLOCK * (x - 1) \in Nat /\ BLOCK * e \in Nat /\ q = ((x - 1) + e) + 1
          BY <5>1, Sizes
        <5>4. PICK y \in Nat, z \in Nat : y = BLOCK * (x - 1) /\ z = BLOCK * e
          BY <5>3
        <5>5. L = y + z + BLOCK
          BY <3>1, <5>2, <5>3, <5>4
        <5> QED BY <3>1, <3>2, <5>4, <5>5, Sizes DEF Index
      <4> QED BY <2>2, <4>4
    <3>5. \A x \in 1 .. q : ctx.state[x] =
             Words([k \in Index |-> (given \o b)[BLOCK * (x - 1) + k + 1]])
      BY <2>4, <3>1, <3>4 DEF Holds
    <3>6. \A k \in 0 .. (ctx.datalen - 1) : ctx.data[k] = (given \o b)[L + k + 1]
      BY <2>2, <2>4, <3>1, <3>3 DEF Holds
    <3> QED BY <2>4, <3>1, <3>5, <3>6 DEF Holds
  <2>6. AbsorbedSoFar' /\ DigestOfMessage'
    <3>1. Len(given') - Len(buf') + i' = Len(given)
      BY <1>2, <2>2 DEF UpdateCall
    <3> QED BY <1>2, <2>5, <3>1 DEF UpdateCall, AbsorbedSoFar, DigestOfMessage
  <2> QED BY <2>3, <2>6
<1>3. CASE UpdateByte
  <2>1. /\ buf \in Seq(Byte) /\ i + 1 \in 1 .. Len(buf) /\ given \in Seq(Byte)
        /\ Len(buf) \in Nat /\ Len(given) \in Nat /\ Len(buf) <= Len(given)
        /\ i \in Nat /\ i < IndexMod /\ IndexMod \in Nat
    BY <1>3, CallsOK DEF UpdateByte, TypeOK, BufferIsGiven
  <2>2. PICK n \in Nat : n = Len(given) - Len(buf) + i /\ n < Len(given)
    <3>1. PICK g \in Nat, e \in Nat : g = Len(given) /\ e = Len(buf)
      BY <2>1
    <3>2. g - e + i \in Nat /\ g - e + i < g
      BY <2>1, <3>1
    <3> QED BY <3>1, <3>2
  <2>3. buf[i + 1] = given[n + 1] /\ buf[i + 1] \in Byte
    <3>1. given[Len(given) - Len(buf) + (i + 1)] = buf[i + 1]
      BY <2>1 DEF BufferIsGiven
    <3>2. Len(given) - Len(buf) + (i + 1) = n + 1
      BY <2>1, <2>2
    <3> QED BY <2>1, <3>1, <3>2
  <2>4. i' \in 0 .. (IndexMod - 1) /\ i' <= Len(buf)
    <3>1. CASE i + 1 < IndexMod
      <4>1. (i + 1) % IndexMod = i + 1
        BY <2>1, <3>1
      <4> QED BY <1>3, <2>1, <3>1, <4>1 DEF UpdateByte
    <3>2. CASE i + 1 = IndexMod
      <4>1. IndexMod % IndexMod = 0
        BY <2>1, <3>2
      <4> QED BY <1>3, <2>1, <3>2, <4>1 DEF UpdateByte
    <3> QED BY <2>1, <3>1, <3>2
  <2>5. ctx' \in Context(Byte)
    BY <1>3, <2>3, AbsorbType DEF UpdateByte, TypeOK
  <2>6. TypeOK' /\ BufferIsGiven'
    BY <1>3, <2>4, <2>5 DEF UpdateByte, TypeOK, BufferIsGiven
  <2>7. AbsorbedSoFar'
    <3> SUFFICES ASSUME Len(buf) < IndexMod
                 PROVE  Holds(ctx', given, Len(given) - Len(buf) + i')
      BY <1>3 DEF UpdateByte, AbsorbedSoFar
    <3>1. Holds(ctx, given, n)
      BY <1>3, <2>2 DEF UpdateByte, AbsorbedSoFar
    <3>2. Holds(absorb(ctx, given[n + 1]), given, n + 1)
      BY <2>1, <2>2, <3>1, AbsorbHolds DEF TypeOK
    <3>3. i' = i + 1
      <4>1. (i + 1) % IndexMod = i + 1
        BY <2>1
      <4> QED BY <1>3, <4>1 DEF UpdateByte
    <3>4. Len(given) - Len(buf) + i' = n + 1
      BY <2>1, <2>2, <3>3
    <3>5. ctx' = absorb(ctx, given[n + 1])
      BY <1>3, <2>3 DEF UpdateByte
    <3> QED BY <3>2, <3>4, <3>5
  <2>8. DigestOfMessage'
    BY <1>3 DEF UpdateByte, DigestOfMessage
  <2> QED BY <2>6, <2>7, <2>8
<1>4. CASE UpdateReturn
  <2>1. /\ i = Len(buf) /\ Len(buf) < IndexMod /\ Len(given) \in Nat /\ Len(buf) \in Nat
        /\ IndexMod > 0
    BY <1>4, CallsOK DEF UpdateReturn, TypeOK, BufferIsGiven
  <2>2. Holds(ctx, given, Len(given))
    <3>1. Len(given) - Len(buf) + i = Len(given)
      BY <2>1
    <3> QED BY <1>4, <2>1, <3>1 DEF UpdateReturn, AbsorbedSoFar
  <2>3. TypeOK' /\ BufferIsGiven'
    BY <1>4, CallsOK DEF UpdateReturn, TypeOK, BufferIsGiven
  <2>4. AbsorbedSoFar' /\ DigestOfMessage'
    <3>1. Len(given') - Len(buf') + i' = Len(given)
      BY <1>4, <2>1 DEF UpdateReturn
    <3> QED BY <1>4, <2>2, <3>1 DEF UpdateReturn, AbsorbedSoFar, DigestOfMessage
  <2> QED BY <2>3, <2>4
<1>5. CASE FinalCall
  <2>1. buf = <<>> /\ i = 0 /\ given \in Seq(Byte) /\ Len(given) \in Nat /\ IndexMod > 0
    BY <1>5, CallsOK DEF FinalCall, BufferIsGiven
  <2>2. Holds(ctx, given, Len(given))
    BY <1>5, <2>1 DEF FinalCall, AbsorbedSoFar
  <2>3. sha256_final(ctx) \in Context(Byte) /\ DigestIs(sha256_final(ctx), given)
    BY <2>1, <2>2, FinalDigest DEF TypeOK
  <2>4. TypeOK' /\ BufferIsGiven' /\ AbsorbedSoFar'
    BY <1>5, <2>3 DEF FinalCall, TypeOK, BufferIsGiven, AbsorbedSoFar
  <2>5. DigestOfMessage'
    BY <1>5, <2>3 DEF FinalCall, DigestOfMessage, DigestIs
  <2> QED BY <2>4, <2>5
<1>6. CASE UNCHANGED vars
  BY <1>6 DEF vars, TypeOK, BufferIsGiven, AbsorbedSoFar, DigestOfMessage, Holds
<1> QED BY <1>1, <1>2, <1>3, <1>4, <1>5, <1>6 DEF Next

THEOREM InductiveInvariant == Spec => []IInv
BY InitIInv, NextIInv, PTL DEF Spec

\* Types: among them, data is never written past its end (sha256.c:92).
THEOREM TypeCorrect == Spec => []TypeOK
BY InductiveInvariant, PTL DEF IInv

\* Whatever the pieces, the context holds the message (sha256.c:89-100).
THEOREM HoldsMessage == Spec => []AbsorbedSoFar
BY InductiveInvariant, PTL DEF IInv

\* The digest is that of the padded message (sha256.c:102-140).
THEOREM PaddingCorrect == Spec => []DigestOfMessage
BY InductiveInvariant, PTL DEF IInv

\* And it does not depend on the fourth bytes (sha256.c:38).
THEOREM DigestIgnoresFourthBytes == Spec => []FourthBytesUnseen
<1>1. IInv => FourthBytesUnseen
  BY WordsSkipFourth DEF IInv, DigestOfMessage, FourthBytesUnseen
<1> QED BY <1>1, InductiveInvariant, PTL

\* An update of 2^32 bytes or more does not return (sha256.c:90-91).
THEOREM OversizedHangs == Spec => OversizedNeverReturns
<1>1. IInv /\ [Next]_vars => [pc = "update" /\ pc' = "open" => Len(buf) < IndexMod]_vars
  BY CallsOK DEF IInv, TypeOK, BufferIsGiven, Next, InitCall, UpdateCall, UpdateByte,
                 UpdateReturn, FinalCall, vars
<1> QED BY <1>1, InductiveInvariant, PTL DEF OversizedNeverReturns, Spec
-----------------------------------------------------------------------------
(* getRandomBytes.                                                         *)

S == SHA256_BLOCK_SIZE

LEMMA RandomConstants ==
    /\ S \in Nat /\ S > 0 /\ S \in Nat \ {0}
    /\ COUNTER_MOD \in Nat /\ COUNTER_MOD > 0
    /\ Lengths \subseteq Nat
    /\ MaxMade \in Nat /\ MaxMade <= COUNTER_MOD
BY RandomOK DEF S

-----------------------------------------------------------------------------
\* Whole blocks, and a rest in a block of its own.
LEMMA BlocksOf ==
    ASSUME NEW q \in Nat
    PROVE  /\ Blocks(S * q) = q
           /\ \A r \in 1 .. S : Blocks(S * q + r) = q + 1
<1>1. S * q \in Nat /\ S * (q + 1) = S * q + S /\ S * (q + 1) \in Nat
  BY RandomConstants
<1>2. Blocks(S * q) = q
  <2>1. S - 1 \in 0 .. (S - 1) /\ S * q + S - 1 = S * q + (S - 1)
    BY RandomConstants, <1>1
  <2>2. (S * q + (S - 1)) \div S = q
    BY <2>1, RandomConstants, DivisionUnique
  <2> QED BY <2>1, <2>2 DEF Blocks, S
<1>3. ASSUME NEW r \in 1 .. S PROVE Blocks(S * q + r) = q + 1
  <2>1. r - 1 \in 0 .. (S - 1) /\ S * q + r + S - 1 = S * (q + 1) + (r - 1)
    BY RandomConstants, <1>1
  <2>2. (S * (q + 1) + (r - 1)) \div S = q + 1
    BY <2>1, RandomConstants, DivisionUnique
  <2> QED BY <2>1, <2>2 DEF Blocks, S
<1> QED BY <1>2, <1>3

LEMMA NoBlocks == Blocks(0) = 0
<1>1. S * 0 = 0
  BY RandomConstants
<1> QED BY <1>1, BlocksOf

\* A block less to write is a block less to make.
LEMMA OneBlockLess ==
    ASSUME NEW n \in Nat
    PROVE  /\ Blocks(n) \in Nat
           /\ n > S => Blocks(n - S) = Blocks(n) - 1
           /\ n \in 1 .. S => Blocks(n) = 1
<1>1. PICK q \in Nat, r \in 0 .. (S - 1) : n = S * q + r
  BY RandomConstants, DivideNat
<1>2. /\ S * q \in Int /\ S * (q - 1) = S * q - S /\ S * (q + 1) = S * q + S
      /\ \A x \in Nat : S * x >= 0
  BY RandomConstants
<1>4. Blocks(n) = IF r = 0 THEN q ELSE q + 1
  <2>1. CASE r = 0
    BY <1>1, <1>2, <2>1, BlocksOf
  <2>2. CASE r # 0
    <3>1. r \in 1 .. S
      BY <2>2, RandomConstants
    <3> QED BY <1>1, <2>2, <3>1, BlocksOf
  <2> QED BY <2>1, <2>2
<1>5. ASSUME n > S PROVE Blocks(n - S) = Blocks(n) - 1
  <2>1. q - 1 \in Nat
    <3>1. CASE q = 0
      <4>1. S * 0 = 0
        BY RandomConstants
      <4> QED BY <1>1, <1>5, <3>1, <4>1, RandomConstants
    <3> QED BY <3>1
  <2>2. n - S = S * (q - 1) + r
    BY <1>1, <1>2, RandomConstants
  <2>3. CASE r = 0
    <3>1. n - S = S * (q - 1)
      BY <2>2, <2>3, <2>1, <1>2, RandomConstants
    <3> QED BY <1>4, <2>1, <2>3, <3>1, BlocksOf
  <2>4. CASE r # 0
    <3>1. r \in 1 .. S
      BY <2>4, RandomConstants
    <3>2. Blocks(n - S) = q - 1 + 1
      BY <2>1, <2>2, <3>1, BlocksOf
    <3> QED BY <1>4, <2>4, <3>2
  <2> QED BY <2>3, <2>4
<1>6. ASSUME n \in 1 .. S PROVE Blocks(n) = 1
  <2>1. S * 0 + n = n
    BY RandomConstants
  <2> QED BY <1>6, <2>1, BlocksOf
<1> QED BY <1>4, <1>5, <1>6

-----------------------------------------------------------------------------
\* A seed is kept once urandom gave it, and none is asked for after that.
SeedThere ==
    /\ seed_initialized => seed \in UrandomSeeds
    /\ phase = "seed" => ~seed_initialized

\* What was made and what is left to make fits the bound on blocks.
Spent == Len(used) + Blocks(len) <= MaxMade

\* The counter has counted every block, and goes with it.
Counted ==
    /\ Len(used) < COUNTER_MOD => counter = Len(used)
    /\ \A a \in 1 .. Len(used) : used[a].counter = a - 1

AtBlock == len > 0 => \E q \in Nat : p = S * q

\* What is written so far: BytesInPlace, with p for the end.
Placed ==
    \A j \in DOMAIN out :
        out[j] = IF j < p
                 THEN <<Len(used) - Blocks(p) + 1 + j \div S, j % S>>
                 ELSE Unwritten

Ended == phase = "idle" => len = 0

RandomInv == RandomTypeOK /\ SeedThere /\ Spent /\ Counted /\ AtBlock /\ Placed /\ Ended

LEMMA RandomInitInv == RandomInit => RandomInv
<1> SUFFICES ASSUME RandomInit PROVE RandomInv
  OBVIOUS
<1>1. /\ used = <<>> /\ Len(used) = 0 /\ out = <<>> /\ DOMAIN out = {}
      /\ used \in Seq([seed : UrandomSeeds \cup WeakSeeds, counter : 0 .. (COUNTER_MOD - 1)])
  BY DEF RandomInit
<1>2. RandomTypeOK
  <2>1. counter \in 0 .. (COUNTER_MOD - 1) /\ phase = "idle" /\ phase # "fill"
    BY RandomConstants DEF RandomInit
  <2>2. len = 0 /\ p = 0 /\ want = p + len /\ len \in Nat /\ p \in Nat
    BY DEF RandomInit
  <2>3. DOMAIN out \subseteq Nat
    BY <1>1
  <2>4. seed_initialized \in BOOLEAN
    BY DEF RandomInit
  <2>5. little \in BOOLEAN
    BY DEF RandomInit
  <2> QED BY <1>1, <2>1, <2>2, <2>3, <2>4, <2>5 DEF RandomTypeOK
<1> QED BY <1>1, <1>2, NoBlocks, RandomConstants
        DEF RandomInit, RandomInv, SeedThere, Spent, Counted, AtBlock, Placed, Ended

LEMMA CallStep ==
    ASSUME RandomInv, NEW n \in Lengths, Call(n)
    PROVE  RandomInv'
<1> USE DEF RandomInv
<1>1. /\ n \in Nat /\ len' = n /\ p' = 0 /\ want' = n /\ UNCHANGED <<little, statics, used>>
      /\ Len(used) + Blocks(n) <= MaxMade
      /\ phase' = IF seed_initialized THEN "fill" ELSE "seed"
      /\ DOMAIN out' = 0 .. (n + S)
      /\ \A j \in DOMAIN out' : out'[j] = Unwritten
  BY RandomConstants DEF Call, S
<1>2. 0 .. (n + S) \subseteq Nat /\ p' = S * 0
  BY <1>1, RandomConstants
<1>3. RandomTypeOK'
  BY <1>1, <1>2 DEF RandomTypeOK, SeedThere, statics
<1>4. Placed'
  <2> SUFFICES ASSUME NEW j \in DOMAIN out' PROVE out'[j] = Unwritten /\ ~(j < p')
    BY DEF Placed
  <2> QED BY <1>1, <1>2
<1> QED BY <1>1, <1>2, <1>3, <1>4
        DEF SeedThere, Spent, Counted, AtBlock, Ended, statics

LEMMA FillBlockStep ==
    ASSUME RandomInv, FillBlock
    PROVE  RandomInv'
<1> DEFINE c == copylen
<1> USE DEF RandomInv
<1>1. /\ phase = "fill" /\ phase' = "fill" /\ len \in Nat /\ len > 0 /\ p \in Nat /\ want = p + len
      /\ len' = len - c /\ p' = p + c
      /\ UNCHANGED <<little, seed_initialized, seed, want>>
      /\ counter' = (counter + 1) % COUNTER_MOD
      /\ used' = Append(used, [seed |-> seed, counter |-> counter])
  BY DEF FillBlock, RandomTypeOK
<1>2. c \in 1 .. S /\ c <= len /\ (len > S => c = S) /\ (len <= S => c = len)
  BY <1>1, RandomConstants DEF copylen, S
<1>3. PICK q \in Nat : p = S * q
  BY <1>1 DEF AtBlock
<1>4. Blocks(p) = q /\ Blocks(p') = q + 1
  BY <1>1, <1>2, <1>3, BlocksOf
<1>5. Blocks(len) \in Nat /\ Blocks(len') = Blocks(len) - 1
  <2>1. CASE len > S
    BY <1>1, <1>2, <2>1, OneBlockLess
  <2>2. CASE len <= S
    <3>1. len \in 1 .. S /\ len' = 0
      BY <1>1, <1>2, <2>2, RandomConstants
    <3> QED BY <1>1, <3>1, OneBlockLess, NoBlocks
  <2> QED BY <1>1, <2>1, <2>2, RandomConstants
<1>6. /\ Len(used) \in Nat /\ Len(used') = Len(used) + 1
      /\ \A a \in 1 .. Len(used) : used'[a] = used[a]
      /\ used'[Len(used) + 1] = [seed |-> seed, counter |-> counter]
  BY <1>1 DEF RandomTypeOK
<1>7. Spent' /\ Len(used) < COUNTER_MOD
  <2>1. Blocks(len) >= 1
    <3>1. CASE len > S
      <4>1. len - S \in Nat
        BY <1>1, <3>1, RandomConstants
      <4> QED BY <1>1, <1>5, <3>1, <4>1, OneBlockLess
    <3>2. CASE len <= S
      BY <1>1, <3>2, OneBlockLess, RandomConstants
    <3> QED BY <1>1, <3>1, <3>2, RandomConstants
  <2> QED BY <1>5, <1>6, <2>1, RandomConstants DEF Spent
<1>8. counter = Len(used) /\ counter \in 0 .. (COUNTER_MOD - 1)
  BY <1>7 DEF Counted, RandomTypeOK
<1>9. /\ counter' \in 0 .. (COUNTER_MOD - 1)
      /\ counter + 1 < COUNTER_MOD => counter' = counter + 1
  <2>1. CASE counter + 1 < COUNTER_MOD
    <3>1. /\ COUNTER_MOD * 0 + (counter + 1) = counter + 1
          /\ counter + 1 \in 0 .. (COUNTER_MOD - 1) /\ COUNTER_MOD \in Nat \ {0}
      BY <1>8, <2>1, RandomConstants
    <3>2. (counter + 1) % COUNTER_MOD = counter + 1
      BY <3>1, DivisionUnique
    <3> QED BY <1>1, <3>1, <3>2
  <2>2. (counter + 1) % COUNTER_MOD \in 0 .. (COUNTER_MOD - 1)
    BY <1>8, RandomConstants
  <2> QED BY <1>1, <2>1, <2>2
<1>10. Counted'
  BY <1>6, <1>7, <1>8, <1>9, RandomConstants DEF Counted
<1>11. AtBlock'
  <2> SUFFICES ASSUME len' > 0 PROVE \E x \in Nat : p' = S * x
    BY DEF AtBlock
  <2>1. c = S
    BY <1>1, <1>2, RandomConstants
  <2>2. p' = S * (q + 1)
    BY <1>1, <1>3, <2>1, RandomConstants
  <2> QED BY <2>2
<1>12. RandomTypeOK'
  <2>1. /\ [seed |-> seed, counter |-> counter]
              \in [seed : UrandomSeeds \cup WeakSeeds, counter : 0 .. (COUNTER_MOD - 1)]
    BY <1>1, <1>8 DEF RandomTypeOK
  <2>2. used' \in Seq([seed : UrandomSeeds \cup WeakSeeds, counter : 0 .. (COUNTER_MOD - 1)])
    BY <1>1, <2>1 DEF RandomTypeOK
  <2>3. DOMAIN out' = DOMAIN out
    BY DEF FillBlock
  <2>4. len' \in Nat /\ p' \in Nat /\ want' = p' + len'
    BY <1>1, <1>2, RandomConstants
  <2> QED BY <1>1, <1>9, <2>2, <2>3, <2>4 DEF RandomTypeOK
<1>13. Placed'
  <2> SUFFICES ASSUME NEW j \in DOMAIN out'
               PROVE  out'[j] = IF j < p'
                                THEN <<Len(used') - Blocks(p') + 1 + j \div S, j % S>>
                                ELSE Unwritten
    BY DEF Placed
  <2>1. /\ j \in DOMAIN out /\ j \in Nat
        /\ out'[j] = IF j \in p .. (p + c - 1) THEN <<Len(used) + 1, j - p>> ELSE out[j]
    BY DEF FillBlock, RandomTypeOK
  <2>2. Len(used') - Blocks(p') + 1 = Len(used) - Blocks(p) + 1
    BY <1>4, <1>6
  <2>3. CASE j < p
    <3>1. j < p' /\ j \notin p .. (p + c - 1)
      BY <1>1, <1>2, <2>1, <2>3, RandomConstants
    <3> QED BY <2>1, <2>2, <2>3, <3>1 DEF Placed
  <2>4. CASE j \in p .. (p + c - 1)
    <3>1. j - p \in 0 .. (S - 1) /\ j = S * q + (j - p) /\ j < p'
      BY <1>1, <1>2, <1>3, <2>1, <2>4, RandomConstants
    <3>2. j \div S = q /\ j % S = j - p
      <4>1. PICK r \in 0 .. (S - 1) : r = j - p
        BY <3>1
      <4>2. (S * q + r) \div S = q /\ (S * q + r) % S = r
        BY RandomConstants, DivisionUnique
      <4>3. j = S * q + r
        BY <3>1, <4>1
      <4> QED BY <4>1, <4>2, <4>3
    <3>3. Len(used') - Blocks(p') + 1 + j \div S = Len(used) + 1
      BY <1>4, <1>6, <3>2
    <3> QED BY <2>1, <2>4, <3>1, <3>2, <3>3
  <2>5. CASE ~(j < p) /\ j \notin p .. (p + c - 1)
    <3>1. ~(j < p')
      BY <1>1, <1>2, <2>1, <2>5, RandomConstants
    <3> QED BY <2>1, <2>5, <3>1 DEF Placed
  <2> QED BY <2>3, <2>4, <2>5
<1> QED BY <1>1, <1>7, <1>10, <1>11, <1>12, <1>13 DEF SeedThere, Ended

LEMMA RandomNextInv == RandomInv /\ [RandomNext]_randomVars => RandomInv'
<1> SUFFICES ASSUME RandomInv, [RandomNext]_randomVars PROVE RandomInv'
  OBVIOUS
<1>1. CASE \E n \in Lengths : Call(n)
  BY <1>1, CallStep
<1>2. CASE SeedFromUrandom
  BY <1>2 DEF SeedFromUrandom, RandomInv, RandomTypeOK, SeedThere, Spent, Counted, AtBlock, Placed, Ended
<1>3. CASE SeedFromClockAndPid
  <2>1. /\ phase = "seed" /\ phase' = "fill" /\ ~seed_initialized /\ seed' \in WeakSeeds
        /\ UNCHANGED <<little, seed_initialized, counter, len, p, want, out, used>>
    BY <1>3 DEF SeedFromClockAndPid, RandomInv, SeedThere
  <2>2. RandomTypeOK'
    BY <2>1 DEF RandomInv, RandomTypeOK
  <2> QED BY <2>1, <2>2 DEF RandomInv, SeedThere, Spent, Counted, AtBlock, Placed, Ended
<1>4. CASE FillBlock
  BY <1>4, FillBlockStep
<1>5. CASE Return
  BY <1>5 DEF Return, statics, RandomInv, RandomTypeOK, SeedThere, Spent, Counted, AtBlock, Placed, Ended
<1>6. CASE UNCHANGED randomVars
  BY <1>6 DEF randomVars, statics, RandomInv, RandomTypeOK, SeedThere, Spent, Counted, AtBlock, Placed, Ended
<1> QED BY <1>1, <1>2, <1>3, <1>4, <1>5, <1>6 DEF RandomNext

LEMMA RandomInvHolds == RandomSpec => []RandomInv
BY RandomInitInv, RandomNextInv, PTL DEF RandomSpec

\* Every variable keeps its type, and what is left to write and what is
\* written make the length asked for (util.c:32-61).
THEOREM RandomTypeCorrect == RandomSpec => []RandomTypeOK
BY RandomInvHolds, PTL DEF RandomInv

\* No seed and counter make two blocks, whatever the seeds are (util.c:15-57).
THEOREM InputsDiffer == RandomSpec => []NoInputTwice
<1>1. RandomInv => NoInputTwice
  <2> SUFFICES ASSUME RandomInv, NEW a \in 1 .. Len(used), NEW b \in 1 .. Len(used), a < b
               PROVE  used[a].counter # used[b].counter
    BY DEF NoInputTwice
  <2>1. Len(used) \in Nat
    BY DEF RandomInv, RandomTypeOK
  <2>2. used[a].counter = a - 1 /\ used[b].counter = b - 1
    BY DEF RandomInv, Counted
  <2> QED BY <2>1, <2>2
<1> QED BY <1>1, RandomInvHolds, PTL

\* The bytes asked for are written in order, and no others (util.c:32-61).
THEOREM EveryByteInPlace == RandomSpec => []BytesInPlace
<1>1. RandomInv => BytesInPlace
  <2> SUFFICES ASSUME RandomInv, phase = "idle" PROVE BytesInPlace
    BY DEF BytesInPlace
  <2>1. p = want
    BY DEF RandomInv, Ended, RandomTypeOK
  <2> QED BY <2>1 DEF RandomInv, Placed, BytesInPlace, S
<1> QED BY <1>1, RandomInvHolds, PTL

-----------------------------------------------------------------------------
\* sha256_update takes in all of its bytes.
LEMMA UpdateHolds ==
    ASSUME NEW V, NEW c \in Context(V), NEW m \in Seq(V), NEW n \in Nat,
           NEW bytes \in Seq(V), n + Len(bytes) <= Len(m),
           \A k \in 1 .. Len(bytes) : bytes[k] = m[n + k],
           Holds(c, m, n)
    PROVE  /\ sha256_update(c, bytes) \in Context(V)
           /\ Holds(sha256_update(c, bytes), m, n + Len(bytes))
<1> DEFINE N == Len(bytes)
           step == [x \in Context(V) \X (1 .. N) |-> absorb(x[1], bytes[x[2]])]
           after == CHOOSE g : g = [k \in 0 .. N |->
                       IF k = 0 THEN c ELSE absorb(g[k - 1], bytes[k])]
<1>1. N \in Nat
  OBVIOUS
<1>2. ASSUME NEW k \in 1 .. N, NEW x \in Context(V)
      PROVE  step[<<x, k>>] = absorb(x, bytes[k]) /\ step[<<x, k>>] \in Context(V)
  <2>1. bytes[k] \in V
    OBVIOUS
  <2>2. step[<<x, k>>] = absorb(x, bytes[k])
    OBVIOUS
  <2> HIDE DEF step
  <2> QED BY <2>1, <2>2, AbsorbType
<1> HIDE DEF step
<1>3. PICK f \in [0 .. N -> Context(V)] :
          f[0] = c /\ \A k \in 1 .. N : f[k] = step[<<f[k - 1], k>>]
  <2> DEFINE C == Context(V)
  <2>1. StaysIn(N, C, step)
    BY <1>2 DEF StaysIn
  <2>2. c \in C
    OBVIOUS
  <2>3. N \in Nat
    BY <1>1
  <2> HIDE DEF N, C
  <2>4. \E f \in [0 .. N -> C] : Iterates(N, c, step, f)
    BY <2>1, <2>2, <2>3, Repeated
  <2> QED BY <2>4 DEF C, Iterates
<1>4. f = [k \in 0 .. N |-> IF k = 0 THEN c ELSE absorb(f[k - 1], bytes[k])]
  <2>1. ASSUME NEW k \in 0 .. N
        PROVE  f[k] = IF k = 0 THEN c ELSE absorb(f[k - 1], bytes[k])
    <3>1. CASE k = 0
      BY <1>3, <3>1
    <3>2. CASE k # 0
      <4>1. k \in 1 .. N /\ k - 1 \in 0 .. N
        BY <1>1, <3>2
      <4>2. f[k - 1] \in Context(V)
        BY <4>1
      <4> QED BY <1>2, <1>3, <3>2, <4>1, <4>2
    <3> QED BY <3>1, <3>2
  <2> QED BY <2>1
<1>5. after = [k \in 0 .. N |-> IF k = 0 THEN c ELSE absorb(after[k - 1], bytes[k])]
  <2>1. \E g : g = [k \in 0 .. N |-> IF k = 0 THEN c ELSE absorb(g[k - 1], bytes[k])]
    BY <1>4
  <2> QED BY <2>1, Zenon
<1>6. sha256_update(c, bytes) = after[N]
  BY DEF sha256_update
<1> HIDE DEF after
<1>7. after[0] = c /\ \A k \in 1 .. N : after[k] = absorb(after[k - 1], bytes[k])
  BY <1>1, <1>5
<1> DEFINE T == {k \in 0 .. N : after[k] \in Context(V) /\ Holds(after[k], m, n + k)}
<1>8. 0 \in T
  BY <1>1, <1>7
<1>9. ASSUME NEW k \in 0 .. (N - 1), k \in T PROVE k + 1 \in T
  <2>1. /\ k + 1 \in 1 .. N /\ k + 1 \in 0 .. N /\ n + k \in Nat /\ n + k < Len(m)
        /\ (k + 1) - 1 = k /\ (n + k) + 1 = n + (k + 1)
    BY <1>1
  <2>2. after[k + 1] = absorb(after[k], m[(n + k) + 1])
    BY <1>7, <2>1
  <2>3. after[k] \in Context(V) /\ Holds(after[k], m, n + k)
    BY <1>9
  <2>4. /\ absorb(after[k], m[(n + k) + 1]) \in Context(V)
        /\ Holds(absorb(after[k], m[(n + k) + 1]), m, (n + k) + 1)
    BY <2>1, <2>3, AbsorbHolds
  <2> QED BY <2>1, <2>2, <2>4
<1>10. N \in T
  <2> HIDE DEF T, N
  <2>1. \A k \in 0 .. (N - 1) : k \in T => k + 1 \in T
    BY <1>9
  <2>2. \A k \in 0 .. N : k \in T
    BY <1>1, <1>8, <2>1, UpTo
  <2> QED BY <1>1, <2>2
<1> QED BY <1>6, <1>10

\* sha256_init keeps the data, and nothing else.
LEMMA InitIs ==
    ASSUME NEW D, NEW W,
           NEW c \in [data : D, datalen : Nat, bitlen : Nat, state : Seq(W)]
    PROVE  sha256_init(c) = [data |-> c.data, datalen |-> 0, bitlen |-> 0, state |-> <<>>]
<1>1. ASSUME NEW e, e = sha256_init(c)
      PROVE  e = [data |-> c.data, datalen |-> 0, bitlen |-> 0, state |-> <<>>]
  BY <1>1 DEF sha256_init
<1> QED BY <1>1

\* A context that sha256_init may be given, whatever was done with it.
AnyContext(V, X) == [data : [Index -> V], datalen : Nat, bitlen : Nat, state : Seq(X)]

\* A digest is that of both parts of its message, in any context.
LEMMA DigestOfParts ==
    ASSUME NEW V, Byte \subseteq V,
           NEW first \in Seq(V), NEW second \in Seq(V), NEW X,
           NEW c \in AnyContext(V, X)
    PROVE  /\ sha256(c, first, second) \in Context(V)
           /\ DigestIs(sha256(c, first, second), first \o second)
<1> DEFINE m == first \o second
           c0 == sha256_init(c)
           c1 == sha256_update(c0, first)
           c2 == sha256_update(c1, second)
<1>1. /\ m \in Seq(V) /\ Len(m) = Len(first) + Len(second)
      /\ Len(first) \in Nat /\ Len(second) \in Nat
      /\ \A k \in 1 .. Len(first) : first[k] = m[0 + k]
      /\ \A k \in 1 .. Len(second) : second[k] = m[Len(first) + k]
  OBVIOUS
<1> HIDE DEF m
<1>2. /\ c0.data \in [Index -> V] /\ c0.datalen = 0 /\ c0.bitlen = 0
      /\ c0.state = <<>>
      /\ c0 = [data |-> c.data, datalen |-> 0, bitlen |-> 0, state |-> <<>>]
  <2>1. c.data \in [Index -> V]
    BY DEF AnyContext
  <2>2. c0 = [data |-> c.data, datalen |-> 0, bitlen |-> 0, state |-> <<>>]
    BY InitIs DEF AnyContext
  <2> HIDE DEF c0
  <2> QED BY <2>1, <2>2
<1>3. c0 \in Context(V)
  BY <1>2, Sizes DEF Context, Index
<1> HIDE DEF c0
<1>4. Holds(c0, m, 0)
  BY <1>2, Sizes DEF Holds
<1>5. c1 \in Context(V) /\ Holds(c1, m, 0 + Len(first))
  <2>1. 0 + Len(first) <= Len(m) /\ 0 \in Nat
    BY <1>1
  <2> QED BY <1>1, <1>3, <1>4, <2>1, UpdateHolds
<1> HIDE DEF c1
<1>6. c2 \in Context(V) /\ Holds(c2, m, Len(m))
  <2>1. Holds(c1, m, Len(first))
    BY <1>1, <1>5
  <2>2. Len(first) + Len(second) <= Len(m)
    BY <1>1
  <2>3. c2 \in Context(V) /\ Holds(c2, m, Len(first) + Len(second))
    BY <1>1, <1>5, <2>1, <2>2, UpdateHolds
  <2> QED BY <1>1, <2>3
<1> HIDE DEF c2
<1>7. sha256_final(c2) \in Context(V) /\ DigestIs(sha256_final(c2), m)
  BY <1>1, <1>6, FinalDigest
<1>8. sha256(c, first, second) = sha256_final(c2)
  BY DEF sha256, c0, c1, c2
<1> QED BY <1>7, <1>8 DEF m

\* Blocks have the same words when they agree in the bytes that are read.
LEMMA WordsAgree ==
    ASSUME NEW d, NEW e
    PROVE  Words(d) = Words(e) <=> \A k \in Index : Read(k) => d[k] = e[k]
<1>1. ASSUME NEW w \in WordIndex
      PROVE  /\ 4 * w \in Index /\ 4 * w + 1 \in Index /\ 4 * w + 2 \in Index
             /\ Read(4 * w) /\ Read(4 * w + 1) /\ Read(4 * w + 2)
  <2>1. w \in Int /\ 4 * w \in Index /\ 4 * w + 1 \in Index /\ 4 * w + 2 \in Index
    BY Sizes, SizesOK DEF WordIndex, Index
  <2>2. (4 * w) % 4 = 0 /\ (4 * w + 1) % 4 = 1 /\ (4 * w + 2) % 4 = 2
    BY <2>1
  <2> QED BY <2>1, <2>2 DEF Read
<1>2. ASSUME NEW k \in Index, Read(k)
      PROVE  \E w \in WordIndex : k = 4 * w \/ k = 4 * w + 1 \/ k = 4 * w + 2
  <2>1. k \in Int /\ k >= 0 /\ k < BLOCK
    BY Sizes DEF Index
  <2>2. k \div 4 \in WordIndex
    BY <2>1, Sizes, SizesOK DEF WordIndex
  <2>3. k = 4 * (k \div 4) \/ k = 4 * (k \div 4) + 1 \/ k = 4 * (k \div 4) + 2
    BY <1>2, <2>1 DEF Read
  <2> QED BY <2>2, <2>3
<1>3. ASSUME Words(d) = Words(e), NEW k \in Index, Read(k) PROVE d[k] = e[k]
  <2>1. PICK w \in WordIndex : k = 4 * w \/ k = 4 * w + 1 \/ k = 4 * w + 2
    BY <1>2, <1>3
  <2>2. Words(d)[w] = Words(e)[w]
    BY <1>3
  <2>3. <<d[4 * w], d[4 * w + 1], d[4 * w + 2], d[4 * w]>>
          = <<e[4 * w], e[4 * w + 1], e[4 * w + 2], e[4 * w]>>
    BY <2>2 DEF Words
  <2>4. d[4 * w] = e[4 * w] /\ d[4 * w + 1] = e[4 * w + 1] /\ d[4 * w + 2] = e[4 * w + 2]
    BY <2>3
  <2> QED BY <2>1, <2>4
<1>4. ASSUME \A k \in Index : Read(k) => d[k] = e[k] PROVE Words(d) = Words(e)
  BY <1>1, <1>4 DEF Words
<1> QED BY <1>3, <1>4

\* Every place of a message is in one of its padded blocks.
LEMMA PlaceInBlock ==
    ASSUME NEW n \in Nat, NEW x \in 0 .. (n - 1)
    PROVE  \E b \in 1 .. (PaddedLength(n) \div BLOCK), k \in Index :
              x = BLOCK * (b - 1) + k
<1>1. BLOCK \in Nat \ {0} /\ Index = 0 .. (BLOCK - 1)
  BY Sizes DEF Index
<1>2. PICK q \in Nat, r \in Index : n = BLOCK * q + r
  BY <1>1, DivideNat
<1>3. PICK a \in Nat, k \in Index : x = BLOCK * a + k
  <2>1. x \in Nat
    OBVIOUS
  <2> QED BY <1>1, <2>1, DivideNat
<1>4. ~(q < a)
  <2> SUFFICES ASSUME q < a PROVE FALSE
    OBVIOUS
  <2>1. BLOCK * q + BLOCK <= BLOCK * a
    BY <1>1, MultipleGrows
  <2>2. BLOCK * q \in Int /\ BLOCK * a \in Int
    BY <1>1
  <2> QED BY <1>1, <1>2, <1>3, <2>1, <2>2
<1>5. PaddedLength(n) \div BLOCK = IF r < PAD THEN q + 1 ELSE q + 2
  BY <1>2, PaddedLengthIs
<1>6. a + 1 \in 1 .. (PaddedLength(n) \div BLOCK) /\ (a + 1) - 1 = a
  BY <1>4, <1>5
<1> QED BY <1>3, <1>6

\* A place is read when its place in the block is.
LEMMA ReadInBlock ==
    ASSUME NEW a \in Nat, NEW k \in Nat
    PROVE  Read(BLOCK * a + k) <=> Read(k)
<1>1. PICK e \in Int : BLOCK = 4 * e
  <2>1. BLOCK = 4 * (BLOCK \div 4) /\ BLOCK \div 4 \in Int
    BY Sizes, SizesOK
  <2> QED BY <2>1
<1>2. PICK f \in Int : f = e * a
  OBVIOUS
<1>3. BLOCK * a = 4 * f
  <2>1. (4 * e) * a = 4 * (e * a)
    OBVIOUS
  <2> QED BY <1>1, <1>2, <2>1
<1>4. (4 * f + k) % 4 = k % 4
  OBVIOUS
<1> QED BY <1>3, <1>4 DEF Read

\* Two messages agree in the bytes that are read of them from place `start`.
Agree(m1, m2, start) ==
    \A k \in 0 .. (Len(m1) - 1) : Read(start + k) => m1[k + 1] = m2[k + 1]
SeedsAgree(s, t) == \A k \in Index : Read(k) => s[k] = t[k]

\* Digests of two messages of one length are equal exactly when the messages
\* agree in the bytes that are read.
LEMMA MessagesAgree ==
    ASSUME NEW V, NEW c1 \in Context(V), NEW c2 \in Context(V),
           NEW m1 \in Seq(V), NEW m2 \in Seq(V), Len(m1) = Len(m2),
           DigestIs(c1, m1), DigestIs(c2, m2)
    PROVE  c1.state = c2.state <=> Agree(m1, m2, 0)
<1> DEFINE n == Len(m1)
           B == PaddedLength(n) \div BLOCK
<1>1. n \in Nat /\ Len(m2) = n
  OBVIOUS
<1>2. /\ Len(c1.state) = B /\ Len(c2.state) = B
      /\ c1.state \in Seq(WordBlock(V)) /\ c2.state \in Seq(WordBlock(V))
      /\ \A b \in 1 .. B : /\ c1.state[b] = Words(PaddedBlock(m1, b))
                           /\ c2.state[b] = Words(PaddedBlock(m2, b))
  BY <1>1, ContextIs DEF DigestIs
<1>3. c1.state = c2.state <=>
        \A b \in 1 .. B : Words(PaddedBlock(m1, b)) = Words(PaddedBlock(m2, b))
  BY <1>2
<1>4. ASSUME NEW b
      PROVE  Words(PaddedBlock(m1, b)) = Words(PaddedBlock(m2, b)) <=>
                \A k \in Index : Read(k) => PaddedByte(m1, BLOCK * (b - 1) + k)
                                              = PaddedByte(m2, BLOCK * (b - 1) + k)
  BY WordsAgree DEF PaddedBlock
<1>5. ASSUME NEW x, x < n PROVE PaddedByte(m1, x) = m1[x + 1] /\ PaddedByte(m2, x) = m2[x + 1]
  BY <1>1, <1>5 DEF PaddedByte
<1>6. ASSUME NEW x, ~(x < n) PROVE PaddedByte(m1, x) = PaddedByte(m2, x)
  BY <1>1, <1>6 DEF PaddedByte
<1>7. ASSUME c1.state = c2.state, NEW x \in 0 .. (n - 1), Read(x)
      PROVE  m1[x + 1] = m2[x + 1]
  <2>1. PICK b \in 1 .. B, k \in Index : x = BLOCK * (b - 1) + k
    BY <1>1, PlaceInBlock
  <2>2. k \in Nat /\ b - 1 \in Nat
    BY Sizes DEF Index
  <2>3. Read(k)
    BY <1>7, <2>1, <2>2, ReadInBlock
  <2>4. PaddedByte(m1, x) = PaddedByte(m2, x)
    BY <1>3, <1>4, <1>7, <2>1, <2>3
  <2> QED BY <1>1, <1>5, <2>4
<1>8. ASSUME \A x \in 0 .. (n - 1) : Read(x) => m1[x + 1] = m2[x + 1]
      PROVE  c1.state = c2.state
  <2>1. ASSUME NEW b \in 1 .. B, NEW k \in Index, Read(k)
        PROVE  PaddedByte(m1, BLOCK * (b - 1) + k) = PaddedByte(m2, BLOCK * (b - 1) + k)
    <3>1. k \in Nat /\ b \in Int /\ b - 1 \in Nat /\ BLOCK * (b - 1) \in Nat
      BY Sizes DEF Index
    <3>2. PICK x \in Nat : x = BLOCK * (b - 1) + k
      BY <3>1
    <3>3. Read(x)
      BY <2>1, <3>1, <3>2, ReadInBlock
    <3>4. CASE x < n
      BY <1>1, <1>5, <1>8, <3>2, <3>3, <3>4
    <3>5. CASE ~(x < n)
      BY <1>6, <3>2, <3>5
    <3> QED BY <3>4, <3>5
  <2> QED BY <1>3, <1>4, <2>1
<1>9. \A x \in 0 .. (n - 1) : 0 + x = x
  OBVIOUS
<1> QED BY <1>7, <1>8, <1>9 DEF Agree

SeedBytes(V, s, x) == \A k \in Index : <<x, s[k]>> \in V

\* m is a seed, combined with x, and more bytes.
SeedThen(m, s, x, more) ==
    /\ Len(m) = BLOCK + Len(more)
    /\ \A k \in Index : m[k + 1] = <<x, s[k]>>
    /\ \A k \in 0 .. (Len(more) - 1) : m[BLOCK + k + 1] = more[k + 1]

\* The two messages a block is made of, byte by byte.
LEMMA MessageBytes ==
    ASSUME NEW V, NEW s, NEW x, SeedBytes(V, s, x), NEW more \in Seq(V)
    PROVE  /\ kor(s, x) \in Seq(V) /\ kor(s, x) \o more \in Seq(V)
           /\ SeedThen(kor(s, x) \o more, s, x, more)
<1>1. BLOCK \in Nat /\ Index = 0 .. (BLOCK - 1)
  BY Sizes DEF Index
<1>2. \A k \in 1 .. BLOCK : <<x, s[k - 1]>> \in V
  BY <1>1 DEF SeedBytes
<1>3. /\ kor(s, x) \in Seq(V) /\ Len(kor(s, x)) = BLOCK
      /\ \A k \in 1 .. BLOCK : kor(s, x)[k] = <<x, s[k - 1]>>
  BY <1>1, <1>2 DEF kor
<1>4. PICK first \in Seq(V) : first = kor(s, x) /\ Len(first) = BLOCK
  BY <1>3
<1>5. /\ first \o more \in Seq(V) /\ Len(first \o more) = BLOCK + Len(more)
      /\ \A j \in 1 .. BLOCK : (first \o more)[j] = first[j]
      /\ \A j \in 1 .. Len(more) : (first \o more)[BLOCK + j] = more[j]
  BY <1>1, <1>4
<1>6. ASSUME NEW k \in Index PROVE (first \o more)[k + 1] = <<x, s[k]>>
  <2>1. k + 1 \in 1 .. BLOCK /\ (k + 1) - 1 = k
    BY <1>1
  <2> QED BY <1>3, <1>4, <1>5, <2>1
<1>7. ASSUME NEW k \in 0 .. (Len(more) - 1) PROVE (first \o more)[BLOCK + k + 1] = more[k + 1]
  <2>1. PICK j \in 1 .. Len(more) : j = k + 1 /\ BLOCK + k + 1 = BLOCK + j
    BY <1>1
  <2>2. (first \o more)[BLOCK + j] = more[j]
    BY <1>5
  <2> QED BY <2>1, <2>2, Zenon
<1> QED BY <1>3, <1>4, <1>5, <1>6, <1>7 DEF SeedThen

\* Two such messages agree in what is read of them when the seeds do and the
\* bytes that follow do.
LEMMA MessagesOfSeeds ==
    ASSUME NEW V, Byte \subseteq V, NEW s, NEW t, NEW x, NEW X, NEW Y,
           NEW more \in Seq(V), NEW other \in Seq(V), Len(more) = Len(other),
           SeedBytes(V, s, x), SeedBytes(V, t, x),
           NEW c \in AnyContext(V, X), NEW d \in AnyContext(V, Y)
    PROVE  sha256(c, kor(s, x), more).state = sha256(d, kor(t, x), other).state <=>
              SeedsAgree(s, t) /\ Agree(more, other, BLOCK)
<1> DEFINE m1 == kor(s, x) \o more
           m2 == kor(t, x) \o other
<1>1. /\ m1 \in Seq(V) /\ m2 \in Seq(V) /\ kor(s, x) \in Seq(V) /\ kor(t, x) \in Seq(V)
      /\ Len(m1) = BLOCK + Len(more) /\ Len(m2) = BLOCK + Len(more)
      /\ \A k \in Index : m1[k + 1] = <<x, s[k]>> /\ m2[k + 1] = <<x, t[k]>>
      /\ \A k \in 0 .. (Len(more) - 1) : /\ m1[BLOCK + k + 1] = more[k + 1]
                                         /\ m2[BLOCK + k + 1] = other[k + 1]
  <2>1. /\ kor(s, x) \in Seq(V) /\ m1 \in Seq(V) /\ SeedThen(m1, s, x, more)
        /\ kor(t, x) \in Seq(V) /\ m2 \in Seq(V) /\ SeedThen(m2, t, x, other)
    BY MessageBytes
  <2> HIDE DEF m1, m2
  <2> QED BY <2>1 DEF SeedThen
<1>2. /\ sha256(c, kor(s, x), more) \in Context(V)
      /\ DigestIs(sha256(c, kor(s, x), more), m1)
      /\ sha256(d, kor(t, x), other) \in Context(V)
      /\ DigestIs(sha256(d, kor(t, x), other), m2)
  BY <1>1, DigestOfParts
<1> HIDE DEF m1, m2
<1>3. Len(m1) = Len(m2)
  BY <1>1
<1>4. sha256(c, kor(s, x), more).state = sha256(d, kor(t, x), other).state
        <=> Agree(m1, m2, 0)
  BY <1>1, <1>2, <1>3, MessagesAgree
<1>5. BLOCK \in Nat /\ Index = 0 .. (BLOCK - 1) /\ Len(more) \in Nat
  BY Sizes DEF Index
<1>6. ASSUME NEW y \in 0 .. (Len(m1) - 1)
      PROVE  y \in Index \/ \E k \in 0 .. (Len(more) - 1) : y = BLOCK + k
  <2>1. CASE y < BLOCK
    BY <1>5, <2>1
  <2>2. CASE ~(y < BLOCK)
    <3>1. y - BLOCK \in 0 .. (Len(more) - 1) /\ y = BLOCK + (y - BLOCK)
      BY <1>1, <1>5, <2>2
    <3> QED BY <3>1
  <2> QED BY <2>1, <2>2
<1>7. /\ \A k \in Index : k \in 0 .. (Len(m1) - 1)
      /\ \A k \in 0 .. (Len(more) - 1) : BLOCK + k \in 0 .. (Len(m1) - 1)
  BY <1>1, <1>5
<1>8. ASSUME NEW k \in Index PROVE m1[k + 1] = m2[k + 1] <=> s[k] = t[k]
  <2>1. m1[k + 1] = <<x, s[k]>> /\ m2[k + 1] = <<x, t[k]>>
    BY <1>1
  <2>2. <<x, s[k]>> = <<x, t[k]>> <=> s[k] = t[k]
    OBVIOUS
  <2> QED BY <2>1, <2>2
<1>9. \A k \in 0 .. (Len(more) - 1) :
        m1[BLOCK + k + 1] = m2[BLOCK + k + 1] <=> more[k + 1] = other[k + 1]
  BY <1>1
<1>10. Agree(m1, m2, 0) <=> \A y \in 0 .. (Len(m1) - 1) : Read(y) => m1[y + 1] = m2[y + 1]
  <2>1. \A y \in 0 .. (Len(m1) - 1) : 0 + y = y
    OBVIOUS
  <2> QED BY <2>1 DEF Agree
<1>11. Agree(m1, m2, 0) <=> SeedsAgree(s, t) /\ Agree(more, other, BLOCK)
  BY <1>6, <1>7, <1>8, <1>9, <1>10 DEF Agree, SeedsAgree
<1> QED BY <1>4, <1>11

\* The bytes of a digest are there, one for each place.
LEMMA DigestBytes ==
    ASSUME NEW U, NEW e, \A k \in 1 .. S : <<k, e.state>> \in U
    PROVE  /\ digest_bytes(e) \in Seq(U) /\ Len(digest_bytes(e)) = S
           /\ \A k \in 0 .. (S - 1) : digest_bytes(e)[k + 1] = <<k + 1, e.state>>
<1>1. S \in Nat
  BY RandomConstants
<1>2. PICK f : f = [k \in 1 .. S |-> <<k, e.state>>]
  OBVIOUS
<1>3. f \in [1 .. S -> U]
  BY <1>2
<1>4. f \in Seq(U) /\ Len(f) = S
  BY ONLY <1>1, <1>3
<1>5. ASSUME NEW k \in 0 .. (S - 1) PROVE f[k + 1] = <<k + 1, e.state>>
  <2>1. k + 1 \in 1 .. S
    BY ONLY <1>1, k \in 0 .. (S - 1)
  <2> QED BY ONLY <1>2, <2>1, Zenon
<1>6. digest_bytes(e) = f
  BY <1>2 DEF digest_bytes, S
<1> QED BY ONLY <1>4, <1>5, <1>6, Zenon

\* Two blocks are equal when their seeds and counters are, as far as read.
LEMMA BlocksAgree ==
    ASSUME NEW g \in Leftover, NEW h \in Leftover, NEW s, NEW t, NEW c, NEW d
    PROVE  block_digest(uninitialised(g), s, c) = block_digest(uninitialised(h), t, d) <=>
              /\ \A k \in Index : Read(k) => s[k] = t[k]
              /\ \A k \in 0 .. (COUNTER - 1) : Read(BLOCK + k) =>
                    CounterByte(c, k) = CounterByte(d, k)
<1> DEFINE more == counter_bytes(c)
           other == counter_bytes(d)
           V == Byte \cup {<<x, s[k]>> : x \in {54, 92}, k \in Index}
                     \cup {<<x, t[k]>> : x \in {54, 92}, k \in Index}
                     \cup {CounterByte(c, k) : k \in 0 .. (COUNTER - 1)}
                     \cup {CounterByte(d, k) : k \in 0 .. (COUNTER - 1)}
           i1 == sha256(uninitialised(g), kor(s, 54), more)
           i2 == sha256(uninitialised(h), kor(t, 54), other)
           U == V \cup {<<k, i1.state>> : k \in 1 .. S} \cup {<<k, i2.state>> : k \in 1 .. S}
<1>1. /\ Byte \subseteq V /\ V \subseteq U
      /\ \A x \in {54, 92}, k \in Index : <<x, s[k]>> \in V /\ <<x, t[k]>> \in V
      /\ \A k \in 0 .. (COUNTER - 1) : CounterByte(c, k) \in V /\ CounterByte(d, k) \in V
      /\ \A k \in 1 .. S : <<k, i1.state>> \in U /\ <<k, i2.state>> \in U
  OBVIOUS
<1> HIDE DEF V, U
<1>2. /\ more \in Seq(V) /\ other \in Seq(V) /\ Len(more) = COUNTER /\ Len(other) = COUNTER
      /\ \A k \in 0 .. (COUNTER - 1) : /\ more[k + 1] = CounterByte(c, k)
                                       /\ other[k + 1] = CounterByte(d, k)
  <2>1. \A k \in 1 .. COUNTER : CounterByte(c, k - 1) \in V /\ CounterByte(d, k - 1) \in V
    BY <1>1, RandomOK
  <2>2. COUNTER \in Nat
    BY RandomOK
  <2> QED BY <2>1, <2>2 DEF counter_bytes
<1> HIDE DEF more, other
<1>3. ASSUME NEW e \in Leftover
      PROVE  uninitialised(e) \in AnyContext(V, {})
  BY <1>1, RandomOK, Sizes DEF uninitialised, Byte, AnyContext
<1>4. i1.state = i2.state <=>
        /\ SeedsAgree(s, t)
        /\ \A k \in 0 .. (COUNTER - 1) : Read(BLOCK + k) => CounterByte(c, k) = CounterByte(d, k)
  <2>1. Len(more) = Len(other) /\ Byte \subseteq V
    BY <1>1, <1>2
  <2>2. SeedBytes(V, s, 54) /\ SeedBytes(V, t, 54)
    BY <1>1 DEF SeedBytes
  <2>3. i1.state = i2.state <=> SeedsAgree(s, t) /\ Agree(more, other, BLOCK)
    BY <1>2, <1>3, <2>1, <2>2, MessagesOfSeeds
  <2> HIDE DEF i1, i2
  <2> QED BY <1>2, <2>3 DEF Agree
<1>5. i1 \in Context(V) /\ i2 \in Context(V)
  <2>1. /\ SeedBytes(V, s, 54) /\ SeedBytes(V, t, 54) /\ Byte \subseteq V
    BY <1>1 DEF SeedBytes
  <2>2. kor(s, 54) \in Seq(V) /\ kor(t, 54) \in Seq(V)
    BY <1>2, <2>1, MessageBytes
  <2> QED BY <1>2, <1>3, <2>1, <2>2, DigestOfParts
<1>6. /\ block_digest(uninitialised(g), s, c) = sha256(i1, kor(s, 92), digest_bytes(i1)).state
      /\ block_digest(uninitialised(h), t, d) = sha256(i2, kor(t, 92), digest_bytes(i2)).state
  BY DEF block_digest, more, other
<1> HIDE DEF i1, i2
<1>7. i1 \in AnyContext(U, WordBlock(V)) /\ i2 \in AnyContext(U, WordBlock(V))
  BY <1>1, <1>5, Sizes DEF Context, Index, WordBlock, AnyContext
<1>8. /\ digest_bytes(i1) \in Seq(U) /\ digest_bytes(i2) \in Seq(U)
      /\ Len(digest_bytes(i1)) = S /\ Len(digest_bytes(i2)) = S
      /\ \A k \in 0 .. (S - 1) : /\ digest_bytes(i1)[k + 1] = <<k + 1, i1.state>>
                                 /\ digest_bytes(i2)[k + 1] = <<k + 1, i2.state>>
  BY <1>1, DigestBytes
<1>9. sha256(i1, kor(s, 92), digest_bytes(i1)).state
        = sha256(i2, kor(t, 92), digest_bytes(i2)).state <=>
        SeedsAgree(s, t) /\ Agree(digest_bytes(i1), digest_bytes(i2), BLOCK)
  <2>1. SeedBytes(U, s, 92) /\ SeedBytes(U, t, 92) /\ Byte \subseteq U
    BY <1>1 DEF SeedBytes
  <2> DEFINE b1 == digest_bytes(i1)
             b2 == digest_bytes(i2)
  <2>2. b1 \in Seq(U) /\ b2 \in Seq(U) /\ Len(b1) = Len(b2)
    BY <1>8
  <2> HIDE DEF b1, b2
  <2>3. sha256(i1, kor(s, 92), b1).state = sha256(i2, kor(t, 92), b2).state
          <=> SeedsAgree(s, t) /\ Agree(b1, b2, BLOCK)
    BY <1>7, <2>1, <2>2, MessagesOfSeeds
  <2> QED BY <2>3 DEF b1, b2
<1>10. Agree(digest_bytes(i1), digest_bytes(i2), BLOCK) <=> i1.state = i2.state
  <2>1. 0 \in 0 .. (S - 1) /\ Read(BLOCK + 0)
    BY RandomConstants, Sizes, SizesOK DEF Read
  <2>2. ASSUME NEW k PROVE <<k, i1.state>> = <<k, i2.state>> <=> i1.state = i2.state
    OBVIOUS
  <2>3. ASSUME NEW k \in 0 .. (S - 1)
        PROVE  digest_bytes(i1)[k + 1] = digest_bytes(i2)[k + 1] <=> i1.state = i2.state
    BY <1>8, <2>2
  <2> QED BY <1>8, <2>1, <2>3 DEF Agree
<1> QED BY <1>4, <1>6, <1>9, <1>10 DEF SeedsAgree

\* For seeds and counters of every size a block of output equals an earlier
\* one exactly when they agree in what is read of them (util.c:41-57).
THEOREM BlocksEqualWhen == RandomSpec => []EqualOutputs
<1>1. EqualOutputs
  BY BlocksAgree DEF EqualOutputs
<1> QED BY <1>1, PTL

-----------------------------------------------------------------------------
\* What the bytes of the counter count.
LEMMA PlaceValues ==
    /\ PlaceValue[0] = 1
    /\ \A k \in 0 .. COUNTER : PlaceValue[k] \in Nat \ {0}
    /\ \A k \in 1 .. COUNTER : PlaceValue[k] = BYTE_MOD * PlaceValue[k - 1]
<1> DEFINE P == Nat \ {0}
           step == [z \in P \X (1 .. COUNTER) |-> BYTE_MOD * z[1]]
<1>0. COUNTER \in Nat /\ BYTE_MOD \in P
  BY RandomOK, Sizes
<1>1. ASSUME NEW k \in 1 .. COUNTER, NEW v \in P
      PROVE  step[<<v, k>>] = BYTE_MOD * v /\ step[<<v, k>>] \in P
  <2>1. step[<<v, k>>] = BYTE_MOD * v
    OBVIOUS
  <2>2. \A x, y \in P : x * y \in P
    OBVIOUS
  <2> HIDE DEF step, P
  <2> QED BY <1>0, <2>1, <2>2
<1> HIDE DEF step
<1>2. StaysIn(COUNTER, P, step) /\ 1 \in P
  BY <1>1 DEF StaysIn
<1> HIDE DEF P
<1>3. PICK f \in [0 .. COUNTER -> P] : Iterates(COUNTER, 1, step, f)
  BY <1>0, <1>2, Repeated
<1>4. ASSUME NEW k \in 0 .. COUNTER
      PROVE  f[k] = IF k = 0 THEN 1 ELSE BYTE_MOD * f[k - 1]
  <2>1. CASE k = 0
    BY <1>3, <2>1 DEF Iterates
  <2>2. CASE k # 0
    <3>1. k \in 1 .. COUNTER /\ k - 1 \in 0 .. COUNTER
      BY <1>0, <2>2
    <3>2. f[k] = step[<<f[k - 1], k>>] /\ f[k - 1] \in P
      BY <1>3, <3>1 DEF Iterates
    <3> QED BY <1>1, <2>2, <3>1, <3>2
  <2> QED BY <2>1, <2>2
<1>5. f = [k \in 0 .. COUNTER |-> IF k = 0 THEN 1 ELSE BYTE_MOD * f[k - 1]]
  BY <1>4
<1>6. PlaceValue = [k \in 0 .. COUNTER |-> IF k = 0 THEN 1 ELSE BYTE_MOD * PlaceValue[k - 1]]
  <2>1. \E g : g = [k \in 0 .. COUNTER |-> IF k = 0 THEN 1 ELSE BYTE_MOD * g[k - 1]]
    BY <1>5
  <2> QED BY <2>1, Zenon DEF PlaceValue
<1>7. /\ PlaceValue[0] = 1
      /\ \A k \in 1 .. COUNTER : PlaceValue[k] = BYTE_MOD * PlaceValue[k - 1]
  BY <1>0, <1>6
<1> DEFINE T == {k \in 0 .. COUNTER : PlaceValue[k] \in P}
<1>8. 0 \in T
  BY <1>0, <1>2, <1>7
<1>9. ASSUME NEW k \in 0 .. (COUNTER - 1), k \in T PROVE k + 1 \in T
  <2>1. k + 1 \in 0 .. COUNTER /\ k + 1 \in 1 .. COUNTER /\ (k + 1) - 1 = k
    BY <1>0
  <2>2. PlaceValue[k + 1] = BYTE_MOD * PlaceValue[k]
    BY <1>7, <2>1
  <2> QED BY <1>1, <1>9, <2>1, <2>2
<1>10. \A k \in 0 .. COUNTER : k \in T
  <2> HIDE DEF T
  <2> QED BY <1>0, <1>8, <1>9, UpTo
<1> QED BY <1>7, <1>10 DEF P

\* A number by its three lowest digits and the rest, and what these are of it.
Digits(B, q, w, v, u) == B * (B * (B * q + w) + v) + u
HasDigits(B, c, w, v, u) ==
    c % B = u /\ (c \div B) % B = v /\ (c \div (B * B)) % B = w

LEMMA DigitsAre ==
    ASSUME NEW B \in Nat \ {0}, NEW q \in Nat,
           NEW u \in 0 .. (B - 1), NEW v \in 0 .. (B - 1), NEW w \in 0 .. (B - 1),
           NEW c, c = Digits(B, q, w, v, u)
    PROVE  HasDigits(B, c, w, v, u)
<1>1. PICK x \in Nat : x = B * q + w
  OBVIOUS
<1>2. PICK y \in Nat : y = B * x + v
  OBVIOUS
<1>3. c = B * y + u
  BY <1>1, <1>2 DEF Digits
<1>4. c % B = u /\ c \div B = y
  BY <1>3, DivisionUnique
<1>5. y % B = v
  <2>1. ASSUME NEW h \in Int, NEW r \in 0 .. (B - 1) PROVE (B * h + r) % B = r
    BY DivisionUnique
  <2>2. x \in Int
    OBVIOUS
  <2> QED BY <1>2, <2>1, <2>2
<1>6. c \div (B * B) = x
  <2>1. PICK M \in Nat \ {0} : M = B * B
    OBVIOUS
  <2>2. PICK r \in 0 .. (M - 1) : r = B * v + u
    <3>1. B * v + B <= B * B
      BY MultipleGrows
    <3>2. B * v \in Nat
      OBVIOUS
    <3> QED BY <2>1, <3>1, <3>2
  <2>3. c = M * x + r
    <3>1. B * (B * x + v) = B * (B * x) + B * v /\ B * (B * x) = (B * B) * x
      OBVIOUS
    <3>2. B * v \in Nat /\ M * x \in Nat
      OBVIOUS
    <3> QED BY <1>2, <1>3, <2>1, <2>2, <3>1, <3>2
  <2>4. c \div M = x
    BY <2>3, DivisionUnique
  <2> QED BY <2>1, <2>4
<1>7. x % B = w
  BY <1>1, DivisionUnique
<1> QED BY <1>4, <1>5, <1>6, <1>7 DEF HasDigits

LEMMA DigitsOf ==
    ASSUME NEW B \in Nat \ {0}, NEW c \in Nat
    PROVE  \E q \in Nat, u, v, w \in 0 .. (B - 1) : c = Digits(B, q, w, v, u)
<1>1. PICK y \in Nat, u \in 0 .. (B - 1) : c = B * y + u
  BY DivideNat
<1>2. PICK x \in Nat, v \in 0 .. (B - 1) : y = B * x + v
  BY DivideNat
<1>3. PICK q \in Nat, w \in 0 .. (B - 1) : x = B * q + w
  BY DivideNat
<1> QED BY <1>1, <1>2, <1>3 DEF Digits

\* The three bytes of the counter before the one that is not read.
LEMMA LowPlaces ==
    ASSUME COUNTER >= 3
    PROVE  /\ 0 \in 0 .. (COUNTER - 1) /\ 1 \in 0 .. (COUNTER - 1) /\ 2 \in 0 .. (COUNTER - 1)
           /\ Read(BLOCK + 0) /\ Read(BLOCK + 1) /\ Read(BLOCK + 2) /\ ~Read(BLOCK + 3)
           /\ PlaceValue[0] = 1 /\ PlaceValue[1] = BYTE_MOD
           /\ PlaceValue[2] = BYTE_MOD * BYTE_MOD
           /\ PlaceValue[3] = BYTE_MOD * (BYTE_MOD * BYTE_MOD)
           /\ little => \A c \in Nat :
                             /\ CounterByte(c, 0) = c % BYTE_MOD
                             /\ CounterByte(c, 1) = (c \div BYTE_MOD) % BYTE_MOD
                             /\ CounterByte(c, 2) = (c \div (BYTE_MOD * BYTE_MOD)) % BYTE_MOD
<1>0. COUNTER \in Nat /\ BYTE_MOD \in Nat
  BY RandomOK, Sizes
<1>1. PICK q \in Int : BLOCK = 4 * q
  <2>1. BLOCK \in Nat /\ BLOCK % 4 = 0
    BY Sizes, SizesOK
  <2>2. BLOCK = 4 * (BLOCK \div 4) /\ BLOCK \div 4 \in Int
    BY <2>1
  <2> QED BY <2>2
<1>2. Read(BLOCK + 0) /\ Read(BLOCK + 1) /\ Read(BLOCK + 2) /\ ~Read(BLOCK + 3)
  BY <1>1 DEF Read
<1>3. 1 \in 1 .. COUNTER /\ 2 \in 1 .. COUNTER /\ 3 \in 1 .. COUNTER
  BY <1>0
<1>4. PlaceValue[0] = 1 /\ PlaceValue[1] = BYTE_MOD
  <2>1. PlaceValue[1] = BYTE_MOD * PlaceValue[1 - 1]
    BY <1>3, PlaceValues
  <2> QED BY <1>0, <2>1, PlaceValues
<1>5. PlaceValue[2] = BYTE_MOD * BYTE_MOD
  <2>1. PlaceValue[2] = BYTE_MOD * PlaceValue[2 - 1]
    BY <1>3, PlaceValues
  <2> QED BY <1>4, <2>1
<1>6. PlaceValue[3] = BYTE_MOD * (BYTE_MOD * BYTE_MOD)
  <2>1. PlaceValue[3] = BYTE_MOD * PlaceValue[3 - 1]
    BY <1>3, PlaceValues
  <2> QED BY <1>5, <2>1
<1>7. ASSUME little, NEW c \in Nat
      PROVE  /\ CounterByte(c, 0) = c % BYTE_MOD
             /\ CounterByte(c, 1) = (c \div BYTE_MOD) % BYTE_MOD
             /\ CounterByte(c, 2) = (c \div (BYTE_MOD * BYTE_MOD)) % BYTE_MOD
  <2>1. c \div 1 = c
    OBVIOUS
  <2> QED BY <1>4, <1>5, <1>7, <2>1 DEF CounterByte, PlaceOf
<1> QED BY <1>0, <1>2, <1>3, <1>4, <1>5, <1>6, <1>7

\* Counters that agree in those bytes are the same or far apart.
LEMMA FarApart ==
    ASSUME COUNTER >= 3, little, NEW c \in Nat, NEW d \in Nat, c < d,
           \A k \in 0 .. (COUNTER - 1) :
              Read(BLOCK + k) => CounterByte(c, k) = CounterByte(d, k)
    PROVE  d - c >= PlaceValue[3]
<1>1. PICK B \in Nat \ {0} : B = BYTE_MOD
  BY Sizes
<1>2. \A h, j, k : HasDigits(B, c, h, j, k) <=> HasDigits(B, d, h, j, k)
  <2>1. c % B = d % B /\ (c \div B) % B = (d \div B) % B
        /\ (c \div (B * B)) % B = (d \div (B * B)) % B
    BY <1>1, LowPlaces
  <2> QED BY <2>1 DEF HasDigits
<1>3. PICK q \in Nat, u \in 0 .. (B - 1), v \in 0 .. (B - 1), w \in 0 .. (B - 1) :
            c = Digits(B, q, w, v, u)
  BY DigitsOf
<1>4. PICK p1 \in Nat, x \in 0 .. (B - 1), y \in 0 .. (B - 1), z \in 0 .. (B - 1) :
            d = Digits(B, p1, z, y, x)
  BY DigitsOf
<1>5. x = u /\ y = v /\ z = w
  <2>1. HasDigits(B, c, w, v, u)
    BY <1>3, DigitsAre
  <2>2. HasDigits(B, d, z, y, x)
    BY <1>4, DigitsAre
  <2> QED BY <1>2, <2>1, <2>2 DEF HasDigits
<1>6. PICK M \in Nat \ {0} : M = B * (B * B)
  <2>1. \A h, j \in Nat \ {0} : h * j \in Nat \ {0}
    OBVIOUS
  <2>2. B * (B * B) \in Nat \ {0}
    BY <2>1
  <2> QED BY <2>2
<1>7. PICK r \in Nat : c = M * q + r /\ d = M * p1 + r
  <2>1. \A h \in Nat : B * (B * (B * h + w) + v) + u = M * h + (B * (B * w + v) + u)
    <3> SUFFICES ASSUME NEW h \in Nat
                 PROVE  B * (B * (B * h + w) + v) + u = M * h + (B * (B * w + v) + u)
      OBVIOUS
    <3>1. PICK a \in Nat : a = B * w
      OBVIOUS
    <3>2. PICK e \in Nat : e = B * h
      OBVIOUS
    <3>3. B * (e + a + v) = B * e + B * a + B * v /\ B * (a + v) = B * a + B * v
      OBVIOUS
    <3>4. B * (e + w) = B * e + a
      BY <3>1, <3>2
    <3>5. PICK f \in Nat : f = B * e
      OBVIOUS
    <3>6. B * (B * (e + w) + v) = B * f + B * (a + v)
      <4>1. B * (e + w) + v = f + (a + v)
        BY <3>1, <3>4, <3>5
      <4>2. B * (f + (a + v)) = B * f + B * (a + v)
        OBVIOUS
      <4> QED BY <4>1, <4>2
    <3>7. B * f = M * h
      <4>1. B * (B * (B * h)) = (B * (B * B)) * h
        OBVIOUS
      <4> QED BY <1>6, <3>2, <3>5, <4>1
    <3>8. B * f \in Nat /\ B * (a + v) \in Nat
      OBVIOUS
    <3> QED BY <3>1, <3>2, <3>6, <3>7, <3>8
  <2>2. B * (B * w + v) + u \in Nat
    OBVIOUS
  <2> QED BY <1>3, <1>4, <1>5, <2>1, <2>2 DEF Digits
<1>8. q < p1
  <2> SUFFICES ASSUME ~(q < p1) PROVE FALSE
    OBVIOUS
  <2>1. p1 = q \/ p1 < q
    OBVIOUS
  <2>2. p1 < q => M * p1 + M <= M * q
    BY MultipleGrows
  <2>3. M * p1 \in Int /\ M * q \in Int
    OBVIOUS
  <2> QED BY <1>7, <2>1, <2>2, <2>3
<1>9. M * q + M <= M * p1 /\ M * q \in Int /\ M * p1 \in Int
  BY <1>8, MultipleGrows
<1>10. d - c >= M
  BY <1>7, <1>9
<1>11. PlaceValue[3] = M
  BY <1>1, <1>6, LowPlaces
<1> QED BY <1>10, <1>11

\* On a little-endian machine no block comes twice among any 2^24 in a row,
\* whatever seeds they are made of (util.c:32-61 with sha256.c:34-42).
THEOREM NoBlockTwice ==
    ASSUME COUNTER >= 3 PROVE RandomSpec => []OutputsDiffer
<1>1. RandomInv => OutputsDiffer
  <2> SUFFICES ASSUME RandomInv,
                      NEW a \in 1 .. Len(used), NEW b \in 1 .. Len(used),
                      NEW g \in Leftover, NEW h \in Leftover,
                      little,
                      a < b, b - a < PlaceValue[3],
                      block_digest(uninitialised(g), used[a].seed, used[a].counter)
                        = block_digest(uninitialised(h), used[b].seed, used[b].counter)
               PROVE  FALSE
    BY DEF OutputsDiffer
  <2>1. Len(used) \in Nat /\ used[a].counter = a - 1 /\ used[b].counter = b - 1
    BY DEF RandomInv, RandomTypeOK, Counted
  <2>2. PICK c \in Nat, d \in Nat : c = used[a].counter /\ d = used[b].counter
                                    /\ c < d /\ d - c = b - a
    BY <2>1
  <2>3. \A k \in 0 .. (COUNTER - 1) :
          Read(BLOCK + k) => CounterByte(c, k) = CounterByte(d, k)
    BY <2>2, BlocksAgree
  <2>4. d - c >= PlaceValue[3]
    BY <2>2, <2>3, FarApart
  <2>5. PlaceValue[3] \in Nat /\ d - c \in Nat
    <3>1. 3 \in 0 .. COUNTER
      BY RandomOK
    <3> QED BY <2>2, <3>1, PlaceValues
  <2> QED BY <2>1, <2>2, <2>4, <2>5
<1> QED BY <1>1, RandomInvHolds, PTL

\* One place further, a small counter differs in the byte that is not read.
LEMMA OneRound ==
    ASSUME COUNTER >= 3, little, NEW c \in Nat, NEW d \in Nat,
           c < PlaceValue[3], d = c + PlaceValue[3]
    PROVE  \A k \in 0 .. (COUNTER - 1) :
              Read(BLOCK + k) => CounterByte(c, k) = CounterByte(d, k)
<1>0. COUNTER \in Nat /\ 3 \in 0 .. COUNTER
  BY RandomOK
<1>1. PICK B \in Nat \ {0} : B = BYTE_MOD /\ B > 1
  BY Sizes
<1>2. PICK M \in Nat \ {0} : M = PlaceValue[3]
  BY <1>0, PlaceValues
<1>3. ASSUME NEW k \in {0, 1, 2} PROVE CounterByte(c, k) = CounterByte(d, k)
  <2>1. PICK q \in Nat, u \in 0 .. (B - 1), v \in 0 .. (B - 1), w \in 0 .. (B - 1) :
              c = Digits(B, q, w, v, u)
    BY DigitsOf
  <2>2. d = Digits(B, q + 1, w, v, u)
    <3>1. PICK x \in Nat : x = B * q + w
      OBVIOUS
    <3>2. PICK y \in Nat : y = B * x + v
      OBVIOUS
    <3>3. B * (q + 1) + w = x + B
      BY <3>1
    <3>4. B * (x + B) + v = y + B * B
      <4>1. B * (x + B) = B * x + B * B /\ B * x \in Nat /\ B * B \in Nat
        OBVIOUS
      <4> QED BY <3>2, <4>1
    <3>5. B * (y + B * B) = B * y + B * (B * B)
      <4>1. \A h \in Nat : B * (y + h) = B * y + B * h
        OBVIOUS
      <4> QED BY <4>1
    <3>6. B * (B * B) = M
      BY <1>1, <1>2, LowPlaces
    <3>7. c = B * y + u /\ d = c + M /\ B * y \in Nat
      BY <1>2, <2>1, <3>1, <3>2 DEF Digits
    <3> QED BY <3>3, <3>4, <3>5, <3>6, <3>7 DEF Digits
  <2>3. q + 1 \in Nat
    OBVIOUS
  <2>4. HasDigits(B, c, w, v, u)
    BY <2>1, DigitsAre
  <2>5. HasDigits(B, d, w, v, u)
    BY <2>2, <2>3, DigitsAre
  <2>6. CounterByte(c, 0) = u /\ CounterByte(c, 1) = v /\ CounterByte(c, 2) = w
    BY <1>1, <2>4, LowPlaces DEF HasDigits
  <2>7. CounterByte(d, 0) = u /\ CounterByte(d, 1) = v /\ CounterByte(d, 2) = w
    BY <1>1, <2>5, LowPlaces DEF HasDigits
  <2> QED BY <2>6, <2>7
<1> DEFINE T == {k \in 0 .. COUNTER : k >= 4 => PlaceValue[k] >= 2 * M}
<1>4. 0 \in T
  BY <1>0
<1>5. ASSUME NEW k \in 0 .. (COUNTER - 1), k \in T PROVE k + 1 \in T
  <2>1. k + 1 \in 0 .. COUNTER /\ k + 1 \in 1 .. COUNTER /\ (k + 1) - 1 = k /\ k \in 0 .. COUNTER
    BY <1>0
  <2> SUFFICES ASSUME k + 1 >= 4 PROVE PlaceValue[k + 1] >= 2 * M
    BY <2>1
  <2>2. PICK V \in Nat \ {0} : V = PlaceValue[k] /\ PlaceValue[k + 1] = B * V
    BY <1>1, <2>1, PlaceValues
  <2>3. V >= M
    <3>1. CASE k = 3
      BY <1>2, <2>2, <3>1
    <3>2. CASE k # 3
      BY <1>5, <2>1, <2>2, <3>2
    <3> QED BY <3>1, <3>2
  <2>4. V * 2 <= V * B
    <3>1. CASE B = 2
      BY <3>1
    <3>2. CASE B # 2
      <4>1. V * 2 + V <= V * B
        BY <1>1, <3>2, MultipleGrows
      <4>2. V * B \in Nat
        OBVIOUS
      <4> QED BY <4>1, <4>2
    <3> QED BY <3>1, <3>2
  <2>5. V * B = B * V /\ V * 2 = 2 * V /\ B * V \in Nat
    OBVIOUS
  <2> QED BY <2>2, <2>3, <2>4, <2>5
<1>6. \A k \in 0 .. COUNTER : k \in T
  <2> HIDE DEF T
  <2> QED BY <1>0, <1>4, <1>5, UpTo
<1>7. ASSUME NEW k \in 4 .. (COUNTER - 1) PROVE CounterByte(c, k) = CounterByte(d, k)
  <2>1. k \in 0 .. COUNTER
    BY <1>0
  <2>2. PICK V \in Nat \ {0} : V = PlaceValue[k] /\ V >= 2 * M
    BY <1>6, <2>1, PlaceValues
  <2>3. ASSUME NEW x \in 0 .. (V - 1) PROVE x \div V = 0
    <3>1. V * 0 + x = x
      OBVIOUS
    <3> QED BY <3>1, DivisionUnique
  <2>4. c \in 0 .. (V - 1) /\ d \in 0 .. (V - 1)
    BY <1>2, <2>2
  <2> QED BY <2>2, <2>3, <2>4 DEF CounterByte, PlaceOf
<1>8. ASSUME NEW k \in 0 .. (COUNTER - 1), Read(BLOCK + k)
      PROVE  CounterByte(c, k) = CounterByte(d, k)
  <2>1. k # 3
    BY <1>8, LowPlaces
  <2>2. k \in {0, 1, 2} \/ k \in 4 .. (COUNTER - 1)
    BY <1>0, <2>1
  <2> QED BY <1>3, <1>7, <2>2
<1> QED BY <1>8

\* There, with one seed, the second 2^24 blocks are the first ones over again
\* (util.c:32-61 with sha256.c:38).
THEOREM BlocksComeAgain ==
    ASSUME COUNTER >= 3 PROVE RandomSpec => []OutputRepeats
<1>1. RandomInv => OutputRepeats
  <2> SUFFICES ASSUME RandomInv,
                      NEW a \in 1 .. Len(used), NEW b \in 1 .. Len(used),
                      NEW g \in Leftover, NEW h \in Leftover,
                      little,
                      a <= PlaceValue[3], b = a + PlaceValue[3], used[a].seed = used[b].seed
               PROVE  block_digest(uninitialised(g), used[a].seed, used[a].counter)
                        = block_digest(uninitialised(h), used[b].seed, used[b].counter)
    BY DEF OutputRepeats
  <2>1. Len(used) \in Nat /\ used[a].counter = a - 1 /\ used[b].counter = b - 1
    BY DEF RandomInv, RandomTypeOK, Counted
  <2>2. PICK M \in Nat : M = PlaceValue[3]
    <3>1. 3 \in 0 .. COUNTER
      BY RandomOK
    <3> QED BY <3>1, PlaceValues
  <2>3. PICK c \in Nat, d \in Nat : c = used[a].counter /\ d = used[b].counter
                                    /\ c < M /\ d = c + M
    <3>1. a - 1 \in Nat /\ b - 1 \in Nat /\ a - 1 < M /\ b - 1 = (a - 1) + M
      BY <2>1, <2>2
    <3> QED BY <2>1, <3>1
  <2>4. \A k \in 0 .. (COUNTER - 1) :
          Read(BLOCK + k) => CounterByte(c, k) = CounterByte(d, k)
    BY <2>2, <2>3, OneRound
  <2> QED BY <2>3, <2>4, BlocksAgree
<1> QED BY <1>1, RandomInvHolds, PTL

\* Dividing by a product divides by one factor after the other.
LEMMA DivideTwice ==
    ASSUME NEW B \in Nat \ {0}, NEW V \in Nat \ {0}, NEW c \in Nat
    PROVE  c \div (B * V) = (c \div B) \div V
<1>1. PICK q \in Nat, r \in 0 .. (B - 1) : c = B * q + r
  BY DivideNat
<1>2. PICK x \in Nat, y \in 0 .. (V - 1) : q = V * x + y
  BY DivideNat
<1>3. c \div B = q /\ q \div V = x
  BY <1>1, <1>2, DivisionUnique
<1>4. PICK P \in Nat \ {0} : P = B * V
  <2>1. \A h, j \in Nat \ {0} : h * j \in Nat \ {0}
    OBVIOUS
  <2> QED BY <2>1
<1>5. B * (V * x + y) = P * x + B * y
  <2>1. B * (V * x + y) = B * (V * x) + B * y
    <3>1. \A h, j \in Nat : B * (h + j) = B * h + B * j
      OBVIOUS
    <3>2. V * x \in Nat
      OBVIOUS
    <3> QED BY <3>1, <3>2
  <2>2. B * (V * x) = (B * V) * x
    OBVIOUS
  <2> QED BY <1>4, <2>1, <2>2
<1>6. B * y + r \in 0 .. (P - 1)
  <2>1. B * y + B <= B * V
    BY MultipleGrows
  <2>2. B * y \in Nat
    OBVIOUS
  <2> QED BY <1>4, <2>1, <2>2
<1>7. c = P * x + (B * y + r)
  <2>1. P * x \in Nat /\ B * y \in Nat
    OBVIOUS
  <2> QED BY <1>1, <1>2, <1>5, <2>1
<1>8. c \div P = x
  BY <1>6, <1>7, DivisionUnique
<1> QED BY <1>3, <1>4, <1>8

\* On a big-endian machine the lowest byte of the counter falls on a byte that
\* is not read: 256 blocks of one seed in a row are the same
\* (util.c:32-61 with sha256.c:38).
THEOREM BlocksComeAtOnce ==
    ASSUME COUNTER % 4 = 0 PROVE RandomSpec => []BigEndianRepeats
<1>1. RandomInv => BigEndianRepeats
  <2> SUFFICES ASSUME RandomInv, ~little,
                      NEW a \in 1 .. Len(used), NEW b \in 1 .. Len(used),
                      NEW g \in Leftover, NEW h \in Leftover,
                      used[a].seed = used[b].seed,
                      used[a].counter \div BYTE_MOD = used[b].counter \div BYTE_MOD
               PROVE  block_digest(uninitialised(g), used[a].seed, used[a].counter)
                        = block_digest(uninitialised(h), used[b].seed, used[b].counter)
    BY DEF BigEndianRepeats
  <2>1. Len(used) \in Nat /\ used[a].counter = a - 1 /\ used[b].counter = b - 1
    BY DEF RandomInv, RandomTypeOK, Counted
  <2>2. PICK c \in Nat, d \in Nat : /\ c = used[a].counter /\ d = used[b].counter
                                    /\ c \div BYTE_MOD = d \div BYTE_MOD
    BY <2>1
  <2>3. ASSUME NEW k \in 0 .. (COUNTER - 1), Read(BLOCK + k)
        PROVE  CounterByte(c, k) = CounterByte(d, k)
    <3>1. COUNTER \in Nat /\ BYTE_MOD \in Nat \ {0}
      BY RandomOK, Sizes
    <3>2. k # COUNTER - 1
      <4>1. BLOCK \in Nat /\ BLOCK % 4 = 0
        BY Sizes, SizesOK
      <4>2. (BLOCK + (COUNTER - 1)) % 4 = 3
        BY <3>1, <4>1
      <4> QED BY <2>3, <4>2 DEF Read
    <3>3. PICK j \in 1 .. COUNTER : j = COUNTER - 1 - k
      BY <3>1, <3>2
    <3>4. PICK V \in Nat \ {0} : V = PlaceValue[j - 1] /\ PlaceValue[j] = BYTE_MOD * V
      <4>1. j - 1 \in 0 .. COUNTER
        BY <3>1
      <4> QED BY <4>1, PlaceValues
    <3>5. c \div (BYTE_MOD * V) = d \div (BYTE_MOD * V)
      <4>1. c \div (BYTE_MOD * V) = (c \div BYTE_MOD) \div V
        BY <3>1, DivideTwice
      <4>2. d \div (BYTE_MOD * V) = (d \div BYTE_MOD) \div V
        BY <3>1, DivideTwice
      <4>3. c \div BYTE_MOD = d \div BYTE_MOD
        BY <2>2
      <4> QED BY ONLY <4>1, <4>2, <4>3, Zenon
    <3> QED BY <3>3, <3>4, <3>5 DEF CounterByte, PlaceOf
  <2> QED BY <2>2, <2>3, BlocksAgree
<1> QED BY <1>1, RandomInvHolds, PTL
=============================================================================
