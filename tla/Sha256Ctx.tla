----------------------------- MODULE Sha256Ctx -----------------------------
(***************************************************************************)
(* The context of redis/src/sha256.c and what its functions do to it, as   *)
(* operators on one record: data (a block being filled), datalen, bitlen   *)
(* and state.                                                              *)
(*                                                                         *)
(* The compression function is not interpreted: state is the sequence of   *)
(* the blocks of words it was given since sha256_init, so two states are   *)
(* equal exactly when the function saw the same words.  A word is the      *)
(* tuple of the bytes that are shifted into it.  The sizes are constants;  *)
(* the code has blocks of 64 bytes, 8 length bytes, bytes of 8 bits.       *)
(***************************************************************************)
EXTENDS Integers, Sequences

CONSTANTS BLOCK,        \* bytes of a block
          LENGTH,       \* bytes of its length field
          BYTE_MOD,     \* values of a byte
          WEIGHT,       \* what byte k of a number counts, the lowest first
          BITLEN_MOD    \* values of bitlen, an unsigned long long

ASSUME SizesOK ==
    /\ BLOCK \in Nat \ {0} /\ BLOCK % 4 = 0
    /\ LENGTH \in 1 .. (BLOCK - 1)
    /\ BYTE_MOD \in Nat \ {0, 1}
    /\ WEIGHT \in [0 .. (LENGTH - 1) -> Nat \ {0}]
    /\ WEIGHT[0] = 1
    /\ \A k \in 1 .. (LENGTH - 1) : WEIGHT[k] = BYTE_MOD * WEIGHT[k - 1]
    /\ BITLEN_MOD = BYTE_MOD * WEIGHT[LENGTH - 1]

Byte == 0 .. (BYTE_MOD - 1)
Index == 0 .. (BLOCK - 1)
WordIndex == 0 .. (BLOCK \div 4 - 1)
PAD == BLOCK - LENGTH          \* 56
MARK == BYTE_MOD \div 2        \* 0x80

\* Mutant: the words hold every byte of the block.
WordsOfFour(data) ==
    [w \in WordIndex |->
        <<data[4 * w], data[4 * w + 1], data[4 * w + 2], data[4 * w + 3]>>]

\* The low byte of a word is its high byte again, not the fourth byte.
Words(data) ==
    [w \in WordIndex |->
        <<data[4 * w], data[4 * w + 1], data[4 * w + 2], data[4 * w]>>]

sha256_transform(ctx) == [ctx EXCEPT !.state = Append(@, Words(ctx.data))]

sha256_init(ctx) == [ctx EXCEPT !.bitlen = 0, !.datalen = 0, !.state = <<>>]

\* One byte of sha256_update: the body of its loop.
store(ctx, byte) == [ctx EXCEPT !.data[ctx.datalen] = byte, !.datalen = @ + 1]

\* Mutant: bitlen counts bytes.
flush_bytes(ctx) == [sha256_transform(ctx) EXCEPT
                         !.bitlen = (@ + BLOCK) % BITLEN_MOD, !.datalen = 0]

flush(ctx) == [sha256_transform(ctx) EXCEPT
                   !.bitlen = (@ + 8 * BLOCK) % BITLEN_MOD, !.datalen = 0]
absorb(ctx, byte) ==
    IF ctx.datalen + 1 = BLOCK THEN flush(store(ctx, byte)) ELSE store(ctx, byte)

sha256_update(ctx, bytes) ==
    LET after[n \in 0 .. Len(bytes)] ==
            IF n = 0 THEN ctx ELSE absorb(after[n - 1], bytes[n])
    IN  after[Len(bytes)]

\* The mark after the last byte of the message and zeros up to `end`.
mark_and_clear(ctx, end) ==
    [ctx EXCEPT !.data = [k \in Index |->
        IF k = ctx.datalen THEN MARK
        ELSE IF k > ctx.datalen /\ k < end THEN 0
        ELSE ctx.data[k]]]

\* Mutant: the block for the length alone is not cleared.
new_block_dirty(ctx) == sha256_transform(ctx)

\* The rest of the padding goes to a block of its own.
new_block(ctx) ==
    [sha256_transform(ctx) EXCEPT
        !.data = [k \in Index |-> IF k < PAD THEN 0 ELSE ctx.data[k]]]

pad(ctx) == IF PAD > ctx.datalen THEN mark_and_clear(ctx, PAD)
            ELSE new_block(mark_and_clear(ctx, BLOCK))

LengthByte(bits, k) == (bits \div WEIGHT[k]) % BYTE_MOD

put_length(ctx, bits) ==
    [ctx EXCEPT !.bitlen = bits,
                !.data = [k \in Index |->
                    IF k < PAD THEN ctx.data[k] ELSE LengthByte(bits, BLOCK - 1 - k)]]

\* The digest is the state that this leaves, byte by byte.
sha256_final(ctx) ==
    sha256_transform(
        put_length(pad(ctx), (ctx.bitlen + 8 * ctx.datalen) % BITLEN_MOD))
=============================================================================
