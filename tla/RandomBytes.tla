---------------------------- MODULE RandomBytes ----------------------------
(***************************************************************************)
(* getRandomBytes of redis/src/util.c: a seed that is asked of the system  *)
(* until it was got once, a counter, and one digest of both for each block *)
(* of output, made with the functions of sha256.c as they are.             *)
(*                                                                         *)
(* The code says kxor where it declared kor; kor is meant.  A byte that    *)
(* was combined with the constant x is the pair of both, and a byte of a   *)
(* digest the pair of its place and the digest.                            *)
(***************************************************************************)
EXTENDS Sha256Ctx

CONSTANTS SHA256_BLOCK_SIZE,    \* bytes of a digest
          COUNTER, COUNTER_MOD, \* bytes and values of the counter
          UrandomSeeds,         \* what /dev/urandom may give
          WeakSeeds,            \* what clock and process id may give instead
          Leftover,             \* what a byte of an uninitialised context may be
          Lengths,              \* the lengths callers ask for
          MaxMade               \* bound: blocks made in all

ASSUME RandomOK ==
    /\ SHA256_BLOCK_SIZE \in Nat \ {0}
    /\ COUNTER \in Nat /\ COUNTER_MOD \in Nat \ {0}
    /\ Lengths \subseteq Nat
    /\ Leftover \subseteq Byte
    /\ MaxMade \in 0 .. COUNTER_MOD

kor(s, x) == [k \in 1 .. BLOCK |-> <<x, s[k - 1]>>]

digest_bytes(ctx) == [k \in 1 .. SHA256_BLOCK_SIZE |-> <<k, ctx.state>>]

VARIABLES little,          \* the machine stores the lowest byte of a number first
          phase,           \* "idle", "seed" or "fill"
          seed_initialized, seed, counter,      \* the static variables
          len, p,       \* bytes left to write, and where to
          want, out,    \* history: the length asked for, and what was written
          used          \* history: seed and counter of each block made

statics == <<seed_initialized, seed, counter>>
randomVars == <<little, phase, statics, len, p, want, out, used>>

\* What the bytes of a number count, from the lowest one on; byte k of the
\* counter as it lies in memory.
PlaceValue[k \in 0 .. COUNTER] == IF k = 0 THEN 1 ELSE BYTE_MOD * PlaceValue[k - 1]
PlaceOf(k) == IF little THEN k ELSE COUNTER - 1 - k
CounterByte(c, k) == (c \div PlaceValue[PlaceOf(k)]) % BYTE_MOD
counter_bytes(c) == [k \in 1 .. COUNTER |-> CounterByte(c, k - 1)]

sha256(ctx, first, second) ==
    sha256_final(sha256_update(sha256_update(sha256_init(ctx), first), second))

\* What a block is filled with: the digest of seed s and counter c, computed
\* in an uninitialised context.
block_digest(ctx, s, c) ==
    LET inner == sha256(ctx, kor(s, 54), counter_bytes(c))
    IN  sha256(inner, kor(s, 92), digest_bytes(inner)).state

uninitialised(g) ==
    [data |-> [k \in Index |-> g], datalen |-> g, bitlen |-> g, state |-> <<>>]

Unwritten == <<0, 0>>

RandomInit ==
    /\ little \in BOOLEAN /\ phase = "idle"
    /\ seed_initialized = FALSE /\ seed = [k \in Index |-> 0] /\ counter = 0
    /\ len = 0 /\ p = 0
    /\ want = 0 /\ out = <<>> /\ used = <<>>

Blocks(n) == (n + SHA256_BLOCK_SIZE - 1) \div SHA256_BLOCK_SIZE

\* The caller's buffer is followed by other memory.
Call(n) ==
    /\ phase = "idle"
    /\ Len(used) + Blocks(n) <= MaxMade
    /\ phase' = IF seed_initialized THEN "fill" ELSE "seed"
    /\ len' = n /\ p' = 0 /\ want' = n
    /\ out' = [j \in 0 .. (n + SHA256_BLOCK_SIZE) |-> Unwritten]
    /\ UNCHANGED <<little, statics, used>>

SeedFromUrandom ==
    /\ phase = "seed"
    /\ phase' = "fill"
    /\ seed' \in UrandomSeeds
    /\ seed_initialized' = TRUE
    /\ UNCHANGED <<little, counter, len, p, want, out, used>>

\* Mutant: with a new seed the counter starts again.
SeedFromClockAndPidRestart ==
    /\ phase = "seed"
    /\ phase' = "fill"
    /\ seed' \in WeakSeeds
    /\ counter' = 0
    /\ UNCHANGED <<little, seed_initialized, len, p, want, out, used>>

\* fopen or fread failed; the loop writes the whole seed, over what a short
\* read may have left in it.
SeedFromClockAndPid ==
    /\ phase = "seed"
    /\ phase' = "fill"
    /\ seed' \in WeakSeeds
    /\ UNCHANGED <<little, seed_initialized, counter, len, p, want, out, used>>

copylen == IF len > SHA256_BLOCK_SIZE THEN SHA256_BLOCK_SIZE ELSE len

\* Mutant: p stays where it is.
FillBlockInPlace ==
    /\ phase = "fill" /\ len > 0
    /\ used' = Append(used, [seed |-> seed, counter |-> counter])
    /\ counter' = (counter + 1) % COUNTER_MOD
    /\ out' = [j \in DOMAIN out |->
                  IF j \in p .. (p + copylen - 1)
                  THEN <<Len(used) + 1, j - p>> ELSE out[j]]
    /\ len' = len - copylen
    /\ UNCHANGED <<little, phase, seed_initialized, seed, p, want>>

\* One round of the loop: block_digest of the seed and the counter is copied
\* to p.
FillBlock ==
    /\ phase = "fill" /\ len > 0
    /\ used' = Append(used, [seed |-> seed, counter |-> counter])
    /\ counter' = (counter + 1) % COUNTER_MOD
    /\ out' = [j \in DOMAIN out |->
                  IF j \in p .. (p + copylen - 1)
                  THEN <<Len(used) + 1, j - p>> ELSE out[j]]
    /\ len' = len - copylen
    /\ p' = p + copylen
    /\ UNCHANGED <<little, phase, seed_initialized, seed, want>>

Return ==
    /\ phase = "fill" /\ len = 0
    /\ phase' = "idle"
    /\ UNCHANGED <<little, statics, len, p, want, out, used>>

RandomNext == (\E n \in Lengths : Call(n)) \/ SeedFromUrandom \/ SeedFromClockAndPid
        \/ FillBlock \/ Return

RandomSpec == RandomInit /\ [][RandomNext]_randomVars
-----------------------------------------------------------------------------
RandomTypeOK ==
    /\ little \in BOOLEAN /\ phase \in {"idle", "seed", "fill"}
    /\ seed_initialized \in BOOLEAN /\ counter \in 0 .. (COUNTER_MOD - 1)
    /\ phase = "fill" => seed \in UrandomSeeds \cup WeakSeeds
    /\ len \in Nat /\ p \in Nat /\ want = p + len
    /\ DOMAIN out \subseteq Nat
    /\ used \in Seq([seed : UrandomSeeds \cup WeakSeeds, counter : 0 .. (COUNTER_MOD - 1)])

\* No two blocks are made from the same seed and counter, although a seed
\* made of clock and process id may come twice and one of urandom may follow
\* it (util.c:15-30, 57).
NoInputTwice ==
    \A a, b \in 1 .. Len(used) :
        a < b => used[a].seed # used[b].seed \/ used[a].counter # used[b].counter

\* A byte of the message that sha256_transform reads.
Read(k) == k % 4 # 3

\* Still a block of output may equal an earlier one: exactly when their seeds
\* and counters agree in the bytes that sha256_transform reads.  Which byte of
\* the counter is not read depends on the machine (util.c:41-57 with
\* sha256.c:38).
EqualOutputs ==
    LET b == Len(used)
    IN  \A a \in 1 .. (b - 1), g, h \in Leftover :
            block_digest(uninitialised(g), used[a].seed, used[a].counter)
              = block_digest(uninitialised(h), used[b].seed, used[b].counter) <=>
            /\ \A k \in Index : Read(k) => used[a].seed[k] = used[b].seed[k]
            /\ \A k \in 0 .. (COUNTER - 1) : Read(BLOCK + k) =>
                  CounterByte(used[a].counter, k) = CounterByte(used[b].counter, k)

\* On a little-endian machine no two blocks are equal that are less than 2^24
\* apart, whatever seeds they are made of (util.c:41-57).
OutputsDiffer ==
    little => \A a, b \in 1 .. Len(used), g, h \in Leftover :
        a < b /\ b - a < PlaceValue[3] =>
            block_digest(uninitialised(g), used[a].seed, used[a].counter)
              # block_digest(uninitialised(h), used[b].seed, used[b].counter)

\* With one seed the second 2^24 blocks are the first ones over again
\* (util.c:41-57 with sha256.c:38).
OutputRepeats ==
    little => \A a, b \in 1 .. Len(used), g, h \in Leftover :
        a <= PlaceValue[3] /\ b = a + PlaceValue[3] /\ used[a].seed = used[b].seed =>
            block_digest(uninitialised(g), used[a].seed, used[a].counter)
              = block_digest(uninitialised(h), used[b].seed, used[b].counter)

\* On a big-endian machine the byte not read is the one that counts single
\* blocks: with one seed 256 blocks in a row are the same (util.c:41-57 with
\* sha256.c:38).
BigEndianRepeats ==
    ~little => \A a, b \in 1 .. Len(used), g, h \in Leftover :
        /\ used[a].seed = used[b].seed
        /\ used[a].counter \div BYTE_MOD = used[b].counter \div BYTE_MOD
        => block_digest(uninitialised(g), used[a].seed, used[a].counter)
             = block_digest(uninitialised(h), used[b].seed, used[b].counter)

\* A finished call has written the bytes it was asked for, in order, from
\* blocks of its own, and nothing behind them (util.c:32-61).
BytesInPlace ==
    phase = "idle" =>
        \A j \in DOMAIN out :
            out[j] = IF j < want
                     THEN <<Len(used) - Blocks(want) + 1 + j \div SHA256_BLOCK_SIZE,
                            j % SHA256_BLOCK_SIZE>>
                     ELSE Unwritten
=============================================================================
