------------------------------- MODULE Sha256 -------------------------------
(***************************************************************************)
(* One SHA256_CTX and the calls made on it: sha256_init, any number of     *)
(* sha256_update calls with buffers of any length, sha256_final, and again *)
(* sha256_init on the used context (redis/src/sha256.c:76-140; util.c uses *)
(* it so).  An update runs byte by byte, because its loop index is a WORD  *)
(* of 32 bits and the length it is compared with a size_t.                 *)
(***************************************************************************)
EXTENDS Sha256Ctx

CONSTANTS Buffers,      \* the messages, in pieces, that callers pass
          Garbage,      \* what a byte of an uninitialised context may be
          IndexMod,     \* values of the loop index
          MaxBytes,     \* bound: bytes given for one digest
          MaxBlocks     \* bound: blocks absorbed by an update that never ends

ASSUME CallsOK ==
    /\ IndexMod \in Nat \ {0}
    /\ MaxBytes \in Nat /\ MaxBlocks \in Nat
    /\ \A b \in Buffers : b \in Seq(Byte)
    /\ Garbage \subseteq Byte

VARIABLES pc,       \* "raw", "open" between calls, "update" in one, "done"
          ctx,
          buf, i,   \* the update in progress: its data and its loop index
          given     \* history: the bytes given since sha256_init

vars == <<pc, ctx, buf, i, given>>

Init ==
    /\ pc = "raw"
    /\ \E g \in Garbage :
          ctx = [data |-> [k \in Index |-> g], datalen |-> 0, bitlen |-> 0,
                 state |-> <<>>]
    /\ buf = <<>> /\ i = 0 /\ given = <<>>

InitCall ==
    /\ pc # "update"
    /\ pc' = "open"
    /\ ctx' = sha256_init(ctx)
    /\ given' = <<>>
    /\ UNCHANGED <<buf, i>>

UpdateCall(b) ==
    /\ pc = "open"
    /\ Len(given) + Len(b) <= MaxBytes
    /\ pc' = "update"
    /\ buf' = b /\ i' = 0
    /\ given' = given \o b
    /\ UNCHANGED ctx

\* Mutant: the loop index is as wide as the length.
UpdateByteWide ==
    /\ pc = "update"
    /\ i < Len(buf)
    /\ Len(ctx.state) <= MaxBlocks
    /\ ctx' = absorb(ctx, buf[i + 1])
    /\ i' = i + 1
    /\ UNCHANGED <<pc, buf, given>>

UpdateByte ==
    /\ pc = "update"
    /\ i < Len(buf)
    /\ Len(ctx.state) <= MaxBlocks
    /\ ctx' = absorb(ctx, buf[i + 1])
    /\ i' = (i + 1) % IndexMod
    /\ UNCHANGED <<pc, buf, given>>

UpdateReturn ==
    /\ pc = "update"
    /\ i >= Len(buf)
    /\ pc' = "open"
    /\ buf' = <<>> /\ i' = 0
    /\ UNCHANGED <<ctx, given>>

FinalCall ==
    /\ pc = "open"
    /\ pc' = "done"
    /\ ctx' = sha256_final(ctx)
    /\ UNCHANGED <<buf, i, given>>

Next == InitCall \/ (\E b \in Buffers : UpdateCall(b)) \/ UpdateByte
        \/ UpdateReturn \/ FinalCall

Spec == Init /\ [][Next]_vars
-----------------------------------------------------------------------------
\* The padding of FIPS 180-4, byte by byte and from the message alone.
PaddedLength(n) == BLOCK * ((n + LENGTH) \div BLOCK + 1)

PaddedByte(m, p) ==
    IF p < Len(m) THEN m[p + 1]
    ELSE IF p = Len(m) THEN MARK
    ELSE IF p < PaddedLength(Len(m)) - LENGTH THEN 0
    ELSE LengthByte((8 * Len(m)) % BITLEN_MOD, PaddedLength(Len(m)) - 1 - p)

PaddedBlock(m, b) == [k \in Index |-> PaddedByte(m, BLOCK * (b - 1) + k)]

\* The context c holds the first n bytes of m: whole blocks in its state, the
\* rest in data.
Holds(c, m, n) ==
    /\ n = BLOCK * Len(c.state) + c.datalen
    /\ \A b \in 1 .. Len(c.state) :
          c.state[b] = Words([k \in Index |-> m[BLOCK * (b - 1) + k + 1]])
    /\ \A k \in 0 .. (c.datalen - 1) : c.data[k] = m[BLOCK * Len(c.state) + k + 1]
    /\ c.bitlen = (8 * (BLOCK * Len(c.state))) % BITLEN_MOD

\* V is what a byte may be.
Context(V) == [data : [Index -> V], datalen : Index, bitlen : 0 .. (BITLEN_MOD - 1),
               state : Seq([WordIndex -> V \X V \X V \X V])]

TypeOK ==
    /\ pc \in {"raw", "open", "update", "done"}
    /\ ctx \in Context(Byte)
    /\ i \in 0 .. (IndexMod - 1) /\ i <= Len(buf)

\* Between calls and in the middle of one the context holds exactly the
\* bytes given so far, whatever the pieces were (sha256.c:89-100).
AbsorbedSoFar ==
    pc \in {"open", "update"} /\ Len(buf) < IndexMod =>
        Holds(ctx, given, Len(given) - Len(buf) + i)

\* The digest is that of the padded message: no stale or uninitialised byte
\* of the context reaches it, for every length (sha256.c:102-140).
DigestOfMessage ==
    pc = "done" =>
        /\ Len(ctx.state) = PaddedLength(Len(given)) \div BLOCK
        /\ \A b \in 1 .. Len(ctx.state) : ctx.state[b] = Words(PaddedBlock(given, b))

\* What line 38 costs: the fourth byte of every word of the padded message,
\* the mark and the low length byte included, may be anything without a
\* change of the digest (sha256.c:36-39).
FourthBytesUnseen ==
    pc = "done" =>
        \A b \in 1 .. Len(ctx.state), v \in {0, MARK} :
            ctx.state[b] = Words([k \in Index |->
                IF k % 4 = 3 THEN v ELSE PaddedBlock(given, b)[k]])

\* An update with more bytes than its index has values never returns: it goes
\* on absorbing its buffer from the start (sha256.c:90-91).
OversizedNeverReturns == [][pc = "update" /\ pc' = "open" => Len(buf) < IndexMod]_vars
=============================================================================
