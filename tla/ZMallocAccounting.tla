------------------------- MODULE ZMallocAccounting -------------------------
(***************************************************************************)
(* How far the counter of ZMalloc is from the bytes that are really        *)
(* allocated.                                                              *)
(***************************************************************************)
EXTENDS ZMalloc

ASSUME HeapFinite == IsFiniteSet(Blocks)

\* What blocks of these sizes weigh by the measure of the counter: the
\* number of their bytes, each byte being a block and an offset in it.
Bytes(blocks, sizeOf) ==
    Cardinality({m \in blocks \X Word : m[2] < Counted(sizeOf[m[1]])})

\* The bytes of the live blocks.
CountedBytes == Bytes(live, request)

\* The block is inside a call that has not added it to the counter yet, or
\* has subtracted it already.
Uncounted(b) == \E t \in Threads :
                    ptr[t] = b /\ pc[t] \in {"count", "free", "recount"}

\* What an exact counter would hold: every block that passed its counter
\* update, except those of zcalloc, which has none.
InAccount == {b \in live : ~Uncounted(b) /\ origin[b] # "zcalloc"}
ExactCount == Bytes(InAccount, request)

\* A size_t can hold what libc has handed out.
HeapFits == CountedBytes < WordMod

Drift == (used_memory - ExactCount) % WordMod

\* The counter never overstates: zmalloc adds after malloc succeeded, zfree
\* subtracts before free, so between calls of any number of threads the
\* counter is at most what libc has handed out (and exactly that when no
\* call is in progress), and it does not wrap below zero.
NeverOverstates ==
    /\ used_memory <= CountedBytes
    /\ (\A t \in Threads : pc[t] = "client") => used_memory = CountedBytes

\* The thread is about to subtract for a block that zcalloc never added, or
\* a size that is not the one added: the client's data overwrote the header,
\* or zrealloc left the old size in it.
SubtractsWrongSize(t) ==
    /\ pc[t] \in {"uncount", "reuncount"} /\ pc'[t] # pc[t]
    /\ oldsize[t] # request[ptr[t]] \/ origin[ptr[t]] = "zcalloc"

\* Whatever the clients do, the counter leaves the exact account in no step
\* but such a subtraction: every other interleaving of the four entry points
\* keeps the error it has (zmalloc.c:10-26, 46-91).
DriftOnlyFromWrongSize ==
    [][Drift' # Drift => \E t \in Threads : SubtractsWrongSize(t)]_vars
=============================================================================
