---------------------------- MODULE MemoryAccount ----------------------------
(***************************************************************************)
(* What zmalloc.c promises about its counter, with no threads, headers or  *)
(* heap in sight: a block is entered in the account once, with its size,   *)
(* and leaves it once, with the same size.  Only sizes that are not a      *)
(* multiple of sizeof(long) move the counter (zmalloc.c:10-26).            *)
(***************************************************************************)
EXTENDS Integers

CONSTANTS Blocks,   \* heap addresses
          Sizes,    \* sizes that are requested
          WordMod,  \* 2^(8 * sizeof(size_t))
          Long,     \* sizeof(long)
          NULL      \* "not in the account"

VARIABLES account,  \* the counter
          charged   \* the size each block was entered with, or NULL

acctVars == <<account, charged>>

\* The part of a request the counter sees: update_zmalloc_state_alloc and
\* update_zmalloc_state_free act only under `_n & (sizeof(long) - 1)`, and
\* then on the unrounded __n.
Counted(n) == IF n % Long = 0 THEN 0 ELSE n

AInit == /\ account = 0
         /\ charged = [b \in Blocks |-> NULL]

Charge(b, n) == /\ charged[b] = NULL
                /\ charged' = [charged EXCEPT ![b] = n]
                /\ account' = (account + Counted(n)) % WordMod

Discharge(b) == /\ charged[b] # NULL
                /\ charged' = [charged EXCEPT ![b] = NULL]
                /\ account' = (account - Counted(charged[b])) % WordMod

ANext == \E b \in Blocks : \/ \E n \in Sizes : Charge(b, n)
                           \/ Discharge(b)

ASpec == AInit /\ [][ANext]_acctVars
=============================================================================
