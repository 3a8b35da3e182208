----------------------------- MODULE DictTables -----------------------------
(***************************************************************************)
(* The two tables of a dict (redis/src/dict.c), and what the functions of  *)
(* dict.c that read or change them do, as operators on a record d:         *)
(*   ht         the two tables                                             *)
(*   rehashidx, iterator                                                   *)
(*   heap       the tables taken from zcalloc and not yet freed            *)
(*   process    how execution goes on: "running", or how it ended          *)
(* A chain of entries is the sequence of their keys.                       *)
(*                                                                         *)
(* zcalloc writes the size it was asked for into the first word of the     *)
(* memory it returns (ZMalloc.tla), which is the first bucket: a number    *)
(* other than 0 there is a pointer to nowhere.  Garbage at the end of a    *)
(* chain stands for it.  Following it, or NULL, ends the process; what an  *)
(* access outside the memory of a table does is undefined.                 *)
(***************************************************************************)
EXTENDS Integers, Sequences, SequencesExt

CONSTANTS Keys,
          Hash,        \* type->hashFunction
          Addresses,   \* of tables
          LONG_MAX,
          MinUsable,   \* bytes that calloc(1, 0) really gives: 24 from
                       \* glibc, 8 or 16 from jemalloc
          NULL, Garbage

DICT_HT_INITIAL_SIZE == 4
sizeof_dictEntry == 24
sizeof_pointer == 8
ULONG_MAX == 2 * LONG_MAX + 1

ASSUME DictConstants ==
    /\ LONG_MAX \in Nat /\ LONG_MAX > DICT_HT_INITIAL_SIZE * sizeof_dictEntry
    /\ MinUsable \in sizeof_pointer .. (DICT_HT_INITIAL_SIZE * sizeof_pointer)
    /\ Hash \in [Keys -> 0 .. ULONG_MAX]
    /\ NULL \notin Addresses
    /\ Garbage \notin Keys

Faults == {"crashed", "undefined", "aborted", "hung"}

\* _dictReset: a table that is not there.  Its sizemask is 0.
NoTable == [table |-> NULL, size |-> 0, used |-> 0, bucket |-> <<>>]

\* Mutant: zcalloc returns the memory behind its header.
NewTableZeroed(a, size) ==
    [table |-> a, size |-> size, used |-> 0, bucket |-> [i \in 0 .. (size - 1) |-> <<>>]]

\* A table of `size` buckets at address a.  The product wraps around.
NewTable(a, size) ==
    LET bytes == (size * sizeof_dictEntry) % (ULONG_MAX + 1)
        usable == IF bytes > MinUsable THEN bytes ELSE MinUsable
    IN  [table |-> a, size |-> size, used |-> 0,
         bucket |-> [i \in 0 .. (usable \div sizeof_pointer - 1) |->
                        IF i = 0 /\ bytes # 0 THEN <<Garbage>> ELSE <<>>]]

\* _dictInit
NewDict == [ht |-> [t \in {0, 1} |-> NoTable], rehashidx |-> -1, iterator |-> 0,
            heap |-> {}, process |-> "running"]

Ends(d, how) == [d EXCEPT !.process = how]
Running(d) == d.process = "running"
dictIsRehashing(d) == d.rehashidx # -1
dictSize(d) == d.ht[0].used + d.ht[1].used

\* hash & sizemask
Index(h, hash) == IF h.size = 0 THEN 0 ELSE hash % h.size

\* What reading bucket i of h does to the process.
Access(h, i) == IF h.table = NULL THEN "crashed"
                ELSE IF i \notin DOMAIN h.bucket THEN "undefined"
                ELSE "running"
-----------------------------------------------------------------------------
(* Growing and rehashing.                                                  *)

\* Mutant: it does not refuse in a dict that is rehashing.
dictExpandAnytime(d, size, a) ==
    LET realsize == IF size >= LONG_MAX THEN LONG_MAX + 1 ELSE DICT_HT_INITIAL_SIZE
        n == NewTable(a, realsize)
    IN  IF d.ht[0].used > size THEN d
        ELSE IF size > DICT_HT_INITIAL_SIZE /\ size < LONG_MAX THEN Ends(d, "hung")
        ELSE IF realsize = d.ht[0].size THEN d
        ELSE IF d.ht[0].table = NULL
             THEN [d EXCEPT !.ht[0] = n, !.heap = @ \cup {a}]
             ELSE [d EXCEPT !.ht[1] = n, !.heap = @ \cup {a}, !.rehashidx = 0]

\* dictExpand.  It fails exactly when it leaves d as it is.  _dictNextPower
\* shifts i without storing it: no size above the initial one is found, and
\* only LONG_MAX and more are answered.
dictExpand(d, size, a) ==
    LET realsize == IF size >= LONG_MAX THEN LONG_MAX + 1 ELSE DICT_HT_INITIAL_SIZE
        n == NewTable(a, realsize)
    IN  IF dictIsRehashing(d) \/ d.ht[0].used > size THEN d
        ELSE IF size > DICT_HT_INITIAL_SIZE /\ size < LONG_MAX THEN Ends(d, "hung")
        ELSE IF realsize = d.ht[0].size THEN d
        ELSE IF d.ht[0].table = NULL
             THEN [d EXCEPT !.ht[0] = n, !.heap = @ \cup {a}]
             ELSE [d EXCEPT !.ht[1] = n, !.heap = @ \cup {a}, !.rehashidx = 0]

dictResize(d, dict_can_resize, a) ==
    IF ~dict_can_resize \/ dictIsRehashing(d) THEN d
    ELSE dictExpand(d, IF DICT_HT_INITIAL_SIZE > d.ht[0].used
                       THEN DICT_HT_INITIAL_SIZE ELSE d.ht[0].used, a)

\* Mutant: table 1 is not reset, and both places hold the same table.
FinishRehashNoReset(d) ==
    [d EXCEPT !.heap = @ \ {d.ht[0].table},
              !.ht = [t \in {0, 1} |-> d.ht[1]],
              !.rehashidx = 0]

\* Mutant: the rehash ends.
FinishRehashIdle(d) ==
    [d EXCEPT !.heap = @ \ {d.ht[0].table},
              !.ht = [t \in {0, 1} |-> IF t = 0 THEN d.ht[1] ELSE NoTable],
              !.rehashidx = -1]

\* The end of dictRehash when table 0 is empty: table 1 takes its place.
FinishRehash(d) ==
    [d EXCEPT !.heap = @ \ {d.ht[0].table},
              !.ht = [t \in {0, 1} |-> IF t = 0 THEN d.ht[1] ELSE NoTable],
              !.rehashidx = 0]

\* The chain of a bucket is moved, entry by entry, to the front of its new
\* buckets in table 1.
MoveChain(d) ==
    LET i == d.rehashidx
        chain == d.ht[0].bucket[i]
        to == d.ht[1]
        Goes(j) == SelectSeq(chain, LAMBDA k : Index(to, Hash[k]) = j)
    IN  IF to.table = NULL \/ Garbage \in ToSet(chain) THEN Ends(d, "crashed")
        ELSE IF \E k \in ToSet(chain) : Index(to, Hash[k]) \notin DOMAIN to.bucket
             THEN Ends(d, "undefined")
        ELSE [d EXCEPT
                !.ht = [t \in {0, 1} |->
                    IF t = 0
                    THEN [d.ht[0] EXCEPT !.bucket[i] = <<>>, !.used = @ - Len(chain)]
                    ELSE [to EXCEPT !.bucket = [j \in DOMAIN @ |-> Reverse(Goes(j)) \o @[j]],
                                    !.used = @ + Len(chain)]],
                !.rehashidx = i + 1]

\* One round of the loop of dictRehash: [d, go], where go is FALSE when the
\* function returns from inside the loop.  It does so at the first empty
\* bucket, as --empty_visits is then 10 * n - 1, never 0.
Round(d) ==
    LET reached == Access(d.ht[0], d.rehashidx)
    IN  IF d.ht[0].size <= d.rehashidx THEN [d |-> Ends(d, "aborted"), go |-> FALSE]
        ELSE IF reached # "running" THEN [d |-> Ends(d, reached), go |-> FALSE]
        ELSE IF d.ht[0].bucket[d.rehashidx] = <<>>
             THEN [d |-> [d EXCEPT !.rehashidx = @ + 1], go |-> FALSE]
        ELSE [d |-> MoveChain(d), go |-> Running(MoveChain(d))]

\* What follows the loop.
AfterRounds(d) == IF d.ht[0].used = 0 THEN FinishRehash(d) ELSE d

\* dictRehash(d, 1)
dictRehash1(d) ==
    IF ~dictIsRehashing(d) THEN d
    ELSE IF d.ht[0].used = 0 THEN FinishRehash(d)
    ELSE IF Round(d).go THEN AfterRounds(Round(d).d) ELSE Round(d).d

\* It is called only when dictIsRehashing, which dictRehash tests too.
_dictRehashStep(d) == IF d.iterator = 0 THEN dictRehash1(d) ELSE d
-----------------------------------------------------------------------------
(* Looking for a key, adding and deleting.                                 *)

\* The walk along the chain of a key in table h.
Probe(h, key) ==
    LET i == Index(h, Hash[key])
    IN  IF Access(h, i) # "running" THEN Access(h, i)
        ELSE IF key \in ToSet(h.bucket[i]) THEN "found"
        ELSE IF Garbage \in ToSet(h.bucket[i]) THEN "crashed"
        ELSE "absent"

\* The loop over both tables in _dictKeyIndex and in
\* dictFindEntryRefByPtrAndHash, which leaves off after table 0 when it is
\* rehashing, and goes on to table 1 when it is not.
ProbeBoth(d, key) ==
    IF Probe(d.ht[0], key) # "absent" \/ dictIsRehashing(d)
    THEN Probe(d.ht[0], key) ELSE Probe(d.ht[1], key)

\* The two cases in which _dictExpandIfNeeded calls dictExpand.
NeedsExpand(d, dict_can_resize) ==
    /\ ~dictIsRehashing(d)
    /\ \/ d.ht[0].size = 0
       \/ /\ d.ht[0].used >= d.ht[0].size
          /\ dict_can_resize \/ d.ht[0].used # 0 \/ d.ht[0].size > 5

\* Mutant: the first table is asked for at twice the size, as the next are.
_dictExpandAlwaysDoubles(d, dict_can_resize, a) ==
    IF NeedsExpand(d, dict_can_resize)
    THEN dictExpand(d, 2 * (IF d.ht[0].size = 0 THEN DICT_HT_INITIAL_SIZE
                            ELSE d.ht[0].used), a)
    ELSE d

_dictExpandIfNeeded(d, dict_can_resize, a) ==
    IF NeedsExpand(d, dict_can_resize)
    THEN dictExpand(d, IF d.ht[0].size = 0 THEN DICT_HT_INITIAL_SIZE
                       ELSE (d.ht[0].used * 2) % (ULONG_MAX + 1), a)
    ELSE d

\* Mutant: the entry always goes to table 0.
InsertFirst(d, key) ==
    LET i == Index(d.ht[0], Hash[key])
    IN  IF Access(d.ht[0], i) # "running" THEN Ends(d, Access(d.ht[0], i))
        ELSE [d EXCEPT !.ht[0].bucket[i] = <<key>> \o @, !.ht[0].used = @ + 1]

\* Mutant: the entry is not counted.
InsertUncounted(d, key) ==
    LET t == IF dictIsRehashing(d) THEN 1 ELSE 0
        i == Index(d.ht[1 - t], Hash[key])
    IN  IF Access(d.ht[t], i) # "running" THEN Ends(d, Access(d.ht[t], i))
        ELSE [d EXCEPT !.ht[t].bucket[i] = <<key>> \o @]

\* The end of dictAddRaw: the entry goes in front of the chain at the index
\* that _dictKeyIndex found in the last table it looked at.
Insert(d, key) ==
    LET t == IF dictIsRehashing(d) THEN 1 ELSE 0
        i == Index(d.ht[1 - t], Hash[key])
    IN  IF Access(d.ht[t], i) # "running" THEN Ends(d, Access(d.ht[t], i))
        ELSE [d EXCEPT !.ht[t].bucket[i] = <<key>> \o @, !.ht[t].used = @ + 1]

dictAddRaw(d, key, dict_can_resize, a) ==
    LET d1 == _dictRehashStep(d)
        d2 == _dictExpandIfNeeded(d1, dict_can_resize, a)
        probe == ProbeBoth(d2, key)
        failed == NeedsExpand(d1, dict_can_resize) /\ d2 = d1
    IN  IF ~Running(d1) THEN d1
        ELSE IF ~Running(d2) \/ failed \/ probe = "found" THEN d2
        ELSE IF probe # "absent" THEN Ends(d2, probe)
        ELSE Insert(d2, key)

\* dictReplace reads `existing` when nothing was added, but dictAddRaw
\* never sets it: _dictKeyIndex clears its own copy of the pointer.
dictReplace(d, key, dict_can_resize, a) ==
    LET added == dictAddRaw(d, key, dict_can_resize, a)
    IN  IF Running(added) /\ dictSize(added) = dictSize(d)
        THEN Ends(added, "undefined") ELSE added

dictFind(d, key) ==
    LET d1 == _dictRehashStep(d)
        probe == Probe(d1.ht[0], key)
    IN  IF ~Running(d1) \/ probe \in {"found", "absent"} THEN d1 ELSE Ends(d1, probe)

Unlinked(d, t, key) ==
    LET i == Index(d.ht[t], Hash[key])
    IN  [d EXCEPT !.ht[t].bucket[i] = RemoveFirst(@, key), !.ht[t].used = @ - 1]

\* Mutant: both tables must be empty.
NothingToDeleteBoth(d) == d.ht[0].used = 0 /\ d.ht[1].used = 0

\* The early return of dictGenericDelete.
NothingToDelete(d) == d.ht[0].used = 0 \/ d.ht[1].used = 0

dictGenericDelete(d, key) ==
    LET d1 == _dictRehashStep(d)
        p0 == Probe(d1.ht[0], key)
        p1 == Probe(d1.ht[1], key)
    IN  IF NothingToDelete(d) THEN d
        ELSE IF ~Running(d1) THEN d1
        ELSE IF p0 = "found" THEN Unlinked(d1, 0, key)
        ELSE IF p0 # "absent" THEN Ends(d1, p0)
        ELSE IF ~dictIsRehashing(d1) THEN d1
        ELSE IF p1 = "found" THEN Unlinked(d1, 1, key)
        ELSE IF p1 # "absent" THEN Ends(d1, p1)
        ELSE d1

\* _dictClear of table t: every chain is freed up to its end.
_dictClear(d, t) ==
    IF d.ht[t].used > 0 /\ Garbage \in ToSet(d.ht[t].bucket[0]) THEN Ends(d, "crashed")
    ELSE [d EXCEPT !.heap = @ \ {d.ht[t].table}, !.ht[t] = NoTable]

ClearBoth(d) ==
    LET d1 == _dictClear(d, 0) IN IF Running(d1) THEN _dictClear(d1, 1) ELSE d1
=============================================================================
