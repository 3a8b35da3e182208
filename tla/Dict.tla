-------------------------------- MODULE Dict --------------------------------
(***************************************************************************)
(* A dict of redis/src/dict.c under any sequence of calls: one action per  *)
(* function that can change it, or end the process.  The callbacks of      *)
(* dictType and those given to dictScan and dictEmpty do not use the dict. *)
(***************************************************************************)
EXTENDS DictTables, FiniteSets, FiniteSetsExt

CONSTANTS Iterators,    \* of the client
          Sizes,        \* arguments of dictExpand
          Rounds,       \* arguments of dictRehash
          Counts,       \* arguments of dictGetSomeKeys
          MaxEntries, MaxIterator, MaxIndex   \* bounds for TLC

ASSUME MachineConstants ==
    /\ Sizes \subseteq 0 .. ULONG_MAX
    /\ Rounds \subseteq Nat /\ Counts \subseteq Nat

VARIABLES d,                \* the dict, NewDict when it was just created
          dict_can_resize,  \* the static switch
          rounds,           \* dictRehash: rounds its loop has left; -1 outside
          iter,             \* the iterators, NULL where there is none
          sample,           \* the locals of dictGetSomeKeys, NULL outside
          ended             \* history: the call in which the process ended, and
                            \* the size it was given; NULL while it runs

vars == <<d, dict_can_resize, rounds, iter, sample, ended>>

\* dictGetIterator.  chain starts with iter->entry and goes on with
\* iter->nextentry; it is empty when entry is NULL.
NewIterator(safe) == [safe |-> safe, table |-> 0, index |-> -1, chain |-> <<>>,
                      fingerprint |-> NULL]

Init ==
    /\ d = NewDict
    /\ dict_can_resize = TRUE
    /\ rounds = -1
    /\ iter = [x \in Iterators |-> NULL]
    /\ sample = NULL
    /\ ended = NULL

MayCall == Running(d) /\ rounds = -1 /\ sample = NULL
Fresh == Addresses \ d.heap

\* The step is one of a call of `name`.
In(name, size) ==
    ended' = IF Running(d') THEN NULL ELSE [call |-> name, size |-> size]

\* Functions of the dict alone.
Operation ==
    /\ MayCall
    /\ UNCHANGED <<dict_can_resize, rounds, iter, sample>>

Expand(size) == /\ Operation
                /\ \E a \in Fresh : d' = dictExpand(d, size, a)
                /\ In("dictExpand", size)

Resize == /\ Operation
          /\ \E a \in Fresh : d' = dictResize(d, dict_can_resize, a)
          /\ In("dictResize", NULL)

\* dictRehash; dictRehashMillieconds is a number of such calls.
Rehash == /\ MayCall
          /\ rounds' \in IF dictIsRehashing(d) THEN Rounds ELSE {-1}
          /\ UNCHANGED <<d, dict_can_resize, iter, sample, ended>>

RehashRound ==
    /\ Running(d) /\ rounds > 0 /\ d.ht[0].used # 0
    /\ d' = Round(d).d
    /\ rounds' = IF Round(d).go THEN rounds - 1 ELSE -1
    /\ UNCHANGED <<dict_can_resize, iter, sample>>
    /\ In("dictRehash", NULL)

RehashEnd ==
    /\ Running(d) /\ rounds >= 0
    /\ rounds = 0 \/ d.ht[0].used = 0
    /\ d' = AfterRounds(d)
    /\ rounds' = -1
    /\ UNCHANGED <<dict_can_resize, iter, sample>>
    /\ In("dictRehash", NULL)

\* dictAdd, dictAddRaw and dictAddOrFind.
Add(key) ==
    /\ Operation
    /\ dictSize(d) < MaxEntries
    /\ \E a \in Fresh : d' = dictAddRaw(d, key, dict_can_resize, a)
    /\ In("dictAdd", NULL)

Replace(key) ==
    /\ Operation
    /\ dictSize(d) < MaxEntries
    /\ \E a \in Fresh : d' = dictReplace(d, key, dict_can_resize, a)
    /\ In("dictReplace", NULL)

\* dictFind and dictFetchValue.
Find(key) == Operation /\ d' = dictFind(d, key) /\ In("dictFind", NULL)

\* dictDelete and dictUnlink.
Delete(key) ==
    Operation /\ d' = dictGenericDelete(d, key) /\ In("dictDelete", NULL)

FindEntryRef(key) ==
    LET probe == ProbeBoth(d, key)
    IN  /\ Operation
        /\ d' = IF dictSize(d) = 0 \/ probe \in {"found", "absent"} THEN d
                ELSE Ends(d, probe)
        /\ In("dictFindEntryRefByPtrAndHash", NULL)

\* The buckets dictGetRandomKey may hit.  It looks into table 0 for both
\* tables, and tries again while the bucket is empty.
RandomBuckets(d1) ==
    LET size0 == d1.ht[0].size
    IN  IF dictIsRehashing(d1)
        THEN {IF h >= size0 THEN h - size0 ELSE h :
                 h \in d1.rehashidx .. (size0 + d1.ht[1].size - 1)}
        ELSE 0 .. (IF size0 = 0 THEN 0 ELSE size0 - 1)

RandomKeyResults ==
    LET d1 == _dictRehashStep(d)
        h0 == d1.ht[0]
        hits == {i \in RandomBuckets(d1) :
                    Access(h0, i) # "running" \/ h0.bucket[i] # <<>>}
    IN  IF dictSize(d) = 0 THEN {d}
        ELSE IF ~Running(d1) THEN {d1}
        ELSE IF RandomBuckets(d1) = {} THEN {Ends(d1, "crashed")}
        ELSE IF hits = {} THEN {Ends(d1, "hung")}
        ELSE {IF Access(h0, i) # "running" THEN Ends(d1, Access(h0, i))
              ELSE IF Garbage \in ToSet(h0.bucket[i]) THEN Ends(d1, "crashed")
              ELSE d1 : i \in hits}

GetRandomKey ==
    Operation /\ d' \in RandomKeyResults /\ In("dictGetRandomKey", NULL)

\* The walk of _dictGetStatsHt through all buckets.
StatsWalk(h) ==
    IF h.used = 0 THEN "running"
    ELSE IF Garbage \in ToSet(h.bucket[0]) THEN "crashed"
    ELSE IF 0 .. (h.size - 1) \subseteq DOMAIN h.bucket THEN "running" ELSE "undefined"

\* dictGetStats.  The buffer may have no room for table 1.
GetStats ==
    LET first == StatsWalk(d.ht[0])
    IN  /\ Operation
        /\ \E room \in BOOLEAN :
              d' = Ends(d, IF first = "running" /\ dictIsRehashing(d) /\ room
                           THEN StatsWalk(d.ht[1]) ELSE first)
        /\ In("dictGetStats", NULL)

\* The bucket of cursor v in the smaller table and the one in the larger,
\* then rev, whose loop never ends.  When not rehashing the sizemask is
\* taken for an entry.
Scan ==
    LET small == IF d.ht[0].size > d.ht[1].size THEN 1 ELSE 0
        Walk(h, v) == IF Access(h, Index(h, v)) # "running" THEN Access(h, Index(h, v))
                      ELSE IF Garbage \in ToSet(h.bucket[Index(h, v)]) THEN "crashed"
                      ELSE "hung"
    IN  /\ Operation
        /\ IF dictSize(d) = 0 THEN d' = d
           ELSE IF ~dictIsRehashing(d) THEN d' = Ends(d, "crashed")
           ELSE \E key \in Keys :
                  LET first == Walk(d.ht[small], Hash[key])
                  IN  d' = Ends(d, IF first # "hung" THEN first
                                   ELSE Walk(d.ht[1 - small], Hash[key]))
        /\ In("dictScan", NULL)

Empty ==
    LET cleared == ClearBoth(d)
    IN  /\ Operation
        /\ d' = IF Running(cleared)
                THEN [cleared EXCEPT !.rehashidx = -1, !.iterator = 0] ELSE cleared
        /\ In("dictEmpty", NULL)

\* After dictRelease the client has no dict to call with.
Release ==
    LET cleared == ClearBoth(d)
    IN  /\ Operation
        /\ d' = IF Running(cleared) THEN Ends(cleared, "released") ELSE cleared
        /\ In("dictRelease", NULL)

\* dictEnableResize, dictDisableResize
SetResize == /\ MayCall
             /\ dict_can_resize' \in BOOLEAN
             /\ UNCHANGED <<d, rounds, iter, sample, ended>>
-----------------------------------------------------------------------------
\* A hash of both tables; collisions are left out.
dictFingerprint == [t \in {0, 1} |-> <<d.ht[t].table, d.ht[t].size, d.ht[t].used>>]

\* The conversion of an unsigned long to long.
AsLong(size) == IF size > LONG_MAX THEN size - (ULONG_MAX + 1) ELSE size

GetIterator(x, safe) ==
    /\ MayCall
    /\ iter[x] = NULL
    /\ iter' = [iter EXCEPT ![x] = NewIterator(safe)]
    /\ UNCHANGED <<d, dict_can_resize, rounds, sample, ended>>

\* The iterator was given to dictNext before.
Started(it) == it.index # -1 \/ it.table # 0

\* The buckets among `indexes` of table t at which the search of dictNext
\* stops: those with an entry, and those it cannot read.
Stops(t, indexes) == {i \in indexes : \/ Access(d.ht[t], i) # "running"
                                      \/ d.ht[t].bucket[i] # <<>>}

\* Mutant: the search does not go on to table 1 where table 0 has ended.
SearchStays(it) ==
    LET size(t) == AsLong(d.ht[t].size)
        next == it.index + 1
        here == Stops(it.table, next .. (size(it.table) - 1))
    IN  IF here # {} THEN [table |-> it.table, index |-> Min(here), hit |-> TRUE]
        ELSE [table |-> it.table, index |-> Max({next, size(it.table)}), hit |-> FALSE]

\* Where the search that starts behind the iterator ends, and whether at a
\* bucket.  The first bucket of table 1 is read without comparing its index
\* to the size of the table.
Search(it) ==
    LET size(t) == AsLong(d.ht[t].size)
        next == it.index + 1
        switches == it.table = 0 /\ dictIsRehashing(d)
        here == Stops(it.table, next .. (size(it.table) - 1))
        there == Stops(1, {0} \cup 1 .. (size(1) - 1))
    IN  IF here # {} THEN [table |-> it.table, index |-> Min(here), hit |-> TRUE]
        ELSE IF ~switches
             THEN [table |-> it.table, index |-> Max({next, size(it.table)}), hit |-> FALSE]
        ELSE IF there # {} THEN [table |-> 1, index |-> Min(there), hit |-> TRUE]
        ELSE [table |-> 1, index |-> Max({1, size(1)}), hit |-> FALSE]

\* dictNext: the rest of the chain first, then the next bucket.
Advance(x) ==
    LET it == iter[x]
        first == ~Started(it)
        rest == IF it.chain = <<>> THEN <<>> ELSE Tail(it.chain)
        found == Search(it)
        reached == IF found.hit THEN Access(d.ht[found.table], found.index) ELSE "running"
        entries == IF found.hit /\ reached = "running"
                   THEN d.ht[found.table].bucket[found.index] ELSE <<>>
        Reads(chain) == IF chain # <<>> /\ Head(chain) = Garbage THEN "crashed" ELSE "running"
    IN  /\ MayCall
        /\ it # NULL /\ it.index < MaxIndex /\ d.iterator < MaxIterator
        /\ UNCHANGED <<dict_can_resize, rounds, sample>>
        /\ IF rest # <<>>
           THEN /\ d' = Ends(d, Reads(rest))
                /\ iter' = [iter EXCEPT ![x].chain = rest]
           ELSE /\ d' = [d EXCEPT
                           !.process = IF reached # "running" THEN reached ELSE Reads(entries),
                           !.iterator = IF first /\ it.safe THEN @ + 1 ELSE @]
                /\ iter' = [iter EXCEPT ![x] =
                       [it EXCEPT !.table = found.table, !.index = found.index,
                                  !.chain = entries,
                                  !.fingerprint = IF first /\ ~it.safe
                                                  THEN dictFingerprint ELSE @]]
        /\ In("dictNext", NULL)

\* Releasing a safe iterator counts it once more.
CountReleased(e) == [e EXCEPT !.iterator = @ + 1]

\* dictReleaseIterator
ReleaseIterator(x) ==
    LET it == iter[x]
    IN  /\ MayCall
        /\ it # NULL /\ d.iterator < MaxIterator
        /\ iter' = [iter EXCEPT ![x] = NULL]
        /\ UNCHANGED <<dict_can_resize, rounds, sample>>
        /\ d' = IF ~Started(it) THEN d
                ELSE IF it.safe THEN CountReleased(d)
                ELSE IF it.fingerprint = dictFingerprint THEN d
                ELSE Ends(d, "aborted")
        /\ In("dictReleaseIterator", NULL)

-----------------------------------------------------------------------------
(* dictGetSomeKeys, alone or in dictGetFairRandomKey.                      *)

GETFAIR_NUM_ENTRIES == 15

SomeKeys(count, fair) ==
    LET wanted == Min({count, dictSize(d)})
    IN  /\ MayCall
        /\ sample' = [fair |-> fair, count |-> wanted, left |-> wanted,
                      maxsteps |-> 10 * wanted, i |-> NULL, emptylen |-> 0,
                      stored |-> 0, process |-> "running"]
        /\ UNCHANGED <<d, dict_can_resize, rounds, iter, ended>>

\* The first loop: one step of the rehash for every key wanted.
SampleRehash ==
    /\ Running(d) /\ sample # NULL
    /\ sample.left > 0 /\ dictIsRehashing(d)
    /\ d' = _dictRehashStep(d)
    /\ sample' = [sample EXCEPT !.left = @ - 1]
    /\ UNCHANGED <<dict_can_resize, rounds, iter>>
    /\ In("dictGetSomeKeys", NULL)

maxsizemask == Max({0, d.ht[0].size - 1} \cup
                   IF dictIsRehashing(d) THEN {d.ht[1].size - 1} ELSE {})

\* The body of the loop over the tables, for table j; r is a random index.
\* In either table it reads only as far as table 1 goes.
Visit(s, j, r) ==
    LET behind == dictIsRehashing(d) /\ j = 0 /\ s.i < d.rehashidx
        i == IF behind /\ s.i >= d.ht[1].size THEN d.rehashidx ELSE s.i
        skips == (behind /\ i = s.i) \/ i >= d.ht[1].size
        reached == Access(d.ht[j], i)
        chain == d.ht[j].bucket[i]
        jumps == s.emptylen + 1 >= 5 /\ s.emptylen + 1 > s.count
    IN  IF s.process # "running" \/ s.stored = s.count THEN s
        ELSE IF skips THEN [s EXCEPT !.i = i]
        ELSE IF reached # "running" THEN [s EXCEPT !.process = reached]
        ELSE IF chain = <<>>
             THEN [s EXCEPT !.i = IF jumps THEN r ELSE i,
                            !.emptylen = IF jumps THEN 0 ELSE @ + 1]
        ELSE IF Garbage \in ToSet(chain) THEN [s EXCEPT !.process = "crashed"]
        ELSE [s EXCEPT !.i = i, !.emptylen = 0, !.stored = Min({s.count, @ + Len(chain)})]

\* No turn jumps twice.
VisitTables(s, r) ==
    IF dictIsRehashing(d) THEN Visit(Visit(s, 0, r), 1, r) ELSE Visit(s, 0, r)

\* stored < count & maxsteps--: the lowest bit of maxsteps.
TurnsAgain(s) == s.stored < s.count /\ s.maxsteps % 2 = 1

\* One turn of the second loop; MaxIndex bounds random() too.
SampleTurn ==
    LET Randoms == 0 .. Min({maxsizemask, MaxIndex})
        start == IF sample.i = NULL THEN Randoms ELSE {sample.i}
        next(s) == [s EXCEPT !.i = (@ + 1) % (maxsizemask + 1), !.maxsteps = @ - 1]
    IN  /\ Running(d) /\ sample # NULL
        /\ sample.left = 0 \/ ~dictIsRehashing(d)
        /\ IF TurnsAgain(sample)
           THEN \E i \in start, r \in Randoms :
                   LET visited == VisitTables([sample EXCEPT !.i = i], r)
                   IN  /\ sample' = next(visited)
                       /\ d' = Ends(d, visited.process)
           ELSE /\ sample' = NULL
                /\ d' \in IF sample.fair /\ sample.stored = 0 THEN RandomKeyResults ELSE {d}
        /\ UNCHANGED <<dict_can_resize, rounds, iter>>
        /\ In("dictGetSomeKeys", NULL)

Next ==
    \/ \E size \in Sizes : Expand(size)
    \/ Resize \/ Rehash \/ RehashRound \/ RehashEnd
    \/ SampleRehash \/ SampleTurn \/ GetStats
    \/ GetRandomKey \/ Scan \/ Empty \/ Release \/ SetResize
    \/ \E count \in Counts : SomeKeys(count, FALSE)
    \/ SomeKeys(GETFAIR_NUM_ENTRIES, TRUE)
    \/ \E key \in Keys : \/ Add(key) \/ Replace(key) \/ Find(key)
                         \/ Delete(key) \/ FindEntryRef(key)
    \/ \E x \in Iterators : \/ \E safe \in BOOLEAN : GetIterator(x, safe)
                            \/ Advance(x) \/ ReleaseIterator(x)

Spec == Init /\ [][Next]_vars
-----------------------------------------------------------------------------
Chain == Seq(Keys \cup {Garbage})

TableOK(h) ==
    /\ DOMAIN h = {"table", "size", "used", "bucket"}
    /\ h.table \in Addresses \cup {NULL}
    /\ h.size \in {0, DICT_HT_INITIAL_SIZE, LONG_MAX + 1}
    /\ h.used \in Nat
    /\ \A i \in DOMAIN h.bucket : i \in Nat /\ h.bucket[i] \in Chain

TypeOK ==
    /\ DOMAIN d = {"ht", "rehashidx", "iterator", "heap", "process"}
    /\ DOMAIN d.ht = {0, 1} /\ TableOK(d.ht[0]) /\ TableOK(d.ht[1])
    /\ d.rehashidx \in Nat \cup {-1} /\ d.iterator \in Nat
    /\ d.heap \subseteq Addresses
    /\ d.process \in Faults \cup {"running", "released"}
    /\ dict_can_resize \in BOOLEAN /\ rounds \in Nat \cup {-1}
    /\ \A x \in Iterators : iter[x] # NULL => iter[x].index \in Nat \cup {-1}
    /\ sample # NULL => sample.left \in 0 .. sample.count /\ sample.stored \in Nat
    /\ Running(d) <=> ended = NULL
    /\ ended # NULL => ended.call \in STRING /\ ended.size \in Sizes \cup {NULL}

\* Every table on the heap is in exactly one of the two places, whatever
\* was expanded, rehashed or cleared: none is leaked, none freed twice
\* (dict.c:79-150, 304-332).
TablesOwned ==
    Running(d) \/ d.process = "released" =>
        /\ d.heap = {d.ht[0].table, d.ht[1].table} \ {NULL}
        /\ d.ht[0].table = d.ht[1].table => d.ht[0].table = NULL

\* The entries of table h, each by its bucket and its place counted from the
\* end of the chain: the place stays when another entry is put in front.
Entries(h) ==
    UNION {{i} \X {n \in 1 .. Len(h.bucket[i]) :
                     h.bucket[i][Len(h.bucket[i]) + 1 - n] # Garbage} :
              i \in DOMAIN h.bucket}

\* used counts the entries in the chains of its table (dict.c:107-142, 207).
UsedCounts ==
    Running(d) => \A t \in {0, 1} : d.ht[t].used = Cardinality(Entries(d.ht[t]))

\* Entries exist only in the middle of a rehash, under an iterator, and in
\* one of the tables at a time (dict.c:192-214, 457-467).
EntriesPinned ==
    Running(d) /\ dictSize(d) > 0 =>
        /\ dictIsRehashing(d) /\ d.iterator > 0
        /\ d.ht[0].used = 0 \/ d.ht[1].used = 0
        /\ d.ht[0].used > 0 => d.ht[1].table = NULL

\* The rehash cursor never passes an entry, so the assertion of dictRehash
\* holds (dict.c:117-123).
CursorBehindEntries ==
    Running(d) /\ d.ht[0].used > 0 =>
        /\ d.rehashidx < d.ht[0].size
        /\ \A i \in DOMAIN d.ht[0].bucket : i < d.rehashidx => d.ht[0].bucket[i] = <<>>

\* The entry an iterator is at, and those behind it, are still in the dict:
\* dictNext follows no freed entry, although dictEmpty and dictRelease ask
\* nobody about iterators (dict.c:423-455, 746-751).
HeldEntriesLive ==
    Running(d) => \A x \in Iterators :
        iter[x] # NULL /\ iter[x].chain # <<>> =>
            \E t \in {0, 1} : \E i \in DOMAIN d.ht[t].bucket :
                LET bucket == d.ht[t].bucket[i]
                IN  \E n \in DOMAIN bucket :
                       iter[x].chain = SubSeq(bucket, n, Len(bucket))

\* A rehash that has ended leaves a dict that takes no more keys and gets no
\* second table until it is emptied: rehashidx stays above -1 (dict.c:147), so
\* dictExpand refuses (dict.c:84) and dictAdd stores in table 1 (dict.c:205),
\* which is not there.
SpentAfterRehash ==
    [][dictIsRehashing(d) /\ d.ht[1].table = NULL /\ Running(d')
         => \/ Empty
            \/ /\ dictIsRehashing(d') /\ d'.ht[1].table = NULL
               /\ dictSize(d') = dictSize(d)]_vars

\* No call but dictEmpty and dictRelease takes an entry out: dictDelete
\* returns early (dict.c:244).
KeepsEntries ==
    [][dictSize(d)' < dictSize(d) => Empty \/ Release]_vars

\* A lookup moves no entry from table to table, although it is meant to
\* take a step of the rehash (dict.c:175-179).
LookupsMoveNothing ==
    [][\A key \in Keys : (Find(key) \/ Delete(key)) /\ dictSize(d) > 0
                            => d'.ht = d.ht]_vars

\* A call runs for ever only if it is one of dictExpand with a size between
\* the initial one and LONG_MAX, or one of dictScan of entries: additions and
\* dictResize never ask for such a size (dict.c:71, 687, 693), and a search for
\* a random entry meets a fault if it meets no entry (dict.c:482-494).
HangsWhereAsked ==
    d.process = "hung" =>
        \/ ended.call = "dictScan" /\ dictSize(d) > 0
        \/ /\ ended.call = "dictExpand"
           /\ DICT_HT_INITIAL_SIZE < ended.size /\ ended.size < LONG_MAX

\* The call of dictNext that finds no further entry from table 0 on.  After a
\* finished rehash it ends the process: it reads bucket 0 of no table, whose
\* index it does not compare to the size (dict.c:439-444).  Otherwise it
\* returns, and the dict has no entries, or has them in a table 1 of more than
\* LONG_MAX buckets, a size that is negative to it.  An iteration in table 1
\* may end over entries: dictEmpty takes that table away, and the next ones may
\* be filled.
EndMeansEmpty ==
    [][\A x \in Iterators :
           Advance(x) /\ iter[x].table = 0 /\ iter'[x].chain = <<>>
             => IF dictIsRehashing(d) /\ d.ht[1].table = NULL
                THEN d'.process = "crashed"
                ELSE Running(d') /\ (dictSize(d) = 0 \/ d.ht[1].size > LONG_MAX)]_vars

\* dictGetSomeKeys never returns a key: the & in the condition of its loop
\* takes the lowest bit of ten times a number (dict.c:522, 540).
SamplesNothing ==
    [][sample # NULL /\ sample' = NULL => sample.stored = 0]_vars

\* What the comment on rehashidx says: it is -1 when no rehash is under way
\* (dict.h:45).
MinusOneWhenIdle == Running(d) /\ d.ht[1].table = NULL => d.rehashidx = -1
=============================================================================
