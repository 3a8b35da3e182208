------------------------------ MODULE ZMalloc ------------------------------
(***************************************************************************)
(* redis/src/zmalloc.c, used by several threads.                           *)
(*                                                                         *)
(* PREFIX_SIZE is 0 (zmalloc.h:27), so the word in which zmalloc keeps the *)
(* size of a block is the first word of the memory it hands out.  The      *)
(* counter used_memory is updated with relaxed atomic instructions, one    *)
(* per update, never in the same step as malloc or free.  Steps that only  *)
(* touch memory the caller owns are merged with the step before them.      *)
(*                                                                         *)
(* `request` and `origin` are what an observer of the calls knows of a     *)
(* block; no code reads them.                                              *)
(***************************************************************************)
EXTENDS Integers, FiniteSets

CONSTANTS Threads,   \* threads that call the library
          Blocks,    \* addresses libc may return
          Sizes,     \* sizes that clients ask for
          Payloads,  \* what clients store in the first word of their memory
          Calls,     \* the entry points the clients use
          WordMod,   \* 2^(8 * sizeof(size_t))
          Long,      \* sizeof(long)
          NULL

Word == 0 .. (WordMod - 1)
EntryPoints == {"zmalloc", "zcalloc", "zrealloc", "zfree"}

ASSUME ConstantsOK ==
    /\ WordMod \in Nat \ {0}
    /\ Long \in Nat \ {0}
    /\ Sizes \subseteq Word
    /\ Payloads \subseteq Word
    /\ Calls \subseteq EntryPoints
    /\ NULL \notin Blocks
    /\ NULL \notin Word

VARIABLES used_memory,  \* the static counter
          live,         \* blocks libc has handed out and not taken back
          word,         \* first word of each block: header, then user data
          request,      \* the size the block was last asked for
          origin,       \* the function that last accounted for the block
          held,         \* blocks some client may use
          pc,           \* where each thread is
          ptr, size, oldsize,  \* its local variables
          process       \* the oom handler ends it

vars == <<used_memory, live, word, request, origin, held, pc, ptr, size,
          oldsize, process>>
locals == <<pc, ptr, size, oldsize>>

Locations == {"client", "count", "uncount", "free", "reuncount", "recount"}

\* Mutant: the rounded _n, which the macros compute, is what they use.
CountedRounded(n) == IF n % Long = 0 THEN 0 ELSE n + (Long - (n % Long))

\* What one update adds or subtracts: nothing for a multiple of
\* sizeof(long), otherwise the unrounded size.
Counted(n) == IF n % Long = 0 THEN 0 ELSE n

Init ==
    /\ used_memory = 0
    /\ live = {} /\ held = {}
    /\ word = [b \in Blocks |-> 0]
    /\ request = [b \in Blocks |-> 0]
    /\ origin = [b \in Blocks |-> "none"]
    /\ pc = [t \in Threads |-> "client"]
    /\ ptr = [t \in Threads |-> NULL]
    /\ size = [t \in Threads |-> 0]
    /\ oldsize = [t \in Threads |-> 0]
    /\ process = "running"

\* Thread t is outside the library and may call `op`.
MayCall(t, op) == process = "running" /\ pc[t] = "client" /\ op \in Calls

\* The thread is inside the library, at `location`.
At(t, location) == process = "running" /\ pc[t] = location

Return(t) == /\ pc' = [pc EXCEPT ![t] = "client"]
             /\ ptr' = [ptr EXCEPT ![t] = NULL]
             /\ size' = [size EXCEPT ![t] = 0]
             /\ oldsize' = [oldsize EXCEPT ![t] = 0]

\* Mutant: no header is written.
TakeFromHeapNoHeader(b, n, op) ==
    /\ b \notin live
    /\ live' = live \cup {b}
    /\ request' = [request EXCEPT ![b] = n]
    /\ origin' = [origin EXCEPT ![b] = op]
    /\ UNCHANGED word

\* malloc or calloc returns the free block b and the size is written into
\* its first word.
TakeFromHeap(b, n, op) ==
    /\ b \notin live
    /\ live' = live \cup {b}
    /\ word' = [word EXCEPT ![b] = n]
    /\ request' = [request EXCEPT ![b] = n]
    /\ origin' = [origin EXCEPT ![b] = op]

\* zmalloc(n) up to the update of the counter.
Obtain(t, b, n) ==
    /\ TakeFromHeap(b, n, "zmalloc")
    /\ pc' = [pc EXCEPT ![t] = "count"]
    /\ ptr' = [ptr EXCEPT ![t] = b]
    /\ size' = [size EXCEPT ![t] = n]
    /\ UNCHANGED <<used_memory, held, oldsize, process>>

Zmalloc(t) == /\ MayCall(t, "zmalloc")
              /\ \E b \in Blocks, n \in Sizes : Obtain(t, b, n)

\* update_zmalloc_state_alloc, and the return of the pointer.
ZmallocCount(t) ==
    /\ At(t, "count")
    /\ used_memory' = (used_memory + Counted(size[t])) % WordMod
    /\ held' = held \cup {ptr[t]}
    /\ Return(t)
    /\ UNCHANGED <<live, word, request, origin, process>>

\* zcalloc writes the header too, and updates no counter.
Zcalloc(t) ==
    /\ MayCall(t, "zcalloc")
    /\ \E b \in Blocks, n \in Sizes :
          TakeFromHeap(b, n, "zcalloc") /\ held' = held \cup {b}
    /\ UNCHANGED <<used_memory, process, locals>>

\* Mutant: free comes before the update of the counter.
ReleaseFreesFirst(t, b) ==
    /\ held' = held \ {b}
    /\ live' = live \ {b}
    /\ pc' = [pc EXCEPT ![t] = "uncount"]
    /\ ptr' = [ptr EXCEPT ![t] = b]
    /\ oldsize' = [oldsize EXCEPT ![t] = word[b]]
    /\ UNCHANGED <<used_memory, word, request, origin, size, process>>

\* zfree(b) up to the update of the counter: the size is whatever the first
\* word holds by now.
Release(t, b) ==
    /\ held' = held \ {b}
    /\ pc' = [pc EXCEPT ![t] = "uncount"]
    /\ ptr' = [ptr EXCEPT ![t] = b]
    /\ oldsize' = [oldsize EXCEPT ![t] = word[b]]
    /\ UNCHANGED <<used_memory, live, word, request, origin, size, process>>

Zfree(t) == /\ MayCall(t, "zfree")
            /\ \E b \in held : Release(t, b)

\* update_zmalloc_state_free
ZfreeUncount(t) ==
    /\ At(t, "uncount")
    /\ used_memory' = (used_memory - Counted(oldsize[t])) % WordMod
    /\ pc' = [pc EXCEPT ![t] = "free"]
    /\ UNCHANGED <<live, word, request, origin, held, ptr, size, oldsize, process>>

\* free(realptr); what a freed block holds is of no interest.
ZfreeFree(t) ==
    /\ At(t, "free")
    /\ live' = live \ {ptr[t]}
    /\ word' = [word EXCEPT ![ptr[t]] = 0]
    /\ request' = [request EXCEPT ![ptr[t]] = 0]
    /\ origin' = [origin EXCEPT ![ptr[t]] = "none"]
    /\ Return(t)
    /\ UNCHANGED <<used_memory, held, process>>

\* realloc moves block b to c (or leaves it in place) and carries the first
\* word along; the header is not rewritten.
Move(t, b, c, n) ==
    LET Carry(f, blank) == IF c = b THEN f ELSE [f EXCEPT ![c] = f[b], ![b] = blank]
    IN  /\ c \notin live \ {b}
        /\ live' = (live \ {b}) \cup {c}
        /\ word' = Carry(word, 0)
        /\ request' = Carry(request, 0)
        /\ origin' = Carry(origin, "none")
        /\ held' = held \ {b}
        /\ pc' = [pc EXCEPT ![t] = "reuncount"]
        /\ ptr' = [ptr EXCEPT ![t] = c]
        /\ size' = [size EXCEPT ![t] = n]
        /\ oldsize' = [oldsize EXCEPT ![t] = word[b]]
        /\ UNCHANGED <<used_memory, process>>

\* zrealloc(NULL, n) is zmalloc(n), zrealloc(b, 0) is zfree(b).
Zrealloc(t) ==
    /\ MayCall(t, "zrealloc")
    /\ \E n \in Sizes :
          \/ \E b \in Blocks : Obtain(t, b, n)
          \/ n = 0 /\ \E b \in held : Release(t, b)
          \/ n # 0 /\ \E b \in held, c \in Blocks : Move(t, b, c, n)

ZreallocUncount(t) ==
    /\ At(t, "reuncount")
    /\ used_memory' = (used_memory - Counted(oldsize[t])) % WordMod
    /\ request' = [request EXCEPT ![ptr[t]] = size[t]]
    /\ origin' = [origin EXCEPT ![ptr[t]] = "zrealloc"]
    /\ pc' = [pc EXCEPT ![t] = "recount"]
    /\ UNCHANGED <<live, word, held, ptr, size, oldsize, process>>

\* Mutant: the old size is added back.
ZreallocCountOld(t) ==
    /\ At(t, "recount")
    /\ used_memory' = (used_memory + Counted(oldsize[t])) % WordMod
    /\ held' \in {held, held \cup {ptr[t]}}
    /\ Return(t)
    /\ UNCHANGED <<live, word, request, origin, process>>

\* The function ends without a return statement: the caller may find the
\* block in the return register, or something else, and then nobody holds it.
ZreallocCount(t) ==
    /\ At(t, "recount")
    /\ used_memory' = (used_memory + Counted(size[t])) % WordMod
    /\ held' \in {held, held \cup {ptr[t]}}
    /\ Return(t)
    /\ UNCHANGED <<live, word, request, origin, process>>

\* malloc, calloc or realloc returns NULL: both handlers of the repository
\* (zmalloc_default_oom, redisOutOfMemoryHandler) end the process.
OutOfMemory(t) ==
    /\ \E op \in EntryPoints \ {"zfree"} : MayCall(t, op)
    /\ process' = "stopped"
    /\ UNCHANGED <<used_memory, live, word, request, origin, held, locals>>

\* A client stores user data at the start of memory it holds; in this file
\* ztrdup does, with the memcpy after its zmalloc.
ClientWrite ==
    /\ process = "running"
    /\ \E b \in held, w \in Payloads : word' = [word EXCEPT ![b] = w]
    /\ UNCHANGED <<used_memory, live, request, origin, held, locals, process>>

Stopped == process = "stopped" /\ UNCHANGED vars

Next == \/ \E t \in Threads :
              \/ Zmalloc(t) \/ ZmallocCount(t)
              \/ Zcalloc(t)
              \/ Zfree(t) \/ ZfreeUncount(t) \/ ZfreeFree(t)
              \/ Zrealloc(t) \/ ZreallocUncount(t) \/ ZreallocCount(t)
              \/ OutOfMemory(t)
        \/ ClientWrite
        \/ Stopped

Spec == Init /\ [][Next]_vars

-----------------------------------------------------------------------------
TypeOK ==
    /\ used_memory \in Word
    /\ live \subseteq Blocks
    /\ held \subseteq Blocks
    /\ word \in [Blocks -> Word]
    /\ request \in [Blocks -> Word]
    /\ origin \in [Blocks -> {"none", "zmalloc", "zcalloc", "zrealloc"}]
    /\ pc \in [Threads -> Locations]
    /\ ptr \in [Threads -> Blocks \cup {NULL}]
    /\ size \in [Threads -> Word]
    /\ oldsize \in [Threads -> Word]
    /\ process \in {"running", "stopped"}

\* A block is in one place at a time: free in libc, in a client's hands, or
\* inside exactly one call; in particular no interleaving of zmalloc, zfree
\* and the moves of zrealloc hands a block to two callers, keeps a freed
\* block in use or frees a block twice (zmalloc.c:46-91).
OneOwner ==
    /\ held \subseteq live
    /\ \A t \in Threads :
          pc[t] # "client" =>
             /\ ptr[t] \in live \ held
             /\ \A u \in Threads : pc[u] # "client" /\ ptr[u] = ptr[t] => u = t

\* Clients that only use zmalloc and zfree and leave the first word alone.
Disciplined == Calls \subseteq {"zmalloc", "zfree"} /\ Payloads = {}

\* Under that discipline what zfree subtracts is what zmalloc added for the
\* same block, however the calls of the other threads fall in between the
\* header write, the two counter updates and free (zmalloc.c:46-54, 83-91).
FreesWhatItCounted ==
    Disciplined => \A t \in Threads :
        pc[t] \in {"uncount", "free"} => oldsize[t] = request[ptr[t]]

\* The blocks the counter has seen arrive and not yet leave, each with its
\* size: those past ZmallocCount and before ZfreeUncount.
Charged == [b \in Blocks |->
    IF b \in live /\ ~\E t \in Threads : ptr[t] = b /\ pc[t] \in {"count", "free"}
    THEN request[b] ELSE NULL]

\* The counter, with threads, headers and a heap, keeps an exact account.
Account == INSTANCE MemoryAccount WITH account <- used_memory, charged <- Charged
KeepsExactAccount == Account!ASpec
=============================================================================
