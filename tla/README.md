# A verification project for redis_l

`src/` is a partial rewrite of Redis in C and C++.  The program it grows into
is the server of `redis/src/server.c`; what it has today is the layer below:
an allocator wrapper, a hash table, a lock-free `localtime`, random numbers,
SHA-256, CRC-64 and a logger, and beside it a piece of jemalloc.  Only
`redis/src/zmalloc.c` and the empty `redis/src/sds.c` are linked into a
program (`redis/CMakeLists.txt`, target `sdstest`); several of the other files
do not compile yet.  They are modelled as they are written, including what
they get wrong; a construct that does not compile (a misspelled name, a
missing declaration) is read as the name it plainly means.

## 1. Inventory

| Component | Source | State | Operations | What is hard |
|---|---|---|---|---|
| Allocation with a byte counter | `redis/src/zmalloc.c`, `zmalloc.h`, `atomicvar.h` | `used_memory`, the oom handler, the size header in each block | `zmalloc`, `zcalloc`, `zrealloc`, `zfree`, `ztrdup` | many threads between malloc, header, counter and free; the header is user memory; updates that are missing or doubled |
| Hash table | `redis/src/dict.c`, `dict.h` | two tables, `rehashidx`, count of safe iterators, resize switch | create, expand, resize, rehash, add, replace, delete, find, iterate, scan, sample, empty | incremental rehash, tables moved between slots, iterators against updates, sizes at the limits of `unsigned long` |
| Calendar | `redis/src/localtime.c` | none (a pure function) | `nolocks_localtime` | loops over years and months, leap rules, array index, the day boundary |
| Operator new | `plugins/jemalloc/jemalloc_new.cc` | the process-wide new-handler, a static mutex, handler calls in progress | `operator new` in the three forms that are defined (four are declared), `operator delete`, `handleOOM` | threads that read the handler by clearing it, a handler called without the lock that allocates or throws, user code that sets the handler meanwhile |
| jemalloc stub | `plugins/jemalloc/jemalloc.c` | `malloc_init_state` | `je_malloc` | never leaves its initial state: `je_malloc` returns NULL always |
| Random bytes and ids | `redis/src/util.c` | static seed, seed flag, counter | `getRandomBytes` | the counter stream must not repeat a block; seeding that fails |
| SHA-256 | `redis/src/sha256.c` | chaining state, bit length, partial block | init, update, final | split input, padding at the block boundary |
| CRC-64 | `redis/src/crc64.c`, `crcspeed.c` | 8 x 256 table, which nothing reads yet | `_crc64`, the making of the table | a message in two calls, two byte orders |
| Logger and server start | `redis/src/server.c`, `server.h` | verbosity, log file, syslog switch and role in `server`; what `main` sets up | `serverLogRaw`, `serverLog`, oom handler, `main` | two level filters written differently, a file that cannot be opened, a handler that must not return |
| Process statistics | `redis/src/zmalloc.c:106-189`, `util_test/cpp/get_pid_memory.c` | none but open descriptors | `zmalloc_get_rss`, `zmalloc_get_smap_bytes_by_field` | field number in a text with spaces, failures between open and close, loops over a file |
| Headers without code | `adlist.h`, `sds.h`, `sdsalloc.h`, `adlist.c` | - | - | nothing implemented |
| Demonstrations | `util_test/` | - | small `main` programs | not part of the program |
| Build output | `build/` | - | generated by CMake | not source |

How they interact.  Everything is called in one process; there are no
messages and no persistent state.  The hash table takes its tables, entries
and iterators from `zcalloc` and `zmalloc`, so the header that `zcalloc`
writes lands in bucket 0 of every fresh table.  `server.c` installs its own
oom handler with `zmalloc_set_oom_handler`; `serverLogRaw` calls
`nolocks_localtime`; `main` seeds the hash function of the hash table with
`getRandomBytes`, which takes SHA-256 blocks of seed and counter, and builds
the CRC table.  `jemalloc_new.cc` calls `je_malloc` and, when it fails, the
C++ new-handler of the process, which is code of the program and may do
anything.  Shared between threads are `used_memory`, the heap, the
new-handler and the mutex of `handleOOM`; a dict belongs to one thread.

What makes each component correct:

* **Allocation with a byte counter.**  A block is in one place at a time; the
  size that leaves the counter with a block is the one that entered it with
  it; the counter never exceeds what is allocated and never falls below zero.
* **Hash table.**  Every table on the heap is owned by one of the two places of
  the dict; `used` counts the entries; the cursor of the rehash is never past
  an entry; an iterator points only to entries that are still there; a dict is
  usable after a rehash; entries leave only when they are deleted or the dict
  is emptied; a call returns.
* **Calendar.**  Date and time of day name the instant; every field is in its
  range; weekday and day of the year agree with the date; the loops end and
  stay inside the month table.
* **Operator new.**  The handler of the process survives its being read by
  exchange; no thread finds it missing because another one is reading it; user
  code never runs under the mutex; throwing and nothrow forms end as the
  standard says.
* **Random bytes.**  No pair of seed and counter is used for two blocks, even
  when seeding fails; a good seed is kept; every byte asked for is written, in
  its place and from a block of its own.
* **SHA-256.**  The digest depends on the message and not on its division
  over calls; the padding is right for every length; a call returns.
* **CRC-64.**  The function divides by the polynomial; the table gives the
  checksum that the bit-wise function gives.
* **Logger and server start.**  The two level filters agree; a message goes
  either to all its destinations or nowhere; no file stays open; a process
  that ran out of memory ends.
* **Process statistics.**  The number returned is the field asked for; no
  descriptor stays open, whatever fails; a call returns.

## 2. Plan

Most important first.  The last column says what is proved.

| Order | Modules | Abstract specification or reference | Runs | Theorems |
|---|---|---|---|---|
| 1 | `ZMalloc`, `ZMallocAccounting` | `MemoryAccount`: an exact account | disciplined and arbitrary clients | types, ownership, exact release, refinement, the bound on the counter, the one cause of a drift |
| 2 | `NewHandler` | the contract of the throwing and the nothrow form | a `je_malloc` that may or may not serve | types, handler kept, no lock in user code, contract |
| 3 | `LocalTime` | the calendar in closed form | short days, so that the centuries are in reach | types, instant, ranges, weekday, bounds, that the loops run out |
| 4 | `DictTables`, `Dict` | - | any calls; the rehash that never ends | ownership, where entries can be, what a finished rehash leaves, deletion, sampling, counts, cursor, held entries, the end of an iteration, which calls hang |
| 5 | `Sha256Ctx`, `Sha256` | the padding of FIPS 180-4 as a function of the message | pieces of every kind against small blocks | types, the context in mid-call, padding, unseen bytes, the update that never ends |
| 6 | `RandomBytes`, on top of `Sha256Ctx` | a stream of distinct pairs of seed and counter | seeding that fails at any call | types, no pair twice, bytes in place, which outputs are equal, none within 2^24 blocks, and again after them; on a big-endian machine 256 the same in a row |
| 7 | `ServerLog` | the messages due, as a sequence | all levels, a file that fails to open | types, delivery, file closed, no way back from the out-of-memory handler |
| 8 | `Crc64` | division of polynomials over GF(2) | narrow words, both byte orders | division for messages of any length, which results can be passed on, the tables, the blank tables of a big-endian machine |
| 9 | `ProcStat` | - | every failure, names with spaces; the comment on the rss | types, descriptors, the field returned, the empty sum, which calls return |

`DictTables` and `ZMalloc` meet in one fact, the header word in the first
bucket of a table; it is a constant of nature for the dict (`Garbage`), so the
two are not composed action by action.  `ZMallocAccounting` extends `ZMalloc`
with the sizes of sets of blocks.  `RandomBytes` and `Sha256` share
`Sha256Ctx`: `getRandomBytes` calls the functions of `sha256.c` as they are
written, so what they do not read decides which of its blocks are equal.

## 3. What the modules model

### `ZMalloc`, `ZMallocAccounting`, `MemoryAccount`

`zmalloc.c` called by any number of threads.  `PREFIX_SIZE` is 0, so the size
header of a block is the first word of the caller's memory (`word`).  Each
function is cut where another thread can see the difference: `malloc` with the
header write (`Zmalloc`), the update of the counter (`ZmallocCount`), the read
of the header (`Zfree`), the subtraction (`ZfreeUncount`), `free`
(`ZfreeFree`), the same for `zrealloc` with the move of the block.  `Counted`
is what the macros really add: nothing for a multiple of `sizeof(long)`,
otherwise the unrounded size.  `zcalloc` updates no counter; `zrealloc` does
not rewrite the header and has no `return`, so its caller may or may not find
the block; both oom handlers of the repository end the process.  `ClientWrite`
is a client that stores data in memory it holds, as `ztrdup` does.  `request`
and `origin` are observers, read by properties only.  `MemoryAccount` is the
promise: a block enters the account once and leaves it once, with the same
size.

`ZMallocAccounting` compares the counter with what is allocated.  `Bytes` of a
set of blocks is the number of their bytes, a byte being a block and an offset
in it, so that a sum over the heap is a cardinality.  `ExactCount` is what an
exact counter would hold at that instant, `Drift` how far the counter is from
it, and `HeapFits` that a `size_t` can hold the whole heap.

### `NewHandler`

`operator new` and `handleOOM`.  `set_new_handler(nullptr)` and
`set_new_handler(handle)` are two actions, `TakeHandler` with the mutex and
`PutHandlerBack` with its release.  Handlers are user code: they return
(`HandlerReturns`, which tries `je_malloc` again), throw `bad_alloc` or
something else, exit, install another handler, or allocate in turn, so a
thread has a stack of calls (`modes`).  `je_malloc` finds memory only when
jemalloc is initialised, which the code never does.  The run sets the constant
that says so: `je_malloc` may then serve a call and need not, so its
behaviours include all those of the code as it stands, and the code behind a
successful second try is reached too.

### `LocalTime`

`nolocks_localtime`: `Adjust` up to the first loop, `NextYear`/`YearFound`,
`NextMonth`/`MonthFound` one round each.  `Quot` and `Rem` are C's, so
instants before the epoch give the negative fields that the code gives.  The
length of minute, hour and day are constants.  The closed forms at the end
(`DaysBeforeYear`, `DaysBeforeMonth`, `Weekday`) are the reference the
properties compare with; nothing in the action uses them.  `TypeOK` has the
ranges that every instant keeps (before the epoch hour, minute, second and
weekday lie on either side of 0, and day of the month and of the year are
bounded above only); `FieldsInRange` has those of `struct tm`, from the epoch on.

### `DictTables`, `Dict`

`DictTables` has the functions of `dict.c` as operators on a record: the two
tables, `rehashidx`, `iterator`, the tables on the heap, and `process`, which
says how execution goes on.  `Dict` has one action per public function that
can change the dict or end the process; `dictRehash(d, n)` is split into the
rounds of its loop.  A call ends the process as `crashed` (a wild or null
pointer), `undefined` (an access outside a table, an uninitialised pointer),
`aborted` (an `assert`) or `hung` (a loop that cannot end).  Properties speak
of the states before that.  `ended` is a history variable: every action
sets it to the name of its call, and to the size it was given, in the step that
ends the process, so that a property can say which calls may.

What the code comes to is far from a hash table, and the properties are about
that code:

* `zcalloc` leaves its size header in bucket 0 of a new table, a pointer to
  nowhere.  The first walk of that bucket ends the process; so does the first
  insertion into a fresh dict, whose search goes on to table 1, which does
  not exist (`dict.c:727`).  Only a table whose size in bytes wraps to 0
  (`dictExpand(LONG_MAX)`) has a clean bucket 0.
* `dictRehash` sets `rehashidx` to 0 at its end (`dict.c:147`), and for -1
  there is only `dictEmpty`: the dict is rehashing for ever after.  It can get
  no second table then, and the next `dictAdd` stores in table 1, which is not
  there (`SpentAfterRehash`).
* A released safe iterator is counted once more (`dict.c:460`), so there is
  no rehash step from then on.
* Entries can be stored only while a safe iterator has stopped a rehash
  (`EntriesPinned`), and `dictDelete` never deletes (`dict.c:244`).  A dict with
  entries is therefore rehashing, and no `dictAdd` ever makes it grow: it asks
  `dictExpand` for nothing but the initial size (`dict.c:687`).
* `dictExpand` between 5 and `LONG_MAX - 1` does not return (`dict.c:709`),
  nor does `dictScan` on a dict with entries (`dict.c:596`).  No other call
  hangs (`HangsWhereAsked`, which reads the name in `ended`).
* After a finished rehash an iteration that reaches the end of table 0 reads
  the first bucket of a table that is not there (`dict.c:439`;
  `EndMeansEmpty`).
* `dictGetSomeKeys` never returns a key: the `&` of its loop condition takes
  the lowest bit of ten times a number (`dict.c:540`).  It may end the process
  all the same, in the rehash steps or the walk before that.

A chain is the sequence of the keys of its entries; values, callbacks of
`dictType` and the return values that nobody uses are left out.  `Entries`
names an entry of a table by its bucket and its place counted from the end of
the chain, which stays when another entry is put in front.

Two iterators on one dict reach states that one cannot: one of them, in table
1, survives a `dictEmpty` there and ends over the entries of later tables.
`EndMeansEmpty` therefore speaks of iterators in table 0.

### `Sha256Ctx`, `Sha256`

`Sha256Ctx` has the context and the functions of `sha256.c` as operators on a
record.  The compression function is not interpreted: `state` is the sequence
of the blocks of words it was given, so two states are equal exactly when it
saw the same words.  `Words` says which bytes of a block those are: line 38
takes `data[j]` twice and `data[j + 3]` never, so the fourth byte of each word
has no influence on a digest.  `sha256_update` is a recursive function over the
bytes it is given (`absorb` is one of them).  `Sha256` is one context under any
sequence of calls; `sha256_update` runs byte by byte, since its index is a
`WORD` of 32 bits and the length it is compared with is not.

### `RandomBytes`

`getRandomBytes`: seed from `/dev/urandom`, or from clock and process id
whenever `fopen` or `fread` fails, which may happen at every call until one
succeeds; then one digest of seed and counter for every block of output.
`block_digest` is the whole nested computation over `Sha256Ctx`, in a context
that starts uninitialised.  `CounterByte` is a byte of the counter as it lies
in memory; `little` is the byte order of the machine, chosen once, since the
code hashes the counter as it is stored (`util.c:44`).  The bytes written are
observed in `out`, the pairs used in `used`. `EqualOutputs` says which blocks
are equal; the other three what that means for the stream.  On a little-endian
machine there are 2^24 blocks (`PlaceValue[3]`) that all differ, whatever seeds
they are made of (`OutputsDiffer`), and then, with one seed, the same blocks
once more (`OutputRepeats`).  On a big-endian one the byte that is not read
counts single blocks, and 256 blocks in a row are the same
(`BigEndianRepeats`).

### `ServerLog`

`serverLog`, `serverLogRaw` and `redisOutOfMemoryHandler`, cut at each place
where a call can end, and `main` as far as it is written.  `level & 0xff <
server.verbosity` is read as C reads it.  The configuration is any that the
struct allows, except `pid`, which nothing assigns.  The timestamped line is
undefined text or a crash: the format wants five arguments and gets four.
`open_files` counts the streams of the log file that are open; `Open` and
`Close`, the `fopen` and `fclose` of the code, are all that changes it, so a
way out of the call that misses the `fclose` leaves it at 1.  `Records`
says of a history that its records are in the order of their messages and come
from exactly the messages that are `Due`.

### `Crc64`

A word is the set of its bits, so xor is a symmetric difference and a shift a
translation.  `_crc64` goes bit by bit (`crc_bit`, `crc_byte`, `crc_bytes`);
`FirstSlice`, `OtherSlices` and `Swap` are the three loops that make the table,
told apart by `stage`, with the loop counter `n` and its bits as an index
(`Bits`).  `rev8` is modelled as it is written, with the assignment that loses
its argument.  The reference is arithmetic of polynomials over GF(2):
`PowerOf_x` is the remainder of a power of x, `Sum` that of a polynomial given
by its `Exponents`, and `Crc` the remainder of a message as the code reads its
bits.  `DividesByPoly` also says when the result of one call can be the `crc` of
the next: reflected back always, as it is only if it is its own mirror image.

### `ProcStat`

The two readers of `/proc`, each failure a step of its own.  A stat file is a
row of words of which the second to the last of the name depend on `spaces`; a
word stands for the number of its field.  `TypeOK` says that the pointer of the
search is never NULL and never behind word `RSS`.  The program `demo` is the
older copy in `util_test`, which keeps the descriptor when `read` fails.

### Readings of code that does not compile

`kxor` in `util.c` is the declared `kor`; `rest` in `crc64.c:16` is `ret`; the
header of the loop at `sha256.c:36` is that of the loop it is copied from;
`stderr(errno)` is `strerror(errno)`, `(server.masterhost?'S','M')` is the
choice between the two, `MAX_LOG_LEN` is `LOG_MAX_LEN`.

## 4. Runs

| Run | Instance | What it shows |
|---|---|---|
| `zmalloc_disciplined` | 3 threads, 3 blocks, `zmalloc`/`zfree` only, header left alone | `FreesWhatItCounted`, `NeverOverstates`, and that the library implements `MemoryAccount` (`KeepsExactAccount`) in every interleaving |
| `zmalloc_anyclient` | 2 threads, 2 blocks, all entry points, header overwritten | `OneOwner` still holds; the counter leaves the exact account only when a size is subtracted that was not added (`DriftOnlyFromWrongSize`) |
| `newhandler` | 2 threads, 2 handlers, calls nested 2 deep | the handler survives (`HandlerKept`), nobody gives up for want of a handler that is there, no mutex in user code, the contract of the forms, and the handler always comes back |
| `localtime` | days of 24 ticks, three times of day on each day from 1969-12-30 to 1972-03-10 and around 2000, 2100 and 2400, two zones | the fields name the instant and are in range, the weekday agrees, the rules for centuries, the bounds of the month table, both loops end |
| `dict_calls` | 4 keys, 3 tables, 1 iterator, up to 5 entries, `LONG_MAX` = 127 | who owns the tables, that the counters and the cursor are right, that an iterator's entry is still there, what a finished rehash leaves, which calls take entries out, end an iteration or hang: the nine properties of `Dict` under any sequence of calls |
| `dict_idle` | the same, smaller | a violation: `rehashidx` is not -1 when no rehash is going on, against the comment at `redis/include/dict.h:45` |
| `sha256_calls` | blocks of 8 bytes with 2 for the length, bytes of 4 bits, messages of up to 17 bytes in pieces of 0, 1, 3, 8 and 9 | what the context holds in the middle of a call (`AbsorbedSoFar`), that the digest is that of the padded message whatever the context held before, and which update never returns |
| `random_bytes` | the same blocks with bytes of 1 bit, digests of 4 bytes, up to 9 blocks, both byte orders, seeding that fails at any call | no pair of seed and counter twice; when two blocks of output are equal all the same (`EqualOutputs`); where the bytes go |
| `server_log` | 3 messages of any level by either function, every configuration, a file there or not for each | exactly the due messages are in the log and in syslog, in their order, no file stays open, and a process that ran out of memory ends |
| `crc64` | words of 16 bits, bytes of 2, five polynomials, both byte orders | `_crc64` divides by the polynomial, in two calls too if the first result is reflected back and not otherwise; slice `k` of the table holds the CRC of a byte and `k` zeros; on a big-endian machine all entries are one constant |
| `proc_stat` | names with up to 15 spaces, smaps files of up to 3 lines, up to 3 descriptors left open | the server closes what it opens, which field is returned for a name with spaces, that a smaps sum is always 0, and that every call returns unless the file has no lines |
| `proc_stat_rss` | the same | a violation: the field returned is not the rss, against the comment at `zmalloc.c:106` |

### Bounds, and why they are enough

* `ZMalloc`: sizes 3 and 13 are counted, 0 and 8 are multiples of
  `sizeof(long)` (`Long` = 8) and not counted, and with the payloads 5 and 8
  a header can be overwritten by a word of either kind.  `WordMod` = 16 lets
  the counter of `zmalloc_anyclient` wrap after a few wrong subtractions; 64
  in `zmalloc_disciplined` is more than three blocks of 13 bytes, as the
  memory of a machine is less than 2^64: there a wrap could only be an error.
  The proofs are for every word length.
* `MaxDepth` = 2 in `NewHandler`: a handler that allocates reaches the mutex
  its own thread released; deeper calls repeat the state with a longer stack.
  The theorems are for every depth.
* `LocalTime`: TLC has integers of 32 bits, so a real clock would end in 2038;
  days of 24 ticks take the same code past 2400.  The proofs are for every
  clock, the real one included.  The instant is one whose year fits an `int`;
  no run or proof speaks of others.
* `Dict`: `unsigned long` has eight bits, enough for a table of 4 buckets of 24
  bytes and for the product that wraps to 0.  `MinUsable` = 24 is what
  `malloc_usable_size` gives for the smallest block on 64-bit glibc; the module
  assumes 8 to 32, which covers jemalloc's 8 and 16 as well.  Up to 32 bytes,
  no entry can be stored past bucket 3 of a table with a wrapped size.  The run
  has one iterator; the theorems are for any number, and the invariant they
  rest on was also checked with two.  `Sizes` has a size on each side of every
  comparison; `Rounds` 0, 1, 2 leave the loop before, after and in the middle
  of the work.  The keys fall into buckets 0, 1 and 3 of a small table and one
  of them, 128, into different buckets of the small and the big one.
  `MaxEntries` = 5, `MaxIterator` = 2 and `MaxIndex` = 5 bound the entries, the
  count of iterators and how far an iterator walks or `random()` reaches.  Five
  entries are one more than the initial size, so a key is added to a table that
  is full, where the original would grow it; all the known ways to a fault and
  every action lie inside.
* `Sha256`: the pieces fill a block from every offset, so that each remainder
  from 0 to 7 meets the padding, on both sides of the 6 bytes that leave room
  for the length.  `IndexMod` = 9 stands for 2^32: a piece of 9 bytes is the
  shortest that wraps the index, one of 8 the longest that does not.
  `MaxBlocks` stops the update that never ends.
* `RandomBytes`: with bytes of one bit the fourth byte of the counter, which
  the digest does not read, changes after 8 blocks instead of 2^24; 9 blocks
  see the first repetition.  `Lengths` has no byte, less than a block, whole
  blocks, and blocks with a rest.  On a big-endian machine two blocks in a row
  are already equal.  The seeds include two that differ only in bytes that are
  not read, and the two values of `Leftover` are all that a byte of the context
  can hold.  `MaxMade` ends the run; the theorems need it at most the number of
  values of the counter, of whose wrap-around they do not speak.
* `ServerLog`: the verbosities lie on each side of every level, 256 being the
  first that switches the filter of `serverLog` on.
* `Crc64`: W must be a multiple of four bytes for `rev8`; 16 and 2 are small
  enough for every pair of bytes and every entry.  The sets that stand for
  words make no difference between widths, and the proofs are for all.
* `ProcStat`: 15 characters is what the kernel keeps of a name.  Lines of
  either kind, in files of none to three.
* Deadlock is checked for `ZMalloc` and `NewHandler` (the end of the process
  is a stuttering step there).  The others really stop: a function that
  returned, a process that ended, a bound on the calls.

### Fairness

`newhandler` assumes weak fairness of `PutHandlerBack`: between the two
exchanges a thread runs straight-line code without waiting, so the scheduler
lets it finish.  Nothing is assumed of the mutex, of handlers or of callers.
`localtime`, `server_log` and `proc_stat` assume weak fairness of the steps of
a call in progress (`Next`, `LogStep`, `Running`): a function that was called
goes on running.  That anybody calls, and which way an operation of the system
goes, is left open.  All other properties are safety properties.

## 5. Proofs

Each is for every value of the constants, from the named assumptions in the
modules (`ConstantsOK`, `HeapFinite`, `MachineConstants`, `DictConstants`,
`SizesOK`, `CallsOK`, `RandomOK`, `LevelsOK`, `WidthsOK`, `ProcConstants`),
which TLC evaluates for the instances.  `NoBlockTwice` and `BlocksComeAgain`
ask in addition for a counter of three bytes or more, `BlocksComeAtOnce` for a
multiple of four; the code's has eight.

* **`ZMallocProofs`.**  `Inv` is `TypeOK /\ OneOwner`: the one owner of a
  block is what lets two threads touch different entries of the same
  functions.  `HeaderInv` adds, for disciplined clients, that the first word
  of every live block is the size of its request and that every call carries
  the size of its block; from it follow `ExactRelease` and, step by step,
  `Refinement`: each step of the library charges, discharges or stutters.
  The counter is compared with the heap in the arithmetic of a `size_t`.
  `BytesAdd` is the one lemma on cardinalities: a block more is its bytes more.
  With it, each step is one of four for the account, untouched, grown, shrunk
  or with a block moved, and adds the same to the counter (`SameDrift`) unless
  it subtracts a wrong size: `DriftCause`, for arbitrary clients.  `CallInv`,
  which says what the locals of a call are, is needed for the two halves of
  `zrealloc`.  Disciplined clients never subtract a wrong size (`HeaderInv`),
  so `Drift = 0` is invariant (`ExactInv`), and the counter is the number of
  bytes in the account as long as that fits a word.  That is the hypothesis
  `[]HeapFits` of `CounterBound`: a heap of less than 2^64 bytes.
* **`NewHandlerProofs`.**  `IInv` joins the types, the mutex, `HandlerKept`,
  `Contract` and `CallsHaveFrames` (a thread before or between the exchanges
  has a call in progress), without which the end of a call is not defined.
* **`LocalTimeProofs`.**  `ClockInv` relates time of day and local time,
  `YearInv` and `MonthInv` say that the days left and the year (month) reached
  add up to the day number, `DoneInv` carries the sum to the end.  `YearLength`,
  `MonthStart` and `MonthLength` tie the loops' tables to the closed form,
  `Division` C's division to the Euclidean one.  `SymmetricDivision` bounds a
  remainder of C on both sides of 0, and `UnitsFit` the units of an hour and a
  minute, for the ranges in `TypeOK`.  `WeekdayIsRight` shows that
  the weekday counted from the epoch is Sakamoto's for every date.
  `LoopsRunOut` is the part of termination that needs no fairness: the days left,
  and the loop they are in, fall with every step (`StepsLeft`), since a year and
  a month have at least one day.
* **`DictProofs`.**  `Sound` says what a dict looks like between calls: a table
  is there or all zero; a dict that is not rehashing has no table 1 and no
  entries; entries in table 0 mean no table 1; entries mean an iterator; the
  heap is the two tables.  `EntriesPinned` alone is not inductive: whether a
  later call can move or add entries depends on which tables exist.  `Good`
  lets `Sound` lapse once the process has ended in a fault.  One lemma per
  function shows that it keeps `Good`, keeps `dictIsRehashing`, and takes no
  entry out (`Keeps`); the theorems of the first part follow.  A second lemma
  per function (`StaysSpent`) shows that it leaves a dict without a table 1 so,
  if that is rehashing, and adds no key: `RehashedDictsAreSpent`.
  `LookupsMoveNone` and `NothingIsSampled` have no run of their own: the first
  follows from `EntriesPinned`, the second from a parity.

  The counters, the cursor and the iterators need to know what a table looks
  like.  `Fit` says it: a table is `Initial` (4 buckets asked for, memory for
  12, garbage at the end of the chain of bucket 0 and nowhere else) or `Huge`
  (`LONG_MAX + 1` buckets, memory for one to four, bucket 0 empty); a rehash
  goes from one kind to the other; `used` is the number of entries; the cursor
  is at 0 until there are entries in table 0 and then never beyond one.
  Each part is needed.  `UsedCounts` alone does not survive an insertion
  of which it is not known whether its bucket lies inside the memory, and
  `HeldEntriesLive` alone does not survive the end of a rehash, which frees
  table 0 on the word of `used`.  `Held` adds to `Fit` that iterators hold only
  ends of chains of `Initial` tables.  Those are safe: to empty such a table
  is to walk bucket 0 and crash, and a rehash frees it only with no entries
  left.  `FitInv`, the whole of it, gives `UsedIsRight`, `CursorStaysBehind` and
  `HeldEntriesLiveOn`.  An iterator's search (`SearchIs`) and a random choice
  (`SearchHits`, `RandomKeyEnds`) meet bucket 0 of an `Initial` table, or leave
  the memory of a table, before they could end or go round in vain:
  `IterationsMeetEntries`, `HangsOnlyWhereAsked`.  For the latter no addition or
  resize may ask `dictExpand` for a size whose loop does not end: they ask for
  the initial size, since without entries, or while rehashing, they have no
  other to ask for.
* **`Sha256Proofs`.**  `IInv` joins the types, `AbsorbedSoFar`,
  `DigestOfMessage` and `BufferIsGiven`: the buffer of the call in progress is
  the end of what was given, without which its next byte is not known to be
  the next byte of the message.  `AbsorbHolds` is the induction step of one
  byte, stored or stored and flushed; `FinalDigest` proves the padding from a
  context that holds the message, with room for the length and without.
  `DigestIgnoresFourthBytes` follows for any two messages.  `OversizedHangs`
  needs only that the index stays below `IndexMod`.

  Of `RandomBytes`: `Counted` says that the counter is the number of blocks made
  and that each block was made with the number of those before it; `Spent`
  keeps that number below `COUNTER_MOD`, the one bound the theorem on pairs
  needs.  `Placed` is `BytesInPlace` with the place reached for the end of the
  call, and `AtBlock` that a block is only begun at a multiple of its size.
  `SeedThere` says that no seed is asked for once urandom gave one.

  When two blocks are equal follows from what a digest is.  `DigestOfParts`
  gives the digest of a message that came in two updates, for any context it
  starts from; two digests are then equal exactly when their messages agree in
  the bytes that are read (`MessagesAgree`), and two blocks when that holds of
  their inner and of their outer digest (`BlocksAgree`), whatever the contexts
  held: `BlocksEqualWhen`.  The three low bytes of the counter are read and the
  fourth is not.  Counters that agree in the three are the same or at least
  2^24 apart (`FarApart`), and `Counted` makes their distance that of the
  blocks: `NoBlockTwice`.  Adding 2^24 to a counter below 2^24 changes its
  fourth byte alone (`OneRound`): `BlocksComeAgain`.  On a big-endian machine the
  lowest byte of a counter of whole words is the last in memory and is not read;
  every other byte depends on the quotient by `BYTE_MOD` alone (`DivideTwice`):
  `BlocksComeAtOnce`.
* **`ServerProofs`.** Of `ServerLog`: `Passed` says which checks the message of
  a call in progress has passed at each place, and `Delivered` is
  `DeliveredExactly` in the middle of a call, where the last message is through
  with the log (`Logged`) before it is through with syslog (`Sent`).
  `RecordsOneMore` and `RecordsNoMore` are the two ways a call can end.  The
  two filters agree by `DroppedNotDue`: what the misread one drops, the other
  would have.  No file stays open by `Closed`: `open_files` is 1 from `Open` to
  `Close` of a call that writes to a path, and 0 elsewhere, so that every way
  on from `Open` has to lead through `Close`. `HandlerNeverReturns` rests on
  `HandlerKeeps`: a process that ran out of memory is in the log function or
  has ended.

  Of `Crc64`: the register is a `Sum` of powers of x.  A bit belongs to a sum
  when an odd number of the powers have it, and the parity of a symmetric
  difference is the sum of the parities (`OddXor`), so xor adds sums
  (`SumXor`), and a step of the register multiplies by x (`SumShift`, from
  `NextPower`).  `BitStep` and `ByteSum` carry this through a bit and a byte,
  `BytesSum` through a message, and `RegisterIs` finds the exponents of the
  message in the result: `DividesAnyMessage`, for every polynomial and
  messages of any length, of which `AlwaysDivides` is the case of two bytes.
  `RegisterContinues` does the same for a register that was reflected back.
  If the polynomial ends in 1, a bit and hence a byte keep different registers
  apart (`BitKeepsApart`, `ByteKeepsApart`), so only the reflected one gives the
  right result: `ContinuesOnlyMirrored`.
  For the tables, `NextSlice` says that the CRC of a byte and one zero more is
  what one lookup makes of the CRC before it.  `CrcInv` is the invariant: on a
  little-endian machine a slice is right for the bytes passed, and the first
  slice for all bytes before another is begun, which needs that the loop
  reaches every byte (`EveryByteReached`: every set of bits is that of a
  number below 2^8).  On a big-endian machine the invariant is that all is
  blank until `rev8`, whose result does not depend on its argument
  (`ForgetsArgument`) and is not 0.
* **`ProcStatProofs`.**  In the search for the rss field `p + count` is
  constant (`OnTheWay`), which gives the field for every name and keeps the
  pointer inside the text (`TypeCorrect`); `NothingAdded`,
  that no line is ever read into the sum, gives the empty sum.  `OneIsOpen`
  ties the one descriptor in use to the place in the call.  `CallsRunOut` and
  `StuckForEver` are the two halves of what can be said of termination: a call
  comes nearer to its return with every step, or it reads a file without lines
  and stays there.

`CommonLemmas` has what the others share.  `DivisionUnique`, `DivideNat`,
`MultipleGrows` and `AddModulo` are the facts on quotient and remainder.  `UpTo`
is induction over an interval with a set in the place of a predicate, which
the provers can instantiate where they cannot instantiate an operator.
`Repeated` draws from it that a step applied n times, the form in which the
modules write their loops over data (`sha256_update`, `crc_bytes`,
`PowerOf_x`), is a well-defined function that stays in its type; what it
computes is then proved with `UpTo`.

Type correctness is proved, not checked by a run, for `ZMalloc`, `NewHandler`,
`LocalTime`, `Sha256`, `RandomBytes`, `ServerLog`, `Crc64` (`CrcTypes`, a part of
`CrcInv`) and `ProcStat`.  `OutputsDiffer`, `OutputRepeats` and
`BigEndianRepeats` have no run of their own: they follow from `EqualOutputs`,
which has one.

Every safety property of a passing run is also a theorem.  Model-checked only
are the four liveness properties, `HandlerComesBack`, `Terminates`,
`OutOfMemoryEnds` and `CallsReturn`: tlapm 1.4.5 cannot prove them for want of
`ENABLED`.  For the last three the proofs show that the steps run out, so that
what TLC adds is that a call in progress always has a step to take.

## 6. Not modelled

* The statistics of a dict format text (`dict.c:792-877`); `GetStats` has the
  walk of the tables, which may end the process, and no text.
* The rounds of the compression function of SHA-256 and the bits of
  `dictFingerprint`: arithmetic without control; the fingerprint is taken to
  be free of collisions.
* Local time in a log line: `ServerLog` writes a mark for it.  `server.timezone`
  and `server.pid` are never assigned, so lines are in UTC and those of the
  main process are marked as a child's (`server.c:40`).
* The constants that stand in for an allocator's statistics
  (`zmalloc.c:150-158`), and `zmalloc_get_memory_size`.
* `adlist`, `sds`: headers without code.  `util_test/`: demonstrations of
  library functions, except `get_pid_memory.c` (in `ProcStat`) and
  `set_new_handler.cc` (in `NewHandler`).  `build/`: output of CMake.  The
  notes on Redis and jemalloc are text.

## 7. Running

    tlc -config MCDict_calls.cfg MCDict
    tlapm DictProofs.tla

and likewise for the other configurations and `*Proofs` modules.
`PROJECT.json` lists the runs with their properties, a mutant of the code for
each property that the run must then find violated, and the source lines of
every definition.
