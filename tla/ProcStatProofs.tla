--------------------------- MODULE ProcStatProofs ---------------------------
(* Proofs about ProcStat, for stat files, names and smaps files of any size. *)
EXTENDS ProcStat, TLAPS

\* While the words are counted, those passed and those to go add up to the
\* number of the rss field: the file is long enough, so p never is NULL.
OnTheWay == pc = "count" => p \in Nat /\ p + count = RSS

\* A descriptor is there to be opened, and there to be closed.
RoomForOne == pc = "open" => fds < MaxFds
OneIsOpen == pc \in {"read", "fgets"} => fds > 0

\* Nothing was added before the first line was read.
NothingAdded == pc = "fgets" /\ lines # <<>> => bytes = 0

IInv == /\ TypeOK /\ OnTheWay /\ RoomForOne /\ OneIsOpen
        /\ NothingAdded /\ DescriptorsClosed

LEMMA Constants ==
    /\ FIELDS \in Nat /\ FIELDS > 24 /\ RSS = 24 /\ steps = 23
    /\ MaxSpaces \in 0 .. 20
    /\ MaxLines \in Nat /\ MaxFds \in Nat /\ NULL \notin Int
BY ProcConstants DEF RSS, steps

LEMMA Words ==
    ASSUME TypeOK
    PROVE  words \in Nat /\ words > 24 /\ spaces \in 0 .. 20
BY Constants DEF TypeOK, words

LEMMA InitIInv == Init => IInv
<1> SUFFICES ASSUME Init PROVE IInv
  OBVIOUS
<1>1. <<>> \in Seq(BOOLEAN)
  OBVIOUS
<1>2. spaces \in 0 .. 20 /\ words \in Nat /\ words > 24
  BY Constants DEF Init, words
<1>3. TypeOK
  BY <1>1, <1>2, Constants DEF Init, TypeOK
<1> QED BY <1>3 DEF Init, IInv, OnTheWay, RoomForOne, OneIsOpen, NothingAdded,
                    DescriptorsClosed

\* At the end of the count p is at the field of the rss, seen from the start.
LEMMA FieldReached ==
    ASSUME IInv, Convert
    PROVE  result' = RSS - spaces
<1>1. p = 24 /\ p # NULL /\ count = 0
  BY Constants DEF IInv, TypeOK, OnTheWay, Convert
<1>2. p # words /\ spaces \in 0 .. 20
  BY <1>1, Words DEF IInv
<1>3. strtoll(p) = 24 - spaces
  BY <1>1, <1>2 DEF strtoll
<1> QED BY <1>1, <1>2, <1>3, Constants DEF Convert, Return

LEMMA NextIInv == IInv /\ [Next]_vars => IInv'
<1> SUFFICES ASSUME IInv, [Next]_vars PROVE IInv'
  OBVIOUS
<1> USE DEF IInv
<1>1. CASE zmalloc_get_rss
  BY <1>1 DEF zmalloc_get_rss, TypeOK, words, OnTheWay, RoomForOne, OneIsOpen,
              NothingAdded, DescriptorsClosed
<1>2. CASE Open
  BY <1>2, Constants DEF Open, Return, TypeOK, words, OnTheWay, RoomForOne, OneIsOpen,
              NothingAdded, DescriptorsClosed
<1>3. CASE ReadFails
  BY <1>3, Constants DEF ReadFails, Return, TypeOK, words, OnTheWay, RoomForOne, OneIsOpen,
              NothingAdded, DescriptorsClosed
<1>4. CASE Read
  <2>1. 1 \in 1 .. RSS
    BY Constants
  <2> QED
    BY <1>4, <2>1, Constants DEF Read, TypeOK, words, OnTheWay, RoomForOne, OneIsOpen,
              NothingAdded, DescriptorsClosed
<1>5. CASE Step
  <2>1. p \in Nat /\ count \in Nat /\ count > 0 /\ p + count = 24 /\ p < words
    BY <1>5, Words, Constants DEF Step, TypeOK, OnTheWay
  <2>2. p' = p + 1 /\ count' = count - 1 /\ p' \in 1 .. RSS
    BY <1>5, <2>1, Words, Constants DEF Step
  <2> QED
    BY <1>5, <2>1, <2>2, Constants DEF Step, TypeOK, words, OnTheWay, RoomForOne, OneIsOpen,
              NothingAdded, DescriptorsClosed
<1>6. CASE Convert
  <2>1. result' \in 0 .. FIELDS
    BY <1>6, FieldReached, Words, Constants
  <2> QED
    BY <1>6, <2>1 DEF Convert, Return, TypeOK, words, OnTheWay, RoomForOne, OneIsOpen,
              NothingAdded, DescriptorsClosed
<1>7. CASE zmalloc_get_smap_bytes_by_field
  <2>1. CASE UNCHANGED <<fds, lines, bytes>> /\ Return(0)
    BY <1>7, <2>1, Constants DEF zmalloc_get_smap_bytes_by_field, Return, TypeOK, words,
              OnTheWay, RoomForOne, OneIsOpen, NothingAdded, DescriptorsClosed
  <2>2. CASE ~(UNCHANGED <<fds, lines, bytes>> /\ Return(0))
    <3>1. PICK n \in 0 .. MaxLines : lines' \in [1 .. n -> BOOLEAN]
      BY <1>7, <2>2 DEF zmalloc_get_smap_bytes_by_field
    <3>2. lines' \in Seq(BOOLEAN)
      BY <3>1, Constants
    <3>3. /\ pc = "idle" /\ program = "server" /\ fds < MaxFds
          /\ pc' = "fgets" /\ fds' = fds + 1 /\ bytes' = 0
          /\ UNCHANGED <<result, program, spaces, p, count>>
      BY <1>7, <2>2 DEF zmalloc_get_smap_bytes_by_field
    <3> QED
      BY <3>2, <3>3, Constants DEF TypeOK, words, OnTheWay, RoomForOne, OneIsOpen,
              NothingAdded, DescriptorsClosed
  <2> QED BY <2>1, <2>2
<1>8. CASE Fgets
  <2>1. CASE lines # <<>>
    <3>1. /\ Tail(lines) \in Seq(BOOLEAN) /\ lines' = Tail(lines)
          /\ pc' = "idle" /\ result' = 0 /\ fds' = fds - 1
          /\ UNCHANGED <<bytes, program, spaces, p, count>>
      BY <1>8, <2>1 DEF Fgets, goes_on, Return, TypeOK, NothingAdded
    <3> QED
      BY <1>8, <3>1, Constants DEF Fgets, TypeOK, words, OnTheWay, RoomForOne, OneIsOpen,
              NothingAdded, DescriptorsClosed
  <2>2. CASE lines = <<>>
    <3>1. /\ lines' = <<>> /\ bytes' \in Nat
          /\ UNCHANGED <<pc, fds, result, program, spaces, p, count>>
      BY <1>8, <2>2 DEF Fgets, goes_on, TypeOK
    <3> QED
      BY <1>8, <2>2, <3>1 DEF Fgets, TypeOK, words, OnTheWay, RoomForOne, OneIsOpen,
              NothingAdded, DescriptorsClosed
  <2> QED BY <2>1, <2>2
<1>9. CASE UNCHANGED vars
  BY <1>9 DEF vars, TypeOK, words, OnTheWay, RoomForOne, OneIsOpen, NothingAdded,
              DescriptorsClosed
<1> QED BY <1>1, <1>2, <1>3, <1>4, <1>5, <1>6, <1>7, <1>8, <1>9 DEF Next

LEMMA InductiveInvariant == Spec => []IInv
BY InitIInv, NextIInv, PTL DEF Spec

\* Every variable keeps its type.  For the search this says that the words
\* never run out: strchr always finds the next space, p is never NULL and
\* never past word RSS, which every stat file has (zmalloc.c:126-132).
THEOREM TypeCorrect == Spec => []TypeOK
BY InductiveInvariant, PTL DEF IInv

\* The server closes what it opens (zmalloc.c:116-123, 174-187).
THEOREM NothingLeftOpen == Spec => []DescriptorsClosed
BY InductiveInvariant, PTL DEF IInv

\* The field returned, for every name and length of the file (zmalloc.c:126-147).
THEOREM FieldByName == Spec => FieldMovesWithSpaces
<1>1. IInv /\ [Next]_vars => [Convert => result' = RSS - spaces]_vars
  BY FieldReached
<1> QED BY <1>1, InductiveInvariant, PTL DEF Spec, FieldMovesWithSpaces

\* No file has a sum other than 0 (zmalloc.c:178).
THEOREM EmptySum == Spec => SumsNothing
<1>1. IInv /\ [Next]_vars => [pc = "fgets" /\ pc' = "idle" => result' = 0]_vars
  <2> SUFFICES ASSUME IInv, Next, pc = "fgets", pc' = "idle" PROVE result' = 0
    BY DEF vars
  <2>1. Fgets
    BY DEF Next, zmalloc_get_rss, Open, ReadFails, Read, Step, Convert,
           zmalloc_get_smap_bytes_by_field
  <2>2. lines # <<>>
    BY <2>1 DEF Fgets, goes_on
  <2> QED BY <2>1, <2>2 DEF Fgets, goes_on, Return, IInv, NothingAdded
<1> QED BY <1>1, InductiveInvariant, PTL DEF Spec, SumsNothing

-----------------------------------------------------------------------------
\* Where fgets is asked for a line of a file that has none.
Stuck == pc = "fgets" /\ lines = <<>>

\* The steps a call has left, at most, when it is not there.
StepsLeft ==
    CASE pc = "idle" -> 0
      [] pc = "open" -> steps + 3
      [] pc = "read" -> steps + 2
      [] pc = "count" -> count + 1
      [] pc = "fgets" -> 1

LEMMA StepsLeftNat == TypeOK => StepsLeft \in Nat
<1> SUFFICES ASSUME TypeOK PROVE StepsLeft \in Nat
  OBVIOUS
<1>1. pc \in {"idle", "open", "read", "count", "fgets"} /\ count \in Nat /\ steps = 23
  BY Constants DEF TypeOK
<1> QED BY <1>1 DEF StepsLeft

\* Every call returns in a number of steps known from where it is, unless it
\* reads a file without lines (zmalloc.c:116-132, 178).
THEOREM CallsRunOut ==
    Spec => /\ [](StepsLeft \in Nat)
            /\ [][pc # "idle" /\ ~Stuck => StepsLeft' < StepsLeft]_vars
<1>1. IInv => StepsLeft \in Nat
  BY StepsLeftNat DEF IInv
<1>2. IInv /\ [Next]_vars => [pc # "idle" /\ ~Stuck => StepsLeft' < StepsLeft]_vars
  <2> SUFFICES ASSUME IInv, Next, pc # "idle", ~Stuck PROVE StepsLeft' < StepsLeft
    OBVIOUS
  <2>0. count \in Nat /\ steps = 23 /\ TypeOK
    BY Constants DEF IInv, TypeOK
  <2>1. CASE Open
    BY <2>0, <2>1 DEF Open, Return, StepsLeft
  <2>2. CASE ReadFails
    BY <2>0, <2>2 DEF ReadFails, Return, StepsLeft
  <2>3. CASE Read
    BY <2>0, <2>3 DEF Read, StepsLeft
  <2>4. CASE Step
    BY <2>0, <2>4 DEF Step, StepsLeft
  <2>5. CASE Convert
    BY <2>0, <2>5 DEF Convert, Return, StepsLeft
  <2>6. CASE Fgets
    BY <2>0, <2>6 DEF Fgets, goes_on, Return, StepsLeft, Stuck
  <2> QED BY <2>1, <2>2, <2>3, <2>4, <2>5, <2>6
        DEF Next, zmalloc_get_rss, zmalloc_get_smap_bytes_by_field
<1> QED BY <1>1, <1>2, InductiveInvariant, PTL DEF Spec

\* On a file without lines the call never returns: the loop goes on when fgets
\* gives NULL, and the file has no line later either (zmalloc.c:178).
THEOREM StuckForEver == Spec => [](Stuck => []Stuck)
<1>1. Stuck /\ [Next]_vars => Stuck'
  <2> SUFFICES ASSUME Stuck, [Next]_vars PROVE Stuck'
    OBVIOUS
  <2>1. CASE Fgets
    BY <2>1 DEF Fgets, goes_on, Stuck
  <2>2. CASE UNCHANGED vars
    BY <2>2 DEF vars, Stuck
  <2> QED BY <2>1, <2>2
        DEF Next, Stuck, zmalloc_get_rss, Open, ReadFails, Read, Step, Convert,
            zmalloc_get_smap_bytes_by_field
<1> QED BY <1>1, PTL DEF Spec
=============================================================================
