--------------------------- MODULE ZMallocProofs ---------------------------
(***************************************************************************)
(* Proofs about ZMalloc, for any number of threads, blocks and sizes.      *)
(***************************************************************************)
EXTENDS ZMallocAccounting, CommonLemmas, FiniteSetTheorems

\* The two counter updates stay within a size_t.
LEMMA UpdatesStayInWord ==
    ASSUME NEW u \in Word, NEW n \in Word
    PROVE  /\ (u + Counted(n)) % WordMod \in Word
           /\ (u - Counted(n)) % WordMod \in Word
<1>1. /\ u \in Int /\ n \in Int /\ Counted(n) \in Int
      /\ WordMod \in Int /\ WordMod > 0
  BY ConstantsOK DEF Word, Counted
<1>2. \A x \in Int : x % WordMod \in 0 .. (WordMod - 1)
  BY <1>1
<1>3. u + Counted(n) \in Int /\ u - Counted(n) \in Int
  BY <1>1
<1> QED BY <1>2, <1>3 DEF Word

\* The counter, the headers and the locals may be 0.
LEMMA ZeroInWord == 0 \in Word
BY ConstantsOK DEF Word

\* Ownership is inductive together with the types.
Inv == TypeOK /\ OneOwner

\* Every step of every thread keeps a block in one place: each call only
\* takes a block from libc or from the clients, and gives it back on return
\* (zmalloc.c:46-91).
LEMMA InvStep == Inv /\ [Next]_vars => Inv'
<1> SUFFICES ASSUME TypeOK, OneOwner, [Next]_vars PROVE TypeOK' /\ OneOwner'
  BY DEF Inv
<1> USE ConstantsOK, ZeroInWord DEF TypeOK, OneOwner, Locations
<1>1. ASSUME NEW t \in Threads, pc[t] = "client",
             NEW b \in Blocks, NEW n \in Sizes, Obtain(t, b, n)
      PROVE  TypeOK' /\ OneOwner'
  <2>1. TypeOK'
    BY <1>1 DEF Obtain, TakeFromHeap
  <2>2. OneOwner'
    BY <1>1 DEF Obtain, TakeFromHeap
  <2> QED BY <2>1, <2>2
<1>2. ASSUME NEW t \in Threads, pc[t] = "client", NEW b \in held, Release(t, b)
      PROVE  TypeOK' /\ OneOwner'
  BY <1>2 DEF Release
<1>3. ASSUME NEW t \in Threads, Zmalloc(t) PROVE TypeOK' /\ OneOwner'
  BY <1>1, <1>3 DEF Zmalloc, MayCall
<1>4. ASSUME NEW t \in Threads, ZmallocCount(t) PROVE TypeOK' /\ OneOwner'
  <2>1. used_memory' \in Word
    BY <1>4, UpdatesStayInWord DEF ZmallocCount
  <2>2. QED BY <1>4, <2>1 DEF ZmallocCount, At, Return
<1>5. ASSUME NEW t \in Threads, Zcalloc(t) PROVE TypeOK' /\ OneOwner'
  BY <1>5 DEF Zcalloc, TakeFromHeap, MayCall, locals
<1>6. ASSUME NEW t \in Threads, Zfree(t) PROVE TypeOK' /\ OneOwner'
  BY <1>2, <1>6 DEF Zfree, MayCall
<1>7. ASSUME NEW t \in Threads, ZfreeUncount(t) PROVE TypeOK' /\ OneOwner'
  <2>1. used_memory' \in Word
    BY <1>7, UpdatesStayInWord DEF ZfreeUncount
  <2>2. QED BY <1>7, <2>1 DEF ZfreeUncount, At
<1>8. ASSUME NEW t \in Threads, ZfreeFree(t) PROVE TypeOK' /\ OneOwner'
  BY <1>8 DEF ZfreeFree, At, Return
<1>9. ASSUME NEW t \in Threads, NEW n \in Sizes, pc[t] = "client",
             NEW b \in held, NEW c \in Blocks, Move(t, b, c, n)
      PROVE  TypeOK' /\ OneOwner'
  <2>1. TypeOK'
    BY <1>9 DEF Move
  <2>2. OneOwner'
    BY <1>9 DEF Move
  <2> QED BY <2>1, <2>2
<1>10. ASSUME NEW t \in Threads, Zrealloc(t) PROVE TypeOK' /\ OneOwner'
  BY <1>1, <1>2, <1>9, <1>10 DEF Zrealloc, MayCall
<1>11. ASSUME NEW t \in Threads, ZreallocUncount(t) PROVE TypeOK' /\ OneOwner'
  <2>1. used_memory' \in Word
    BY <1>11, UpdatesStayInWord DEF ZreallocUncount
  <2>2. QED BY <1>11, <2>1 DEF ZreallocUncount, At
<1>12. ASSUME NEW t \in Threads, ZreallocCount(t) PROVE TypeOK' /\ OneOwner'
  <2>1. used_memory' \in Word
    BY <1>12, UpdatesStayInWord DEF ZreallocCount
  <2>2. QED BY <1>12, <2>1 DEF ZreallocCount, At, Return
<1>13. ASSUME NEW t \in Threads, OutOfMemory(t) PROVE TypeOK' /\ OneOwner'
  BY <1>13 DEF OutOfMemory, locals
<1>14. CASE ClientWrite
  BY <1>14 DEF ClientWrite, locals
<1>15. CASE Stopped \/ UNCHANGED vars
  BY <1>15 DEF Stopped, vars
<1> QED
  BY <1>3, <1>4, <1>5, <1>6, <1>7, <1>8, <1>10, <1>11, <1>12, <1>13, <1>14,
     <1>15 DEF Next

\* Types and ownership hold from the start on.
LEMMA InvHolds == Spec => []Inv
<1>1. Init => Inv
  BY ConstantsOK, ZeroInWord DEF Init, Inv, TypeOK, OneOwner, Locations
<1> QED BY <1>1, InvStep, PTL DEF Spec

\* Every state of every execution is well typed: used_memory stays a size_t
\* in spite of the subtractions that take it below zero (zmalloc.c:10-26).
THEOREM TypeCorrect == Spec => []TypeOK
<1>1. Inv => TypeOK
  BY DEF Inv
<1> QED BY <1>1, InvHolds, PTL

\* A block is free, in a client's hands or inside one call, whatever the
\* threads do (zmalloc.c:46-91).
THEOREM Ownership == Spec => []OneOwner
<1>1. Inv => OneOwner
  BY DEF Inv
<1> QED BY <1>1, InvHolds, PTL

-----------------------------------------------------------------------------
\* What FreesWhatItCounted needs to be inductive: under the discipline the
\* first word of a live block is the size of its request, no call is inside
\* zrealloc, and each call carries the size of its block.
HeaderInv == Disciplined =>
    /\ \A b \in live : word[b] = request[b]
    /\ \A t \in Threads :
          /\ pc[t] \in {"client", "count", "uncount", "free"}
          /\ pc[t] = "count" => size[t] = request[ptr[t]] /\ size[t] \in Sizes
          /\ pc[t] \in {"uncount", "free"} => oldsize[t] = request[ptr[t]]

\* No step of a disciplined client or of zmalloc.c:46-54, 83-91 changes the
\* header of a block somebody still has.
LEMMA HeaderStep == Inv /\ HeaderInv /\ [Next]_vars => HeaderInv'
<1> SUFFICES ASSUME TypeOK, OneOwner, HeaderInv, [Next]_vars, Disciplined
             PROVE  HeaderInv'
  BY DEF Inv, HeaderInv, Disciplined
<1> USE ConstantsOK DEF TypeOK, OneOwner, Locations, HeaderInv
<1>1. ASSUME NEW t \in Threads, Zmalloc(t) PROVE HeaderInv'
  BY <1>1 DEF Zmalloc, MayCall, Obtain, TakeFromHeap
<1>2. ASSUME NEW t \in Threads, ZmallocCount(t) PROVE HeaderInv'
  BY <1>2 DEF ZmallocCount, At, Return
<1>3. ASSUME NEW t \in Threads, Zfree(t) PROVE HeaderInv'
  BY <1>3 DEF Zfree, MayCall, Release
<1>4. ASSUME NEW t \in Threads, ZfreeUncount(t) PROVE HeaderInv'
  BY <1>4 DEF ZfreeUncount, At
<1>5. ASSUME NEW t \in Threads, ZfreeFree(t) PROVE HeaderInv'
  BY <1>5 DEF ZfreeFree, At, Return
<1>6. ASSUME NEW t \in Threads, Zcalloc(t) \/ Zrealloc(t) PROVE HeaderInv'
  BY <1>6 DEF Zcalloc, Zrealloc, MayCall, Disciplined
<1>7. ASSUME NEW t \in Threads, ZreallocUncount(t) \/ ZreallocCount(t)
      PROVE  HeaderInv'
  BY <1>7 DEF ZreallocUncount, ZreallocCount, At
<1>8. ASSUME NEW t \in Threads, OutOfMemory(t) PROVE HeaderInv'
  BY <1>8 DEF OutOfMemory, locals
<1>9. CASE ClientWrite
  BY <1>9 DEF ClientWrite, Disciplined
<1>10. CASE Stopped \/ UNCHANGED vars
  BY <1>10 DEF Stopped, vars
<1> QED
  BY <1>1, <1>2, <1>3, <1>4, <1>5, <1>6, <1>7, <1>8, <1>9, <1>10 DEF Next

\* The header of a live block is its size, from the start on.
LEMMA HeaderHolds == Spec => [](Inv /\ HeaderInv)
<1>1. Init => HeaderInv
  BY DEF Init, HeaderInv
<1> QED BY <1>1, HeaderStep, InvHolds, PTL DEF Spec

\* A zfree subtracts what the zmalloc of the same block added, for clients
\* that keep to those two calls and leave the header word alone
\* (zmalloc.c:46-54, 83-91).
THEOREM ExactRelease == Spec => []FreesWhatItCounted
<1>1. HeaderInv => FreesWhatItCounted
  BY DEF HeaderInv, FreesWhatItCounted
<1> QED BY <1>1, HeaderHolds, PTL

-----------------------------------------------------------------------------
\* One step of the library is at most one entry or one exit of the account:
\* the counter update is the moment at which zmalloc and zfree take effect.
LEMMA StepRefines ==
    ASSUME Disciplined, Inv, HeaderInv, Inv', [Next]_vars
    PROVE  [Account!ANext]_(Account!acctVars)
<1> USE ConstantsOK DEF Inv, TypeOK, OneOwner, Locations, HeaderInv
<1> SUFFICES UNCHANGED <<used_memory, Charged>> \/ Account!ANext
  BY DEF Account!acctVars
<1>1. ASSUME NEW t \in Threads, Zmalloc(t)
      PROVE  UNCHANGED <<used_memory, Charged>>
  BY <1>1 DEF Zmalloc, MayCall, Obtain, TakeFromHeap, Charged
<1>2. ASSUME NEW t \in Threads, ZmallocCount(t) PROVE Account!ANext
  <2>1. ptr[t] \in live /\ size[t] = request[ptr[t]] /\ size[t] \in Sizes
    BY <1>2 DEF ZmallocCount, At
  <2>2. Charged[ptr[t]] = NULL
    BY <1>2, <2>1 DEF ZmallocCount, At, Charged
  <2>3. Charged' = [Charged EXCEPT ![ptr[t]] = size[t]]
    <3>1. ASSUME NEW b \in Blocks
          PROVE  Charged'[b] = IF b = ptr[t] THEN size[t] ELSE Charged[b]
      <4>1. CASE b = ptr[t]
        <5>1. \A u \in Threads : ~(ptr'[u] = b /\ pc'[u] \in {"count", "free"})
          BY <1>2, <4>1 DEF ZmallocCount, At, Return
        <5> QED BY <1>2, <2>1, <4>1, <5>1 DEF ZmallocCount, Charged
      <4>2. CASE b # ptr[t]
        <5>1. \A u \in Threads :
                 (ptr'[u] = b /\ pc'[u] \in {"count", "free"})
                 <=> (ptr[u] = b /\ pc[u] \in {"count", "free"})
          BY <1>2, <4>2 DEF ZmallocCount, At, Return
        <5> QED BY <1>2, <4>2, <5>1 DEF ZmallocCount, Charged
      <4> QED BY <4>1, <4>2
    <3>2. /\ Charged = [b \in Blocks |-> Charged[b]]
          /\ Charged' = [b \in Blocks |-> Charged'[b]]
      BY DEF Charged
    <3> QED BY <2>1, <3>1, <3>2
  <2>4. used_memory' = (used_memory + Account!Counted(size[t])) % WordMod
    BY <1>2 DEF ZmallocCount, Counted, Account!Counted
  <2> QED BY <2>1, <2>2, <2>3, <2>4 DEF Account!ANext, Account!Charge
<1>3. ASSUME NEW t \in Threads, Zfree(t)
      PROVE  UNCHANGED <<used_memory, Charged>>
  BY <1>3 DEF Zfree, MayCall, Release, Charged
<1>4. ASSUME NEW t \in Threads, ZfreeUncount(t) PROVE Account!ANext
  <2>1. ptr[t] \in live /\ oldsize[t] = request[ptr[t]] /\ request[ptr[t]] \in Word
    BY <1>4 DEF ZfreeUncount, At
  <2>2. Charged[ptr[t]] = request[ptr[t]]
    BY <1>4, <2>1 DEF ZfreeUncount, At, Charged
  <2>3. Charged' = [Charged EXCEPT ![ptr[t]] = NULL]
    <3>1. ASSUME NEW b \in Blocks
          PROVE  Charged'[b] = IF b = ptr[t] THEN NULL ELSE Charged[b]
      <4>1. CASE b = ptr[t]
        <5>1. ptr'[t] = b /\ pc'[t] = "free"
          BY <1>4, <4>1 DEF ZfreeUncount, At
        <5> QED BY <4>1, <5>1 DEF Charged
      <4>2. CASE b # ptr[t]
        <5>1. \A u \in Threads :
                 (ptr'[u] = b /\ pc'[u] \in {"count", "free"})
                 <=> (ptr[u] = b /\ pc[u] \in {"count", "free"})
          BY <1>4, <4>2 DEF ZfreeUncount, At
        <5> QED BY <1>4, <4>2, <5>1 DEF ZfreeUncount, Charged
      <4> QED BY <4>1, <4>2
    <3>2. /\ Charged = [b \in Blocks |-> Charged[b]]
          /\ Charged' = [b \in Blocks |-> Charged'[b]]
      BY DEF Charged
    <3> QED BY <2>1, <3>1, <3>2
  <2>4. used_memory' = (used_memory - Account!Counted(oldsize[t])) % WordMod
    BY <1>4 DEF ZfreeUncount, Counted, Account!Counted
  <2>5. Charged[ptr[t]] # NULL
    BY <2>1, <2>2
  <2> QED BY <2>1, <2>2, <2>3, <2>4, <2>5 DEF Account!ANext, Account!Discharge
<1>5. ASSUME NEW t \in Threads, ZfreeFree(t)
      PROVE  UNCHANGED <<used_memory, Charged>>
  BY <1>5 DEF ZfreeFree, At, Return, Charged
<1>6. ASSUME NEW t \in Threads,
             \/ Zcalloc(t) \/ Zrealloc(t) \/ ZreallocUncount(t) \/ ZreallocCount(t)
      PROVE  FALSE
  BY <1>6 DEF Zcalloc, Zrealloc, ZreallocUncount, ZreallocCount, MayCall, At,
              Disciplined
<1>7. ASSUME NEW t \in Threads, OutOfMemory(t)
      PROVE  UNCHANGED <<used_memory, Charged>>
  BY <1>7 DEF OutOfMemory, locals, Charged
<1>8. CASE ClientWrite
  BY <1>8 DEF ClientWrite, Disciplined
<1>9. CASE Stopped \/ UNCHANGED vars
  BY <1>9 DEF Stopped, vars, Charged
<1> QED
  BY <1>1, <1>2, <1>3, <1>4, <1>5, <1>6, <1>7, <1>8, <1>9 DEF Next

\* zmalloc and zfree with atomic counter updates implement the exact account
\* of MemoryAccount, for disciplined clients.
THEOREM Refinement == Disciplined => (Spec => KeepsExactAccount)
<1> SUFFICES ASSUME Disciplined PROVE Spec => KeepsExactAccount
  OBVIOUS
<1>1. Init => Account!AInit
  BY DEF Init, Account!AInit, Charged
<1>2. Inv /\ HeaderInv /\ Inv' /\ [Next]_vars => [Account!ANext]_(Account!acctVars)
  BY StepRefines
<1> QED
  BY <1>1, <1>2, HeaderHolds, PTL DEF Spec, KeepsExactAccount, Account!ASpec

-----------------------------------------------------------------------------
\* Reducing a number of size_t arithmetic early makes no difference.
LEMMA SubtractModulo ==
    ASSUME NEW x \in Int, NEW y \in Int
    PROVE  ((x % WordMod) - y) % WordMod = (x - y) % WordMod
<1> USE ConstantsOK
<1>1. ASSUME NEW z \in Int
      PROVE  \E q \in Int, r \in 0 .. (WordMod - 1) :
                 r = z % WordMod /\ z = WordMod * q + r
  <2>1. /\ z \div WordMod \in Int /\ z % WordMod \in 0 .. (WordMod - 1)
        /\ z = WordMod * (z \div WordMod) + (z % WordMod)
    OBVIOUS
  <2> QED BY <2>1
<1>2. PICK q \in Int, r \in 0 .. (WordMod - 1) :
          r = x % WordMod /\ x = WordMod * q + r
  BY <1>1
<1>3. r - y \in Int
  OBVIOUS
<1>4. PICK p \in Int, s \in 0 .. (WordMod - 1) :
          s = (r - y) % WordMod /\ r - y = WordMod * p + s
  BY <1>1, <1>3
<1>5. /\ WordMod * (q + p) = WordMod * q + WordMod * p
      /\ WordMod * q \in Int /\ WordMod * p \in Int /\ q + p \in Int
  OBVIOUS
<1>6. x - y = WordMod * (q + p) + s
  BY <1>2, <1>4, <1>5
<1>7. (WordMod * (q + p) + s) % WordMod = s
  BY <1>5, DivisionUnique
<1> QED BY <1>2, <1>4, <1>6, <1>7

\* Two numbers of a size_t that differ by a multiple of 2^w are the same.
LEMMA NoDifference ==
    ASSUME NEW x \in Word, NEW y \in Word, (x - y) % WordMod = 0
    PROVE  x = y
<1> USE ConstantsOK DEF Word
<1>1. CASE x >= y
  <2>1. PICK d \in 0 .. (WordMod - 1) : d = x - y
    BY <1>1
  <2>2. (WordMod * 0 + d) % WordMod = d /\ WordMod * 0 + d = d
    BY DivisionUnique
  <2> QED BY <2>1, <2>2
<1>2. CASE x < y
  <2>1. PICK d \in 1 .. (WordMod - 1) : d = (x - y) + WordMod
    BY <1>2
  <2>2. (WordMod * (-1) + d) % WordMod = d /\ WordMod * (-1) + d = x - y
    BY <2>1, DivisionUnique
  <2> QED BY <2>2
<1> QED BY <1>1, <1>2

\* The counter moves by a number of bytes.
LEMMA CountedInNat == \A n \in Word : Counted(n) \in Nat
BY DEF Counted, Word

\* The bytes of finitely many blocks can be counted, and only the sizes of
\* those blocks matter.
LEMMA BytesFinite ==
    ASSUME NEW S \in SUBSET Blocks, NEW f
    PROVE  /\ IsFiniteSet({m \in S \X Word : m[2] < Counted(f[m[1]])})
           /\ Bytes(S, f) \in Nat
<1>1. IsFiniteSet(S) /\ IsFiniteSet(Word)
  BY HeapFinite, FS_Subset, FS_Interval, ConstantsOK DEF Word
<1>2. IsFiniteSet(S \X Word)
  BY <1>1, FS_Product
<1>3. {m \in S \X Word : m[2] < Counted(f[m[1]])} \in SUBSET (S \X Word)
  OBVIOUS
<1> QED BY <1>2, <1>3, FS_Subset, FS_CardinalityType DEF Bytes

\* A block more is Counted(its size) bytes more.
LEMMA BytesAdd ==
    ASSUME NEW S \in SUBSET Blocks, NEW b \in Blocks, b \notin S,
           NEW f \in [Blocks -> Word], NEW g \in [Blocks -> Word],
           \A c \in S : g[c] = f[c]
    PROVE  Bytes(S \cup {b}, g) = Bytes(S, f) + Counted(g[b])
<1> DEFINE Old == {m \in S \X Word : m[2] < Counted(f[m[1]])}
           New == {m \in {b} \X Word : m[2] < Counted(g[m[1]])}
           All == {m \in (S \cup {b}) \X Word : m[2] < Counted(g[m[1]])}
           k == Counted(g[b])
           nth == [i \in 1 .. k |-> <<b, i - 1>>]
<1>1. k \in Nat /\ k < WordMod
  BY ConstantsOK DEF Counted, Word
<1>2. Old \cap New = {} /\ All = Old \cup New
  <2>1. Old \cap New = {}
    OBVIOUS
  <2>2. \A m \in S \X Word : m \in Old <=> m \in All
    OBVIOUS
  <2>3. \A m \in {b} \X Word : m \in New <=> m \in All
    OBVIOUS
  <2>4. (S \cup {b}) \X Word = (S \X Word) \cup ({b} \X Word)
    OBVIOUS
  <2> QED BY <2>1, <2>2, <2>3, <2>4
<1>3. IsFiniteSet(Old) /\ IsFiniteSet(New)
  BY BytesFinite
<1>4. nth \in Bijection(1 .. k, New)
  <2>1. ASSUME NEW i \in 1 .. k PROVE nth[i] \in New
    <3>1. i - 1 \in Word /\ i - 1 < k
      <4> HIDE DEF k
      <4> QED BY <1>1, ConstantsOK DEF Word
    <3>2. <<b, i - 1>> \in New
      BY <3>1
    <3> QED BY <3>2
  <2>2. \A i, j \in 1 .. k : nth[i] = nth[j] => i = j
    OBVIOUS
  <2>3. ASSUME NEW m \in New PROVE \E i \in 1 .. k : nth[i] = m
    <3>1. m[2] \in Word /\ m[2] < k /\ m = <<b, m[2]>>
      OBVIOUS
    <3>2. m[2] + 1 \in 1 .. k /\ nth[m[2] + 1] = <<b, m[2]>>
      BY <1>1, <3>1 DEF Word
    <3> QED BY <3>1, <3>2
  <2> QED BY <2>1, <2>2, <2>3 DEF Bijection, Injection, Surjection, IsInjective
<1>5. Cardinality(New) = k
  BY <1>1, <1>4, FS_CountingElements DEF ExistsBijection
<1>6. Cardinality(Old \cap New) = 0
  BY <1>2, FS_EmptySet
<1>7. Cardinality(All) = Cardinality(Old) + k - 0
  <2> HIDE DEF Old, New, All, k
  <2> QED BY <1>2, <1>3, <1>5, <1>6, FS_Union
<1>8. Cardinality(Old) \in Nat
  BY <1>3, FS_CardinalityType
<1> QED BY <1>1, <1>7, <1>8 DEF Bytes

\* Blocks with the same sizes weigh the same.
LEMMA BytesSame ==
    ASSUME NEW S \in SUBSET Blocks, NEW f, NEW g, \A c \in S : g[c] = f[c]
    PROVE  Bytes(S, g) = Bytes(S, f)
<1>1. \A m \in S \X Word : g[m[1]] = f[m[1]]
  OBVIOUS
<1>2. {m \in S \X Word : m[2] < Counted(g[m[1]])}
      = {m \in S \X Word : m[2] < Counted(f[m[1]])}
  BY <1>1
<1> QED BY <1>2 DEF Bytes

\* More blocks do not weigh less.
LEMMA BytesMonotone ==
    ASSUME NEW S \in SUBSET Blocks, NEW R \in SUBSET S, NEW f
    PROVE  Bytes(R, f) <= Bytes(S, f)
<1>1. {m \in R \X Word : m[2] < Counted(f[m[1]])}
      \in SUBSET {m \in S \X Word : m[2] < Counted(f[m[1]])}
  OBVIOUS
<1>2. IsFiniteSet({m \in S \X Word : m[2] < Counted(f[m[1]])})
  BY BytesFinite
<1> QED BY <1>1, <1>2, FS_Subset DEF Bytes

-----------------------------------------------------------------------------
\* What a thread that is about to add knows: the size it adds is the size of
\* its block, which zmalloc or zrealloc has accounted for.
CallInv == \A t \in Threads :
    /\ pc[t] = "count" => size[t] = request[ptr[t]] /\ origin[ptr[t]] = "zmalloc"
    /\ pc[t] = "recount" => size[t] = request[ptr[t]] /\ origin[ptr[t]] = "zrealloc"

\* No other thread touches the block of a call (zmalloc.c:46-91).
LEMMA CallStep == Inv /\ CallInv /\ [Next]_vars => CallInv'
<1> SUFFICES ASSUME TypeOK, OneOwner, CallInv, [Next]_vars PROVE CallInv'
  BY DEF Inv
<1> USE ConstantsOK DEF TypeOK, OneOwner, Locations, CallInv
<1>1. ASSUME NEW t \in Threads, pc[t] = "client",
             NEW b \in Blocks, NEW n \in Sizes, Obtain(t, b, n)
      PROVE  CallInv'
  BY <1>1 DEF Obtain, TakeFromHeap
<1>2. ASSUME NEW t \in Threads, pc[t] = "client", NEW b \in held, Release(t, b)
      PROVE  CallInv'
  BY <1>2 DEF Release
<1>3. ASSUME NEW t \in Threads, Zmalloc(t) PROVE CallInv'
  BY <1>1, <1>3 DEF Zmalloc, MayCall
<1>4. ASSUME NEW t \in Threads, ZmallocCount(t) PROVE CallInv'
  BY <1>4 DEF ZmallocCount, At, Return
<1>5. ASSUME NEW t \in Threads, Zcalloc(t) PROVE CallInv'
  BY <1>5 DEF Zcalloc, TakeFromHeap, MayCall, locals
<1>6. ASSUME NEW t \in Threads, Zfree(t) PROVE CallInv'
  BY <1>2, <1>6 DEF Zfree, MayCall
<1>7. ASSUME NEW t \in Threads, ZfreeUncount(t) PROVE CallInv'
  BY <1>7 DEF ZfreeUncount, At
<1>8. ASSUME NEW t \in Threads, ZfreeFree(t) PROVE CallInv'
  BY <1>8 DEF ZfreeFree, At, Return
<1>9. ASSUME NEW t \in Threads, NEW n \in Sizes, pc[t] = "client",
             NEW b \in held, NEW c \in Blocks, Move(t, b, c, n)
      PROVE  CallInv'
  BY <1>9 DEF Move
<1>10. ASSUME NEW t \in Threads, Zrealloc(t) PROVE CallInv'
  BY <1>1, <1>2, <1>9, <1>10 DEF Zrealloc, MayCall
<1>11. ASSUME NEW t \in Threads, ZreallocUncount(t) PROVE CallInv'
  BY <1>11 DEF ZreallocUncount, At
<1>12. ASSUME NEW t \in Threads, ZreallocCount(t) PROVE CallInv'
  BY <1>12 DEF ZreallocCount, At, Return
<1>13. ASSUME NEW t \in Threads, OutOfMemory(t) PROVE CallInv'
  BY <1>13 DEF OutOfMemory, locals
<1>14. CASE ClientWrite
  BY <1>14 DEF ClientWrite, locals
<1>15. CASE Stopped \/ UNCHANGED vars
  BY <1>15 DEF Stopped, vars
<1> QED
  BY <1>3, <1>4, <1>5, <1>6, <1>7, <1>8, <1>10, <1>11, <1>12, <1>13, <1>14,
     <1>15 DEF Next

\* The error of the counter survives a step that adds or subtracts the same
\* number of bytes on both sides, or nothing.
LEMMA SameDrift ==
    ASSUME used_memory \in Word, NEW k \in Nat,
           ExactCount \in Nat, ExactCount' \in Nat,
           \/ used_memory' = used_memory /\ ExactCount' = ExactCount
           \/ /\ used_memory' = (used_memory + k) % WordMod
              /\ ExactCount' = ExactCount + k
           \/ /\ used_memory' = (used_memory - k) % WordMod
              /\ ExactCount = ExactCount' + k
    PROVE  Drift' = Drift
<1> DEFINE u == used_memory
           e == ExactCount
           f == ExactCount'
<1>1. u \in Int /\ e \in Int /\ f \in Int /\ u + k \in Int /\ u - k \in Int
  BY ConstantsOK DEF Word
<1> HIDE DEF u, e, f
<1>2. (((u + k) % WordMod) - f) % WordMod = ((u + k) - f) % WordMod
  BY <1>1, SubtractModulo
<1>3. (((u - k) % WordMod) - f) % WordMod = ((u - k) - f) % WordMod
  BY <1>1, SubtractModulo
<1>4. f = e + k => (u + k) - f = u - e
  BY <1>1
<1>5. e = f + k => (u - k) - f = u - e
  BY <1>1
<1> QED BY <1>2, <1>3, <1>4, <1>5 DEF Drift, u, e, f

\* The blocks in the account keep their sizes, and none joins or leaves.
LEMMA AccountUntouched ==
    ASSUME TypeOK, TypeOK', InAccount' = InAccount, used_memory' = used_memory,
           \A b \in InAccount : request'[b] = request[b]
    PROVE  Drift' = Drift
<1>1. InAccount \in SUBSET Blocks
  BY DEF TypeOK, InAccount
<1>2. ExactCount' = ExactCount
  BY <1>1, BytesSame DEF ExactCount
<1>3. ExactCount \in Nat
  BY <1>1, BytesFinite DEF ExactCount
<1> QED BY <1>2, <1>3, SameDrift DEF TypeOK

\* A block joins the account as its size is added to the counter.
LEMMA AccountGrows ==
    ASSUME TypeOK, TypeOK', NEW b \in Blocks, b \notin InAccount,
           InAccount' = InAccount \cup {b},
           \A c \in InAccount : request'[c] = request[c],
           used_memory' = (used_memory + Counted(request'[b])) % WordMod
    PROVE  Drift' = Drift
<1>1. InAccount \in SUBSET Blocks
  BY DEF TypeOK, InAccount
<1>2. request \in [Blocks -> Word] /\ request' \in [Blocks -> Word]
  BY DEF TypeOK
<1>3. ExactCount' = ExactCount + Counted(request'[b])
  BY <1>1, <1>2, BytesAdd DEF ExactCount
<1>4. ExactCount \in Nat /\ Counted(request'[b]) \in Nat
  BY <1>1, <1>2, BytesFinite, CountedInNat DEF ExactCount
<1>5. ExactCount' \in Nat
  BY <1>3, <1>4
<1> QED BY <1>3, <1>4, <1>5, SameDrift DEF TypeOK

\* A block leaves the account as its size is subtracted from the counter.
LEMMA AccountShrinks ==
    ASSUME TypeOK, TypeOK', NEW b \in InAccount,
           InAccount' = InAccount \ {b},
           \A c \in InAccount \ {b} : request'[c] = request[c],
           used_memory' = (used_memory - Counted(request[b])) % WordMod
    PROVE  Drift' = Drift
<1>1. InAccount \in SUBSET Blocks /\ InAccount' \in SUBSET Blocks /\ b \in Blocks
  BY DEF TypeOK, InAccount
<1>2. request \in [Blocks -> Word] /\ request' \in [Blocks -> Word]
  BY DEF TypeOK
<1>3. InAccount = InAccount' \cup {b} /\ b \notin InAccount'
  OBVIOUS
<1>4. ExactCount = ExactCount' + Counted(request[b])
  <2>1. \A c \in InAccount' : request[c] = request'[c]
    BY <1>3
  <2>2. Bytes(InAccount' \cup {b}, request)
        = Bytes(InAccount', request') + Counted(request[b])
    BY <1>1, <1>2, <1>3, <2>1, BytesAdd
  <2> QED BY <1>3, <2>2 DEF ExactCount
<1>5. ExactCount' \in Nat /\ Counted(request[b]) \in Nat
  <2>1. Bytes(InAccount', request') \in Nat
    BY <1>1, BytesFinite
  <2> QED BY <1>1, <1>2, <2>1, CountedInNat DEF ExactCount
<1>6. ExactCount \in Nat
  BY <1>4, <1>5
<1> QED BY <1>4, <1>5, <1>6, SameDrift DEF TypeOK

\* zrealloc carries a block of the account to another address.
LEMMA AccountMoves ==
    ASSUME TypeOK, TypeOK', NEW b \in InAccount, NEW c \in Blocks,
           c \notin InAccount, InAccount' = (InAccount \ {b}) \cup {c},
           request'[c] = request[b], used_memory' = used_memory,
           \A d \in InAccount \ {b} : request'[d] = request[d]
    PROVE  Drift' = Drift
<1> DEFINE rest == InAccount \ {b}
<1>1. /\ rest \in SUBSET Blocks /\ b \in Blocks
      /\ b \notin rest /\ c \notin rest /\ InAccount = rest \cup {b}
  BY DEF TypeOK, InAccount
<1>2. request \in [Blocks -> Word] /\ request' \in [Blocks -> Word]
  BY DEF TypeOK
<1>3. ExactCount = Bytes(rest, request) + Counted(request[b])
  BY <1>1, <1>2, BytesAdd DEF ExactCount
<1>4. ExactCount' = Bytes(rest, request) + Counted(request'[c])
  BY <1>1, <1>2, BytesAdd DEF ExactCount
<1>5. ExactCount \in Nat /\ ExactCount' = ExactCount
  BY <1>1, <1>3, <1>4, BytesFinite DEF ExactCount
<1> QED BY <1>5, SameDrift DEF TypeOK

\* What the error of the counter is made of changes in no other way than by
\* the subtraction of a size that was not added.
LEMMA DriftStep ==
    ASSUME TypeOK, TypeOK', OneOwner, CallInv, [Next]_vars
    PROVE  Drift' = Drift \/ \E t \in Threads : SubtractsWrongSize(t)
<1> DEFINE Goal == Drift' = Drift \/ \E t \in Threads : SubtractsWrongSize(t)
<1> USE ConstantsOK DEF InAccount, Uncounted
<1>1. ASSUME NEW t \in Threads, pc[t] = "client",
             NEW b \in Blocks, NEW n \in Sizes, Obtain(t, b, n)
      PROVE  Drift' = Drift
  <2>1. InAccount' = InAccount
    BY <1>1 DEF Obtain, TakeFromHeap, TypeOK, OneOwner
  <2>2. \A c \in InAccount : request'[c] = request[c]
    BY <1>1 DEF Obtain, TakeFromHeap, TypeOK
  <2> QED BY <1>1, <2>1, <2>2, AccountUntouched DEF Obtain
<1>2. ASSUME NEW t \in Threads, pc[t] = "client", NEW b \in held, Release(t, b)
      PROVE  Drift' = Drift
  <2>1. InAccount' = InAccount
    BY <1>2 DEF Release, TypeOK, OneOwner
  <2> QED BY <1>2, <2>1, AccountUntouched DEF Release
<1>3. ASSUME NEW t \in Threads, Zmalloc(t) PROVE Goal
  BY <1>1, <1>3 DEF Zmalloc, MayCall
<1>4. ASSUME NEW t \in Threads, ZmallocCount(t) PROVE Goal
  <2>1. /\ ptr[t] \in live /\ origin[ptr[t]] = "zmalloc"
        /\ size[t] = request[ptr[t]] /\ ptr[t] \in Blocks
    BY <1>4 DEF ZmallocCount, At, CallInv, OneOwner, TypeOK
  <2>2. ptr[t] \notin InAccount
    BY <1>4 DEF ZmallocCount, At
  <2>3. InAccount' = InAccount \cup {ptr[t]}
    BY <1>4, <2>1 DEF ZmallocCount, At, Return, TypeOK, OneOwner
  <2> QED BY <1>4, <2>1, <2>2, <2>3, AccountGrows DEF ZmallocCount
<1>5. ASSUME NEW t \in Threads, Zcalloc(t) PROVE Goal
  <2>1. PICK b \in Blocks, n \in Sizes : TakeFromHeap(b, n, "zcalloc")
    BY <1>5 DEF Zcalloc
  <2>2. InAccount' = InAccount
    BY <1>5, <2>1 DEF Zcalloc, TakeFromHeap, TypeOK, OneOwner, locals
  <2>3. \A c \in InAccount : request'[c] = request[c]
    BY <2>1 DEF TakeFromHeap, TypeOK
  <2> QED BY <1>5, <2>2, <2>3, AccountUntouched DEF Zcalloc
<1>6. ASSUME NEW t \in Threads, Zfree(t) PROVE Goal
  BY <1>2, <1>6 DEF Zfree, MayCall
<1>7. ASSUME NEW t \in Threads, ZfreeUncount(t) PROVE Goal
  <2>1. ptr[t] \in live /\ ptr[t] \in Blocks
    BY <1>7 DEF ZfreeUncount, At, OneOwner, TypeOK
  <2>2. CASE oldsize[t] # request[ptr[t]] \/ origin[ptr[t]] = "zcalloc"
    BY <1>7, <2>2 DEF ZfreeUncount, At, SubtractsWrongSize, TypeOK
  <2>3. CASE oldsize[t] = request[ptr[t]] /\ origin[ptr[t]] # "zcalloc"
    <3>1. ptr[t] \in InAccount
      BY <1>7, <2>1, <2>3 DEF ZfreeUncount, At, OneOwner, TypeOK
    <3>2. InAccount' = InAccount \ {ptr[t]}
      BY <1>7, <2>1 DEF ZfreeUncount, At, OneOwner, TypeOK
    <3> QED BY <1>7, <2>3, <3>1, <3>2, AccountShrinks DEF ZfreeUncount
  <2> QED BY <2>2, <2>3
<1>8. ASSUME NEW t \in Threads, ZfreeFree(t) PROVE Goal
  <2>1. ptr[t] \in live /\ ptr[t] \notin InAccount
    BY <1>8 DEF ZfreeFree, At, OneOwner
  <2>2. InAccount' = InAccount
    BY <1>8, <2>1 DEF ZfreeFree, At, Return, OneOwner, TypeOK
  <2>3. \A c \in InAccount : request'[c] = request[c]
    BY <1>8, <2>1 DEF ZfreeFree, TypeOK
  <2> QED BY <1>8, <2>2, <2>3, AccountUntouched DEF ZfreeFree
<1>9. ASSUME NEW t \in Threads, NEW n \in Sizes, pc[t] = "client",
             NEW b \in held, NEW c \in Blocks, Move(t, b, c, n)
      PROVE  Drift' = Drift
  <2>1. CASE c = b
    <3>1. InAccount' = InAccount
      BY <1>9, <2>1 DEF Move, OneOwner, TypeOK
    <3> QED BY <1>9, <2>1, <3>1, AccountUntouched DEF Move
  <2>2. CASE c # b
    <3>1. /\ c \notin live /\ b \in live /\ request'[c] = request[b]
          /\ origin'[c] = origin[b] /\ live' = (live \ {b}) \cup {c}
          /\ \A d \in Blocks \ {b, c} :
                request'[d] = request[d] /\ origin'[d] = origin[d]
      BY <1>9, <2>2 DEF Move, OneOwner, TypeOK
    <3>2. \A d \in Blocks : Uncounted(d)' => Uncounted(d)
      BY <1>9 DEF Move, TypeOK
    <3>3. ~Uncounted(b) /\ ~Uncounted(c)
      BY <1>9, <3>1 DEF OneOwner
    <3>4. \A d \in Blocks : Uncounted(d) => Uncounted(d)'
      BY <1>9 DEF Move, TypeOK
    <3>5. CASE origin[b] = "zcalloc"
      <4>1. InAccount' = InAccount
        <5> HIDE DEF Uncounted
        <5> QED BY <3>1, <3>2, <3>3, <3>4, <3>5 DEF TypeOK
      <4> QED BY <1>9, <3>1, <3>5, <4>1, AccountUntouched DEF Move, TypeOK
    <3>6. CASE origin[b] # "zcalloc"
      <4>1. b \in InAccount /\ c \notin InAccount
        BY <3>1, <3>3, <3>6
      <4>2. InAccount' = (InAccount \ {b}) \cup {c}
        <5> HIDE DEF Uncounted
        <5> QED BY <3>1, <3>2, <3>3, <3>4, <3>6 DEF TypeOK
      <4>3. \A d \in InAccount \ {b} : request'[d] = request[d]
        BY <3>1 DEF TypeOK
      <4> QED BY <1>9, <3>1, <4>1, <4>2, <4>3, AccountMoves DEF Move
    <3> QED BY <3>5, <3>6
  <2> QED BY <2>1, <2>2
<1>10. ASSUME NEW t \in Threads, Zrealloc(t) PROVE Goal
  BY <1>1, <1>2, <1>9, <1>10 DEF Zrealloc, MayCall
<1>11. ASSUME NEW t \in Threads, ZreallocUncount(t) PROVE Goal
  <2>1. ptr[t] \in live /\ ptr[t] \in Blocks
    BY <1>11 DEF ZreallocUncount, At, OneOwner, TypeOK
  <2>2. CASE oldsize[t] # request[ptr[t]] \/ origin[ptr[t]] = "zcalloc"
    BY <1>11, <2>2 DEF ZreallocUncount, At, SubtractsWrongSize, TypeOK
  <2>3. CASE oldsize[t] = request[ptr[t]] /\ origin[ptr[t]] # "zcalloc"
    <3>1. ptr[t] \in InAccount
      BY <1>11, <2>1, <2>3 DEF ZreallocUncount, At, OneOwner, TypeOK
    <3>2. InAccount' = InAccount \ {ptr[t]}
      BY <1>11, <2>1 DEF ZreallocUncount, At, OneOwner, TypeOK
    <3>3. \A d \in InAccount \ {ptr[t]} : request'[d] = request[d]
      BY <1>11 DEF ZreallocUncount, TypeOK
    <3> QED BY <1>11, <2>3, <3>1, <3>2, <3>3, AccountShrinks DEF ZreallocUncount
  <2> QED BY <2>2, <2>3
<1>12. ASSUME NEW t \in Threads, ZreallocCount(t) PROVE Goal
  <2>1. /\ ptr[t] \in live /\ origin[ptr[t]] = "zrealloc"
        /\ size[t] = request[ptr[t]] /\ ptr[t] \in Blocks
    BY <1>12 DEF ZreallocCount, At, CallInv, OneOwner, TypeOK
  <2>2. ptr[t] \notin InAccount
    BY <1>12 DEF ZreallocCount, At
  <2>3. InAccount' = InAccount \cup {ptr[t]}
    BY <1>12, <2>1 DEF ZreallocCount, At, Return, TypeOK, OneOwner
  <2> QED BY <1>12, <2>1, <2>2, <2>3, AccountGrows DEF ZreallocCount
<1>13. ASSUME NEW t \in Threads, OutOfMemory(t) PROVE Goal
  BY <1>13, AccountUntouched DEF OutOfMemory, locals
<1>14. CASE ClientWrite
  BY <1>14, AccountUntouched DEF ClientWrite, locals
<1>15. CASE Stopped \/ UNCHANGED vars
  BY <1>15, AccountUntouched DEF Stopped, vars
<1> QED
  BY <1>3, <1>4, <1>5, <1>6, <1>7, <1>8, <1>10, <1>11, <1>12, <1>13, <1>14,
     <1>15 DEF Next

\* Types, owners and the sizes in flight, from the start on.
LEMMA CallHolds == Spec => [](Inv /\ CallInv)
<1>1. Init => CallInv
  BY DEF Init, CallInv
<1> QED BY <1>1, CallStep, InvHolds, PTL DEF Spec

\* Whatever the clients do, with any number of threads: the counter leaves
\* the exact account only by a subtraction of a size that was not added, by
\* zfree or zrealloc (zmalloc.c:10-26, 46-91).
THEOREM DriftCause == Spec => DriftOnlyFromWrongSize
<1>1. Inv /\ Inv' /\ CallInv /\ [Next]_vars
      => [Drift' # Drift => \E t \in Threads : SubtractsWrongSize(t)]_vars
  BY DriftStep DEF Inv
<1> QED BY <1>1, CallHolds, PTL DEF Spec, DriftOnlyFromWrongSize

\* Disciplined clients subtract no wrong size, so that the counter is the
\* number of bytes in the account, in the arithmetic of a size_t.
ExactInv == Disciplined =>
    /\ \A b \in live : origin[b] = "zmalloc"
    /\ Drift = 0

\* A disciplined step keeps the counter exact.
LEMMA ExactStep ==
    Inv /\ Inv' /\ CallInv /\ HeaderInv /\ ExactInv /\ [Next]_vars => ExactInv'
<1> SUFFICES ASSUME Inv, Inv', CallInv, HeaderInv, ExactInv, [Next]_vars, Disciplined
             PROVE  ExactInv'
  BY DEF ExactInv, Disciplined
<1> USE ConstantsOK
<1>1. \A b \in live' : origin'[b] = "zmalloc"
  <2> USE DEF Inv, TypeOK, OneOwner, HeaderInv, ExactInv, Locations
  <2>1. ASSUME NEW t \in Threads, Zmalloc(t) \/ Zfree(t)
        PROVE  \A b \in live' : origin'[b] = "zmalloc"
    BY <2>1 DEF Zmalloc, MayCall, Obtain, TakeFromHeap, Zfree, Release
  <2>2. ASSUME NEW t \in Threads, ZmallocCount(t) \/ ZfreeUncount(t) \/ ZfreeFree(t)
        PROVE  \A b \in live' : origin'[b] = "zmalloc"
    BY <2>2 DEF ZmallocCount, ZfreeUncount, ZfreeFree, At, Return
  <2>3. ASSUME NEW t \in Threads,
               \/ Zcalloc(t) \/ Zrealloc(t) \/ ZreallocUncount(t) \/ ZreallocCount(t)
        PROVE  FALSE
    BY <2>3 DEF Zcalloc, Zrealloc, ZreallocUncount, ZreallocCount, MayCall, At,
                Disciplined
  <2>4. ASSUME NEW t \in Threads, OutOfMemory(t)
        PROVE  \A b \in live' : origin'[b] = "zmalloc"
    BY <2>4 DEF OutOfMemory
  <2>5. CASE ClientWrite \/ Stopped \/ UNCHANGED vars
    BY <2>5 DEF ClientWrite, Stopped, vars
  <2> QED BY <2>1, <2>2, <2>3, <2>4, <2>5 DEF Next
<1>2. ~\E t \in Threads : SubtractsWrongSize(t)
  BY DEF SubtractsWrongSize, Inv, OneOwner, HeaderInv, ExactInv
<1>3. Drift' = Drift
  BY <1>2, DriftStep DEF Inv
<1> QED BY <1>1, <1>3 DEF ExactInv

\* With disciplined clients, however many threads, used_memory never exceeds
\* what libc has handed out, and is exactly that when no call is in progress,
\* as long as a size_t can hold it (zmalloc.c:46-54, 83-91).
THEOREM CounterBound == Disciplined => (Spec /\ []HeapFits => []NeverOverstates)
<1> SUFFICES ASSUME Disciplined PROVE Spec /\ []HeapFits => []NeverOverstates
  OBVIOUS
<1>1. Init => ExactInv
  <2> SUFFICES ASSUME Init PROVE Drift = 0
    BY DEF Init, ExactInv
  <2>1. InAccount = {} /\ used_memory = 0
    BY DEF Init, InAccount
  <2>2. {m \in {} \X Word : m[2] < Counted(request[m[1]])} = {}
    OBVIOUS
  <2>3. ExactCount = 0
    BY <2>1, <2>2, FS_EmptySet DEF ExactCount, Bytes
  <2>4. 0 % WordMod = 0
    BY ConstantsOK
  <2> QED BY <2>1, <2>3, <2>4 DEF Drift
<1>2. ASSUME Inv, ExactInv, HeapFits PROVE NeverOverstates
  <2> USE <1>2
  <2>1. live \in SUBSET Blocks /\ InAccount \in SUBSET live /\ used_memory \in Word
    BY DEF Inv, TypeOK, InAccount
  <2>2. ExactCount <= CountedBytes /\ ExactCount \in Nat /\ CountedBytes \in Nat
    BY <2>1, BytesMonotone, BytesFinite DEF ExactCount, CountedBytes
  <2>3. used_memory = ExactCount
    <3>1. ExactCount \in Word
      BY <2>2, ConstantsOK DEF HeapFits, Word
    <3>2. (used_memory - ExactCount) % WordMod = 0
      BY DEF ExactInv, Drift
    <3> QED BY <2>1, <3>1, <3>2, NoDifference
  <2>4. ASSUME \A t \in Threads : pc[t] = "client" PROVE InAccount = live
    BY <2>4 DEF InAccount, Uncounted, ExactInv
  <2> QED BY <2>2, <2>3, <2>4 DEF NeverOverstates, ExactCount, CountedBytes
<1> QED BY <1>1, <1>2, ExactStep, HeaderHolds, CallHolds, PTL DEF Spec

=============================================================================
