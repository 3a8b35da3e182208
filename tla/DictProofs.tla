----------------------------- MODULE DictProofs -----------------------------
(***************************************************************************)
(* Proofs about Dict, for every set of keys, every hash function, every    *)
(* width of a long and any number of iterators and entries.  In three      *)
(* parts, each with its invariant: who owns the tables and when there are  *)
(* entries (IInv); what the tables look like (Fit); what iterators hold    *)
(* (FitInv).                                                               *)
(***************************************************************************)
EXTENDS Dict, CommonLemmas, FiniteSetTheorems, SequenceTheorems,
        WellFoundedInduction, TLAPS

Fields == {"table", "size", "used", "bucket"}

\* What a record must look like to be a dict.
Shape(e) ==
    /\ DOMAIN e = {"ht", "rehashidx", "iterator", "heap", "process"}
    /\ DOMAIN e.ht = {0, 1}
    /\ \A t \in {0, 1} : /\ DOMAIN e.ht[t] = Fields
                         /\ e.ht[t].size \in Nat /\ e.ht[t].used \in Nat
    /\ e.rehashidx \in Nat \cup {-1} /\ e.iterator \in Nat
    /\ NULL \notin e.heap

\* The invariant.  There are entries only in the middle of a rehash and
\* under an iterator; and once they are in table 0 there is no table 1.
Sound(e) ==
    /\ \A t \in {0, 1} : /\ e.ht[t].table = NULL => e.ht[t] = NoTable
                         /\ e.ht[t].table # NULL => e.ht[t].size # 0
    /\ e.rehashidx = -1 => e.ht[1] = NoTable /\ e.ht[0].used = 0
    /\ e.ht[0].used # 0 => e.ht[1] = NoTable
    /\ dictSize(e) # 0 => e.iterator # 0
    /\ e.heap = {e.ht[0].table, e.ht[1].table} \ {NULL}
    /\ e.ht[0].table = e.ht[1].table => e.ht[0].table = NULL

\* It holds until the process ends in a fault.
Good(e) == Shape(e) /\ (e.process \notin Faults => Sound(e))

\* A fault keeps what there is to keep.
LEMMA EndsGood ==
    ASSUME NEW e, Good(e), NEW how \in Faults
    PROVE  Good(Ends(e, how)) /\ ~Running(Ends(e, how))
<1>1. Shape(Ends(e, how))
  BY DEF Good, Shape, Ends
<1>2. Ends(e, how).process = how
  BY DEF Good, Shape, Ends
<1> QED BY <1>1, <1>2 DEF Good, Running, Faults

LEMMA EndsIs ==
    ASSUME NEW e, Good(e), NEW how
    PROVE  Ends(e, how).process = how
BY DEF Ends, Good, Shape

\* A table just made has no entries, and a size.
LEMMA NewTableIs ==
    ASSUME NEW a \in Addresses, NEW size \in Nat
    PROVE  /\ DOMAIN NewTable(a, size) = Fields
           /\ NewTable(a, size).table = a /\ NewTable(a, size).table # NULL
           /\ NewTable(a, size).size = size
           /\ NewTable(a, size).used = 0
BY DictConstants DEF NewTable, Fields

\* A place without a table.
LEMMA NoTableIs ==
    /\ DOMAIN NoTable = Fields /\ NoTable.table = NULL
    /\ NoTable.size = 0 /\ NoTable.used = 0
BY DEF NoTable, Fields

\* dictExpand makes table 0, or table 1 when there is one already
\* (dict.c:79-105).
LEMMA ExpandGood ==
    ASSUME NEW e, Good(e), Running(e), NEW size \in Nat,
           NEW a \in Addresses \ e.heap
    PROVE  /\ Good(dictExpand(e, size, a))
           /\ dictExpand(e, size, a).process \in {"running", "hung"}
           /\ Running(dictExpand(e, size, a)) =>
                 /\ dictIsRehashing(e) => dictIsRehashing(dictExpand(e, size, a))
                 /\ dictSize(dictExpand(e, size, a)) = dictSize(e)
                 /\ e.ht[0].table = NULL /\ ~dictIsRehashing(e)
                       => ~dictIsRehashing(dictExpand(e, size, a))
<1> DEFINE real == IF size >= LONG_MAX THEN LONG_MAX + 1 ELSE DICT_HT_INITIAL_SIZE
           n == NewTable(a, real)
           e0 == [e EXCEPT !.ht[0] = n, !.heap = @ \cup {a}]
           e1 == [e EXCEPT !.ht[1] = n, !.heap = @ \cup {a}, !.rehashidx = 0]
<1>1. /\ real \in Nat /\ real # 0
      /\ DOMAIN n = Fields /\ n.table = a /\ a # NULL /\ n.size = real /\ n.used = 0
  BY NewTableIs, DictConstants DEF DICT_HT_INITIAL_SIZE
<1> HIDE DEF n, real
<1>2. Shape(e) /\ Sound(e)
  BY DEF Good, Running, Faults
<1>3. CASE dictExpand(e, size, a) = e
  BY <1>3 DEF Running
<1>4. CASE dictExpand(e, size, a) = Ends(e, "hung")
  <2>1. Ends(e, "hung").process = "hung"
    BY <1>2 DEF Shape, Ends
  <2> QED BY <1>4, <2>1, EndsGood DEF Faults
<1>5. CASE dictExpand(e, size, a) = e0 /\ ~dictIsRehashing(e) /\ e.ht[0].table = NULL
  <2>1. /\ e0.ht[0] = n /\ e0.ht[1] = e.ht[1] /\ e0.heap = e.heap \cup {a}
        /\ e0.rehashidx = e.rehashidx /\ e0.iterator = e.iterator
        /\ e0.process = e.process /\ DOMAIN e0 = DOMAIN e /\ DOMAIN e0.ht = {0, 1}
    BY <1>2 DEF Shape
  <2>2. e.ht[1] = NoTable /\ e.ht[0] = NoTable /\ e.heap = {}
    BY <1>2, <1>5, NoTableIs DEF Sound, dictIsRehashing
  <2> HIDE DEF e0
  <2>3. Shape(e0)
    BY <1>1, <1>2, <2>1 DEF Shape
  <2>4. Sound(e0) /\ dictSize(e0) = dictSize(e)
    BY <1>1, <1>2, <2>1, <2>2, NoTableIs DEF Sound, dictSize
  <2> QED BY <1>5, <2>1, <2>3, <2>4 DEF Good, dictIsRehashing, Running
<1>6. CASE dictExpand(e, size, a) = e1 /\ ~dictIsRehashing(e) /\ e.ht[0].table # NULL
  <2>1. /\ e1.ht[1] = n /\ e1.ht[0] = e.ht[0] /\ e1.heap = e.heap \cup {a}
        /\ e1.rehashidx = 0 /\ e1.iterator = e.iterator
        /\ e1.process = e.process /\ DOMAIN e1 = DOMAIN e /\ DOMAIN e1.ht = {0, 1}
    BY <1>2 DEF Shape
  <2>2. e.ht[1] = NoTable /\ e.ht[0].used = 0 /\ e.heap = {e.ht[0].table}
    BY <1>2, <1>6, NoTableIs DEF Sound, dictIsRehashing
  <2> HIDE DEF e1
  <2>3. Shape(e1)
    BY <1>1, <1>2, <2>1 DEF Shape
  <2>4. Sound(e1) /\ dictSize(e1) = dictSize(e)
    BY <1>1, <1>2, <1>6, <2>1, <2>2, NoTableIs DEF Sound, dictSize
  <2> QED BY <1>6, <2>1, <2>3, <2>4 DEF Good, dictIsRehashing, Running
<1> QED BY <1>3, <1>4, <1>5, <1>6 DEF dictExpand, n, real

\* The end of a rehash leaves one table, and goes on rehashing
\* (dict.c:144-149).
LEMMA FinishGood ==
    ASSUME NEW e, Good(e), Running(e), dictIsRehashing(e), e.ht[0].used = 0
    PROVE  /\ Good(FinishRehash(e)) /\ Running(FinishRehash(e))
           /\ dictIsRehashing(FinishRehash(e))
           /\ dictSize(FinishRehash(e)) = dictSize(e)
           /\ FinishRehash(e).ht[1] = NoTable
           /\ FinishRehash(e).iterator = e.iterator
<1> DEFINE f == FinishRehash(e)
<1>1. Shape(e) /\ Sound(e)
  BY DEF Good, Running, Faults
<1>2. /\ f.ht[0] = e.ht[1] /\ f.ht[1] = NoTable /\ f.rehashidx = 0
      /\ f.heap = e.heap \ {e.ht[0].table} /\ f.iterator = e.iterator
      /\ f.process = e.process /\ DOMAIN f = DOMAIN e /\ DOMAIN f.ht = {0, 1}
  BY <1>1 DEF Shape, FinishRehash
<1> HIDE DEF f
<1>3. Shape(f)
  BY <1>1, <1>2, NoTableIs DEF Shape
<1>4. Sound(f) /\ dictSize(f) = dictSize(e)
  BY <1>1, <1>2, NoTableIs DEF Sound, dictSize, Shape
<1> QED BY <1>1, <1>2, <1>3, <1>4 DEF Good, Running, dictIsRehashing, f

\* While table 0 has entries a round of dictRehash moves none: there is no
\* table to move them to (dict.c:114-142).
LEMMA RoundGood ==
    ASSUME NEW e, Good(e), Running(e), dictIsRehashing(e), e.ht[0].used # 0
    PROVE  /\ Good(Round(e).d) /\ ~Round(e).go
           /\ Round(e).d.ht = e.ht /\ dictIsRehashing(Round(e).d)
<1>1. Shape(e) /\ Sound(e)
  BY DEF Good, Running, Faults
<1>2. e.ht[1].table = NULL
  BY <1>1, NoTableIs DEF Sound
<1>3. MoveChain(e) = Ends(e, "crashed")
  BY <1>2 DEF MoveChain
<1>4. \A how \in Faults : Good(Ends(e, how)) /\ ~Running(Ends(e, how))
  BY EndsGood
<1>5. "crashed" \in Faults /\ "aborted" \in Faults /\ "undefined" \in Faults
  BY DEF Faults
<1>6. Access(e.ht[0], e.rehashidx) \in {"crashed", "undefined", "running"}
  BY DEF Access
<1>7. CASE Round(e) = [d |-> [e EXCEPT !.rehashidx = @ + 1], go |-> FALSE]
  <2> DEFINE f == [e EXCEPT !.rehashidx = @ + 1]
  <2>1. /\ f.ht = e.ht /\ f.rehashidx = e.rehashidx + 1 /\ f.heap = e.heap
        /\ f.iterator = e.iterator /\ f.process = e.process /\ DOMAIN f = DOMAIN e
    BY <1>1 DEF Shape
  <2>2. Round(e).d = f /\ ~Round(e).go
    BY <1>7
  <2> HIDE DEF f
  <2>3. Shape(f) /\ f.process = "running"
    BY <1>1, <2>1 DEF Shape, Running
  <2>4. Sound(f)
    BY <1>1, <2>1 DEF Sound, Shape, dictSize, dictIsRehashing
  <2> QED BY <1>1, <2>1, <2>2, <2>3, <2>4 DEF Good, dictIsRehashing, Shape
<1>8. CASE \E how \in Faults : Round(e) = [d |-> Ends(e, how), go |-> FALSE]
  <2>1. PICK how \in Faults : Round(e) = [d |-> Ends(e, how), go |-> FALSE]
    BY <1>8
  <2>2. Ends(e, how).ht = e.ht /\ Ends(e, how).rehashidx = e.rehashidx
    BY <1>1 DEF Ends, Shape
  <2>3. Round(e).d = Ends(e, how) /\ ~Round(e).go
    BY <2>1
  <2> QED BY <1>4, <2>2, <2>3 DEF dictIsRehashing
<1>9. Running(MoveChain(e)) = FALSE
  BY <1>3, <1>4, <1>5
<1>10. \/ Round(e) = [d |-> [e EXCEPT !.rehashidx = @ + 1], go |-> FALSE]
       \/ \E how \in Faults : Round(e) = [d |-> Ends(e, how), go |-> FALSE]
  BY <1>3, <1>5, <1>6, <1>9 DEF Round
<1> QED BY <1>7, <1>8, <1>10

\* What every operation but dictEmpty and dictRelease does: it keeps the
\* invariant, goes on rehashing, and takes no entry out.
Keeps(e, f) ==
    /\ Good(f)
    /\ dictIsRehashing(e) => dictIsRehashing(f)
    /\ dictSize(e) \in Nat /\ dictSize(f) \in Nat /\ dictSize(f) >= dictSize(e)

LEMMA KeepsTransitive ==
    ASSUME NEW e, NEW f, NEW g, Keeps(e, f), Keeps(f, g)
    PROVE  Keeps(e, g)
BY DEF Keeps

LEMMA SameKeeps ==
    ASSUME NEW e, Good(e)
    PROVE  Keeps(e, e)
BY DEF Keeps, Good, Shape, dictSize

LEMMA EndsKeeps ==
    ASSUME NEW e, Good(e), NEW how \in Faults
    PROVE  Keeps(e, Ends(e, how)) /\ Ends(e, how).ht = e.ht
<1>1. Good(Ends(e, how))
  BY EndsGood
<1>2. Ends(e, how).ht = e.ht /\ Ends(e, how).rehashidx = e.rehashidx
  BY DEF Ends, Good, Shape
<1> QED BY <1>1, <1>2, SameKeeps DEF Keeps, dictSize, dictIsRehashing

\* Also when the process goes on.
LEMMA EndsOrNotKeeps ==
    ASSUME NEW e, Good(e), Running(e), NEW how \in Faults \cup {"running"}
    PROVE  Keeps(e, Ends(e, how))
<1>1. CASE how \in Faults
  BY <1>1, EndsKeeps
<1>2. CASE how = "running"
  <2> DEFINE f == Ends(e, how)
  <2>1. /\ f.ht = e.ht /\ f.rehashidx = e.rehashidx /\ f.heap = e.heap
        /\ f.iterator = e.iterator /\ f.process = e.process /\ DOMAIN f = DOMAIN e
    BY <1>2 DEF Ends, Good, Shape, Running
  <2> HIDE DEF f
  <2>2. Good(f) /\ dictSize(f) = dictSize(e) /\ dictIsRehashing(f) = dictIsRehashing(e)
    BY <2>1 DEF Good, Shape, Sound, dictSize, dictIsRehashing
  <2> QED BY <2>2, SameKeeps DEF Keeps, f
<1> QED BY <1>1, <1>2

LEMMA ProbeIs ==
    ASSUME NEW h, NEW key
    PROVE  /\ Probe(h, key) \in {"found", "absent"} \cup Faults
           /\ h.table = NULL => Probe(h, key) = "crashed"
BY DEF Probe, Access, Faults

\* The step of a rehash that lookups and additions take changes nothing
\* while there are entries, and leaves no table 1 without an iterator
\* (dict.c:175-179).
LEMMA StepKeeps ==
    ASSUME NEW e, Good(e), Running(e)
    PROVE  LET s == _dictRehashStep(e)
           IN  /\ Keeps(e, s) /\ Running(s) /\ dictSize(s) = dictSize(e)
               /\ dictSize(e) # 0 => s = e
               /\ ~dictIsRehashing(e) => s = e
               /\ dictIsRehashing(s) => s.iterator # 0 \/ s.ht[1] = NoTable
<1>1. Shape(e) /\ Sound(e)
  BY DEF Good, Running, Faults
<1>2. dictSize(e) \in Nat /\ (dictSize(e) = 0 => e.ht[0].used = 0)
  BY <1>1 DEF Shape, dictSize
<1>3. CASE _dictRehashStep(e) = e /\ (e.iterator # 0 \/ ~dictIsRehashing(e))
  BY <1>3, SameKeeps
<1>4. CASE e.iterator = 0 /\ dictIsRehashing(e)
  <2>1. dictSize(e) = 0 /\ e.ht[0].used = 0
    BY <1>1, <1>2, <1>4 DEF Sound
  <2>2. _dictRehashStep(e) = FinishRehash(e)
    BY <1>4, <2>1 DEF _dictRehashStep, dictRehash1
  <2>3. /\ Good(FinishRehash(e)) /\ Running(FinishRehash(e))
        /\ dictIsRehashing(FinishRehash(e))
        /\ dictSize(FinishRehash(e)) = dictSize(e)
        /\ FinishRehash(e).ht[1] = NoTable
    BY <1>4, <2>1, FinishGood
  <2> QED BY <1>2, <1>4, <2>1, <2>2, <2>3 DEF Keeps
<1> QED BY <1>3, <1>4 DEF _dictRehashStep, dictRehash1

\* dictAddRaw expands only a dict without tables (dict.c:681-697).
LEMMA ExpandIfNeededKeeps ==
    ASSUME NEW e, Good(e), Running(e), NEW can, NEW a \in Addresses \ e.heap
    PROVE  LET x == _dictExpandIfNeeded(e, can, a)
           IN  /\ Keeps(e, x) /\ Running(x)
               /\ dictIsRehashing(e) => x = e
               /\ ~dictIsRehashing(e) => ~dictIsRehashing(x)
               /\ dictSize(x) = dictSize(e)
<1>1. Shape(e) /\ Sound(e)
  BY DEF Good, Running, Faults
<1>2. CASE _dictExpandIfNeeded(e, can, a) = e
  BY <1>2, SameKeeps
<1>3. CASE ~dictIsRehashing(e) /\ e.ht[0].size = 0
  <2> DEFINE x == dictExpand(e, DICT_HT_INITIAL_SIZE, a)
  <2>1. _dictExpandIfNeeded(e, can, a) = x
    BY <1>3 DEF _dictExpandIfNeeded, NeedsExpand
  <2>2. e.ht[0].table = NULL /\ DICT_HT_INITIAL_SIZE \in Nat
    BY <1>1, <1>3 DEF Sound, DICT_HT_INITIAL_SIZE
  <2>3. /\ Good(x)
        /\ Running(x) => /\ dictSize(x) = dictSize(e)
                         /\ ~dictIsRehashing(x)
    BY <1>3, <2>2, ExpandGood
  <2>5. x = [e EXCEPT !.ht[0] = NewTable(a, DICT_HT_INITIAL_SIZE), !.heap = @ \cup {a}]
    <3>1. ~(DICT_HT_INITIAL_SIZE >= LONG_MAX) /\ DICT_HT_INITIAL_SIZE # e.ht[0].size
      BY <1>3, DictConstants DEF DICT_HT_INITIAL_SIZE, sizeof_dictEntry
    <3>2. ~(e.ht[0].used > DICT_HT_INITIAL_SIZE)
      BY <1>1, <1>3 DEF Sound, DICT_HT_INITIAL_SIZE, dictIsRehashing
    <3> QED BY <1>3, <2>2, <3>1, <3>2 DEF dictExpand, DICT_HT_INITIAL_SIZE
  <2>6. Running(x)
    BY <1>1, <2>5 DEF Running, Shape
  <2> QED BY <1>1, <1>3, <2>1, <2>3, <2>6 DEF Keeps, Shape, dictSize
<1>4. e.ht[0].size # 0 /\ ~dictIsRehashing(e) => ~(e.ht[0].used >= e.ht[0].size)
  BY <1>1 DEF Shape, Sound, dictIsRehashing
<1> QED BY <1>2, <1>3, <1>4 DEF _dictExpandIfNeeded, NeedsExpand

\* An entry is stored in table 1 only, and under an iterator
\* (dict.c:204-208).
LEMMA InsertKeeps ==
    ASSUME NEW e, Good(e), Running(e), dictIsRehashing(e), NEW key \in Keys,
           e.iterator # 0 \/ e.ht[1] = NoTable
    PROVE  Keeps(e, Insert(e, key))
<1> DEFINE i == Index(e.ht[0], Hash[key])
           f == [e EXCEPT !.ht[1].bucket[i] = <<key>> \o @, !.ht[1].used = @ + 1]
<1>1. Shape(e) /\ Sound(e)
  BY DEF Good, Running, Faults
<1>2. CASE Access(e.ht[1], i) # "running"
  <2>1. Access(e.ht[1], i) \in Faults
    BY <1>2 DEF Access, Faults
  <2>2. Insert(e, key) = Ends(e, Access(e.ht[1], i))
    BY <1>2 DEF Insert
  <2> QED BY <2>1, <2>2, EndsKeeps
<1>3. CASE Access(e.ht[1], i) = "running"
  <2>1. Insert(e, key) = f
    BY <1>3 DEF Insert
  <2>2. e.ht[1].table # NULL /\ e.ht[1] # NoTable
    BY <1>3, NoTableIs DEF Access
  <2>3. /\ f.ht[0] = e.ht[0] /\ DOMAIN f = DOMAIN e /\ DOMAIN f.ht = {0, 1}
        /\ DOMAIN f.ht[1] = Fields /\ f.ht[1].table = e.ht[1].table
        /\ f.ht[1].size = e.ht[1].size /\ f.ht[1].used = e.ht[1].used + 1
        /\ f.rehashidx = e.rehashidx /\ f.iterator = e.iterator
        /\ f.heap = e.heap /\ f.process = e.process
    BY <1>1 DEF Shape, Fields
  <2> HIDE DEF f
  <2>4. Shape(f)
    BY <1>1, <2>3 DEF Shape
  <2>5. Sound(f)
    BY <1>1, <2>2, <2>3, NoTableIs DEF Sound, Shape, dictSize, dictIsRehashing
  <2> QED BY <1>1, <2>1, <2>3, <2>4, <2>5 DEF Keeps, Good, Shape, dictSize, dictIsRehashing
<1> QED BY <1>2, <1>3

LEMMA AddKeeps ==
    ASSUME NEW e, Good(e), Running(e), NEW key \in Keys, NEW can,
           NEW a \in Addresses \ e.heap
    PROVE  Keeps(e, dictAddRaw(e, key, can, a))
<1> DEFINE d1 == _dictRehashStep(e)
           d2 == _dictExpandIfNeeded(d1, can, a)
           probe == ProbeBoth(d2, key)
<1>1. /\ Keeps(e, d1) /\ Running(d1)
      /\ ~dictIsRehashing(e) => d1 = e
      /\ dictIsRehashing(d1) => d1.iterator # 0 \/ d1.ht[1] = NoTable
  BY StepKeeps
<1>2. Keeps(d1, d2) /\ Running(d2) /\ (dictIsRehashing(d2) => d2 = d1)
  <2>1. CASE dictIsRehashing(d1)
    <3>1. d2 = d1
      BY <2>1 DEF _dictExpandIfNeeded, NeedsExpand
    <3> QED BY <1>1, <3>1, SameKeeps DEF Keeps
  <2>2. CASE ~dictIsRehashing(d1)
    <3>1. d1 = e
      BY <1>1, <2>2 DEF Keeps
    <3> QED BY <2>2, <3>1, ExpandIfNeededKeeps
  <2> QED BY <2>1, <2>2
<1>3. Good(d2) /\ Keeps(e, d2)
  BY <1>1, <1>2, KeepsTransitive DEF Keeps
<1>4. \/ dictAddRaw(e, key, can, a) = d2
      \/ /\ probe # "found"
         /\ dictAddRaw(e, key, can, a) =
              IF probe # "absent" THEN Ends(d2, probe) ELSE Insert(d2, key)
  BY <1>1, <1>2 DEF dictAddRaw
<1>5. /\ probe \in {"found", "absent"} \cup Faults
      /\ probe = "absent" => dictIsRehashing(d2)
  <2>1. ~dictIsRehashing(d2) => d2.ht[1].table = NULL
    BY <1>2, <1>3, NoTableIs DEF Good, Running, Faults, Sound, dictIsRehashing
  <2> QED BY <2>1, ProbeIs DEF ProbeBoth, Faults
<1> HIDE DEF d1, d2, probe
<1>6. probe \in Faults => Keeps(d2, Ends(d2, probe))
  BY <1>3, EndsKeeps
<1>7. probe = "absent" => Keeps(d2, Insert(d2, key))
  BY <1>1, <1>2, <1>3, <1>5, InsertKeeps
<1>8. "absent" \notin Faults
  BY DEF Faults
<1> QED BY <1>3, <1>4, <1>5, <1>6, <1>7, <1>8, KeepsTransitive

LEMMA ReplaceKeeps ==
    ASSUME NEW e, Good(e), Running(e), NEW key \in Keys, NEW can,
           NEW a \in Addresses \ e.heap
    PROVE  Keeps(e, dictReplace(e, key, can, a))
<1> DEFINE f == dictAddRaw(e, key, can, a)
<1>1. Keeps(e, f)
  BY AddKeeps
<1>2. dictReplace(e, key, can, a) \in {f, Ends(f, "undefined")}
  BY DEF dictReplace
<1> HIDE DEF f
<1>3. Keeps(f, Ends(f, "undefined"))
  BY <1>1, EndsKeeps DEF Keeps, Faults
<1> QED BY <1>1, <1>2, <1>3, KeepsTransitive

\* dictFind keeps, and where there are entries does not touch a table.
LEMMA FindKeeps ==
    ASSUME NEW e, Good(e), Running(e), NEW key \in Keys
    PROVE  /\ Keeps(e, dictFind(e, key))
           /\ dictSize(e) # 0 => dictFind(e, key).ht = e.ht
<1> DEFINE d1 == _dictRehashStep(e)
           probe == Probe(d1.ht[0], key)
<1>1. Keeps(e, d1) /\ Running(d1) /\ (dictSize(e) # 0 => d1 = e)
  BY StepKeeps
<1>2. probe \in {"found", "absent"} \cup Faults
  BY ProbeIs
<1>3. dictFind(e, key) = IF probe \in {"found", "absent"} THEN d1 ELSE Ends(d1, probe)
  BY <1>1 DEF dictFind
<1> HIDE DEF d1, probe
<1>4. probe \in Faults => Keeps(d1, Ends(d1, probe)) /\ Ends(d1, probe).ht = d1.ht
  BY <1>1, EndsKeeps DEF Keeps
<1> QED BY <1>1, <1>2, <1>3, <1>4, KeepsTransitive

\* dictGenericDelete always returns early (dict.c:244-246).
LEMMA DeletesNothing ==
    ASSUME NEW e, Good(e), Running(e), NEW key
    PROVE  dictGenericDelete(e, key) = e
<1>1. NothingToDelete(e)
  BY NoTableIs DEF Good, Sound, Running, Faults, NothingToDelete
<1> QED BY <1>1 DEF dictGenericDelete

\* A table is freed once, and its place is empty.
LEMMA ClearGood ==
    ASSUME NEW e, Good(e), Running(e), NEW t \in {0, 1}
    PROVE  /\ Good(_dictClear(e, t))
           /\ Running(_dictClear(e, t)) =>
                 /\ _dictClear(e, t).ht[t] = NoTable
                 /\ \A u \in {0, 1} : u # t => _dictClear(e, t).ht[u] = e.ht[u]
<1> DEFINE f == [e EXCEPT !.heap = @ \ {e.ht[t].table}, !.ht[t] = NoTable]
<1>1. Shape(e) /\ Sound(e)
  BY DEF Good, Running, Faults
<1>2. CASE _dictClear(e, t) = Ends(e, "crashed")
  BY <1>2, EndsGood DEF Faults
<1>3. CASE _dictClear(e, t) = f
  <2>1. /\ f.ht[t] = NoTable /\ \A u \in {0, 1} : u # t => f.ht[u] = e.ht[u]
        /\ f.rehashidx = e.rehashidx /\ f.iterator = e.iterator
        /\ f.heap = e.heap \ {e.ht[t].table} /\ f.process = e.process
        /\ DOMAIN f = DOMAIN e /\ DOMAIN f.ht = {0, 1}
    BY <1>1 DEF Shape
  <2> HIDE DEF f
  <2>2. Shape(f)
    BY <1>1, <2>1, NoTableIs DEF Shape
  <2>3. Sound(f)
    <3>1. CASE t = 0
      BY <1>1, <2>1, <3>1, NoTableIs DEF Sound, Shape, dictSize
    <3>2. CASE t = 1
      BY <1>1, <2>1, <3>2, NoTableIs DEF Sound, Shape, dictSize
    <3> QED BY <3>1, <3>2
  <2> QED BY <1>3, <2>1, <2>2, <2>3 DEF Good
<1> QED BY <1>2, <1>3 DEF _dictClear

LEMMA ClearBothGood ==
    ASSUME NEW e, Good(e), Running(e)
    PROVE  /\ Good(ClearBoth(e))
           /\ Running(ClearBoth(e)) => \A t \in {0, 1} : ClearBoth(e).ht[t] = NoTable
<1> DEFINE f == _dictClear(e, 0)
<1>1. Good(f) /\ (Running(f) => f.ht[0] = NoTable)
  BY ClearGood
<1>2. ClearBoth(e) = IF Running(f) THEN _dictClear(f, 1) ELSE f
  BY DEF ClearBoth
<1> HIDE DEF f
<1>3. CASE Running(f)
  <2>1. /\ Good(_dictClear(f, 1))
        /\ Running(_dictClear(f, 1)) =>
              _dictClear(f, 1).ht[1] = NoTable /\ _dictClear(f, 1).ht[0] = f.ht[0]
    BY <1>1, <1>3, ClearGood
  <2> QED BY <1>1, <1>2, <1>3, <2>1
<1> QED BY <1>1, <1>2, <1>3

LEMMA ExpandKeeps ==
    ASSUME NEW e, Good(e), Running(e), NEW size \in Nat, NEW a \in Addresses \ e.heap
    PROVE  Keeps(e, dictExpand(e, size, a))
<1>1. Shape(e)
  BY DEF Good
<1>2. CASE dictExpand(e, size, a) = Ends(e, "hung")
  BY <1>2, EndsKeeps DEF Faults
<1>3. CASE Running(dictExpand(e, size, a))
  BY <1>1, <1>3, ExpandGood DEF Keeps, Shape, dictSize
<1> QED BY <1>1, <1>2, <1>3 DEF dictExpand, Running, Shape

\* The count of iterators may grow at any time.
LEMMA CountKeeps ==
    ASSUME NEW e, Good(e), Running(e), NEW n \in Nat, n >= e.iterator,
           NEW how \in Faults \cup {"running"}
    PROVE  Keeps(e, [e EXCEPT !.process = how, !.iterator = n])
<1> DEFINE f == [e EXCEPT !.process = how, !.iterator = n]
<1>1. Shape(e) /\ Sound(e)
  BY DEF Good, Running, Faults
<1>2. /\ f.ht = e.ht /\ f.rehashidx = e.rehashidx /\ f.heap = e.heap
      /\ f.iterator = n /\ f.process = how /\ DOMAIN f = DOMAIN e
  BY <1>1 DEF Shape
<1> HIDE DEF f
<1>3. Shape(f) /\ Sound(f)
  BY <1>1, <1>2 DEF Shape, Sound, dictSize
<1> QED BY <1>1, <1>2, <1>3 DEF Keeps, Good, Shape, dictSize, dictIsRehashing, f
-----------------------------------------------------------------------------
\* dictGetSomeKeys has stored nothing yet, and counts down from an even number.
NothingStored ==
    sample # NULL =>
        /\ DOMAIN sample = {"fair", "count", "left", "maxsteps", "i", "emptylen",
                            "stored", "process"}
        /\ sample.stored = 0
        /\ \E n \in Nat : sample.maxsteps = 10 * n

\* The inductive invariant: also, the loop of dictRehash runs only in a
\* rehash.
IInv == /\ Good(d)
        /\ Running(d) /\ rounds # -1 => dictIsRehashing(d)
        /\ NothingStored

\* So the condition of its loop is false from the start (dict.c:540).
LEMMA NoTurn ==
    ASSUME NothingStored, sample # NULL
    PROVE  ~TurnsAgain(sample)
<1>1. PICK n \in Nat : sample.maxsteps = 10 * n
  BY DEF NothingStored
<1>2. ((10 * n) % 2) = 0
  OBVIOUS
<1> QED BY <1>1, <1>2 DEF TurnsAgain

\* What dictGetRandomKey may do to the dict.
LEMMA RandomKeyKeeps ==
    ASSUME Good(d), Running(d), NEW e \in RandomKeyResults
    PROVE  Keeps(d, e)
<1> DEFINE d1 == _dictRehashStep(d)
<1>1. Keeps(d, d1) /\ Good(d1)
  BY StepKeeps DEF Keeps
<1>2. \A h, i : Access(h, i) # "running" => Access(h, i) \in Faults
  BY DEF Access, Faults
<1>3. "crashed" \in Faults /\ "hung" \in Faults
  BY DEF Faults
<1>4. e = d \/ e = d1 \/ \E how \in Faults : e = Ends(d1, how)
  BY <1>2, <1>3 DEF RandomKeyResults
<1> HIDE DEF d1
<1>5. \A how \in Faults : Keeps(d1, Ends(d1, how))
  BY <1>1, EndsKeeps
<1> QED BY <1>1, <1>4, <1>5, SameKeeps, KeepsTransitive

LEMMA MinOfTwo ==
    ASSUME NEW a \in Int, NEW b \in Int
    PROVE  Min({a, b}) \in {a, b}
<1>1. \E x \in {a, b} : \A y \in {a, b} : x =< y
  OBVIOUS
<1> QED BY <1>1 DEF Min

\* Only the loops of dictRehash and dictGetSomeKeys are in the middle of a call.
LEMMA NextInCall ==
    ASSUME Next
    PROVE  /\ Running(d)
           /\ MayCall \/ RehashRound \/ RehashEnd \/ SampleRehash \/ SampleTurn
<1>1. RehashRound \/ RehashEnd \/ SampleRehash \/ SampleTurn => Running(d)
  BY DEF RehashRound, RehashEnd, SampleRehash, SampleTurn
<1>2. Operation => MayCall
  BY DEF Operation
<1>3. MayCall => Running(d)
  BY DEF MayCall
<1>4. \/ MayCall \/ RehashRound \/ RehashEnd \/ SampleRehash \/ SampleTurn
  BY <1>2 DEF Next, Expand, Resize, Rehash, GetRandomKey, Scan, Empty, Release,
         SetResize, Add, Replace, Find, Delete, FindEntryRef, GetIterator, Advance,
         ReleaseIterator, GetStats, SomeKeys
<1> QED BY <1>1, <1>3, <1>4

\* Every step keeps the dict sound; and every step but dictEmpty and
\* dictRelease goes on rehashing and takes no entry out.
LEMMA NextKeeps ==
    ASSUME IInv, Next
    PROVE  /\ Good(d')
           /\ ~Empty /\ ~Release => Keeps(d, d')
<1> USE DEF IInv
<1>1. Good(d) /\ Running(d)
  BY NextInCall
<1>2. Keeps(d, d') => Good(d')
  BY DEF Keeps
<1>3. d' = d => Keeps(d, d')
  BY <1>1, SameKeeps
<1>4. \A how \in Faults : Keeps(d, Ends(d, how))
  BY <1>1, EndsKeeps
<1>5. /\ Keeps(d, _dictRehashStep(d)) /\ Running(_dictRehashStep(d))
  BY <1>1, StepKeeps
<1>6. \A how \in Faults : Keeps(d, Ends(_dictRehashStep(d), how))
  BY <1>5, EndsKeeps, KeepsTransitive DEF Keeps
<1>7. \A h, i : Access(h, i) # "running" => Access(h, i) \in Faults
  BY DEF Access, Faults
<1>8. /\ "crashed" \in Faults /\ "hung" \in Faults
      /\ "undefined" \in Faults /\ "aborted" \in Faults
  BY DEF Faults
<1>9. ASSUME NEW size \in Sizes, Expand(size) PROVE Keeps(d, d')
  <2>1. PICK a \in Fresh : d' = dictExpand(d, size, a)
    BY <1>9 DEF Expand
  <2>2. size \in Nat
    BY MachineConstants, DictConstants DEF ULONG_MAX
  <2> QED BY <1>1, <1>2, <2>1, <2>2, ExpandKeeps DEF Fresh
<1>10. CASE Resize
  <2>1. PICK a \in Fresh : d' = dictResize(d, dict_can_resize, a)
    BY <1>10 DEF Resize
  <2>2. /\ DICT_HT_INITIAL_SIZE \in Nat /\ d.ht[0].used \in Nat
    BY <1>1 DEF Good, Shape, DICT_HT_INITIAL_SIZE
  <2> QED BY <1>1, <1>2, <1>3, <2>1, <2>2, ExpandKeeps DEF Fresh, dictResize
<1>11. CASE Rehash
  BY <1>2, <1>3, <1>11 DEF Rehash
<1>12. CASE RehashRound
  <2>1. d' = Round(d).d /\ d.ht[0].used # 0
    BY <1>12 DEF RehashRound
  <2>2. dictIsRehashing(d)
    BY <1>1, <2>1 DEF Good, Running, Faults, Sound, dictIsRehashing
  <2> QED BY <1>1, <1>3, <2>1, <2>2, RoundGood, SameKeeps DEF Keeps, dictSize
<1>13. CASE RehashEnd
  <2>1. dictIsRehashing(d) /\ d' = AfterRounds(d)
    BY <1>1, <1>13 DEF RehashEnd
  <2>2. CASE d.ht[0].used = 0
    <3>1. d' = FinishRehash(d)
      BY <2>1, <2>2 DEF AfterRounds
    <3> QED BY <1>1, <2>1, <2>2, <3>1, FinishGood, SameKeeps DEF Keeps
  <2>3. CASE d.ht[0].used # 0
    BY <1>2, <1>3, <2>1, <2>3 DEF AfterRounds
  <2> QED BY <2>2, <2>3
<1>14. CASE GetRandomKey
  <2>1. d' \in RandomKeyResults
    BY <1>14 DEF GetRandomKey
  <2>2. Keeps(d, d')
    BY <1>1, <2>1, RandomKeyKeeps
  <2> QED BY <1>2, <2>2
<1>15. CASE Scan
  <2>1. d' = d \/ \E how \in Faults : d' = Ends(d, how)
    BY <1>7, <1>8, <1>15 DEF Scan
  <2> QED BY <1>2, <1>3, <1>4, <2>1
<1>16. CASE SetResize
  BY <1>2, <1>3, <1>16 DEF SetResize
<1>17. ASSUME NEW key \in Keys, Add(key) PROVE Keeps(d, d')
  BY <1>1, <1>17, AddKeeps DEF Add, Fresh
<1>18. ASSUME NEW key \in Keys, Replace(key) PROVE Keeps(d, d')
  BY <1>1, <1>18, ReplaceKeeps DEF Replace, Fresh
<1>19. ASSUME NEW key \in Keys, Find(key) PROVE Keeps(d, d')
  BY <1>1, <1>19, FindKeeps DEF Find
<1>20. ASSUME NEW key \in Keys, Delete(key) PROVE Keeps(d, d')
  BY <1>1, <1>3, <1>20, DeletesNothing DEF Delete
<1>21. ASSUME NEW key \in Keys, FindEntryRef(key) PROVE Keeps(d, d')
  <2>1. ProbeBoth(d, key) \in {"found", "absent"} \cup Faults
    BY ProbeIs DEF ProbeBoth
  <2> QED BY <1>3, <1>4, <1>21, <2>1 DEF FindEntryRef
<1>22. ASSUME NEW x \in Iterators, NEW safe \in BOOLEAN, GetIterator(x, safe)
       PROVE  Keeps(d, d')
  BY <1>3, <1>22 DEF GetIterator
<1>23. ASSUME NEW x \in Iterators, Advance(x) PROVE Keeps(d, d')
  <2>1. d.iterator \in Nat
    BY <1>1 DEF Good, Shape
  <2>2. PICK how \in Faults \cup {"running"}, n \in {d.iterator, d.iterator + 1} :
           d' = [d EXCEPT !.process = how, !.iterator = n]
    <3>1. Ends(d, "running") = [d EXCEPT !.process = "running", !.iterator = d.iterator]
      BY <1>1 DEF Ends, Good, Shape
    <3>2. Ends(d, "crashed") = [d EXCEPT !.process = "crashed", !.iterator = d.iterator]
      BY <1>1 DEF Ends, Good, Shape
    <3> QED BY <1>7, <1>8, <1>23, <3>1, <3>2 DEF Advance
  <2>3. n \in Nat /\ n >= d.iterator
    BY <2>1, <2>2
  <2>4. Keeps(d, [d EXCEPT !.process = how, !.iterator = n])
    BY ONLY <1>1, <2>2, <2>3, CountKeeps
  <2> QED BY <2>2, <2>4
<1>24. ASSUME NEW x \in Iterators, ReleaseIterator(x) PROVE Keeps(d, d')
  <2>1. CASE d' = CountReleased(d)
    <3>1. PICK n \in Nat : n = d.iterator + 1 /\ n >= d.iterator
      BY <1>1 DEF Good, Shape
    <3>2. CountReleased(d) = [d EXCEPT !.process = "running", !.iterator = n]
      BY <1>1, <3>1 DEF CountReleased, Good, Shape, Running
    <3>3. Keeps(d, [d EXCEPT !.process = "running", !.iterator = n])
      BY <1>1, <3>1, CountKeeps
    <3> QED BY <2>1, <3>2, <3>3
  <2> QED BY <1>3, <1>4, <1>8, <1>24, <2>1 DEF ReleaseIterator
<1>25. CASE Empty
  <2> DEFINE c == ClearBoth(d)
             f == [c EXCEPT !.rehashidx = -1, !.iterator = 0]
  <2>1. Good(c) /\ (Running(c) => \A t \in {0, 1} : c.ht[t] = NoTable)
    BY <1>1, ClearBothGood
  <2>2. d' = IF Running(c) THEN f ELSE c
    BY <1>25 DEF Empty
  <2> HIDE DEF c
  <2>3. ASSUME Running(c) PROVE Good(f)
    <3>1. Shape(c) /\ Sound(c)
      BY <2>1, <2>3 DEF Good, Running, Faults
    <3>2. /\ f.ht = c.ht /\ f.rehashidx = -1 /\ f.iterator = 0
          /\ f.heap = c.heap /\ f.process = c.process /\ DOMAIN f = DOMAIN c
      BY <3>1 DEF Shape
    <3> HIDE DEF f
    <3> QED BY <2>1, <2>3, <3>1, <3>2, NoTableIs DEF Good, Shape, Sound, dictSize
  <2> QED BY <1>25, <2>1, <2>2, <2>3
<1>26. CASE Release
  <2> DEFINE c == ClearBoth(d)
             f == Ends(c, "released")
  <2>1. Good(c)
    BY <1>1, ClearBothGood
  <2>2. d' = IF Running(c) THEN f ELSE c
    BY <1>26 DEF Release
  <2> HIDE DEF c
  <2>3. ASSUME Running(c) PROVE Good(f)
    <3>1. Shape(c) /\ Sound(c)
      BY <2>1, <2>3 DEF Good, Running, Faults
    <3>2. /\ f.ht = c.ht /\ f.rehashidx = c.rehashidx /\ f.iterator = c.iterator
          /\ f.heap = c.heap /\ f.process = "released" /\ DOMAIN f = DOMAIN c
      BY <3>1 DEF Shape, Ends
    <3> HIDE DEF f
    <3> QED BY <3>1, <3>2 DEF Good, Shape, Sound, dictSize
  <2> QED BY <1>26, <2>1, <2>2, <2>3
<1>27. CASE GetStats
  <2>1. \A h : StatsWalk(h) \in Faults \cup {"running"}
    BY DEF StatsWalk, Faults
  <2>2. PICK room \in BOOLEAN :
           d' = Ends(d, IF /\ StatsWalk(d.ht[0]) = "running"
                           /\ dictIsRehashing(d) /\ room
                        THEN StatsWalk(d.ht[1]) ELSE StatsWalk(d.ht[0]))
    BY <1>27 DEF GetStats
  <2>3. PICK how \in Faults \cup {"running"} : d' = Ends(d, how)
    BY <2>1, <2>2
  <2>4. Keeps(d, d')
    BY <1>1, <2>3, EndsOrNotKeeps
  <2> QED BY <1>2, <2>4
<1>28. CASE SampleRehash
  <2>1. d' = _dictRehashStep(d)
    BY <1>28 DEF SampleRehash
  <2>2. Keeps(d, d')
    BY <1>5, <2>1
  <2> QED BY <1>2, <2>2
<1>29. CASE SampleTurn
  <2>1. sample # NULL /\ ~TurnsAgain(sample)
    BY <1>29, NoTurn DEF SampleTurn
  <2>2. d' \in IF sample.fair /\ sample.stored = 0 THEN RandomKeyResults ELSE {d}
    BY <1>29, <2>1 DEF SampleTurn
  <2>3. Keeps(d, d')
    BY <1>1, <1>3, <2>2, RandomKeyKeeps
  <2> QED BY <1>2, <2>3
<1>30. ASSUME NEW count, NEW fair, SomeKeys(count, fair) PROVE Keeps(d, d')
  BY <1>3, <1>30 DEF SomeKeys
<1> QED BY <1>2, <1>9, <1>10, <1>11, <1>12, <1>13, <1>14, <1>15, <1>16, <1>17, <1>18,
           <1>19, <1>20, <1>21, <1>22, <1>23, <1>24, <1>25, <1>26, <1>27, <1>28,
           <1>29, <1>30 DEF Next

LEMMA InitGood == Init => IInv
<1> SUFFICES ASSUME Init PROVE IInv
  OBVIOUS
<1>1. /\ d = NewDict /\ rounds = -1 /\ sample = NULL
      /\ NewDict.ht[0] = NoTable /\ NewDict.ht[1] = NoTable
      /\ DOMAIN NewDict = {"ht", "rehashidx", "iterator", "heap", "process"}
      /\ DOMAIN NewDict.ht = {0, 1} /\ NewDict.rehashidx = -1
      /\ NewDict.iterator = 0 /\ NewDict.heap = {}
  BY DEF Init, NewDict
<1>2. Shape(NewDict)
  BY <1>1, NoTableIs DEF Shape
<1>3. Sound(NewDict)
  BY <1>1, NoTableIs DEF Sound, dictSize
<1> QED BY <1>1, <1>2, <1>3 DEF IInv, Good, NothingStored

\* The loop of dictRehash is entered only in a rehash, and left after one
\* round.
LEMMA NextInLoop ==
    ASSUME IInv, Next, Running(d'), rounds' # -1
    PROVE  dictIsRehashing(d')
<1>1. rounds = -1 \/ RehashRound \/ RehashEnd \/ SampleRehash \/ SampleTurn
  BY NextInCall DEF MayCall
<1>2. CASE rounds = -1
  <2>1. CASE Rehash
    BY <2>1 DEF Rehash
  <2>2. ~RehashRound /\ ~RehashEnd
    BY <1>2 DEF RehashRound, RehashEnd
  <2>3. ~Rehash => rounds' = rounds
    BY <2>2 DEF Next, Operation, Expand, Resize, GetRandomKey, Scan, Empty, Release,
         SetResize, Add, Replace, Find, Delete, FindEntryRef, GetIterator, Advance,
         ReleaseIterator, GetStats, SomeKeys, SampleRehash, SampleTurn
  <2> QED BY <1>2, <2>1, <2>3
<1>3. CASE RehashRound
  <2>1. Good(d) /\ Running(d) /\ d.ht[0].used # 0
    BY <1>3 DEF RehashRound, IInv
  <2>2. dictIsRehashing(d)
    BY <2>1 DEF Good, Running, Faults, Sound, dictIsRehashing
  <2>3. ~Round(d).go
    BY <2>1, <2>2, RoundGood
  <2> QED BY <1>3, <2>3 DEF RehashRound
<1>4. CASE RehashEnd
  BY <1>4 DEF RehashEnd
<1>5. CASE SampleRehash \/ SampleTurn
  <2>1. Running(d) /\ rounds' = rounds /\ ~Empty /\ ~Release
    BY <1>5 DEF SampleRehash, SampleTurn, Empty, Release, Operation, MayCall
  <2>2. dictIsRehashing(d) /\ Keeps(d, d')
    BY <2>1, NextKeeps DEF IInv
  <2> QED BY <2>2 DEF Keeps
<1> QED BY <1>1, <1>2, <1>3, <1>4, <1>5

LEMMA NextStoresNothing ==
    ASSUME IInv, Next
    PROVE  NothingStored'
<1>1. CASE UNCHANGED sample
  BY <1>1 DEF IInv, NothingStored
<1>2. ASSUME NEW count \in Nat, NEW fair, SomeKeys(count, fair) PROVE NothingStored'
  <2> DEFINE wanted == Min({count, dictSize(d)})
  <2>1. wanted \in Nat
    BY MinOfTwo DEF IInv, Good, Shape, dictSize
  <2> HIDE DEF wanted
  <2>2. sample' = [fair |-> fair, count |-> wanted, left |-> wanted,
                   maxsteps |-> 10 * wanted, i |-> NULL, emptylen |-> 0,
                   stored |-> 0, process |-> "running"]
    BY <1>2 DEF SomeKeys, wanted
  <2>3. /\ DOMAIN sample' = {"fair", "count", "left", "maxsteps", "i", "emptylen",
                             "stored", "process"}
        /\ sample'.stored = 0 /\ sample'.maxsteps = 10 * wanted
    BY <2>2
  <2> QED BY <2>1, <2>3 DEF NothingStored
<1>3. CASE SampleRehash
  <2>1. sample # NULL /\ sample' = [sample EXCEPT !.left = @ - 1]
    BY <1>3 DEF SampleRehash
  <2>2. /\ DOMAIN sample' = DOMAIN sample
        /\ sample'.stored = sample.stored /\ sample'.maxsteps = sample.maxsteps
    BY <2>1 DEF IInv, NothingStored
  <2> QED BY <2>1, <2>2 DEF IInv, NothingStored
<1>4. CASE SampleTurn
  <2>1. sample' = NULL
    BY <1>4, NoTurn DEF SampleTurn, IInv
  <2> QED BY <2>1 DEF NothingStored
<1>5. \A count \in Counts : count \in Nat
  BY MachineConstants
<1>6. GETFAIR_NUM_ENTRIES \in Nat
  BY DEF GETFAIR_NUM_ENTRIES
<1>7. \/ UNCHANGED sample \/ SampleRehash \/ SampleTurn
      \/ \E count \in Counts \cup {GETFAIR_NUM_ENTRIES}, fair \in BOOLEAN :
            SomeKeys(count, fair)
  BY DEF Next, Operation, Expand, Resize, Rehash, RehashRound, RehashEnd, GetRandomKey,
         Scan, Empty, Release, SetResize, Add, Replace, Find, Delete, FindEntryRef,
         GetIterator, Advance, ReleaseIterator, GetStats
<1> QED BY <1>1, <1>2, <1>3, <1>4, <1>5, <1>6, <1>7

\* The invariant holds in every execution.
LEMMA InductiveInvariant == Spec => []IInv
<1>1. ASSUME IInv, [Next]_vars PROVE IInv'
  <2>1. CASE Next
    <3>1. Good(d')
      BY <1>1, <2>1, NextKeeps
    <3>2. Running(d') /\ rounds' # -1 => dictIsRehashing(d')
      BY <1>1, <2>1, NextInLoop
    <3> QED BY <1>1, <2>1, <3>1, <3>2, NextStoresNothing DEF IInv
  <2>2. CASE UNCHANGED vars
    BY <1>1, <2>2 DEF vars, IInv, NothingStored
  <2> QED BY <1>1, <2>1, <2>2
<1> QED BY <1>1, InitGood, PTL DEF Spec

\* No sequence of calls leaks a table, frees one twice, or leaves one in
\* both places (dict.c:79-150, 304-332).
THEOREM TablesAreOwned == Spec => []TablesOwned
<1>1. IInv => TablesOwned
  BY DEF IInv, Good, Sound, TablesOwned, Running, Faults
<1> QED BY <1>1, InductiveInvariant, PTL

\* Entries exist only in the middle of a rehash, under an iterator, and in
\* one table at a time (dict.c:192-214).
THEOREM EntriesArePinned == Spec => []EntriesPinned
<1>1. IInv => EntriesPinned
  <2> SUFFICES ASSUME IInv, Running(d), dictSize(d) > 0
               PROVE  /\ dictIsRehashing(d) /\ d.iterator > 0
                      /\ d.ht[0].used = 0 \/ d.ht[1].used = 0
                      /\ d.ht[0].used > 0 => d.ht[1].table = NULL
    BY DEF EntriesPinned
  <2>1. Shape(d) /\ Sound(d)
    BY DEF IInv, Good, Running, Faults
  <2> QED BY <2>1, NoTableIs DEF Shape, Sound, dictSize, dictIsRehashing
<1> QED BY <1>1, InductiveInvariant, PTL

\* A dict whose rehash has ended, and that has not been emptied since.
Spent(e) == dictIsRehashing(e) /\ e.ht[1].table = NULL

\* What a call does to such a dict if the process survives it.
StaysSpent(e, f) == Running(f) => f.ht[1].table = NULL /\ dictSize(f) = dictSize(e)

LEMMA SameStaysSpent ==
    ASSUME NEW e, NEW f, f.ht = e.ht, Spent(e)
    PROVE  StaysSpent(e, f)
BY DEF Spent, StaysSpent, dictSize

\* A step of the rehash finishes it again (dict.c:143-149).
LEMMA StepStaysSpent ==
    ASSUME NEW e, Good(e), Running(e), Spent(e)
    PROVE  LET s == _dictRehashStep(e)
           IN  Good(s) /\ Running(s) /\ Spent(s) /\ dictSize(s) = dictSize(e)
<1>1. Shape(e) /\ Sound(e) /\ dictIsRehashing(e) /\ e.ht[1] = NoTable
  BY DEF Good, Running, Faults, Spent, Sound
<1>2. CASE e.iterator # 0
  BY <1>2 DEF _dictRehashStep
<1>3. CASE e.iterator = 0
  <2>1. e.ht[0].used = 0
    BY <1>1, <1>3 DEF Shape, Sound, dictSize
  <2>2. _dictRehashStep(e) = FinishRehash(e)
    BY <1>1, <1>3, <2>1 DEF _dictRehashStep, dictRehash1
  <2> QED BY <1>1, <2>1, <2>2, FinishGood, NoTableIs DEF Spent
<1> QED BY <1>2, <1>3

\* An addition finds the key, or ends the process at the table that is not
\* there (dict.c:192-214).
LEMMA AddStaysSpent ==
    ASSUME NEW e, Good(e), Running(e), Spent(e), NEW key \in Keys, NEW can, NEW a
    PROVE  StaysSpent(e, dictAddRaw(e, key, can, a))
<1> DEFINE d1 == _dictRehashStep(e)
           probe == ProbeBoth(d1, key)
<1>1. Good(d1) /\ Running(d1) /\ Spent(d1) /\ dictSize(d1) = dictSize(e)
  BY StepStaysSpent
<1>2. _dictExpandIfNeeded(d1, can, a) = d1
  BY <1>1 DEF _dictExpandIfNeeded, NeedsExpand, Spent
<1> HIDE DEF d1
<1>3. \/ dictAddRaw(e, key, can, a) = d1
      \/ dictAddRaw(e, key, can, a) = Ends(d1, probe) /\ probe # "absent" /\ probe # "found"
      \/ dictAddRaw(e, key, can, a) = Insert(d1, key)
  BY <1>1, <1>2 DEF dictAddRaw, d1
<1>4. \A how : how # "running" => ~Running(Ends(d1, how))
  BY <1>1, EndsIs DEF Running
<1>5. probe # "running"
  BY DEF ProbeBoth, Probe, Access
<1>6. ~Running(Insert(d1, key))
  <2>1. \A i : Access(d1.ht[1], i) = "crashed"
    BY <1>1 DEF Spent, Access
  <2>2. Insert(d1, key) = Ends(d1, "crashed")
    BY <1>1, <2>1 DEF Insert, Spent
  <2> QED BY <1>4, <2>2
<1> QED BY <1>1, <1>3, <1>4, <1>5, <1>6 DEF StaysSpent, Spent

LEMMA NextStaysSpent ==
    ASSUME IInv, Next, Spent(d), ~Empty, Running(d')
    PROVE  StaysSpent(d, d')
<1>1. Good(d) /\ Running(d) /\ Shape(d) /\ Sound(d) /\ dictIsRehashing(d)
  BY NextInCall DEF IInv, Good, Running, Faults, Spent
<1>2. d'.ht = d.ht => StaysSpent(d, d')
  BY SameStaysSpent
<1>3. \A how : Ends(d, how).ht = d.ht
  BY <1>1 DEF Ends, Shape
<1>4. /\ StaysSpent(d, _dictRehashStep(d))
      /\ Good(_dictRehashStep(d)) /\ Running(_dictRehashStep(d))
  BY <1>1, StepStaysSpent DEF StaysSpent, Spent
<1>5. \A how : StaysSpent(d, Ends(_dictRehashStep(d), how))
  <2>1. \A how : Ends(_dictRehashStep(d), how).ht = _dictRehashStep(d).ht
    BY <1>4 DEF Ends, Good, Shape
  <2> QED BY <1>4, <2>1 DEF StaysSpent, dictSize
<1>6. ASSUME NEW e \in RandomKeyResults PROVE StaysSpent(d, e)
  <2>1. e = d \/ e = _dictRehashStep(d) \/ \E how : e = Ends(_dictRehashStep(d), how)
    BY DEF RandomKeyResults
  <2> QED BY <1>4, <1>5, <2>1, SameStaysSpent
<1>7. ASSUME NEW size \in Sizes, Expand(size) PROVE StaysSpent(d, d')
  BY <1>1, <1>2, <1>7 DEF Expand, dictExpand
<1>8. CASE Resize
  BY <1>1, <1>2, <1>8 DEF Resize, dictResize
<1>9. CASE RehashRound
  BY <1>1, <1>2, <1>9, RoundGood DEF RehashRound
<1>10. CASE RehashEnd
  <2>1. CASE d.ht[0].used = 0
    <3>1. d' = FinishRehash(d)
      BY <1>10, <2>1 DEF RehashEnd, AfterRounds
    <3> QED BY <1>1, <2>1, <3>1, FinishGood, NoTableIs DEF StaysSpent
  <2>2. CASE d.ht[0].used # 0
    BY <1>2, <1>10, <2>2 DEF RehashEnd, AfterRounds
  <2> QED BY <2>1, <2>2
<1>11. CASE GetRandomKey
  BY <1>6, <1>11 DEF GetRandomKey
<1>12. CASE Scan
  BY <1>2, <1>3, <1>12 DEF Scan
<1>13. CASE Release
  <2>1. (d' = ClearBoth(d) /\ ~Running(d')) \/ d' = Ends(ClearBoth(d), "released")
    BY <1>13 DEF Release
  <2>2. Good(ClearBoth(d))
    BY <1>1, ClearBothGood
  <2> QED BY <2>1, <2>2, EndsIs DEF Running
<1>14. ASSUME NEW key \in Keys, Add(key) PROVE StaysSpent(d, d')
  BY <1>1, <1>14, AddStaysSpent DEF Add
<1>15. ASSUME NEW key \in Keys, Replace(key) PROVE StaysSpent(d, d')
  <2>1. PICK a \in Fresh : d' = dictReplace(d, key, dict_can_resize, a)
    BY <1>15 DEF Replace
  <2> DEFINE f == dictAddRaw(d, key, dict_can_resize, a)
  <2>2. StaysSpent(d, f) /\ Good(f)
    BY <1>1, AddStaysSpent, AddKeeps DEF Fresh, Keeps
  <2>3. d' \in {f, Ends(f, "undefined")}
    BY <2>1 DEF dictReplace
  <2> HIDE DEF f
  <2>4. ~Running(Ends(f, "undefined"))
    BY <2>2, EndsIs DEF Running
  <2> QED BY <2>2, <2>3, <2>4
<1>16. ASSUME NEW key \in Keys, Find(key) PROVE StaysSpent(d, d')
  <2>1. d' = _dictRehashStep(d) \/ \E how : d' = Ends(_dictRehashStep(d), how)
    BY <1>16 DEF Find, dictFind
  <2> QED BY <1>4, <1>5, <2>1
<1>17. ASSUME NEW key \in Keys, Delete(key) PROVE StaysSpent(d, d')
  BY <1>1, <1>2, <1>17, DeletesNothing DEF Delete
<1>18. ASSUME NEW key \in Keys, FindEntryRef(key) PROVE StaysSpent(d, d')
  BY <1>2, <1>3, <1>18 DEF FindEntryRef
<1>19. ASSUME NEW x \in Iterators, Advance(x) PROVE StaysSpent(d, d')
  <2>1. (\E how : d' = Ends(d, how)) \/ \E how, n : d' = [d EXCEPT !.process = how, !.iterator = n]
    BY <1>19 DEF Advance
  <2> QED BY <1>1, <1>2, <1>3, <2>1 DEF Shape
<1>20. ASSUME NEW x \in Iterators, ReleaseIterator(x) PROVE StaysSpent(d, d')
  <2>1. CountReleased(d).ht = d.ht
    BY <1>1 DEF CountReleased, Shape
  <2> QED BY <1>2, <1>3, <1>20, <2>1 DEF ReleaseIterator
<1>21. CASE GetStats
  BY <1>2, <1>3, <1>21 DEF GetStats
<1>22. CASE SampleRehash
  BY <1>4, <1>22 DEF SampleRehash
<1>23. CASE SampleTurn
  <2>1. sample # NULL /\ ~TurnsAgain(sample)
    BY <1>23, NoTurn DEF SampleTurn, IInv
  <2>2. d' \in IF sample.fair /\ sample.stored = 0 THEN RandomKeyResults ELSE {d}
    BY <1>23, <2>1 DEF SampleTurn
  <2> QED BY <1>2, <1>6, <2>2
<1>24. UNCHANGED d => StaysSpent(d, d')
  BY <1>2
<1>25. /\ Rehash \/ SetResize => UNCHANGED d
       /\ \A count, fair : SomeKeys(count, fair) => UNCHANGED d
       /\ \A x, safe : GetIterator(x, safe) => UNCHANGED d
  BY DEF Rehash, SetResize, SomeKeys, GetIterator
<1> QED BY <1>7, <1>8, <1>9, <1>10, <1>11, <1>12, <1>13, <1>14, <1>15, <1>16, <1>17,
           <1>18, <1>19, <1>20, <1>21, <1>22, <1>23, <1>24, <1>25 DEF Next

\* A dict whose rehash has ended takes no more keys and gets no second table
\* until it is emptied (dict.c:84, 147, 205).
THEOREM RehashedDictsAreSpent == Spec => SpentAfterRehash
<1>1. ASSUME IInv, [Next]_vars, dictIsRehashing(d), d.ht[1].table = NULL, Running(d'), ~Empty
      PROVE  /\ dictIsRehashing(d') /\ d'.ht[1].table = NULL
             /\ dictSize(d') = dictSize(d)
  <2>1. CASE Next
    <3>1. StaysSpent(d, d')
      BY <1>1, <2>1, NextStaysSpent DEF Spent
    <3>2. ~Release
      <4>1. Good(d) /\ Running(d)
        BY <1>1, <2>1, NextInCall DEF IInv
      <4>2. Good(ClearBoth(d))
        BY <4>1, ClearBothGood
      <4> QED BY <1>1, <4>2, EndsIs DEF Release, Running
    <3>3. dictIsRehashing(d')
      BY <1>1, <2>1, <3>2, NextKeeps DEF Keeps
    <3> QED BY <1>1, <3>1, <3>3 DEF StaysSpent
  <2>2. CASE UNCHANGED vars
    BY <1>1, <2>2 DEF vars
  <2> QED BY <1>1, <2>1, <2>2
<1>2. IInv /\ [Next]_vars
         => [dictIsRehashing(d) /\ d.ht[1].table = NULL /\ Running(d')
               => \/ Empty
                  \/ /\ dictIsRehashing(d') /\ d'.ht[1].table = NULL
                     /\ dictSize(d') = dictSize(d)]_vars
  BY <1>1
<1> QED BY <1>2, InductiveInvariant, PTL DEF SpentAfterRehash, Spec

\* No call but dictEmpty and dictRelease takes an entry out of a dict:
\* dictDelete and dictUnlink never do (dict.c:244).
THEOREM EntriesAreKept == Spec => KeepsEntries
<1>1. ASSUME IInv, [Next]_vars, dictSize(d)' < dictSize(d)
      PROVE  Empty \/ Release
  <2>1. dictSize(d') = dictSize(d)'
    BY DEF dictSize
  <2>2. CASE Next
    BY <1>1, <2>1, <2>2, NextKeeps DEF Keeps
  <2>3. CASE UNCHANGED vars
    BY <1>1, <2>3 DEF vars, dictSize, IInv, Good, Shape
  <2> QED BY <1>1, <2>2, <2>3
<1>2. IInv /\ [Next]_vars => [dictSize(d)' < dictSize(d) => Empty \/ Release]_vars
  BY <1>1
<1> QED BY <1>2, InductiveInvariant, PTL DEF KeepsEntries, Spec

\* A lookup or a deletion in a dict with entries moves none of them
\* (dict.c:175-179).
THEOREM LookupsMoveNone == Spec => LookupsMoveNothing
<1>1. ASSUME IInv, NEW key \in Keys, Find(key) \/ Delete(key), dictSize(d) > 0
      PROVE  d'.ht = d.ht
  <2>1. Good(d) /\ Running(d) /\ dictSize(d) # 0
    BY <1>1 DEF IInv, Find, Delete, Operation, MayCall, Good, Shape, dictSize
  <2>2. CASE Find(key)
    BY <2>1, <2>2, FindKeeps DEF Find
  <2>3. CASE Delete(key)
    BY <2>1, <2>3, DeletesNothing DEF Delete
  <2> QED BY <1>1, <2>2, <2>3
<1>2. ASSUME IInv
      PROVE  \A key \in Keys : (Find(key) \/ Delete(key)) /\ dictSize(d) > 0
                                  => d'.ht = d.ht
  BY <1>1, <1>2
<1> QED BY <1>2, InductiveInvariant, PTL DEF LookupsMoveNothing

\* dictGetSomeKeys returns no key of any dict, and dictGetFairRandomKey is
\* dictGetRandomKey (dict.c:540, 584).
THEOREM NothingIsSampled == Spec => SamplesNothing
<1>1. IInv /\ [Next]_vars
         => [sample # NULL /\ sample' = NULL => sample.stored = 0]_vars
  BY DEF IInv, NothingStored
<1> QED BY <1>1, InductiveInvariant, PTL DEF SamplesNothing, Spec
-----------------------------------------------------------------------------
(* What the tables of a running dict look like.                            *)

\* A table of the initial size: the memory has three buckets where one was
\* asked for, and the chain of bucket 0, only that, ends in garbage.
Initial(h) ==
    /\ h.size = DICT_HT_INITIAL_SIZE
    /\ h.bucket \in [0 .. 11 -> Seq(Keys \cup {Garbage})]
    /\ h.bucket[0] # <<>>
    /\ \A i \in 0 .. 11 : \A n \in 1 .. Len(h.bucket[i]) :
          h.bucket[i][n] = Garbage <=> i = 0 /\ n = Len(h.bucket[i])
    /\ \A i \in 4 .. 11 : h.bucket[i] = <<>>

\* A table of LONG_MAX + 1 buckets, with the memory of MinUsable bytes.
Huge(h) ==
    /\ h.size = LONG_MAX + 1
    /\ h.bucket \in [0 .. (MinUsable \div sizeof_pointer - 1) -> Seq(Keys)]
    /\ h.bucket[0] = <<>>

\* used counts the entries.
Exact(h) == IsFiniteSet(Entries(h)) /\ h.used = Cardinality(Entries(h))

\* There is one of these in each place, and the counters are right.
TableFits(h) ==
    /\ h = NoTable \/ Initial(h) \/ Huge(h)
    /\ Exact(h)

\* The invariant of the tables and the cursor: a rehash goes from one kind of
\* table to the other; the cursor is at the start until there are entries in
\* table 0, and then never passes one of them.
Fit(e) ==
    /\ \A t \in {0, 1} : TableFits(e.ht[t])
    /\ e.ht[1] # NoTable => e.ht[0] # NoTable /\ e.ht[0].size # e.ht[1].size
    /\ e.rehashidx # -1 /\ e.ht[0].used = 0 => e.rehashidx = 0
    /\ e.ht[0].used # 0 =>
          /\ e.rehashidx < e.ht[0].size
          /\ \A i \in DOMAIN e.ht[0].bucket : i < e.rehashidx => e.ht[0].bucket[i] = <<>>

\* c is what is left of a chain of h from some entry on, h being a table of
\* the initial size.  Only such chains are held by iterators.
HoldsIn(h, c) ==
    Initial(h) /\ \E i \in 0 .. 11 : \E n \in 1 .. Len(h.bucket[i]) :
        h.bucket[i][n] # Garbage /\ c = SubSeq(h.bucket[i], n, Len(h.bucket[i]))

Holds(e, c) == HoldsIn(e.ht[0], c) \/ HoldsIn(e.ht[1], c)

\* What every operation does while the process goes on.
Preserves(e, f) ==
    Running(f) => Fit(f) /\ \A c : Holds(e, c) => Holds(f, c)

LEMMA EntryIs ==
    ASSUME NEW h, NEW p
    PROVE  p \in Entries(h) <=>
             \E i \in DOMAIN h.bucket : \E n \in 1 .. Len(h.bucket[i]) :
                p = <<i, n>> /\ h.bucket[i][Len(h.bucket[i]) + 1 - n] # Garbage
BY DEF Entries

\* A constant of the machine: what the memory of a table is divided into.
LEMMA Places ==
    /\ (MinUsable \div sizeof_pointer) - 1 \in 0 .. 3
    /\ LONG_MAX \in Nat /\ LONG_MAX > 96 /\ MinUsable \in 8 .. 32
BY DictConstants DEF sizeof_pointer, sizeof_dictEntry, DICT_HT_INITIAL_SIZE

\* A table that was just made: of one kind or the other, and without entries
\* (dict.c:91-94).
LEMMA NewFits ==
    ASSUME NEW a
    PROVE  /\ Initial(NewTable(a, DICT_HT_INITIAL_SIZE))
           /\ Huge(NewTable(a, LONG_MAX + 1))
           /\ \A size \in {DICT_HT_INITIAL_SIZE, LONG_MAX + 1} :
                 TableFits(NewTable(a, size))
<1> DEFINE W == ULONG_MAX + 1
<1>1. LONG_MAX \in Nat /\ LONG_MAX > 96 /\ MinUsable \in 8 .. 32
  BY Places
<1>2. W \in Nat \ {0} /\ W = 2 * LONG_MAX + 2
  BY <1>1 DEF ULONG_MAX
<1>3. (DICT_HT_INITIAL_SIZE * sizeof_dictEntry) % W = 96
  <2>1. 96 \in 0 .. (W - 1) /\ W * 0 + 96 = 96
    BY <1>1, <1>2
  <2>2. (W * 0 + 96) % W = 96
    BY <1>2, <2>1, DivisionUnique
  <2> QED BY <2>1, <2>2 DEF DICT_HT_INITIAL_SIZE, sizeof_dictEntry
<1>4. ((LONG_MAX + 1) * sizeof_dictEntry) % W = 0
  <2>1. 0 \in 0 .. (W - 1) /\ W * 12 + 0 = (LONG_MAX + 1) * sizeof_dictEntry
    BY <1>1, <1>2 DEF sizeof_dictEntry
  <2>2. (W * 12 + 0) % W = 0
    BY <1>2, <2>1, DivisionUnique
  <2> QED BY <2>1, <2>2
<1> DEFINE i0 == NewTable(a, DICT_HT_INITIAL_SIZE)
           h0 == NewTable(a, LONG_MAX + 1)
<1>5. /\ i0.bucket = [i \in 0 .. 11 |-> IF i = 0 THEN <<Garbage>> ELSE <<>>]
      /\ i0.size = DICT_HT_INITIAL_SIZE /\ i0.used = 0
  <2>1. 96 > MinUsable /\ 96 \div sizeof_pointer - 1 = 11
    BY <1>1 DEF sizeof_pointer
  <2> QED BY <1>3, <2>1 DEF NewTable
<1>6. /\ h0.bucket = [i \in 0 .. (MinUsable \div sizeof_pointer - 1) |-> <<>>]
      /\ h0.size = LONG_MAX + 1 /\ h0.used = 0
  <2>1. ~(0 > MinUsable)
    BY <1>1
  <2> QED BY <1>4, <2>1 DEF NewTable
<1> HIDE DEF i0, h0
<1>7. /\ <<>> \in Seq(Keys) /\ <<>> \in Seq(Keys \cup {Garbage})
      /\ <<Garbage>> \in Seq(Keys \cup {Garbage})
      /\ Len(<<>>) = 0 /\ Len(<<Garbage>>) = 1 /\ <<Garbage>>[1] = Garbage
      /\ <<Garbage>> # <<>>
  OBVIOUS
<1>8. Initial(i0)
  <2>1. i0.bucket \in [0 .. 11 -> Seq(Keys \cup {Garbage})]
    BY <1>5, <1>7
  <2>2. \A i \in 0 .. 11 : i0.bucket[i] = IF i = 0 THEN <<Garbage>> ELSE <<>>
    BY <1>5
  <2>3. ASSUME NEW i \in 0 .. 11, NEW n \in 1 .. Len(i0.bucket[i])
        PROVE  i0.bucket[i][n] = Garbage <=> i = 0 /\ n = Len(i0.bucket[i])
    <3>1. CASE i = 0
      <4>1. i0.bucket[i] = <<Garbage>>
        BY <2>2, <3>1
      <4> QED BY <1>7, <2>3, <3>1, <4>1
    <3>2. CASE i # 0
      <4>1. i0.bucket[i] = <<>>
        BY <2>2, <3>2
      <4> QED BY <1>7, <2>3, <4>1
    <3> QED BY <3>1, <3>2
  <2> QED BY <1>5, <1>7, <2>1, <2>2, <2>3 DEF Initial
<1>9. Huge(h0)
  BY <1>6, <1>7, Places DEF Huge
<1>10. Entries(i0) = {}
  <2> SUFFICES ASSUME NEW p \in Entries(i0) PROVE FALSE
    OBVIOUS
  <2>0. DOMAIN i0.bucket = 0 .. 11
    BY <1>5
  <2>1. PICK i \in DOMAIN i0.bucket : \E n \in 1 .. Len(i0.bucket[i]) :
           i0.bucket[i][Len(i0.bucket[i]) + 1 - n] # Garbage
    BY EntryIs
  <2>3. PICK n \in 1 .. Len(i0.bucket[i]) : i0.bucket[i][Len(i0.bucket[i]) + 1 - n] # Garbage
    BY <2>1
  <2>2. i0.bucket[i] = IF i = 0 THEN <<Garbage>> ELSE <<>>
    BY <1>5, <2>0
  <2> QED BY <1>7, <2>3, <2>2
<1>11. Entries(h0) = {}
  <2> SUFFICES ASSUME NEW p \in Entries(h0) PROVE FALSE
    OBVIOUS
  <2>1. PICK i \in DOMAIN h0.bucket : \E n \in 1 .. Len(h0.bucket[i]) : TRUE
    BY EntryIs
  <2>2. h0.bucket[i] = <<>>
    BY <1>6
  <2> QED BY <1>7, <2>1, <2>2
<1>12. Exact(i0) /\ Exact(h0)
  BY <1>5, <1>6, <1>10, <1>11, FS_EmptySet DEF Exact
<1> QED BY <1>8, <1>9, <1>12 DEF TableFits, i0, h0

LEMMA NoTableFits == TableFits(NoTable) /\ Entries(NoTable) = {}
<1>1. DOMAIN NoTable.bucket = {} /\ NoTable.used = 0
  BY DEF NoTable
<1>2. Entries(NoTable) = {}
  BY <1>1, EntryIs
<1> QED BY <1>1, <1>2, FS_EmptySet DEF TableFits, Exact

\* The kind of a table by its size.
LEMMA KindIs ==
    ASSUME NEW h, TableFits(h)
    PROVE  /\ h = NoTable => ~Initial(h) /\ ~Huge(h)
           /\ h # NoTable => Initial(h) \/ Huge(h)
           /\ ~Initial(h) \/ ~Huge(h)
           /\ h.size \in {0, DICT_HT_INITIAL_SIZE, LONG_MAX + 1}
           /\ h # NoTable => h.size \in Nat /\ h.size > 3 /\ DOMAIN h.bucket \subseteq 0 .. 11
           /\ DOMAIN h.bucket \subseteq Nat
<1>1. NoTable.size = 0 /\ DOMAIN NoTable.bucket = {}
  BY DEF NoTable
<1>2. Initial(h) => h.size = 4 /\ DOMAIN h.bucket = 0 .. 11
  BY DEF Initial, DICT_HT_INITIAL_SIZE
<1>3. Huge(h) => /\ h.size = LONG_MAX + 1
                 /\ DOMAIN h.bucket = 0 .. (MinUsable \div sizeof_pointer - 1)
  BY DEF Huge
<1>4. 0 .. (MinUsable \div sizeof_pointer - 1) \subseteq 0 .. 11
  BY Places
<1>5. h = NoTable \/ Initial(h) \/ Huge(h)
  BY DEF TableFits
<1> QED BY <1>1, <1>2, <1>3, <1>4, <1>5, Places DEF DICT_HT_INITIAL_SIZE

\* What a walk along the first chain of such a table comes to.
LEMMA GarbageAtZero ==
    ASSUME NEW h, Initial(h)
    PROVE  0 \in DOMAIN h.bucket /\ Garbage \in ToSet(h.bucket[0])
<1>1. PICK c \in Seq(Keys \cup {Garbage}) : c = h.bucket[0]
  BY DEF Initial
<1>2. \A n \in 1 .. Len(h.bucket[0]) :
         h.bucket[0][n] = Garbage <=> 0 = 0 /\ n = Len(h.bucket[0])
  BY DEF Initial
<1>3. c # <<>> /\ \A n \in 1 .. Len(c) : c[n] = Garbage <=> n = Len(c)
  BY <1>1, <1>2 DEF Initial
<1>4. Len(c) \in 1 .. Len(c)
  BY <1>3
<1>5. c[Len(c)] = Garbage /\ c[Len(c)] \in ToSet(c)
  BY <1>3, <1>4 DEF ToSet
<1> QED BY <1>1, <1>5 DEF Initial

\* The entries of a table are in buckets 0 to 3, which any table has.
LEMMA WhereEntriesAre ==
    ASSUME NEW h, TableFits(h)
    PROVE  /\ h.used \in Nat
           /\ \A i \in DOMAIN h.bucket : h.bucket[i] # <<>> => i \in 0 .. 3
           /\ h.used # 0 => \E i \in DOMAIN h.bucket : h.bucket[i] # <<>>
<1>1. h.used \in Nat /\ (h.used # 0 => Entries(h) # {})
  BY FS_CardinalityType, FS_EmptySet DEF TableFits, Exact
<1>2. ASSUME NEW i \in DOMAIN h.bucket, h.bucket[i] # <<>> PROVE i \in 0 .. 3
  <2>1. CASE h = NoTable
    BY <1>2, <2>1 DEF NoTable
  <2>2. CASE Initial(h)
    <3>1. i \in 0 .. 11 /\ i \notin 4 .. 11
      BY <1>2, <2>2 DEF Initial
    <3> QED BY <3>1
  <2>3. CASE Huge(h)
    <3>1. i \in 0 .. (MinUsable \div sizeof_pointer - 1)
      BY <1>2, <2>3 DEF Huge
    <3> QED BY <3>1, Places
  <2> QED BY <2>1, <2>2, <2>3 DEF TableFits
<1>3. ASSUME NEW p \in Entries(h) PROVE \E i \in DOMAIN h.bucket : h.bucket[i] # <<>>
  <2>1. PICK i \in DOMAIN h.bucket : \E n \in 1 .. Len(h.bucket[i]) : TRUE
    BY EntryIs
  <2>2. Len(<<>>) = 0
    OBVIOUS
  <2> QED BY <2>1, <2>2
<1> QED BY <1>1, <1>2, <1>3

\* Where an entry is held there is one counted.
LEMMA HeldIsCounted ==
    ASSUME NEW h, TableFits(h), NEW c, HoldsIn(h, c)
    PROVE  h.used # 0
<1>1. PICK i \in 0 .. 11 : \E n \in 1 .. Len(h.bucket[i]) : h.bucket[i][n] # Garbage
  BY DEF HoldsIn
<1>2. PICK n \in 1 .. Len(h.bucket[i]) : h.bucket[i][n] # Garbage
  BY <1>1
<1>3. PICK l \in Nat : l = Len(h.bucket[i])
  BY DEF HoldsIn, Initial
<1>4. l + 1 - n \in 1 .. l /\ l + 1 - (l + 1 - n) = n
  BY <1>2, <1>3
<1>5. i \in DOMAIN h.bucket
  BY DEF HoldsIn, Initial
<1>6. <<i, l + 1 - n>> \in Entries(h)
  BY <1>2, <1>3, <1>4, <1>5, EntryIs
<1> QED BY <1>6, FS_EmptySet DEF TableFits, Exact

LEMMA NothingHeld == \A c : ~HoldsIn(NoTable, c)
BY NoTableFits, KindIs DEF HoldsIn

\* Both speak of the tables and the cursor only.
LEMMA SamePreserves ==
    ASSUME NEW e, NEW f, Fit(e), f.ht = e.ht, f.rehashidx = e.rehashidx
    PROVE  Preserves(e, f) /\ Fit(f)
BY DEF Preserves, Fit, Holds

LEMMA EndPreserves ==
    ASSUME NEW e, NEW f, ~Running(f)
    PROVE  Preserves(e, f)
BY DEF Preserves

LEMMA PreservesTransitive ==
    ASSUME NEW e, NEW f, NEW g, Preserves(e, f), Running(f), Preserves(f, g)
    PROVE  Preserves(e, g)
BY DEF Preserves

LEMMA ExpandFits ==
    ASSUME NEW e, Good(e), Running(e), Fit(e), NEW size \in Nat,
           NEW a \in Addresses \ e.heap
    PROVE  Preserves(e, dictExpand(e, size, a))
<1> DEFINE real == IF size >= LONG_MAX THEN LONG_MAX + 1 ELSE DICT_HT_INITIAL_SIZE
           n == NewTable(a, real)
           e0 == [e EXCEPT !.ht[0] = n, !.heap = @ \cup {a}]
           e1 == [e EXCEPT !.ht[1] = n, !.heap = @ \cup {a}, !.rehashidx = 0]
<1>1. TableFits(n) /\ n.size = real /\ n.used = 0 /\ n # NoTable
  <2>1. real \in {DICT_HT_INITIAL_SIZE, LONG_MAX + 1} /\ real \in Nat
    BY Places DEF DICT_HT_INITIAL_SIZE
  <2> HIDE DEF real
  <2>2. n.table # NULL
    BY <2>1, NewTableIs
  <2> QED BY <2>1, <2>2, NewFits, NewTableIs, NoTableIs
<1>2. Shape(e) /\ Sound(e)
  BY DEF Good, Running, Faults
<1>3. CASE dictExpand(e, size, a) = e
  BY <1>3, SamePreserves
<1>4. CASE dictExpand(e, size, a) = Ends(e, "hung")
  <2>1. ~Running(Ends(e, "hung"))
    BY EndsGood DEF Faults
  <2> QED BY <1>4, <2>1, EndPreserves
<1>5. CASE dictExpand(e, size, a) = e0 /\ ~dictIsRehashing(e) /\ e.ht[0].table = NULL
  <2>1. e0.ht[0] = n /\ e0.ht[1] = e.ht[1] /\ e0.rehashidx = e.rehashidx
    BY <1>2 DEF Shape
  <2>2. e.ht[1] = NoTable /\ e.rehashidx = -1
    BY <1>2, <1>5 DEF Sound, dictIsRehashing
  <2> HIDE DEF e0, n
  <2>3. Fit(e0)
    BY <1>1, <2>1, <2>2, NoTableFits DEF Fit
  <2>4. \A c : ~Holds(e, c)
    BY <1>2, <1>5, <2>2, NothingHeld DEF Holds, Sound
  <2> QED BY <1>5, <2>3, <2>4 DEF Preserves
<1>6. CASE /\ dictExpand(e, size, a) = e1 /\ ~dictIsRehashing(e)
           /\ e.ht[0].table # NULL /\ real # e.ht[0].size
  <2>1. e1.ht[1] = n /\ e1.ht[0] = e.ht[0] /\ e1.rehashidx = 0
    BY <1>2 DEF Shape
  <2>2. e.ht[0].used = 0 /\ e.ht[0] # NoTable /\ TableFits(e.ht[0])
    BY <1>2, <1>6, NoTableIs DEF Sound, dictIsRehashing, Fit
  <2>3. e.ht[1] = NoTable
    BY <1>2, <1>6 DEF Sound, dictIsRehashing
  <2> HIDE DEF e1, n, real
  <2>4. Fit(e1)
    BY <1>1, <1>6, <2>1, <2>2 DEF Fit
  <2>5. ASSUME NEW c, Holds(e, c) PROVE Holds(e1, c)
    BY <2>1, <2>3, <2>5, NothingHeld DEF Holds
  <2> QED BY <1>6, <2>4, <2>5 DEF Preserves
<1> QED BY <1>3, <1>4, <1>5, <1>6 DEF dictExpand

LEMMA FinishFits ==
    ASSUME NEW e, Good(e), Running(e), Fit(e), dictIsRehashing(e), e.ht[0].used = 0
    PROVE  Preserves(e, FinishRehash(e))
<1> DEFINE f == FinishRehash(e)
<1>1. f.ht[0] = e.ht[1] /\ f.ht[1] = NoTable /\ f.rehashidx = 0
  BY DEF Good, Shape, FinishRehash
<1> HIDE DEF f
<1>2. e.ht[1].used # 0 => 0 < e.ht[1].size
  BY KindIs, NoTableIs DEF Fit
<1>3. \A i \in DOMAIN e.ht[1].bucket : ~(i < 0)
  BY KindIs DEF Fit
<1>4. Fit(f)
  BY <1>1, <1>2, <1>3, NoTableFits DEF Fit
<1>5. ASSUME NEW c, Holds(e, c) PROVE Holds(f, c)
  <2>1. ~HoldsIn(e.ht[0], c)
    BY HeldIsCounted DEF Fit
  <2> QED BY <1>1, <1>5, <2>1 DEF Holds
<1> QED BY <1>4, <1>5 DEF Preserves, f

\* The cursor goes on over an empty bucket only, so there is an entry behind.
LEMMA RoundFits ==
    ASSUME NEW e, Good(e), Running(e), Fit(e), e.ht[0].used # 0
    PROVE  Preserves(e, Round(e).d)
<1> SUFFICES ASSUME Running(Round(e).d) PROVE Preserves(e, Round(e).d)
  BY EndPreserves
<1>1. Shape(e) /\ Sound(e) /\ dictIsRehashing(e)
  BY DEF Good, Running, Faults, Sound, dictIsRehashing
<1>2. e.ht[1].table = NULL /\ Round(e).d.ht = e.ht
  BY <1>1, RoundGood, NoTableIs DEF Sound
<1>3. MoveChain(e) = Ends(e, "crashed")
  BY <1>2 DEF MoveChain
<1>4. \A how \in Faults : ~Running(Ends(e, how))
  BY EndsGood
<1>5. "crashed" \in Faults /\ "aborted" \in Faults /\ "undefined" \in Faults
  BY DEF Faults
<1>6. Access(e.ht[0], e.rehashidx) \in {"crashed", "undefined", "running"}
  BY DEF Access
<1>7. /\ Access(e.ht[0], e.rehashidx) = "running"
      /\ e.ht[0].bucket[e.rehashidx] = <<>>
      /\ Round(e).d = [e EXCEPT !.rehashidx = @ + 1]
  BY <1>3, <1>4, <1>5, <1>6 DEF Round
<1>8. Round(e).d.rehashidx = e.rehashidx + 1
  BY <1>1, <1>7 DEF Shape
<1>9. e.rehashidx \in Nat
  BY <1>1 DEF Shape, dictIsRehashing
<1>10. PICK h : h = e.ht[0]
  OBVIOUS
<1>11. /\ TableFits(h) /\ h # NoTable /\ h.size \in Nat
       /\ \A i \in DOMAIN h.bucket : i < e.rehashidx => h.bucket[i] = <<>>
  BY <1>10, NoTableIs, KindIs DEF Fit
<1>12. DOMAIN h.bucket \subseteq Nat /\ h.size > 3
  BY <1>11, KindIs
<1>13. PICK i \in DOMAIN h.bucket : h.bucket[i] # <<>> /\ i \in 0 .. 3
  BY <1>10, <1>11, WhereEntriesAre
<1>14. i >= e.rehashidx + 1
  BY <1>7, <1>9, <1>10, <1>11, <1>13
<1>15. e.rehashidx + 1 < h.size
  BY <1>9, <1>11, <1>12, <1>13, <1>14
<1>16. ASSUME NEW j \in DOMAIN h.bucket, j < e.rehashidx + 1 PROVE h.bucket[j] = <<>>
  BY <1>7, <1>9, <1>10, <1>11, <1>12, <1>16
<1>17. Fit(Round(e).d)
  BY <1>2, <1>8, <1>9, <1>10, <1>15, <1>16 DEF Fit
<1> QED BY <1>2, <1>17 DEF Preserves, Holds

\* What the step of a rehash does: nothing, or it ends the rehash.
LEMMA StepFits ==
    ASSUME NEW e, Good(e), Running(e), Fit(e)
    PROVE  /\ Preserves(e, _dictRehashStep(e)) /\ Fit(_dictRehashStep(e))
           /\ \/ _dictRehashStep(e) = e
              \/ /\ dictIsRehashing(e) /\ e.ht[0].used = 0
                 /\ _dictRehashStep(e) = FinishRehash(e)
<1>1. Shape(e) /\ Sound(e)
  BY DEF Good, Running, Faults
<1>2. CASE e.iterator = 0 /\ dictIsRehashing(e)
  <2>1. e.ht[0].used = 0
    BY <1>1, <1>2 DEF Sound, Shape, dictSize
  <2>2. _dictRehashStep(e) = FinishRehash(e)
    BY <1>2, <2>1 DEF _dictRehashStep, dictRehash1
  <2>3. Preserves(e, FinishRehash(e)) /\ Running(FinishRehash(e))
    BY <1>2, <2>1, FinishFits, FinishGood
  <2> QED BY <1>2, <2>1, <2>2, <2>3 DEF Preserves
<1>3. CASE ~(e.iterator = 0 /\ dictIsRehashing(e))
  <2>1. _dictRehashStep(e) = e
    BY <1>3 DEF _dictRehashStep, dictRehash1
  <2> QED BY <2>1, SamePreserves
<1> QED BY <1>2, <1>3

\* An entry put in front of a chain.
LEMMA InFront ==
    ASSUME NEW S, NEW k, NEW c \in Seq(S)
    PROVE  /\ <<k>> \o c \in Seq(S \cup {k}) /\ <<k>> \o c # <<>>
           /\ Len(c) \in Nat /\ Len(<<k>> \o c) = Len(c) + 1
           /\ (<<k>> \o c)[1] = k
           /\ \A n \in 1 .. Len(c) : (<<k>> \o c)[n + 1] = c[n]
           /\ \A n \in 2 .. Len(c) + 1 : (<<k>> \o c)[n] = c[n - 1]
<1>1. <<k>> \in Seq(S \cup {k}) /\ c \in Seq(S \cup {k}) /\ Len(<<k>>) = 1 /\ <<k>>[1] = k
  OBVIOUS
<1>2. /\ <<k>> \o c \in Seq(S \cup {k})
      /\ Len(<<k>> \o c) = Len(c) + 1
      /\ \A n \in 1 .. Len(c) + 1 :
            (<<k>> \o c)[n] = IF n <= 1 THEN <<k>>[n] ELSE c[n - 1]
  BY <1>1, ConcatProperties
<1>3. Len(c) \in Nat /\ Len(<<>>) = 0
  OBVIOUS
<1> QED BY <1>1, <1>2, <1>3

\* It adds one to the entries, and every table stays of its kind.
LEMMA PutFits ==
    ASSUME NEW h, TableFits(h), NEW key \in Keys, NEW i \in DOMAIN h.bucket,
           (Initial(h) /\ i \in 0 .. 3) \/ (Huge(h) /\ i # 0),
           NEW g, g.size = h.size, g.used = h.used + 1,
           g.bucket = [h.bucket EXCEPT ![i] = <<key>> \o @]
    PROVE  TableFits(g) /\ (Initial(h) => Initial(g))
<1> DEFINE c == h.bucket[i]
           c1 == <<key>> \o c
<1>1. key # Garbage
  BY DictConstants
<1>2. c \in Seq(Keys \cup {Garbage}) /\ (Huge(h) => c \in Seq(Keys))
  <2>1. Huge(h) => c \in Seq(Keys)
    BY DEF Huge
  <2>2. Initial(h) => c \in Seq(Keys \cup {Garbage})
    BY DEF Initial
  <2>3. Seq(Keys) \subseteq Seq(Keys \cup {Garbage})
    BY SeqMonotonic
  <2> QED BY <2>1, <2>2, <2>3
<1>3. /\ c1 \in Seq(Keys \cup {Garbage}) /\ (Huge(h) => c1 \in Seq(Keys))
      /\ Len(c) \in Nat /\ Len(c1) = Len(c) + 1 /\ c1[1] = key /\ c1 # <<>>
      /\ \A n \in 2 .. Len(c) + 1 : c1[n] = c[n - 1]
  <2>1. Keys \cup {key} = Keys /\ (Keys \cup {Garbage}) \cup {key} = Keys \cup {Garbage}
    OBVIOUS
  <2> QED BY <1>2, <2>1, InFront
<1>4. /\ DOMAIN g.bucket = DOMAIN h.bucket /\ g.bucket[i] = c1
      /\ \A j \in DOMAIN h.bucket : j # i => g.bucket[j] = h.bucket[j]
  BY DEF Initial, Huge
<1>5. PICK l \in Nat : l = Len(c)
  BY <1>3
<1> HIDE DEF c, c1
<1>6. ASSUME Initial(h) PROVE Initial(g)
  <2>1. /\ h.size = DICT_HT_INITIAL_SIZE
        /\ h.bucket \in [0 .. 11 -> Seq(Keys \cup {Garbage})]
        /\ h.bucket[0] # <<>> /\ i \in 0 .. 3
        /\ \A j \in 4 .. 11 : h.bucket[j] = <<>>
    BY <1>6, KindIs DEF Initial
  <2>5. DOMAIN h.bucket = 0 .. 11
    BY <2>1
  <2>2. g.bucket \in [0 .. 11 -> Seq(Keys \cup {Garbage})]
    BY <1>3, <2>1 DEF c, c1
  <2>3. g.bucket[0] # <<>> /\ \A j \in 4 .. 11 : g.bucket[j] = <<>>
    <3>1. \A j \in 0 .. 11 : g.bucket[j] = IF j = i THEN c1 ELSE h.bucket[j]
      BY <1>4, <2>5
    <3>3. i \in 0 .. 3
      BY <2>1
    <3>2. 0 \in 0 .. 11 /\ \A j \in 4 .. 11 : j \in 0 .. 11 /\ j # i
      BY ONLY <3>3
    <3> QED BY <1>3, <2>1, <3>1, <3>2
  <2>4. ASSUME NEW j \in 0 .. 11, NEW n \in 1 .. Len(g.bucket[j])
        PROVE  g.bucket[j][n] = Garbage <=> j = 0 /\ n = Len(g.bucket[j])
    <3>1. CASE j # i
      <4>1. g.bucket[j] = h.bucket[j]
        BY <1>4, <2>5, <3>1
      <4>2. n \in 1 .. Len(h.bucket[j])
        BY <4>1
      <4>3. \A m \in 1 .. Len(h.bucket[j]) :
               h.bucket[j][m] = Garbage <=> j = 0 /\ m = Len(h.bucket[j])
        BY <1>6 DEF Initial
      <4> QED BY <4>1, <4>2, <4>3
    <3>2. CASE j = i
      <4>1. n \in 1 .. l + 1 /\ g.bucket[j] = c1 /\ Len(c1) = l + 1
        BY <1>3, <1>4, <1>5, <2>4, <3>2
      <4>2. \A m \in 1 .. l : c[m] = Garbage <=> i = 0 /\ m = l
        BY <1>5, <1>6, <2>1 DEF Initial, c
      <4>3. i = 0 => l # 0
        BY <1>2, <1>5, <2>1 DEF c
      <4>4. CASE n = 1
        BY <1>1, <1>3, <3>2, <4>1, <4>3, <4>4
      <4>5. CASE n # 1
        <5>1. n - 1 \in 1 .. l /\ c1[n] = c[n - 1]
          BY <1>3, <1>5, <4>1, <4>5
        <5>2. n - 1 = l <=> n = l + 1
          BY <4>1
        <5> QED BY <3>2, <4>1, <4>2, <5>1, <5>2
      <4> QED BY <4>4, <4>5
    <3> QED BY <3>1, <3>2
  <2> QED BY <2>1, <2>2, <2>3, <2>4 DEF Initial
<1>7. ASSUME Huge(h) PROVE Huge(g)
  <2>1. i # 0
    BY <1>7, KindIs
  <2>2. g.bucket \in [0 .. (MinUsable \div sizeof_pointer - 1) -> Seq(Keys)]
    BY <1>3, <1>7 DEF Huge, c, c1
  <2>3. 0 \in DOMAIN h.bucket
    BY <1>7, Places DEF Huge
  <2> QED BY <1>4, <1>7, <2>1, <2>2, <2>3 DEF Huge
<1>8. Entries(g) = Entries(h) \cup {<<i, l + 1>>}
  <2>1. ASSUME NEW p, p \in Entries(g) PROVE p \in Entries(h) \cup {<<i, l + 1>>}
    <3>1. PICK j \in DOMAIN h.bucket : \E n \in 1 .. Len(g.bucket[j]) :
             p = <<j, n>> /\ g.bucket[j][Len(g.bucket[j]) + 1 - n] # Garbage
      <4>1. \E j \in DOMAIN g.bucket : \E n \in 1 .. Len(g.bucket[j]) :
               p = <<j, n>> /\ g.bucket[j][Len(g.bucket[j]) + 1 - n] # Garbage
        BY ONLY <2>1, EntryIs
      <4> QED BY <1>4, <4>1
    <3>2. PICK n \in 1 .. Len(g.bucket[j]) :
             p = <<j, n>> /\ g.bucket[j][Len(g.bucket[j]) + 1 - n] # Garbage
      BY <3>1
    <3>3. CASE j # i
      BY <1>4, <3>2, <3>3, EntryIs
    <3>4. CASE j = i /\ n # l + 1
      <4>1. n \in 1 .. l /\ c1[(l + 1) + 1 - n] # Garbage
        BY <1>3, <1>4, <1>5, <3>2, <3>4
      <4>2. /\ (l + 1) + 1 - n \in 2 .. l + 1 /\ ((l + 1) + 1 - n) - 1 = l + 1 - n
        BY <4>1
      <4>3. c[l + 1 - n] # Garbage
        BY <1>3, <1>5, <4>1, <4>2
      <4> QED BY <1>5, <3>2, <3>4, <4>1, <4>3, EntryIs DEF c
    <3> QED BY <3>2, <3>3, <3>4
  <2>2. ASSUME NEW p, p \in Entries(h) PROVE p \in Entries(g)
    <3>1. PICK j \in DOMAIN h.bucket : \E n \in 1 .. Len(h.bucket[j]) :
             p = <<j, n>> /\ h.bucket[j][Len(h.bucket[j]) + 1 - n] # Garbage
      BY <2>2, EntryIs
    <3>2. PICK n \in 1 .. Len(h.bucket[j]) :
             p = <<j, n>> /\ h.bucket[j][Len(h.bucket[j]) + 1 - n] # Garbage
      BY <3>1
    <3>3. CASE j # i
      BY <1>4, <3>2, <3>3, EntryIs
    <3>4. CASE j = i
      <4>1. n \in 1 .. l /\ c[l + 1 - n] # Garbage
        BY <1>5, <3>2, <3>4 DEF c
      <4>2. n \in 1 .. l + 1 /\ (l + 1) + 1 - n \in 2 .. l + 1
            /\ ((l + 1) + 1 - n) - 1 = l + 1 - n
        BY <4>1
      <4>3. c1[(l + 1) + 1 - n] # Garbage
        BY <1>3, <1>5, <4>1, <4>2
      <4>4. Len(g.bucket[i]) = l + 1 /\ g.bucket[i][(l + 1) + 1 - n] # Garbage
        BY <1>3, <1>4, <1>5, <4>3
      <4>5. n \in 1 .. Len(g.bucket[i]) /\ i \in DOMAIN g.bucket /\ p = <<i, n>>
            /\ g.bucket[i][Len(g.bucket[i]) + 1 - n] # Garbage
        BY <1>4, <3>2, <3>4, <4>2, <4>4
      <4> QED BY <4>5, EntryIs
    <3> QED BY <3>3, <3>4
  <2>3. <<i, l + 1>> \in Entries(g)
    <3>1. Len(g.bucket[i]) = l + 1 /\ g.bucket[i][1] # Garbage
      BY <1>1, <1>3, <1>4, <1>5
    <3>2. (l + 1) + 1 - (l + 1) = 1 /\ l + 1 \in 1 .. l + 1
      OBVIOUS
    <3>3. /\ l + 1 \in 1 .. Len(g.bucket[i]) /\ i \in DOMAIN g.bucket
          /\ g.bucket[i][Len(g.bucket[i]) + 1 - (l + 1)] # Garbage
      BY <1>4, <3>1, <3>2
    <3> QED BY <3>3, EntryIs
  <2> QED BY <2>1, <2>2, <2>3
<1>9. <<i, l + 1>> \notin Entries(h)
  <2> SUFFICES ASSUME <<i, l + 1>> \in Entries(h) PROVE FALSE
    OBVIOUS
  <2>1. PICK j \in DOMAIN h.bucket : \E n \in 1 .. Len(h.bucket[j]) : <<i, l + 1>> = <<j, n>>
    BY EntryIs
  <2>2. l + 1 \in 1 .. l
    BY <1>5, <2>1 DEF c
  <2> QED BY <2>2
<1>10. Exact(g)
  <2>1. IsFiniteSet(Entries(h)) /\ h.used = Cardinality(Entries(h))
    BY DEF TableFits, Exact
  <2> QED BY <1>8, <1>9, <2>1, FS_AddElement DEF Exact
<1> QED BY <1>6, <1>7, <1>10 DEF TableFits

\* The index of the new entry was taken with the size of table 0: no new entry
\* goes behind the buckets of table 1, nor into bucket 0 of a huge one
\* (dict.c:204-208, 725-743).
LEMMA InsertFits ==
    ASSUME NEW e, Good(e), Running(e), Fit(e), dictIsRehashing(e), NEW key \in Keys,
           Probe(e.ht[0], key) = "absent"
    PROVE  Preserves(e, Insert(e, key))
<1> SUFFICES ASSUME Running(Insert(e, key)) PROVE Preserves(e, Insert(e, key))
  BY EndPreserves
<1> DEFINE i == Index(e.ht[0], Hash[key])
           f == [e EXCEPT !.ht[1].bucket[i] = <<key>> \o @, !.ht[1].used = @ + 1]
<1>1. Shape(e) /\ Sound(e)
  BY DEF Good, Running, Faults
<1>2. Access(e.ht[1], i) = "running" /\ Insert(e, key) = f
  <2>1. Access(e.ht[1], i) # "running" => Access(e.ht[1], i) \in Faults
    BY DEF Access, Faults
  <2>2. \A how \in Faults : ~Running(Ends(e, how))
    BY EndsGood
  <2> QED BY <2>1, <2>2 DEF Insert
<1>3. e.ht[1] # NoTable /\ i \in DOMAIN e.ht[1].bucket
  BY <1>2, NoTableIs DEF Access
<1>4. e.ht[0].used = 0 /\ e.ht[0] # NoTable /\ e.ht[0].size # e.ht[1].size
  BY <1>1, <1>3 DEF Sound, Fit
<1>5. /\ f.ht[0] = e.ht[0] /\ f.ht[1].size = e.ht[1].size
      /\ f.ht[1].used = e.ht[1].used + 1 /\ f.rehashidx = e.rehashidx
      /\ f.ht[1].bucket = [e.ht[1].bucket EXCEPT ![i] = <<key>> \o @]
  BY <1>1 DEF Shape, Fields
<1>6. TableFits(e.ht[0]) /\ TableFits(e.ht[1])
  BY DEF Fit
<1>7. i \in DOMAIN e.ht[0].bucket /\ Garbage \notin ToSet(e.ht[0].bucket[i])
  BY NoTableIs, <1>4 DEF Probe, Access
<1> HIDE DEF f
<1>8. i \in 0 .. 3 /\ (Initial(e.ht[0]) => i # 0)
  <2>1. CASE Initial(e.ht[0])
    <3>1. Hash[key] \in Nat
      BY DictConstants, Places DEF ULONG_MAX
    <3>2. i \in 0 .. 3
      <4>1. e.ht[0].size = 4
        BY <2>1 DEF Initial, DICT_HT_INITIAL_SIZE
      <4>2. Hash[key] % 4 \in 0 .. 3
        BY <3>1
      <4> QED BY <4>1, <4>2 DEF Index
    <3>3. i # 0
      BY <1>7, <2>1, GarbageAtZero
    <3> QED BY <3>2, <3>3
  <2>2. CASE Huge(e.ht[0])
    <3>1. ~Initial(e.ht[0])
      BY <1>6, <2>2, KindIs
    <3>2. i \in 0 .. (MinUsable \div sizeof_pointer - 1)
      BY <1>7, <2>2 DEF Huge
    <3> HIDE DEF i
    <3> QED BY <3>1, <3>2, Places
  <2> QED BY <1>4, <1>6, <2>1, <2>2 DEF TableFits
<1>9. (Initial(e.ht[1]) /\ i \in 0 .. 3) \/ (Huge(e.ht[1]) /\ i # 0)
  <2>1. (Initial(e.ht[0]) /\ Huge(e.ht[1])) \/ (Huge(e.ht[0]) /\ Initial(e.ht[1]))
    BY <1>3, <1>4, <1>6 DEF TableFits, Initial, Huge
  <2> HIDE DEF i
  <2> QED BY <1>8, <2>1
<1> HIDE DEF i
<1>10. TableFits(f.ht[1]) /\ (Initial(e.ht[1]) => Initial(f.ht[1]))
  <2>1. PICK h, g : h = e.ht[1] /\ g = f.ht[1]
    OBVIOUS
  <2>2. /\ TableFits(h) /\ i \in DOMAIN h.bucket
        /\ (Initial(h) /\ i \in 0 .. 3) \/ (Huge(h) /\ i # 0)
        /\ g.size = h.size /\ g.used = h.used + 1
        /\ g.bucket = [h.bucket EXCEPT ![i] = <<key>> \o @]
    BY <1>3, <1>5, <1>6, <1>9, <2>1
  <2>3. TableFits(g) /\ (Initial(h) => Initial(g))
    BY ONLY <2>2, key \in Keys, PutFits
  <2> QED BY <2>1, <2>3
<1>11. Fit(f)
  BY <1>4, <1>5, <1>6, <1>10 DEF Fit
<1>12. ASSUME NEW c, Holds(e, c) PROVE Holds(f, c)
  <2>1. CASE HoldsIn(e.ht[0], c)
    BY <1>5, <2>1 DEF Holds
  <2>2. CASE HoldsIn(e.ht[1], c)
    <3>1. PICK j \in 0 .. 11 : \E n \in 1 .. Len(e.ht[1].bucket[j]) :
             /\ e.ht[1].bucket[j][n] # Garbage
             /\ c = SubSeq(e.ht[1].bucket[j], n, Len(e.ht[1].bucket[j]))
      BY <2>2 DEF HoldsIn
    <3>2. PICK b : b = e.ht[1].bucket[j]
      OBVIOUS
    <3>3. PICK n \in 1 .. Len(b) : b[n] # Garbage /\ c = SubSeq(b, n, Len(b))
      BY <3>1, <3>2
    <3>4. /\ f.ht[1].bucket[j] = IF j = i THEN <<key>> \o b ELSE b
          /\ b \in Seq(Keys \cup {Garbage}) /\ Initial(f.ht[1])
      BY <1>5, <1>10, <2>2, <3>2 DEF Initial, HoldsIn
    <3>5. CASE j # i
      BY <3>3, <3>4, <3>5 DEF Holds, HoldsIn
    <3>6. CASE j = i
      <4>1. /\ Len(<<key>> \o b) = Len(b) + 1 /\ Len(b) \in Nat
            /\ (<<key>> \o b)[n + 1] = b[n]
            /\ <<key>> \o b \in Seq(Keys \cup {Garbage} \cup {key})
        BY <3>3, <3>4, InFront
      <4>2. SubSeq(<<key>> \o b, n + 1, Len(b) + 1) = c
        <5>1. <<key>> \in Seq(Keys) /\ Len(<<key>>) = 1
          OBVIOUS
        <5> QED BY <3>3, <3>4, <4>1, <5>1, SubSeqOfConcat2
      <4>3. n + 1 \in 1 .. Len(b) + 1
        BY <4>1
      <4> QED BY <3>3, <3>4, <3>6, <4>1, <4>2, <4>3 DEF Holds, HoldsIn
    <3> QED BY <3>5, <3>6
  <2> QED BY <1>12, <2>1, <2>2 DEF Holds
<1> QED BY <1>2, <1>11, <1>12 DEF Preserves

LEMMA ExpandIfNeededFits ==
    ASSUME NEW e, Good(e), Running(e), Fit(e), NEW can, NEW a \in Addresses \ e.heap
    PROVE  Preserves(e, _dictExpandIfNeeded(e, can, a))
<1> DEFINE size == IF e.ht[0].size = 0 THEN DICT_HT_INITIAL_SIZE
                   ELSE (e.ht[0].used * 2) % (ULONG_MAX + 1)
<1>1. size \in Nat
  <2>1. PICK u \in Nat : u = e.ht[0].used
    BY DEF Good, Shape
  <2>2. ULONG_MAX + 1 \in Nat /\ ULONG_MAX + 1 > 0
    BY Places DEF ULONG_MAX
  <2>3. (u * 2) % (ULONG_MAX + 1) \in Nat
    BY <2>2
  <2> QED BY <2>1, <2>3 DEF DICT_HT_INITIAL_SIZE
<1>2. _dictExpandIfNeeded(e, can, a) \in {e, dictExpand(e, size, a)}
  BY DEF _dictExpandIfNeeded
<1> HIDE DEF size
<1> QED BY <1>1, <1>2, ExpandFits, SamePreserves

LEMMA AddFits ==
    ASSUME NEW e, Good(e), Running(e), Fit(e), NEW key \in Keys, NEW can,
           NEW a \in Addresses \ e.heap
    PROVE  Preserves(e, dictAddRaw(e, key, can, a))
<1> DEFINE d1 == _dictRehashStep(e)
           d2 == _dictExpandIfNeeded(d1, can, a)
           probe == ProbeBoth(d2, key)
<1>1. /\ Keeps(e, d1) /\ Running(d1) /\ (~dictIsRehashing(e) => d1 = e)
      /\ Preserves(e, d1) /\ Fit(d1)
  BY StepKeeps, StepFits
<1>2. Keeps(d1, d2) /\ Running(d2) /\ Preserves(d1, d2)
  <2>1. CASE dictIsRehashing(d1)
    <3>1. d2 = d1
      BY <2>1 DEF _dictExpandIfNeeded, NeedsExpand
    <3> QED BY <1>1, <3>1, SameKeeps, SamePreserves DEF Keeps
  <2>2. CASE ~dictIsRehashing(d1)
    <3>1. d1 = e
      BY <1>1, <2>2 DEF Keeps
    <3> QED BY <1>1, <3>1, ExpandIfNeededKeeps, ExpandIfNeededFits
  <2> QED BY <2>1, <2>2
<1>3. Good(d2) /\ Fit(d2) /\ Preserves(e, d2)
  BY <1>1, <1>2, PreservesTransitive DEF Keeps, Preserves
<1>4. \/ dictAddRaw(e, key, can, a) = d2
      \/ /\ probe # "found"
         /\ dictAddRaw(e, key, can, a) =
              IF probe # "absent" THEN Ends(d2, probe) ELSE Insert(d2, key)
  BY <1>1, <1>2 DEF dictAddRaw
<1>5. /\ probe \in {"found", "absent"} \cup Faults
      /\ probe = "absent" => dictIsRehashing(d2) /\ Probe(d2.ht[0], key) = "absent"
  <2>1. ~dictIsRehashing(d2) => d2.ht[1].table = NULL
    BY <1>2, <1>3, NoTableIs DEF Good, Running, Faults, Sound, dictIsRehashing
  <2> QED BY <2>1, ProbeIs DEF ProbeBoth, Faults
<1> HIDE DEF d1, d2, probe
<1>6. probe \in Faults => Preserves(d2, Ends(d2, probe))
  BY <1>3, EndsGood, EndPreserves
<1>7. probe = "absent" => Preserves(d2, Insert(d2, key))
  BY <1>2, <1>3, <1>5, InsertFits
<1>8. "absent" \notin Faults
  BY DEF Faults
<1> QED BY <1>2, <1>3, <1>4, <1>5, <1>6, <1>7, <1>8, PreservesTransitive

LEMMA ReplaceFits ==
    ASSUME NEW e, Good(e), Running(e), Fit(e), NEW key \in Keys, NEW can,
           NEW a \in Addresses \ e.heap
    PROVE  Preserves(e, dictReplace(e, key, can, a))
<1> DEFINE f == dictAddRaw(e, key, can, a)
<1>1. Keeps(e, f) /\ Preserves(e, f)
  BY AddKeeps, AddFits
<1>2. dictReplace(e, key, can, a) \in {f, Ends(f, "undefined")}
  BY DEF dictReplace
<1> HIDE DEF f
<1>3. ~Running(Ends(f, "undefined"))
  BY <1>1, EndsGood DEF Keeps, Faults
<1> QED BY <1>1, <1>2, <1>3, EndPreserves

LEMMA FindFits ==
    ASSUME NEW e, Good(e), Running(e), Fit(e), NEW key \in Keys
    PROVE  Preserves(e, dictFind(e, key))
<1> DEFINE d1 == _dictRehashStep(e)
           probe == Probe(d1.ht[0], key)
<1>1. Good(d1) /\ Running(d1) /\ Preserves(e, d1)
  BY StepKeeps, StepFits DEF Keeps
<1>2. probe \in {"found", "absent"} \cup Faults
  BY ProbeIs
<1>3. dictFind(e, key) = IF probe \in {"found", "absent"} THEN d1 ELSE Ends(d1, probe)
  BY <1>1 DEF dictFind
<1> HIDE DEF d1, probe
<1>4. probe \in Faults => ~Running(Ends(d1, probe))
  BY <1>1, EndsGood
<1> QED BY <1>1, <1>2, <1>3, <1>4, EndPreserves

\* A dict with an entry that is held cannot be cleared: freeing the first
\* chain of that table ends the process (dict.c:304-332).
LEMMA ClearsNothingHeld ==
    ASSUME NEW e, Good(e), Running(e), Fit(e), Running(ClearBoth(e)), NEW c
    PROVE  ~Holds(e, c)
<1>1. ASSUME NEW g, Good(g), NEW t \in {0, 1}, TableFits(g.ht[t]), HoldsIn(g.ht[t], c)
      PROVE  ~Running(_dictClear(g, t))
  <2>1. g.ht[t].used # 0 /\ g.ht[t].used \in Nat /\ Garbage \in ToSet(g.ht[t].bucket[0])
    BY <1>1, HeldIsCounted, GarbageAtZero DEF HoldsIn, Good, Shape
  <2>2. _dictClear(g, t) = Ends(g, "crashed")
    BY <2>1 DEF _dictClear
  <2> QED BY <1>1, <2>2, EndsGood DEF Faults
<1>2. TableFits(e.ht[0]) /\ TableFits(e.ht[1])
  BY DEF Fit
<1>3. Running(_dictClear(e, 0)) /\ Running(_dictClear(_dictClear(e, 0), 1))
  BY DEF ClearBoth
<1>4. Good(_dictClear(e, 0)) /\ _dictClear(e, 0).ht[1] = e.ht[1]
  BY <1>3, ClearGood
<1>5. ~HoldsIn(e.ht[0], c)
  BY <1>1, <1>2, <1>3
<1>6. ~HoldsIn(e.ht[1], c)
  <2>1. PICK g : g = _dictClear(e, 0)
    OBVIOUS
  <2> QED BY <1>1, <1>2, <1>3, <1>4, <2>1
<1> QED BY <1>5, <1>6 DEF Holds

LEMMA EndsPreserves ==
    ASSUME NEW e, Good(e), Fit(e), NEW how
    PROVE  Preserves(e, Ends(e, how))
<1>1. Ends(e, how).ht = e.ht /\ Ends(e, how).rehashidx = e.rehashidx
  BY DEF Ends, Good, Shape
<1> QED BY <1>1, SamePreserves

LEMMA RandomKeyFits ==
    ASSUME Good(d), Running(d), Fit(d), NEW e \in RandomKeyResults
    PROVE  Preserves(d, e)
<1> DEFINE d1 == _dictRehashStep(d)
<1>1. Good(d1) /\ Fit(d1) /\ Preserves(d, d1) /\ Running(d1)
  BY StepKeeps, StepFits DEF Keeps
<1>2. e = d \/ e = d1 \/ \E how : e = Ends(d1, how)
  BY DEF RandomKeyResults
<1> HIDE DEF d1
<1>3. \A how : Preserves(d1, Ends(d1, how))
  BY <1>1, EndsPreserves
<1> QED BY <1>1, <1>2, <1>3, SamePreserves, PreservesTransitive

LEMMA NextPreserves ==
    ASSUME IInv, Fit(d), Next
    PROVE  Preserves(d, d')
<1> USE DEF IInv
<1>1. Good(d) /\ Running(d)
  BY NextInCall
<1>2. d' = d => Preserves(d, d')
  BY SamePreserves
<1>3. \A how : Preserves(d, Ends(d, how))
  BY <1>1, EndsPreserves
<1>4. ASSUME NEW size \in Sizes, Expand(size) PROVE Preserves(d, d')
  <2>1. PICK a \in Fresh : d' = dictExpand(d, size, a)
    BY <1>4 DEF Expand
  <2>2. size \in Nat
    BY MachineConstants, DictConstants DEF ULONG_MAX
  <2> QED BY <1>1, <2>1, <2>2, ExpandFits DEF Fresh
<1>5. CASE Resize
  <2>1. PICK a \in Fresh : d' = dictResize(d, dict_can_resize, a)
    BY <1>5 DEF Resize
  <2>2. DICT_HT_INITIAL_SIZE \in Nat /\ d.ht[0].used \in Nat
    BY <1>1 DEF Good, Shape, DICT_HT_INITIAL_SIZE
  <2> QED BY <1>1, <1>2, <2>1, <2>2, ExpandFits DEF Fresh, dictResize
<1>6. CASE Rehash \/ SetResize
  BY <1>2, <1>6 DEF Rehash, SetResize
<1>7. CASE RehashRound
  BY <1>1, <1>7, RoundFits DEF RehashRound
<1>8. CASE RehashEnd
  <2>1. dictIsRehashing(d) /\ d' = AfterRounds(d)
    BY <1>1, <1>8 DEF RehashEnd
  <2> QED BY <1>1, <1>2, <2>1, FinishFits DEF AfterRounds
<1>9. CASE GetRandomKey
  <2>1. d' \in RandomKeyResults
    BY <1>9 DEF GetRandomKey
  <2> QED BY <1>1, <2>1, RandomKeyFits
<1>10. CASE Scan
  <2>1. d' = d \/ \E how : d' = Ends(d, how)
    BY <1>10 DEF Scan
  <2> QED BY <1>2, <1>3, <2>1
<1>11. ASSUME NEW key \in Keys, Add(key) \/ Replace(key) \/ Find(key) \/ Delete(key)
       PROVE  Preserves(d, d')
  <2>1. CASE Add(key)
    BY <1>1, <2>1, AddFits DEF Add, Fresh
  <2>2. CASE Replace(key)
    BY <1>1, <2>2, ReplaceFits DEF Replace, Fresh
  <2>3. CASE Find(key)
    BY <1>1, <2>3, FindFits DEF Find
  <2>4. CASE Delete(key)
    BY <1>1, <1>2, <2>4, DeletesNothing DEF Delete
  <2> QED BY <1>11, <2>1, <2>2, <2>3, <2>4
<1>12. ASSUME NEW key \in Keys, FindEntryRef(key) PROVE Preserves(d, d')
  BY <1>2, <1>3, <1>12 DEF FindEntryRef
<1>13. ASSUME NEW x \in Iterators, NEW safe \in BOOLEAN, GetIterator(x, safe)
       PROVE  Preserves(d, d')
  BY <1>2, <1>13 DEF GetIterator
<1>14. ASSUME NEW x \in Iterators, Advance(x) PROVE Preserves(d, d')
  <2>1. DOMAIN d = {"ht", "rehashidx", "iterator", "heap", "process"}
    BY <1>1 DEF Good, Shape
  <2>2. d'.ht = d.ht /\ d'.rehashidx = d.rehashidx
    BY <1>14, <2>1 DEF Advance, Ends
  <2> QED BY <2>2, SamePreserves
<1>15. ASSUME NEW x \in Iterators, ReleaseIterator(x) PROVE Preserves(d, d')
  <2>1. d' = CountReleased(d) \/ d' = d \/ d' = Ends(d, "aborted")
    BY <1>15 DEF ReleaseIterator
  <2>2. CountReleased(d).ht = d.ht /\ CountReleased(d).rehashidx = d.rehashidx
    BY <1>1 DEF CountReleased, Good, Shape
  <2> QED BY <1>2, <1>3, <2>1, <2>2, SamePreserves
<1>16. CASE Empty
  <2> DEFINE c == ClearBoth(d)
             f == [c EXCEPT !.rehashidx = -1, !.iterator = 0]
  <2>1. Good(c) /\ (Running(c) => \A t \in {0, 1} : c.ht[t] = NoTable)
    BY <1>1, ClearBothGood
  <2>2. d' = IF Running(c) THEN f ELSE c
    BY <1>16 DEF Empty
  <2>3. Running(c) => \A x : ~Holds(d, x)
    BY <1>1, ClearsNothingHeld
  <2> HIDE DEF c
  <2>4. f.ht = c.ht /\ f.rehashidx = -1
    BY <2>1 DEF Good, Shape
  <2> HIDE DEF f
  <2>5. Running(c) => Fit(f)
    <3>1. NoTable.used = 0
      BY NoTableIs
    <3> QED BY <2>1, <2>4, <3>1, NoTableFits DEF Fit
  <2> QED BY <2>2, <2>3, <2>5 DEF Preserves
<1>17. CASE Release
  <2> DEFINE c == ClearBoth(d)
  <2>1. Good(c) /\ d' = IF Running(c) THEN Ends(c, "released") ELSE c
    BY <1>1, <1>17, ClearBothGood DEF Release
  <2> HIDE DEF c
  <2>2. ~Running(Ends(c, "released"))
    BY <2>1 DEF Running, Ends, Good, Shape
  <2> QED BY <2>1, <2>2, EndPreserves
<1>18. CASE GetStats
  <2>1. \E how : d' = Ends(d, how)
    BY <1>18 DEF GetStats
  <2> QED BY <1>3, <2>1
<1>19. CASE SampleRehash
  BY <1>1, <1>19, StepFits DEF SampleRehash
<1>20. CASE SampleTurn
  <2>1. sample # NULL /\ ~TurnsAgain(sample)
    BY <1>20, NoTurn DEF SampleTurn
  <2>2. d' \in IF sample.fair /\ sample.stored = 0 THEN RandomKeyResults ELSE {d}
    BY <1>20, <2>1 DEF SampleTurn
  <2> QED BY <1>1, <1>2, <2>2, RandomKeyFits
<1>21. ASSUME NEW count, NEW fair, SomeKeys(count, fair) PROVE Preserves(d, d')
  BY <1>2, <1>21 DEF SomeKeys
<1> QED BY <1>4, <1>5, <1>6, <1>7, <1>8, <1>9, <1>10, <1>11, <1>12, <1>13, <1>14,
           <1>15, <1>16, <1>17, <1>18, <1>19, <1>20, <1>21 DEF Next
-----------------------------------------------------------------------------
(* What iterators hold.                                                    *)

\* Also: an iterator has come to some bucket, or is before the first.
Held ==
    /\ DOMAIN iter = Iterators
    /\ \A x \in Iterators : iter[x] # NULL =>
          /\ DOMAIN iter[x] = {"safe", "table", "index", "chain", "fingerprint"}
          /\ iter[x].table \in {0, 1}
          /\ iter[x].index \in Int /\ iter[x].index >= -1
          /\ iter[x].chain # <<>> => Holds(d, iter[x].chain)

\* The invariant of the whole, as long as the process goes on.
FitInv == IInv /\ (Running(d) => Fit(d) /\ Held)

\* A chain that is held, without its first entry.
LEMMA TailHeld ==
    ASSUME NEW h, NEW c, HoldsIn(h, c), Tail(c) # <<>>, Head(Tail(c)) # Garbage
    PROVE  HoldsIn(h, Tail(c))
<1>1. PICK i \in 0 .. 11 : \E n \in 1 .. Len(h.bucket[i]) :
         c = SubSeq(h.bucket[i], n, Len(h.bucket[i]))
  BY DEF HoldsIn
<1>2. PICK b \in Seq(Keys \cup {Garbage}) : b = h.bucket[i]
  BY DEF HoldsIn, Initial
<1>3. PICK l \in Nat : l = Len(b)
  OBVIOUS
<1>4. PICK n \in 1 .. l : c = SubSeq(b, n, l)
  BY <1>1, <1>2, <1>3
<1>5. /\ c \in Seq(Keys \cup {Garbage}) /\ Len(c) = l - n + 1
      /\ \A m \in 1 .. l - n + 1 : c[m] = b[n + m - 1]
  <2>1. n \in 1 .. Len(b) + 1 /\ l \in n - 1 .. Len(b)
    BY <1>3
  <2>2. /\ SubSeq(b, n, l) \in Seq(Keys \cup {Garbage})
        /\ Len(SubSeq(b, n, l)) = l - n + 1
        /\ \A m \in 1 .. l - n + 1 : SubSeq(b, n, l)[m] = b[n + m - 1]
    BY ONLY b \in Seq(Keys \cup {Garbage}), <2>1, SubSeqProperties
  <2> QED BY <1>4, <2>2
<1>6. n < l
  <2> SUFFICES ASSUME n = l PROVE FALSE
    OBVIOUS
  <2>1. Len(c) = 1
    BY <1>5
  <2>2. Tail(c) = <<>>
    <3>1. c # <<>> /\ Tail(c) \in Seq(Keys \cup {Garbage}) /\ Len(Tail(c)) = 0
      BY <1>5, <2>1, HeadTailProperties
    <3> QED BY <3>1, EmptySeq
  <2> QED BY <2>2
<1>7. n + 1 \in 1 .. l
  BY <1>6
<1>8. Tail(c) = SubSeq(b, n + 1, l)
  BY <1>3, <1>4, <1>7, HeadTailOfSubSeq
<1>9. Head(Tail(c)) = b[n + 1]
  BY <1>3, <1>7, <1>8, HeadTailOfSubSeq
<1> QED BY <1>2, <1>3, <1>7, <1>8, <1>9 DEF HoldsIn

\* A whole chain.
LEMMA BucketHeld ==
    ASSUME NEW h, Initial(h), NEW i \in 0 .. 11, h.bucket[i] # <<>>,
           Head(h.bucket[i]) # Garbage
    PROVE  HoldsIn(h, h.bucket[i])
<1>1. PICK b \in Seq(Keys \cup {Garbage}) : b = h.bucket[i]
  BY DEF Initial
<1>2. 1 \in 1 .. Len(b) /\ b[1] # Garbage
  BY <1>1
<1>3. SubSeq(b, 1, Len(b)) = b
  BY SubSeqFull
<1> QED BY <1>1, <1>2, <1>3 DEF HoldsIn

LEMMA MaxOfTwo ==
    ASSUME NEW a \in Int, NEW b \in Int
    PROVE  Max({a, b}) \in {a, b} /\ Max({a, b}) >= a
<1>1. \E x \in {a, b} : \A y \in {a, b} : x >= y
  OBVIOUS
<1> QED BY <1>1 DEF Max

LEMMA MinIsThere ==
    ASSUME NEW S, S \subseteq Nat, S # {}
    PROVE  Min(S) \in S
<1>1. \E x \in S : \A y \in S : ~(<<y, x>> \in OpToRel(<, Nat))
  BY NatLessThanWellFounded, WFMin
<1>2. \A x, y \in Nat : ~(<<y, x>> \in OpToRel(<, Nat)) => x =< y
  BY DEF OpToRel
<1>3. \E x \in S : \A y \in S : x =< y
  BY <1>1, <1>2
<1> QED BY <1>3 DEF Min

\* Where the search of dictNext can stop: at a bucket it cannot read, or at one
\* of a table of the initial size.  The size of the other kind is negative to
\* it, and its first bucket is empty (dict.c:434-452).
LEMMA SearchIs ==
    ASSUME Good(d), Running(d), Fit(d), NEW it, it.table \in {0, 1},
           it.index \in Int, it.index >= -1
    PROVE  LET found == Search(it)
               h == d.ht[found.table]
           IN  /\ found.table \in {0, 1} /\ found.index \in Nat
               /\ found.hit /\ Access(h, found.index) = "running" =>
                     /\ Initial(h) /\ found.index \in 0 .. 11
                     /\ h.bucket[found.index] # <<>>
               /\ found.hit /\ Access(h, found.index) # "running" =>
                     /\ dictIsRehashing(d) /\ it.table = 0
                     /\ found.table = 1 /\ h = NoTable
<1> DEFINE size(t) == AsLong(d.ht[t].size)
           next == it.index + 1
           switches == it.table = 0 /\ dictIsRehashing(d)
           here == Stops(it.table, next .. (size(it.table) - 1))
           there == Stops(1, {0} \cup 1 .. (size(1) - 1))
<1>0. PICK found : found = Search(it)
  OBVIOUS
<1>1. ASSUME NEW t \in {0, 1}
      PROVE  /\ size(t) \in Int /\ TableFits(d.ht[t])
             /\ Huge(d.ht[t]) => size(t) < 0 /\ Stops(t, {0}) = {}
             /\ d.ht[t] = NoTable => size(t) = 0 /\ \A i : Access(d.ht[t], i) = "crashed"
             /\ Initial(d.ht[t]) => /\ size(t) = 4
                                    /\ \A i \in 0 .. 3 : Access(d.ht[t], i) = "running"
  <2>1. TableFits(d.ht[t]) /\ d.ht[t].size \in Nat
    BY DEF Fit, Good, Shape
  <2>2. ULONG_MAX = 2 * LONG_MAX + 1 /\ LONG_MAX \in Nat
    BY Places DEF ULONG_MAX
  <2>3. size(t) \in Int
    BY <2>1, <2>2 DEF AsLong
  <2>4. ASSUME Huge(d.ht[t]) PROVE size(t) < 0 /\ Stops(t, {0}) = {}
    <3>1. d.ht[t].size = LONG_MAX + 1 /\ d.ht[t].bucket[0] = <<>>
      BY <2>4 DEF Huge
    <3>2. size(t) < 0
      BY <2>2, <3>1 DEF AsLong
    <3>3. 0 \in DOMAIN d.ht[t].bucket
      BY <2>4, Places DEF Huge
    <3>4. d.ht[t].table # NULL
      <4>1. d.ht[t].table = NULL => d.ht[t] = NoTable
        BY DEF Good, Sound, Running, Faults
      <4> QED BY <2>1, <2>4, <4>1, KindIs
    <3>5. Access(d.ht[t], 0) = "running"
      BY <3>3, <3>4 DEF Access
    <3> QED BY <3>1, <3>2, <3>5 DEF Stops
  <2>5. d.ht[t] = NoTable => size(t) = 0 /\ \A i : Access(d.ht[t], i) = "crashed"
    BY <2>2, NoTableIs DEF Access, AsLong
  <2>6. ASSUME Initial(d.ht[t])
        PROVE  size(t) = 4 /\ \A i \in 0 .. 3 : Access(d.ht[t], i) = "running"
    <3>1. d.ht[t].size = 4 /\ DOMAIN d.ht[t].bucket = 0 .. 11
      BY <2>6 DEF Initial, DICT_HT_INITIAL_SIZE
    <3>2. d.ht[t].table # NULL
      BY <3>1, NoTableIs DEF Good, Sound, Running, Faults
    <3> QED BY <2>2, <3>1, <3>2, Places DEF Access, AsLong
  <2> QED BY <2>1, <2>3, <2>4, <2>5, <2>6
<1>2. next \in Nat
  OBVIOUS
<1> HIDE DEF size, next
<1>3. /\ here \subseteq Nat /\ there \subseteq Nat
      /\ \A i \in here : Access(d.ht[it.table], i) # "running" \/ d.ht[it.table].bucket[i] # <<>>
      /\ \A i \in there : Access(d.ht[1], i) # "running" \/ d.ht[1].bucket[i] # <<>>
  BY <1>1, <1>2 DEF Stops
<1>4. /\ Huge(d.ht[it.table]) => here = {}
      /\ Huge(d.ht[1]) => there = {}
  <2>1. ASSUME Huge(d.ht[it.table]) PROVE here = {}
    <3>1. next .. (size(it.table) - 1) = {}
      BY <1>1, <1>2, <2>1
    <3> QED BY <3>1 DEF Stops
  <2>2. ASSUME Huge(d.ht[1]) PROVE there = {}
    <3>1. {0} \cup 1 .. (size(1) - 1) = {0} /\ Stops(1, {0}) = {}
      BY <1>1, <2>2
    <3> QED BY <3>1
  <2> QED BY <2>1, <2>2
<1>5. ASSUME NEW t \in {0, 1}, NEW i \in Nat, ~Huge(d.ht[t]),
             Access(d.ht[t], i) # "running" \/ d.ht[t].bucket[i] # <<>>,
             Access(d.ht[t], i) = "running"
      PROVE  Initial(d.ht[t]) /\ i \in 0 .. 11 /\ d.ht[t].bucket[i] # <<>>
  <2>1. d.ht[t] # NoTable
    BY <1>1, <1>5
  <2>2. Initial(d.ht[t])
    BY <1>1, <1>5, <2>1 DEF TableFits
  <2>3. i \in DOMAIN d.ht[t].bucket
    BY <1>5 DEF Access
  <2> QED BY <1>5, <2>2, <2>3 DEF Initial
<1>6. CASE here # {}
  <2>1. found = [table |-> it.table, index |-> Min(here), hit |-> TRUE]
    BY <1>0, <1>6 DEF Search, size, next
  <2>2. Min(here) \in here
    BY <1>3, <1>6, MinIsThere
  <2> HIDE DEF here, there
  <2>3. found.table = it.table /\ found.index = Min(here) /\ ~Huge(d.ht[it.table])
    BY <1>4, <1>6, <2>1
  <2>4. PICK i \in Nat : i = Min(here) /\ i \in here
    BY <1>3, <2>2
  <2>5. Access(d.ht[it.table], i) # "running" \/ d.ht[it.table].bucket[i] # <<>>
    BY <1>3, <2>4
  <2>6. Access(d.ht[it.table], i) = "running" =>
           Initial(d.ht[it.table]) /\ i \in 0 .. 11 /\ d.ht[it.table].bucket[i] # <<>>
    BY <1>5, <2>3, <2>5
  <2>7. Access(d.ht[it.table], i) = "running"
    <3>1. next <= i /\ i <= size(it.table) - 1
      BY <1>1, <1>2, <2>4 DEF Stops, here
    <3>2. d.ht[it.table] # NoTable
      BY <1>1, <1>2, <3>1
    <3>3. Initial(d.ht[it.table])
      BY <1>1, <2>3, <3>2 DEF TableFits
    <3> QED BY <1>1, <1>2, <3>1, <3>3
  <2> QED BY <1>0, <2>3, <2>4, <2>6, <2>7
<1>7. CASE here = {} /\ switches /\ there # {}
  <2>1. found = [table |-> 1, index |-> Min(there), hit |-> TRUE]
    BY <1>0, <1>7 DEF Search, size, next
  <2>2. Min(there) \in there
    BY <1>3, <1>7, MinIsThere
  <2> HIDE DEF here, there
  <2>3. found.table = 1 /\ found.index = Min(there) /\ ~Huge(d.ht[1])
    BY <1>4, <1>7, <2>1
  <2>4. PICK i \in Nat : i = Min(there) /\ i \in there
    BY <1>3, <2>2
  <2>5. Access(d.ht[1], i) # "running" \/ d.ht[1].bucket[i] # <<>>
    BY <1>3, <2>4
  <2>6. Access(d.ht[1], i) = "running" =>
           Initial(d.ht[1]) /\ i \in 0 .. 11 /\ d.ht[1].bucket[i] # <<>>
    BY <1>5, <2>3, <2>5
  <2>7. Access(d.ht[1], i) = "running" \/ d.ht[1] = NoTable
    <3>1. i \in {0} \cup 1 .. (size(1) - 1)
      BY <2>4 DEF Stops, there
    <3>2. ASSUME Initial(d.ht[1]) PROVE Access(d.ht[1], i) = "running"
      BY <1>1, <3>1, <3>2
    <3> QED BY <1>1, <2>3, <3>2 DEF TableFits
  <2> QED BY <1>0, <1>7, <2>3, <2>4, <2>6, <2>7
<1>8. CASE here = {} /\ ~switches
  <2>1. found = [table |-> it.table, index |-> Max({next, size(it.table)}), hit |-> FALSE]
    BY <1>0, <1>8 DEF Search, size, next
  <2>2. Max({next, size(it.table)}) \in Nat
    <3>1. size(it.table) \in Int /\ next \in Int
      BY <1>1, <1>2
    <3>2. /\ Max({next, size(it.table)}) \in {next, size(it.table)}
          /\ Max({next, size(it.table)}) >= next
      BY <3>1, MaxOfTwo
    <3> QED BY <1>2, <3>1, <3>2
  <2> QED BY <1>0, <2>1, <2>2
<1>9. CASE here = {} /\ switches /\ there = {}
  <2>1. found = [table |-> 1, index |-> Max({1, size(1)}), hit |-> FALSE]
    BY <1>0, <1>9 DEF Search, size, next
  <2>2. Max({1, size(1)}) \in Nat
    <3>1. size(1) \in Int
      BY <1>1
    <3>2. Max({1, size(1)}) \in {1, size(1)} /\ Max({1, size(1)}) >= 1
      BY <3>1, MaxOfTwo
    <3> QED BY <3>1, <3>2
  <2> QED BY <1>0, <2>1, <2>2
<1> QED BY <1>6, <1>7, <1>8, <1>9

\* An iteration in table 0 of a dict that is rehashing always comes to a
\* bucket, at the latest to the first one of table 1 (dict.c:435-444).
LEMMA SearchHits ==
    ASSUME Good(d), Running(d), Fit(d), dictIsRehashing(d), ~Huge(d.ht[1]),
           NEW it, it.table = 0
    PROVE  Search(it).hit
<1> DEFINE size(t) == AsLong(d.ht[t].size)
           there == Stops(1, {0} \cup 1 .. (size(1) - 1))
<1>1. Access(d.ht[1], 0) # "running" \/ d.ht[1].bucket[0] # <<>>
  <2>1. d.ht[1] = NoTable \/ Initial(d.ht[1])
    BY DEF Fit, TableFits
  <2> QED BY <2>1, NoTableIs DEF Access, Initial
<1>2. there # {}
  BY <1>1 DEF Stops
<1>3. it.table = 0 /\ dictIsRehashing(d)
  OBVIOUS
<1> HIDE DEF there
<1>4. Search(it).hit = TRUE
  BY <1>2, <1>3 DEF Search, there, size
<1> QED BY <1>4

LEMMA AdvanceHolds ==
    ASSUME FitInv, NEW x \in Iterators, Advance(x), Running(d')
    PROVE  Held'
<1> DEFINE it == iter[x]
           rest == IF it.chain = <<>> THEN <<>> ELSE Tail(it.chain)
           found == Search(it)
           reached == IF found.hit THEN Access(d.ht[found.table], found.index)
                      ELSE "running"
           entries == IF found.hit /\ reached = "running"
                      THEN d.ht[found.table].bucket[found.index] ELSE <<>>
           Reads(chain) == IF chain # <<>> /\ Head(chain) = Garbage THEN "crashed"
                           ELSE "running"
<1>1. /\ Good(d) /\ Running(d) /\ Fit(d) /\ Held /\ it # NULL
      /\ DOMAIN d = {"ht", "rehashidx", "iterator", "heap", "process"}
  BY DEF Advance, MayCall, FitInv, IInv, Good, Shape
<1>2. \A c : Holds(d, c) => Holds(d', c)
  BY <1>1, NextPreserves DEF FitInv, Preserves, Next
<1>3. /\ DOMAIN iter = Iterators /\ it.table \in {0, 1}
      /\ DOMAIN it = {"safe", "table", "index", "chain", "fingerprint"}
      /\ it.index \in Int /\ it.index >= -1
      /\ it.chain # <<>> => Holds(d, it.chain)
  BY <1>1 DEF Held
<1>4. SUFFICES /\ DOMAIN iter'[x] = DOMAIN it
               /\ iter'[x].table \in {0, 1}
               /\ iter'[x].index \in Int /\ iter'[x].index >= -1
               /\ iter'[x].chain # <<>> => Holds(d, iter'[x].chain)
  <2>1. DOMAIN iter' = Iterators /\ \A y \in Iterators : y # x => iter'[y] = iter[y]
    BY <1>3 DEF Advance
  <2> QED BY <1>1, <1>2, <1>3, <1>4, <2>1 DEF Held, Holds
<1>5. CASE rest # <<>>
  <2>1. d' = Ends(d, Reads(rest)) /\ iter' = [iter EXCEPT ![x].chain = rest]
    BY <1>5 DEF Advance
  <2>2. Head(rest) # Garbage
    BY <1>1, <1>5, <2>1 DEF Running, Ends
  <2>3. it.chain # <<>> /\ rest = Tail(it.chain) /\ Holds(d, it.chain)
    BY <1>3, <1>5
  <2>4. Holds(d, rest)
    BY <1>5, <2>2, <2>3, TailHeld DEF Holds
  <2> QED BY <1>3, <2>1, <2>4
<1>6. CASE rest = <<>>
  <2>1. /\ d'.process = IF reached # "running" THEN reached ELSE Reads(entries)
        /\ DOMAIN iter'[x] = DOMAIN it /\ iter'[x].table = found.table
        /\ iter'[x].index = found.index /\ iter'[x].chain = entries
    <3>1. /\ d' = [d EXCEPT
                     !.process = IF reached # "running" THEN reached ELSE Reads(entries),
                     !.iterator = IF ~Started(it) /\ it.safe THEN @ + 1 ELSE @]
          /\ \E f : iter' = [iter EXCEPT ![x] =
                       [it EXCEPT !.table = found.table, !.index = found.index,
                                  !.chain = entries, !.fingerprint = f]]
      BY <1>6 DEF Advance
    <3> HIDE DEF reached, entries, found, Reads
    <3> QED BY <1>1, <1>3, <3>1
  <2>2. reached = "running" /\ (entries # <<>> => Head(entries) # Garbage)
    BY <2>1 DEF Running, Access
  <2>3. /\ found.table \in {0, 1} /\ found.index \in Nat
        /\ found.hit => /\ Initial(d.ht[found.table]) /\ found.index \in 0 .. 11
                        /\ d.ht[found.table].bucket[found.index] # <<>>
    BY <1>1, <1>3, <2>2, SearchIs
  <2>4. entries # <<>> => Holds(d, entries)
    <3>1. found.hit => Holds(d, d.ht[found.table].bucket[found.index])
      <4> HIDE DEF found
      <4>1. ASSUME found.hit PROVE HoldsIn(d.ht[found.table], d.ht[found.table].bucket[found.index])
        <5>1. Head(d.ht[found.table].bucket[found.index]) # Garbage
          BY <2>2, <2>3, <4>1
        <5> QED BY <2>3, <4>1, <5>1, BucketHeld
      <4> QED BY <2>3, <4>1 DEF Holds
    <3> QED BY <3>1
  <2> HIDE DEF found, entries
  <2> QED BY <2>1, <2>3, <2>4
<1> QED BY <1>5, <1>6

LEMMA NextHolds ==
    ASSUME FitInv, Next, Running(d')
    PROVE  Held'
<1>1. Running(d) /\ Fit(d) /\ Held /\ Preserves(d, d')
  BY NextInCall, NextPreserves DEF FitInv
<1>2. \A c : Holds(d, c) => Holds(d', c)
  BY <1>1 DEF Preserves
<1>3. CASE UNCHANGED iter
  BY <1>1, <1>2, <1>3 DEF Held, Holds
<1>4. ASSUME NEW x \in Iterators, NEW new, iter' = [iter EXCEPT ![x] = new],
             new = NULL \/ \E safe : new = NewIterator(safe)
      PROVE  Held'
  <2>1. /\ DOMAIN iter' = Iterators /\ iter'[x] = new
        /\ \A y \in Iterators : y # x => iter'[y] = iter[y]
    BY <1>1, <1>4 DEF Held
  <2>2. ASSUME NEW safe
        PROVE  /\ DOMAIN NewIterator(safe) = {"safe", "table", "index", "chain", "fingerprint"}
               /\ NewIterator(safe).table = 0 /\ NewIterator(safe).index = -1
               /\ NewIterator(safe).chain = <<>>
    BY DEF NewIterator
  <2> QED BY <1>1, <1>2, <1>4, <2>1, <2>2 DEF Held, Holds
<1>5. \/ UNCHANGED iter
      \/ \E x \in Iterators : \/ \E safe \in BOOLEAN : GetIterator(x, safe)
                              \/ Advance(x) \/ ReleaseIterator(x)
  BY DEF Next, Operation, Expand, Resize, Rehash, RehashRound, RehashEnd, GetRandomKey,
         Scan, Empty, Release, SetResize, Add, Replace, Find, Delete, FindEntryRef,
         GetStats, SomeKeys, SampleRehash, SampleTurn
<1>6. ASSUME NEW x \in Iterators, NEW safe, GetIterator(x, safe) PROVE Held'
  BY <1>4, <1>6 DEF GetIterator
<1>7. ASSUME NEW x \in Iterators, ReleaseIterator(x) PROVE Held'
  BY <1>4, <1>7 DEF ReleaseIterator
<1> QED BY <1>3, <1>5, <1>6, <1>7, AdvanceHolds

LEMMA FitInvariant == Spec => []FitInv
<1>1. Init => FitInv
  <2> SUFFICES ASSUME Init PROVE Fit(d) /\ Held
    BY InitGood DEF FitInv
  <2>1. d.ht[0] = NoTable /\ d.ht[1] = NoTable /\ d.rehashidx = -1
    BY DEF Init, NewDict
  <2>2. Fit(d)
    BY <2>1, NoTableFits, NoTableIs DEF Fit
  <2>3. Held
    BY DEF Init, Held
  <2> QED BY <2>2, <2>3
<1>2. ASSUME FitInv, [Next]_vars, IInv' PROVE FitInv'
  <2>1. CASE Next
    BY <1>2, <2>1, NextHolds, NextPreserves, NextInCall DEF FitInv, Preserves
  <2>2. CASE UNCHANGED vars
    BY <1>2, <2>2 DEF vars, FitInv, Held, Holds
  <2> QED BY <1>2, <2>1, <2>2
<1> QED BY <1>1, <1>2, InductiveInvariant, PTL DEF Spec

\* used counts the entries in the chains of its table, through any sequence
\* of calls (dict.c:107-142, 207).
THEOREM UsedIsRight == Spec => []UsedCounts
<1>1. FitInv => UsedCounts
  BY DEF FitInv, Fit, TableFits, Exact, UsedCounts
<1> QED BY <1>1, FitInvariant, PTL

\* The cursor of the rehash never passes an entry (dict.c:117-123).
THEOREM CursorStaysBehind == Spec => []CursorBehindEntries
<1>1. FitInv => CursorBehindEntries
  BY DEF FitInv, Fit, CursorBehindEntries
<1> QED BY <1>1, FitInvariant, PTL

\* No entry an iterator holds is freed, nor any behind it in its chain,
\* however many iterators there are (dict.c:423-455, 746-751).
THEOREM HeldEntriesLiveOn == Spec => []HeldEntriesLive
<1>1. FitInv => HeldEntriesLive
  <2> SUFFICES ASSUME FitInv, Running(d), NEW x \in Iterators,
                      iter[x] # NULL, iter[x].chain # <<>>
               PROVE  \E t \in {0, 1} : \E i \in DOMAIN d.ht[t].bucket :
                         \E n \in DOMAIN d.ht[t].bucket[i] :
                            iter[x].chain = SubSeq(d.ht[t].bucket[i], n, Len(d.ht[t].bucket[i]))
    BY DEF HeldEntriesLive
  <2>1. PICK t \in {0, 1} : HoldsIn(d.ht[t], iter[x].chain)
    BY DEF FitInv, Held, Holds
  <2>2. PICK i \in 0 .. 11 : \E n \in 1 .. Len(d.ht[t].bucket[i]) :
           iter[x].chain = SubSeq(d.ht[t].bucket[i], n, Len(d.ht[t].bucket[i]))
    BY <2>1 DEF HoldsIn
  <2>3. /\ i \in DOMAIN d.ht[t].bucket
        /\ DOMAIN d.ht[t].bucket[i] = 1 .. Len(d.ht[t].bucket[i])
    <3>1. PICK b \in Seq(Keys \cup {Garbage}) : b = d.ht[t].bucket[i]
      BY <2>1 DEF HoldsIn, Initial
    <3>2. DOMAIN b = 1 .. Len(b)
      OBVIOUS
    <3> QED BY <2>1, <3>1, <3>2 DEF HoldsIn, Initial
  <2> QED BY <2>2, <2>3
<1> QED BY <1>1, FitInvariant, PTL

\* An iteration that comes to its end in table 0 crashes if a rehash has
\* ended, and else returns, in a dict without entries or with a table 1 of
\* more than LONG_MAX buckets (dict.c:435-444).
THEOREM IterationsMeetEntries == Spec => EndMeansEmpty
<1>1. ASSUME FitInv, NEW x \in Iterators, Advance(x),
             iter[x].table = 0, iter'[x].chain = <<>>
      PROVE  IF dictIsRehashing(d) /\ d.ht[1].table = NULL
             THEN d'.process = "crashed"
             ELSE Running(d') /\ (dictSize(d) = 0 \/ d.ht[1].size > LONG_MAX)
  <2> DEFINE it == iter[x]
             rest == IF it.chain = <<>> THEN <<>> ELSE Tail(it.chain)
             found == Search(it)
             reached == IF found.hit THEN Access(d.ht[found.table], found.index)
                        ELSE "running"
             entries == IF found.hit /\ reached = "running"
                        THEN d.ht[found.table].bucket[found.index] ELSE <<>>
             Reads(chain) == IF chain # <<>> /\ Head(chain) = Garbage THEN "crashed"
                             ELSE "running"
  <2>1. Good(d) /\ Running(d) /\ Fit(d) /\ Held /\ Shape(d) /\ Sound(d) /\ it # NULL
    BY <1>1 DEF Advance, MayCall, FitInv, IInv, Good, Running, Faults
  <2>2. /\ DOMAIN iter = Iterators /\ it.table = 0
        /\ DOMAIN it = {"safe", "table", "index", "chain", "fingerprint"}
        /\ it.index \in Int /\ it.index >= -1
    BY <1>1, <2>1 DEF Held
  <2>3. rest = <<>>
    <3> SUFFICES ASSUME rest # <<>> PROVE FALSE
      OBVIOUS
    <3>1. iter' = [iter EXCEPT ![x].chain = rest]
      BY <1>1 DEF Advance
    <3> QED BY <1>1, <2>2, <3>1
  <2>4. /\ d'.process = IF reached # "running" THEN reached ELSE Reads(entries)
        /\ iter'[x].chain = entries
    <3>1. /\ d' = [d EXCEPT
                     !.process = IF reached # "running" THEN reached ELSE Reads(entries),
                     !.iterator = IF ~Started(it) /\ it.safe THEN @ + 1 ELSE @]
          /\ \E f : iter' = [iter EXCEPT ![x] =
                       [it EXCEPT !.table = found.table, !.index = found.index,
                                  !.chain = entries, !.fingerprint = f]]
      BY <1>1, <2>3 DEF Advance
    <3> HIDE DEF reached, entries, found, Reads
    <3> QED BY <2>1, <2>2, <3>1 DEF Shape
  <2>5. ASSUME found.hit
        PROVE  dictIsRehashing(d) /\ d.ht[1].table = NULL /\ reached = "crashed"
    <3>1. reached # "running"
      <4>1. reached = "running" => d.ht[found.table].bucket[found.index] # <<>>
        BY <2>1, <2>2, <2>5, SearchIs
      <4> QED BY <1>1, <2>4, <2>5, <4>1
    <3>2. dictIsRehashing(d) /\ found.table = 1 /\ d.ht[found.table] = NoTable
      BY <2>1, <2>2, <2>5, <3>1, SearchIs
    <3> QED BY <2>5, <3>2, NoTableIs DEF Access
  <2>6. dictIsRehashing(d) /\ ~found.hit => Huge(d.ht[1])
    BY <2>1, <2>2, SearchHits
  <2>7. CASE dictIsRehashing(d) /\ d.ht[1].table = NULL
    <3>1. ~Huge(d.ht[1])
      BY <2>1, <2>7, NoTableIs, Places DEF Sound, Huge
    <3> QED BY <2>4, <2>5, <2>6, <2>7, <3>1
  <2>8. CASE ~(dictIsRehashing(d) /\ d.ht[1].table = NULL)
    <3>1. ~found.hit /\ reached = "running" /\ entries = <<>>
      BY <2>5, <2>8
    <3>2. d'.process = "running"
      BY <2>4, <3>1
    <3>3. dictIsRehashing(d) => d.ht[1].size > LONG_MAX
      BY <2>6, <3>1, Places DEF Huge
    <3>4. ~dictIsRehashing(d) => dictSize(d) = 0
      BY <2>1, NoTableIs DEF Sound, dictSize, dictIsRehashing
    <3> QED BY <2>8, <3>2, <3>3, <3>4 DEF Running
  <2> QED BY <2>7, <2>8
<1>2. FitInv /\ [Next]_vars
        => [\A x \in Iterators :
               Advance(x) /\ iter[x].table = 0 /\ iter'[x].chain = <<>>
                 => IF dictIsRehashing(d) /\ d.ht[1].table = NULL
                    THEN d'.process = "crashed"
                    ELSE Running(d') /\ (dictSize(d) = 0 \/ d.ht[1].size > LONG_MAX)]_vars
  BY <1>1
<1> QED BY <1>2, FitInvariant, PTL DEF EndMeansEmpty, Spec

\* What ends a call that reads or walks, a search of its own apart.
LEMMA NoWalkHangs ==
    ASSUME NEW h, NEW i, NEW key
    PROVE  /\ Access(h, i) # "hung" /\ Probe(h, key) # "hung" /\ StatsWalk(h) # "hung"
           /\ \A e : ProbeBoth(e, key) # "hung"
BY DEF Access, Probe, StatsWalk, ProbeBoth

\* A search for a random entry always comes to one, or to a fault: where all
\* entries are in table 1, table 0 has the garbage in its bucket 0 or, being
\* huge, no memory for most of its buckets (dict.c:482-494).
LEMMA RandomKeyEnds ==
    ASSUME Good(d), Running(d), Fit(d), NEW e \in RandomKeyResults
    PROVE  e.process # "hung"
<1> DEFINE d1 == _dictRehashStep(d)
           h0 == d1.ht[0]
           hits == {i \in RandomBuckets(d1) :
                       Access(h0, i) # "running" \/ h0.bucket[i] # <<>>}
<1>1. Good(d1) /\ Running(d1)
  BY StepKeeps DEF Keeps
<1>2. CASE dictSize(d) = 0
  BY <1>2 DEF RandomKeyResults, Running
<1>3. CASE dictSize(d) # 0
  <2>1. d1 = d
    BY <1>3, StepKeeps
  <2>2. Shape(d) /\ Sound(d)
    BY DEF Good, Running, Faults
  <2>3. dictIsRehashing(d) /\ d.rehashidx \in Nat
    BY <1>3, <2>2, NoTableIs DEF Sound, Shape, dictSize, dictIsRehashing
  <2>4. PICK size0 \in Nat, size1 \in Nat : size0 = d.ht[0].size /\ size1 = d.ht[1].size
    BY <2>2 DEF Shape
  <2>5. PICK idx \in Nat : idx = d.rehashidx
    BY <2>3
  <2>6. ASSUME NEW i \in Nat, idx =< i, i < size0 PROVE i \in RandomBuckets(d)
    <3>1. RandomBuckets(d) = {IF h >= size0 THEN h - size0 ELSE h :
                                 h \in idx .. (size0 + size1 - 1)}
      BY <2>3, <2>4, <2>5 DEF RandomBuckets
    <3>2. /\ i \in idx .. (size0 + size1 - 1)
          /\ i = IF i >= size0 THEN i - size0 ELSE i
      BY <2>6
    <3> QED BY ONLY <3>1, <3>2
  <2>7. \E i \in Nat :
           /\ idx =< i /\ i < size0
           /\ Access(d.ht[0], i) # "running" \/ d.ht[0].bucket[i] # <<>>
    <3>1. CASE d.ht[0].used # 0
      <4>1. TableFits(d.ht[0]) /\ d.ht[0] # NoTable
        BY <3>1, NoTableIs DEF Fit
      <4>2. PICK i \in DOMAIN d.ht[0].bucket : d.ht[0].bucket[i] # <<>> /\ i \in 0 .. 3
        BY <3>1, <4>1, WhereEntriesAre
      <4>3. i < size0
        BY <2>4, <4>1, <4>2, KindIs
      <4>4. ~(i < idx)
        BY <2>5, <3>1, <4>2 DEF Fit
      <4> QED BY <4>2, <4>3, <4>4
    <3>2. CASE d.ht[0].used = 0
      <4>1. d.ht[1] # NoTable
        BY <1>3, <2>2, <3>2, NoTableIs DEF dictSize, Shape
      <4>2. d.ht[0] # NoTable /\ idx = 0 /\ TableFits(d.ht[0])
        BY <2>3, <2>5, <3>2, <4>1 DEF Fit, dictIsRehashing
      <4>3. CASE Initial(d.ht[0])
        <5>1. d.ht[0].bucket[0] # <<>> /\ size0 = 4
          BY <2>4, <4>3 DEF Initial, DICT_HT_INITIAL_SIZE
        <5> QED BY <4>2, <5>1
      <4>4. CASE Huge(d.ht[0])
        <5>1. size0 = LONG_MAX + 1 /\ LONG_MAX \notin DOMAIN d.ht[0].bucket
          BY <2>4, <4>4, Places DEF Huge
        <5>2. Access(d.ht[0], LONG_MAX) # "running"
          BY <5>1 DEF Access
        <5> QED BY <4>2, <5>1, <5>2, Places
      <4> QED BY <4>2, <4>3, <4>4 DEF TableFits
    <3> QED BY <3>1, <3>2
  <2>8. hits # {}
    <3>1. PICK i \in Nat :
             /\ idx =< i /\ i < size0
             /\ Access(d.ht[0], i) # "running" \/ d.ht[0].bucket[i] # <<>>
      BY <2>7
    <3>2. i \in RandomBuckets(d)
      BY <2>6, <3>1
    <3> QED BY <2>1, <3>1, <3>2
  <2>9. e = d1 \/ \E how : how # "hung" /\ e = Ends(d1, how)
    <3>1. \A i : Access(h0, i) # "hung"
      BY NoWalkHangs
    <3> HIDE DEF h0, d1
    <3>2. e \in IF RandomBuckets(d1) = {} THEN {Ends(d1, "crashed")}
                ELSE {IF Access(h0, i) # "running" THEN Ends(d1, Access(h0, i))
                      ELSE IF Garbage \in ToSet(h0.bucket[i]) THEN Ends(d1, "crashed")
                      ELSE d1 : i \in hits}
      BY <1>1, <1>3, <2>8 DEF RandomKeyResults, d1, h0
    <3> QED BY <3>1, <3>2
  <2> QED BY <1>1, <2>9, EndsIs DEF Running
<1> QED BY <1>2, <1>3

\* An addition never hangs: it expands only a dict without tables, to the
\* initial size (dict.c:192-214, 681-697).
LEMMA AddEnds ==
    ASSUME NEW e, Good(e), Running(e), NEW key \in Keys, NEW can,
           NEW a \in Addresses \ e.heap
    PROVE  dictAddRaw(e, key, can, a).process # "hung"
<1> DEFINE d1 == _dictRehashStep(e)
           d2 == _dictExpandIfNeeded(d1, can, a)
           probe == ProbeBoth(d2, key)
           t == IF dictIsRehashing(d2) THEN 1 ELSE 0
           i == Index(d2.ht[1 - t], Hash[key])
<1>1. Keeps(e, d1) /\ Running(d1) /\ (~dictIsRehashing(e) => d1 = e)
  BY StepKeeps
<1>2. Keeps(d1, d2) /\ Running(d2)
  <2>1. CASE dictIsRehashing(d1)
    <3>1. d2 = d1
      BY <2>1 DEF _dictExpandIfNeeded, NeedsExpand
    <3> QED BY <1>1, <3>1, SameKeeps DEF Keeps
  <2>2. CASE ~dictIsRehashing(d1)
    <3>1. d1 = e
      BY <1>1, <2>2 DEF Keeps
    <3> QED BY <1>1, <3>1, ExpandIfNeededKeeps
  <2> QED BY <2>1, <2>2
<1>3. Good(d2)
  BY <1>2 DEF Keeps
<1>4. \/ dictAddRaw(e, key, can, a) = d2
      \/ dictAddRaw(e, key, can, a) = Ends(d2, probe)
      \/ dictAddRaw(e, key, can, a) = Insert(d2, key)
  BY <1>1, <1>2 DEF dictAddRaw
<1>5. Access(d2.ht[t], i) # "hung" /\ probe # "hung"
  BY NoWalkHangs
<1>6. \/ Insert(d2, key) = Ends(d2, Access(d2.ht[t], i))
      \/ Insert(d2, key) = [d2 EXCEPT !.ht[t].bucket[i] = <<key>> \o @, !.ht[t].used = @ + 1]
  BY DEF Insert
<1> HIDE DEF d2, probe, t, i
<1>7. [d2 EXCEPT !.ht[t].bucket[i] = <<key>> \o @, !.ht[t].used = @ + 1].process = d2.process
  BY <1>3 DEF Good, Shape
<1>8. /\ Ends(d2, probe).process = probe
      /\ Ends(d2, Access(d2.ht[t], i)).process = Access(d2.ht[t], i)
  BY <1>3, EndsIs
<1>9. Insert(d2, key).process # "hung"
  BY <1>2, <1>5, <1>6, <1>7, <1>8 DEF Running
<1>10. d2.process # "hung"
  BY <1>2 DEF Running
<1> QED BY <1>4, <1>5, <1>8, <1>9, <1>10

\* Clearing ends in a fault, or not at all.
LEMMA ClearEnds ==
    ASSUME NEW e, Good(e), Running(e)
    PROVE  ClearBoth(e).process # "hung"
<1>1. ASSUME NEW g, Good(g), g.process # "hung", NEW t \in {0, 1}
      PROVE  _dictClear(g, t).process # "hung"
  <2>1. [g EXCEPT !.heap = @ \ {g.ht[t].table}, !.ht[t] = NoTable].process = g.process
    BY <1>1 DEF Good, Shape
  <2> QED BY <1>1, <2>1, EndsIs DEF _dictClear
<1>2. Good(_dictClear(e, 0)) /\ _dictClear(e, 0).process # "hung"
  BY <1>1, ClearGood DEF Running
<1> QED BY <1>1, <1>2 DEF ClearBoth

\* A call runs for ever only if it is one of dictExpand with a size between
\* the initial one and LONG_MAX, or of dictScan, over entries
\* (dict.c:482-494, 693, 709).
THEOREM HangsOnlyWhereAsked == Spec => []HangsWhereAsked
<1>1. ASSUME FitInv, Next, d'.process = "hung" PROVE HangsWhereAsked'
  <2>1. Good(d) /\ Running(d) /\ Fit(d) /\ d' # d /\ Shape(d) /\ Sound(d)
    BY <1>1, NextInCall DEF FitInv, IInv, Running, Good, Faults
  <2>2. \A how : d' = Ends(d, how) => how = "hung"
    BY <1>1, <2>1, EndsIs
  <2>0. ASSUME NEW name, NEW size, In(name, size)
        PROVE  ended'.call = name /\ ended'.size = size
    BY <1>1, <2>0 DEF In, Running
  <2>3. ASSUME NEW size \in Sizes, Expand(size) PROVE HangsWhereAsked'
    <3>1. PICK a \in Fresh : d' = dictExpand(d, size, a)
      BY <2>3 DEF Expand
    <3>2. size \in Nat /\ LONG_MAX \in Nat
      BY MachineConstants, DictConstants DEF ULONG_MAX
    <3>3. DICT_HT_INITIAL_SIZE < size /\ size < LONG_MAX
      <4> SUFFICES ASSUME ~(size > DICT_HT_INITIAL_SIZE /\ size < LONG_MAX) PROVE FALSE
        BY <3>2 DEF DICT_HT_INITIAL_SIZE
      <4> DEFINE n == NewTable(a, IF size >= LONG_MAX THEN LONG_MAX + 1
                                  ELSE DICT_HT_INITIAL_SIZE)
      <4>1. \/ d' = [d EXCEPT !.ht[0] = n, !.heap = @ \cup {a}]
            \/ d' = [d EXCEPT !.ht[1] = n, !.heap = @ \cup {a}, !.rehashidx = 0]
        BY <2>1, <3>1 DEF dictExpand
      <4> HIDE DEF n
      <4> QED BY <1>1, <2>1, <4>1 DEF Running, Shape
    <3>4. ended'.call = "dictExpand" /\ ended'.size = size
      BY <2>0, <2>3 DEF Expand
    <3> QED BY <3>3, <3>4 DEF HangsWhereAsked
  <2>4. ~Resize
    <3> SUFFICES ASSUME Resize PROVE FALSE
      OBVIOUS
    <3>1. PICK a \in Fresh : d' = dictResize(d, dict_can_resize, a)
      BY DEF Resize
    <3>2. d.ht[0].used = 0 /\ d' = dictExpand(d, DICT_HT_INITIAL_SIZE, a)
      BY <2>1, <3>1 DEF dictResize, Sound, dictIsRehashing, DICT_HT_INITIAL_SIZE
    <3> DEFINE n == NewTable(a, IF DICT_HT_INITIAL_SIZE >= LONG_MAX THEN LONG_MAX + 1
                                ELSE DICT_HT_INITIAL_SIZE)
    <3>3. \/ d' = [d EXCEPT !.ht[0] = n, !.heap = @ \cup {a}]
          \/ d' = [d EXCEPT !.ht[1] = n, !.heap = @ \cup {a}, !.rehashidx = 0]
      BY <2>1, <3>2 DEF dictExpand, DICT_HT_INITIAL_SIZE
    <3> HIDE DEF n
    <3> QED BY <1>1, <2>1, <3>3 DEF Running, Shape
  <2>5. ~RehashRound
    <3> SUFFICES ASSUME RehashRound PROVE FALSE
      OBVIOUS
    <3>1. d' = Round(d).d /\ d.ht[0].used # 0
      BY DEF RehashRound
    <3>2. MoveChain(d) = Ends(d, "crashed")
      BY <2>1, <3>1, NoTableIs DEF Sound, MoveChain
    <3>3. Access(d.ht[0], d.rehashidx) # "hung"
      BY NoWalkHangs
    <3>4. d' = [d EXCEPT !.rehashidx = @ + 1] \/ \E how : how # "hung" /\ d' = Ends(d, how)
      BY <3>1, <3>2, <3>3 DEF Round
    <3> QED BY <1>1, <2>1, <2>2, <3>4 DEF Running, Shape
  <2>6. ~RehashEnd
    <3> SUFFICES ASSUME RehashEnd PROVE FALSE
      OBVIOUS
    <3>1. dictIsRehashing(d) /\ d' = AfterRounds(d)
      BY <1>1, <2>1 DEF RehashEnd, FitInv, IInv
    <3> QED BY <1>1, <2>1, <3>1, FinishGood DEF AfterRounds, Running
  <2>7. ~GetRandomKey
    BY <1>1, <2>1, RandomKeyEnds DEF GetRandomKey
  <2>8. ASSUME Scan PROVE HangsWhereAsked'
    <3>1. ended'.call = "dictScan"
      BY <2>0, <2>8 DEF Scan
    <3>2. dictSize(d) # 0 /\ d'.ht = d.ht
      BY <2>1, <2>8 DEF Scan, Ends, Shape
    <3>3. dictSize(d') > 0
      BY <2>1, <3>2 DEF Shape, dictSize
    <3> QED BY <3>1, <3>3 DEF HangsWhereAsked, dictSize
  <2>9. ASSUME NEW key \in Keys
        PROVE  ~Add(key) /\ ~Replace(key) /\ ~Find(key) /\ ~Delete(key) /\ ~FindEntryRef(key)
    <3>1. ~Add(key)
      BY <1>1, <2>1, AddEnds DEF Add, Fresh
    <3>2. ~Replace(key)
      <4> SUFFICES ASSUME NEW a \in Fresh, d' = dictReplace(d, key, dict_can_resize, a)
                   PROVE  FALSE
        BY DEF Replace
      <4> DEFINE f == dictAddRaw(d, key, dict_can_resize, a)
      <4>1. f.process # "hung" /\ Good(f)
        BY <2>1, AddEnds, AddKeeps DEF Fresh, Keeps
      <4>2. d' \in {f, Ends(f, "undefined")}
        BY DEF dictReplace
      <4> HIDE DEF f
      <4> QED BY <1>1, <4>1, <4>2, EndsIs
    <3>3. ~Find(key)
      <4> DEFINE d1 == _dictRehashStep(d)
      <4>1. Good(d1) /\ Running(d1) /\ Probe(d1.ht[0], key) # "hung"
        BY <2>1, StepKeeps, NoWalkHangs DEF Keeps
      <4>2. dictFind(d, key) \in {d1, Ends(d1, Probe(d1.ht[0], key))}
        BY DEF dictFind
      <4> HIDE DEF d1
      <4> QED BY <1>1, <4>1, <4>2, EndsIs DEF Find, Running
    <3>4. ~Delete(key)
      BY <2>1, DeletesNothing DEF Delete
    <3>5. ~FindEntryRef(key)
      BY <2>1, <2>2, NoWalkHangs DEF FindEntryRef
    <3> QED BY <3>1, <3>2, <3>3, <3>4, <3>5
  <2>10. ~GetStats
    <3>1. StatsWalk(d.ht[0]) # "hung" /\ StatsWalk(d.ht[1]) # "hung"
      BY NoWalkHangs
    <3> QED BY <2>2, <3>1 DEF GetStats
  <2>11. ~Empty /\ ~Release
    <3> DEFINE c == ClearBoth(d)
    <3>1. c.process # "hung" /\ Good(c)
      BY <2>1, ClearEnds, ClearBothGood
    <3>2. [c EXCEPT !.rehashidx = -1, !.iterator = 0].process = c.process
      BY <3>1 DEF Good, Shape
    <3>3. ~Empty
      BY <1>1, <3>1, <3>2 DEF Empty
    <3>4. ~Release
      BY <1>1, <3>1, EndsIs DEF Release
    <3> QED BY <3>3, <3>4
  <2>12. ASSUME NEW x \in Iterators PROVE ~Advance(x) /\ ~ReleaseIterator(x)
    <3>1. ~Advance(x)
      <4> SUFFICES ASSUME Advance(x) PROVE FALSE
        OBVIOUS
      <4>1. \A t, i : Access(d.ht[t], i) # "hung"
        BY NoWalkHangs
      <4> DEFINE it == iter[x]
                 rest == IF it.chain = <<>> THEN <<>> ELSE Tail(it.chain)
                 found == Search(it)
                 reached == IF found.hit THEN Access(d.ht[found.table], found.index)
                            ELSE "running"
                 entries == IF found.hit /\ reached = "running"
                            THEN d.ht[found.table].bucket[found.index] ELSE <<>>
                 Reads(chain) == IF chain # <<>> /\ Head(chain) = Garbage THEN "crashed"
                                 ELSE "running"
      <4>2. \/ d' = Ends(d, Reads(rest))
            \/ \E n : d' = [d EXCEPT
                   !.process = IF reached # "running" THEN reached ELSE Reads(entries),
                   !.iterator = n]
        BY DEF Advance
      <4>3. /\ reached # "hung" /\ Reads(rest) # "hung" /\ Reads(entries) # "hung"
        BY <4>1
      <4> HIDE DEF reached, entries, rest, Reads
      <4> QED BY <1>1, <2>1, <2>2, <4>2, <4>3 DEF Shape
    <3>2. ~ReleaseIterator(x)
      <4>1. CountReleased(d).process = d.process
        BY <2>1 DEF CountReleased, Shape
      <4> QED BY <1>1, <2>1, <2>2, <4>1 DEF ReleaseIterator, Running
    <3> QED BY <3>1, <3>2
  <2>13. ~SampleRehash
    BY <1>1, <2>1, StepKeeps DEF SampleRehash, Running
  <2>14. ~SampleTurn
    <3> SUFFICES ASSUME SampleTurn PROVE FALSE
      OBVIOUS
    <3>1. sample # NULL /\ ~TurnsAgain(sample)
      BY <1>1, NoTurn DEF SampleTurn, FitInv, IInv
    <3>2. d' \in IF sample.fair /\ sample.stored = 0 THEN RandomKeyResults ELSE {d}
      BY <3>1 DEF SampleTurn
    <3> QED BY <1>1, <2>1, <3>2, RandomKeyEnds
  <2>15. /\ ~Rehash /\ ~SetResize
         /\ \A count, fair : ~SomeKeys(count, fair)
         /\ \A x \in Iterators, safe \in BOOLEAN : ~GetIterator(x, safe)
    BY <2>1 DEF Rehash, SetResize, SomeKeys, GetIterator
  <2> QED BY <2>3, <2>4, <2>5, <2>6, <2>7, <2>8, <2>9, <2>10, <2>11, <2>12, <2>13,
             <2>14, <2>15, <1>1 DEF Next
<1>2. Init => HangsWhereAsked
  BY DEF Init, NewDict, HangsWhereAsked
<1>3. FitInv /\ HangsWhereAsked /\ [Next]_vars => HangsWhereAsked'
  <2>1. d'.process # "hung" => HangsWhereAsked'
    BY DEF HangsWhereAsked
  <2>2. HangsWhereAsked /\ UNCHANGED vars => HangsWhereAsked'
    BY DEF HangsWhereAsked, vars, dictSize
  <2> QED BY <1>1, <2>1, <2>2
<1> QED BY <1>2, <1>3, FitInvariant, PTL DEF Spec
=============================================================================
