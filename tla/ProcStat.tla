------------------------------ MODULE ProcStat ------------------------------
(***************************************************************************)
(* What redis/src/zmalloc.c reads from /proc: the resident memory of the   *)
(* process from its stat file, and the sum of a field of a smaps file.     *)
(* util_test/cpp/get_pid_memory.c is an older copy of the first.           *)
(*                                                                         *)
(* The stat file is a row of words between spaces; the name of the program *)
(* is the second of its fields, and may hold spaces itself.  The value of  *)
(* a field is its number, and the size of a page is 1.  A smaps file is a  *)
(* row of lines, TRUE for those that start with the field asked for, each  *)
(* of which counts 1.                                                      *)
(***************************************************************************)
EXTENDS Integers, Sequences

CONSTANTS FIELDS,       \* fields of a stat file
          MaxSpaces,    \* in the name of a program
          MaxLines,     \* bound: lines of a smaps file
          MaxFds,       \* bound: descriptors left open
          NULL

RSS == 24

ASSUME ProcConstants ==
    /\ FIELDS \in Nat /\ FIELDS > RSS
    /\ MaxSpaces \in 0 .. (RSS - 4)
    /\ MaxLines \in Nat /\ MaxFds \in Nat /\ NULL \notin Int

VARIABLES program,      \* "server", or "demo": the copy
          spaces,       \* in its name
          pc, fds,      \* open descriptors
          p, count,     \* the word p points to, NULL at the end; steps to go
          lines, bytes, \* what fgets has not read, and the sum
          result        \* of the last call

vars == <<program, spaces, pc, fds, p, count, lines, bytes, result>>

Init ==
    /\ program \in {"server", "demo"} /\ spaces \in 0 .. MaxSpaces
    /\ pc = "idle" /\ fds = 0
    /\ p = 1 /\ count = 0 /\ lines = <<>> /\ bytes = 0
    /\ result = 0

Return(value) == pc' = "idle" /\ result' = value

zmalloc_get_rss ==
    /\ pc = "idle" /\ fds < MaxFds /\ pc' = "open"
    /\ UNCHANGED <<program, spaces, fds, p, count, lines, bytes, result>>

\* The copy closes the -1 that open gave it, to no effect.
Open ==
    /\ pc = "open"
    /\ \/ Return(0) /\ UNCHANGED fds
       \/ pc' = "read" /\ fds' = fds + 1 /\ UNCHANGED result
    /\ UNCHANGED <<program, spaces, p, count, lines, bytes>>

\* Mutant: it opens the file again.
ReadFailsRetries ==
    /\ pc = "read" /\ pc' = "open"
    /\ fds' = fds - 1
    /\ UNCHANGED <<program, spaces, p, count, lines, bytes, result>>

\* Mutant: the server too leaves the file open.
ReadFailsOpen ==
    /\ pc = "read"
    /\ Return(0)
    /\ UNCHANGED <<program, spaces, fds, p, count, lines, bytes>>

ReadFails ==
    /\ pc = "read"
    /\ Return(0)
    /\ fds' = IF program = "demo" THEN fds ELSE fds - 1
    /\ UNCHANGED <<program, spaces, p, count, lines, bytes>>

\* Mutant: the number of the field, not of the spaces before it.
steps_field == RSS
steps == 23

Read ==
    /\ pc = "read" /\ pc' = "count"
    /\ fds' = fds - 1
    /\ p' = 1 /\ count' = steps
    /\ UNCHANGED <<program, spaces, lines, bytes, result>>

words == FIELDS + spaces

Step ==
    /\ pc = "count" /\ p # NULL /\ count > 0
    /\ p' = IF p < words THEN p + 1 ELSE NULL
    /\ count' = count - 1
    /\ UNCHANGED <<program, spaces, pc, fds, lines, bytes, result>>

\* strtoll of word w: the words of the name are not numbers.
strtoll(w) == IF w = 1 THEN 1 ELSE IF w <= 2 + spaces THEN 0 ELSE w - spaces

Convert ==
    /\ pc = "count" /\ (p = NULL \/ count = 0)
    /\ Return(IF p = NULL \/ p = words THEN 0 ELSE strtoll(p))
    /\ UNCHANGED <<program, spaces, fds, p, count, lines, bytes>>

\* zmalloc_get_private_dirty, for a process of any kind: some have no mappings.
\* The maps file, read when pid is -1, is one without the field.
zmalloc_get_smap_bytes_by_field ==
    /\ pc = "idle" /\ program = "server" /\ fds < MaxFds
    /\ \/ Return(0) /\ UNCHANGED <<fds, lines, bytes>>
       \/ /\ pc' = "fgets" /\ fds' = fds + 1 /\ bytes' = 0
          /\ \E n \in 0 .. MaxLines : lines' \in [1 .. n -> BOOLEAN]
          /\ UNCHANGED result
    /\ UNCHANGED <<program, spaces, p, count>>

\* Mutant: the loop goes on while there is a line.
goes_on_with_line(got) == got
goes_on(got) == ~got

\* The loop condition, and its body; what fgets has not filled in is undefined.
Fgets ==
    LET got == lines # <<>>
        counts == IF got THEN {Head(lines)} ELSE BOOLEAN
    IN  /\ pc = "fgets"
        /\ lines' = IF got THEN Tail(lines) ELSE lines
        /\ IF goes_on(got)
           THEN /\ \E c \in counts : bytes' = IF c /\ bytes < MaxLines THEN bytes + 1 ELSE bytes
                /\ UNCHANGED <<pc, fds, result>>
           ELSE Return(bytes) /\ fds' = fds - 1 /\ UNCHANGED bytes
        /\ UNCHANGED <<program, spaces, p, count>>

Next ==
    \/ zmalloc_get_rss \/ Open \/ ReadFails \/ Read \/ Step \/ Convert
    \/ zmalloc_get_smap_bytes_by_field \/ Fgets

Running == Open \/ ReadFails \/ Read \/ Step \/ Convert \/ Fgets

Spec == Init /\ [][Next]_vars /\ WF_vars(Running)
-----------------------------------------------------------------------------
\* The search never runs out of words: p is not NULL, nor past word RSS.
TypeOK ==
    /\ program \in {"server", "demo"} /\ spaces \in 0 .. MaxSpaces
    /\ pc \in {"idle", "open", "read", "count", "fgets"}
    /\ fds \in 0 .. MaxFds
    /\ p \in 1 .. RSS /\ count \in 0 .. steps
    /\ lines \in Seq(BOOLEAN) /\ bytes \in Nat /\ result \in 0 .. FIELDS

\* The server leaves no descriptor open, whatever fails; the copy does when it
\* cannot read (zmalloc.c:116-123, 174-187, get_pid_memory.c:22).
DescriptorsClosed ==
    program = "server" => fds = (IF pc \in {"read", "fgets"} THEN 1 ELSE 0)

\* The number returned is the rss only if the name of the program has no space:
\* every space in it moves the choice one field to the left (zmalloc.c:126-132).
FieldMovesWithSpaces ==
    [][Convert => result' = RSS - spaces]_vars

\* The comment on zmalloc_get_rss: the rss field (zmalloc.c:106).
RssOrNothing ==
    [][Convert => result' \in {0, RSS}]_vars

\* The sum of a field is 0 for every file: the loop is left at the first line
\* (zmalloc.c:178).
SumsNothing ==
    [][pc = "fgets" /\ pc' = "idle" => result' = 0]_vars

\* A call returns, except on a file without lines, which fgets is asked for a
\* line of for ever (zmalloc.c:127, 178).
CallsReturn ==
    pc # "idle" ~> pc = "idle" \/ (pc = "fgets" /\ lines = <<>>)
=============================================================================
