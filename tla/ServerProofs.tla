---------------------------- MODULE ServerProofs ----------------------------
(***************************************************************************)
(* Proofs about what main sets up: the log (ServerLog), for any messages   *)
(* and configuration, and the CRC and its tables (Crc64), for words and    *)
(* bytes of every width and messages of every length.                      *)
(***************************************************************************)
EXTENDS ServerLog, Crc64, FiniteSetTheorems, CommonLemmas

-----------------------------------------------------------------------------
InCall == {"serverLog", "serverLogRaw", "open", "write", "close", "syslog"}

LogLine == [of : Nat, level : Nat, time : BOOLEAN, role : {"none", "X", "C"},
         text : {"msg", "undefined"}]
SyslogRecord == [of : Nat, level : Nat]
Message == [level : Nat, openable : BOOLEAN]

LogTypes ==
    /\ LogTypeOK
    /\ verbosity \in Nat
    /\ logfile \in {"NULL", "path"} /\ syslog_enabled \in BOOLEAN
    /\ calls \in Seq(Message)
    /\ log \in Seq(LogLine) /\ syslog \in Seq(SyslogRecord)

\* What the place of a call says of the checks its message has passed.
Passed ==
    /\ at \in InCall => Len(calls) > 0
    /\ at \in {"serverLog", "serverLogRaw"} => level = message.level
    /\ at \in {"open", "write", "close", "syslog"} =>
          level = message.level % 256 /\ level >= verbosity
    /\ at \in {"write", "close", "syslog"} => logfile = "NULL" \/ message.openable
    /\ at = "syslog" => syslog_enabled

\* The messages that the log, or syslog, is through with.
Logged == IF at \in {"serverLog", "serverLogRaw", "open", "write"}
          THEN Len(calls) - 1 ELSE Len(calls)
Sent == IF at \in InCall THEN Len(calls) - 1 ELSE Len(calls)

Delivered == at # "crash" => /\ Records(log, Logged, TRUE)
                             /\ Records(syslog, Sent, syslog_enabled)

\* A stream of the log file is open from Open to Close only.
Closed == at # "crash" =>
    open_files = IF at \in {"write", "close"} /\ logfile = "path" THEN 1 ELSE 0

LogInv == LogTypes /\ Passed /\ Delivered /\ Closed

\* A line for the next message.
LEMMA RecordsOneMore ==
    ASSUME NEW R, NEW lines \in Seq(R), NEW N \in Nat, NEW wanted, NEW line,
           Records(lines, N, wanted), line.of = N + 1, wanted /\ Due(N + 1)
    PROVE  Records(Append(lines, line), N + 1, wanted)
<1> DEFINE more == Append(lines, line)
<1>1. /\ DOMAIN more = DOMAIN lines \cup {Len(lines) + 1} /\ Len(lines) \in Nat
      /\ DOMAIN lines = 1 .. Len(lines)
      /\ more[Len(lines) + 1] = line
      /\ \A i \in DOMAIN lines : more[i] = lines[i]
  OBVIOUS
<1>2. \A i \in DOMAIN lines : lines[i].of \in 1 .. N
  BY DEF Records
<1> HIDE DEF more
<1>3. \A i, j \in DOMAIN more : i < j => more[i].of < more[j].of
  BY <1>1, <1>2 DEF Records
<1>4. {more[i].of : i \in DOMAIN more} = {k \in 1 .. (N + 1) : wanted /\ Due(k)}
  <2>1. {more[i].of : i \in DOMAIN more} = {lines[i].of : i \in DOMAIN lines} \cup {N + 1}
    BY <1>1
  <2>2. {k \in 1 .. (N + 1) : wanted /\ Due(k)} = {k \in 1 .. N : wanted /\ Due(k)} \cup {N + 1}
    OBVIOUS
  <2> QED BY <2>1, <2>2 DEF Records
<1> QED BY <1>3, <1>4 DEF Records, more

\* No line for the next message.
LEMMA RecordsNoMore ==
    ASSUME NEW lines, NEW N \in Nat, NEW wanted,
           Records(lines, N, wanted), ~(wanted /\ Due(N + 1))
    PROVE  Records(lines, N + 1, wanted)
<1>1. {k \in 1 .. (N + 1) : wanted /\ Due(k)} = {k \in 1 .. N : wanted /\ Due(k)}
  OBVIOUS
<1> QED BY <1>1 DEF Records

\* A call more does not change what is due of the calls before it.
LEMMA RecordsKept ==
    ASSUME NEW lines, NEW N \in Nat, NEW wanted, Records(lines, N, wanted),
           \A k \in 1 .. N : Due(k)' <=> Due(k)
    PROVE  /\ \A i, j \in DOMAIN lines : i < j => lines[i].of < lines[j].of
           /\ {lines[i].of : i \in DOMAIN lines} = {k \in 1 .. N : wanted /\ Due(k)'}
<1>1. {k \in 1 .. N : wanted /\ Due(k)'} = {k \in 1 .. N : wanted /\ Due(k)}
  OBVIOUS
<1> QED BY <1>1 DEF Records

LEMMA LogInitInv == LogInit => LogInv
<1> SUFFICES ASSUME LogInit PROVE LogInv
  OBVIOUS
<1>1. LogTypes
  <2>1. \A R : <<>> \in Seq(R)
    OBVIOUS
  <2>2. log \in Seq(LogLine) /\ syslog \in Seq(SyslogRecord)
        /\ calls \in Seq(Message)
    BY <2>1 DEF LogInit
  <2> QED BY <2>2, LevelsOK DEF LogInit, LogTypes, LogTypeOK
<1>2. Records(<<>>, 0, TRUE) /\ Records(<<>>, 0, syslog_enabled)
  BY DEF Records
<1> QED BY <1>1, <1>2 DEF LogInit, LogInv, Passed, Delivered, Logged, Sent, InCall, Closed
\* A message enters, from a caller or from the handler.
LEMMA EnterStep ==
    ASSUME LogInv, NEW l \in Nat, NEW function \in {"serverLog", "serverLogRaw"},
           at = "idle", Enter(l, function), oom' \in BOOLEAN
    PROVE  LogInv'
<1> USE DEF LogInv
<1>1. PICK openable \in BOOLEAN :
          calls' = Append(calls, [level |-> l, openable |-> openable])
  BY DEF Enter
<1>0. PICK N \in Nat : N = Len(calls)
  BY DEF LogTypes
<1>2. /\ Len(calls') = N + 1
      /\ calls'[N + 1] = [level |-> l, openable |-> openable]
      /\ \A k \in 1 .. N : calls'[k] = calls[k]
      /\ calls' \in Seq(Message)
  <2>1. [level |-> l, openable |-> openable] \in Message
    BY DEF Message
  <2> QED BY <1>1, <1>0, <2>1 DEF LogTypes
<1>3. /\ at' = function /\ level' = l /\ open_files = 0
      /\ UNCHANGED <<verbosity, logfile, syslog_enabled, raw, open_files, log, syslog>>
  BY DEF Enter, config, Closed
<1>4. LogTypes'
  BY <1>2, <1>3 DEF LogTypes, LogTypeOK
<1>5. Passed'
  BY <1>2, <1>3, <1>0 DEF Passed, message, InCall
<1>6. \A k \in 1 .. N : Due(k)' <=> Due(k)
  BY <1>2, <1>3 DEF Due
<1>7. Records(log, N, TRUE) /\ Records(syslog, N, syslog_enabled)
  BY <1>0 DEF Delivered, Logged, Sent, InCall
<1>8. Logged' = N /\ Sent' = N
  BY <1>2, <1>3 DEF Logged, Sent, InCall
<1>9. Delivered'
  <2>1. Records(log, N, TRUE)'
    BY <1>2, <1>3, <1>6, <1>7, RecordsKept DEF Records
  <2>2. Records(syslog, N, syslog_enabled)'
    BY <1>2, <1>3, <1>6, <1>7, RecordsKept DEF Records
  <2> QED BY <1>3, <1>8, <2>1, <2>2 DEF Delivered, Records
<1> QED BY <1>3, <1>4, <1>5, <1>9 DEF Closed

\* What is known of the message of a call in progress, the last of the calls.
LEMMA Pending ==
    ASSUME LogInv, at \in InCall
    PROVE  \E N \in Nat :
              /\ Len(calls) = N + 1 /\ message = calls[N + 1]
              /\ message.level \in Nat /\ message.level % 256 \in 0 .. 255
              /\ Records(log, IF at \in {"close", "syslog"} THEN N + 1 ELSE N, TRUE)
              /\ Records(syslog, N, syslog_enabled)
<1> USE DEF LogInv
<1>1. Len(calls) \in Nat /\ Len(calls) > 0 /\ Len(calls) - 1 \in Nat
  BY DEF LogTypes, Passed
<1>2. PICK N \in Nat : Len(calls) = N + 1
  <2>1. Len(calls) = (Len(calls) - 1) + 1
    BY <1>1
  <2> HIDE DEF LogInv
  <2> QED BY <1>1, <2>1
<1>3. message \in Message /\ message = calls[N + 1]
  <2>1. calls \in Seq(Message) /\ N + 1 \in 1 .. Len(calls)
    BY <1>2 DEF LogTypes
  <2>2. calls[N + 1] \in Message
    <3> HIDE DEF LogInv
    <3> QED BY <2>1
  <2> QED BY <1>2, <2>2 DEF message
<1>4. /\ Sent = N
      /\ Logged = IF at \in {"close", "syslog"} THEN N + 1 ELSE N
      /\ at # "crash"
  BY <1>2 DEF Sent, Logged, InCall
<1>5. message.level \in Nat /\ message.level % 256 \in 0 .. 255
  <2>1. message.level \in Nat
    BY <1>3 DEF Message
  <2> QED BY <2>1
<1>6. Records(log, IF at \in {"close", "syslog"} THEN N + 1 ELSE N, TRUE)
      /\ Records(syslog, N, syslog_enabled)
  BY <1>4 DEF Delivered
<1> HIDE DEF LogInv
<1> QED BY <1>2, <1>3, <1>5, <1>6

\* The filter of serverLog drops no message that is due: it drops only when
\* no level of 8 bits is high enough.
LEMMA DroppedNotDue ==
    ASSUME NEW k \in Nat, calls[k].level \in Nat, verbosity \in Nat,
           255 < verbosity
    PROVE  ~Due(k)
<1>1. calls[k].level % 256 < 256 /\ calls[k].level % 256 \in Nat
  OBVIOUS
<1> QED BY <1>1 DEF Due

\* A call that ends before its message is written leaves out one that is not
\* due.
LEMMA ReturnEarly ==
    ASSUME LogInv, at \in {"serverLog", "serverLogRaw", "open"}, ReturnFromLog,
           ~Due(Len(calls)), level' \in Nat, raw' \in BOOLEAN,
           UNCHANGED <<config, open_files, oom, calls, log, syslog>>
    PROVE  LogInv'
<1> USE DEF LogInv
<1>1. PICK N \in Nat :
          /\ Len(calls) = N + 1 /\ message = calls[N + 1]
          /\ message.level \in Nat /\ message.level % 256 \in 0 .. 255
          /\ Records(log, N, TRUE) /\ Records(syslog, N, syslog_enabled)
  BY Pending DEF InCall
<1>2. /\ at' \in {"idle", "exit"} /\ open_files' = 0 /\ Len(calls') = N + 1
      /\ UNCHANGED <<verbosity, logfile, syslog_enabled, oom, calls, log, syslog>>
  BY <1>1 DEF ReturnFromLog, config, LogTypes, LogTypeOK, Closed
<1>4. Records(log, N + 1, TRUE) /\ Records(syslog, N + 1, syslog_enabled)
  BY <1>1, RecordsNoMore
<1>5. Delivered'
  BY <1>1, <1>2, <1>4 DEF Delivered, Logged, Sent, InCall, Records, Due
<1>6. LogTypes'
  BY <1>2 DEF LogTypes, LogTypeOK
<1> QED BY <1>2, <1>5, <1>6 DEF Passed, InCall, Closed

\* A step inside a call that records nothing and finishes nothing.
LEMMA OnTheWay ==
    ASSUME LogInv, at \in {"serverLog", "serverLogRaw", "open"}, Passed',
           at' \in {"serverLogRaw", "open", "write"}, level' \in Nat,
           at' \in {"open", "write"} => level' < 256,
           raw' \in BOOLEAN, Closed', UNCHANGED <<config, oom, calls, log, syslog>>
    PROVE  LogInv'
<1> USE DEF LogInv
<1>1. UNCHANGED <<verbosity, logfile, syslog_enabled, oom, calls, log, syslog>>
  BY DEF config
<1>2. LogTypes'
  BY <1>1 DEF LogTypes, LogTypeOK, Closed
<1>3. Delivered'
  BY <1>1 DEF Delivered, Logged, Sent, InCall, Records, Due
<1> QED BY <1>2, <1>3

LEMMA WriteStep ==
    ASSUME LogInv, WriteRaw \/ Write
    PROVE  LogInv'
<1> USE DEF LogInv
<1>1. PICK N \in Nat :
          /\ Len(calls) = N + 1 /\ message = calls[N + 1]
          /\ message.level \in Nat /\ message.level % 256 \in 0 .. 255
          /\ Records(log, N, TRUE) /\ Records(syslog, N, syslog_enabled)
  BY Pending DEF InCall, WriteRaw, Write
<1>2. /\ at = "write"
      /\ UNCHANGED <<verbosity, logfile, syslog_enabled, level, raw, open_files, oom, calls, syslog>>
  BY DEF WriteRaw, Write, config
<1>3. /\ Due(N + 1)
      /\ level < 256 /\ level \in Nat
  BY <1>1, <1>2 DEF Passed, Due, LogTypes, LogTypeOK
<1>4. CASE /\ at' = "close"
           /\ \E line \in LogLine : line.of = N + 1 /\ log' = Append(log, line)
  <2>1. PICK line \in LogLine : line.of = N + 1 /\ log' = Append(log, line)
    BY <1>4
  <2>2. Records(log', N + 1, TRUE) /\ log' \in Seq(LogLine)
    <3>1. log \in Seq(LogLine)
      BY DEF LogTypes
    <3>2. Append(log, line) \in Seq(LogLine)
      BY <3>1
    <3>3. Records(Append(log, line), N + 1, TRUE)
      BY <1>1, <1>3, <2>1, <3>1, RecordsOneMore
    <3> QED BY <2>1, <3>2, <3>3
  <2>3. Delivered'
    <3>1. Logged' = N + 1 /\ Sent' = N
      BY <1>1, <1>2, <1>4 DEF Logged, Sent, InCall
    <3>2. Records(log, N + 1, TRUE)'
      BY <1>2, <2>2 DEF Records, Due
    <3>3. Records(syslog, N, syslog_enabled)'
      BY <1>1, <1>2 DEF Records, Due
    <3> QED BY <3>1, <3>2, <3>3 DEF Delivered, Records
  <2>4. LogTypes'
    BY <1>2, <1>3, <1>4, <2>2 DEF LogTypes, LogTypeOK
  <2>5. Passed'
    BY <1>2, <1>4 DEF Passed, InCall, message
  <2> QED BY <1>2, <1>4, <2>3, <2>4, <2>5 DEF Closed
<1>5. CASE at' = "crash" /\ log' = log
  <2>1. LogTypes'
    BY <1>2, <1>5 DEF LogTypes, LogTypeOK
  <2>2. Passed' /\ Closed'
    BY <1>2, <1>5 DEF Passed, InCall, Closed
  <2>3. Delivered'
    BY <1>2, <1>5 DEF Delivered
  <2> QED BY <2>1, <2>2, <2>3
<1>6. ASSUME WriteRaw
      PROVE  /\ at' = "close"
             /\ \E line \in LogLine : line.of = N + 1 /\ log' = Append(log, line)
  <2>1. [of |-> N + 1, level |-> level, time |-> FALSE, role |-> "none", text |-> "msg"]
          \in LogLine
    BY <1>3 DEF LogLine
  <2> QED BY <1>1, <1>6, <2>1 DEF WriteRaw
<1>7. ASSUME Write
      PROVE  \/ at' = "crash" /\ log' = log
             \/ /\ at' = "close"
                /\ \E line \in LogLine : line.of = N + 1 /\ log' = Append(log, line)
  <2>1. [of |-> N + 1, level |-> level, time |-> TRUE, role |-> role_char, text |-> "undefined"]
          \in LogLine
    BY <1>3 DEF LogLine, role_char
  <2> QED BY <1>1, <1>7, <2>1 DEF Write
<1> QED BY <1>4, <1>5, <1>6, <1>7

LEMMA CloseStep ==
    ASSUME LogInv, Close
    PROVE  LogInv'
<1> USE DEF LogInv
<1>1. PICK N \in Nat :
          /\ Len(calls) = N + 1 /\ message = calls[N + 1]
          /\ message.level \in Nat /\ message.level % 256 \in 0 .. 255
          /\ Records(log, N + 1, TRUE) /\ Records(syslog, N, syslog_enabled)
  BY Pending DEF InCall, Close
<1>2. /\ at = "close" /\ open_files' = 0
      /\ UNCHANGED <<verbosity, logfile, syslog_enabled, level, raw, oom, calls, log, syslog>>
      /\ IF syslog_enabled THEN at' = "syslog" ELSE at' \in {"idle", "exit"}
  BY DEF Close, Closed, ReturnFromLog, config, LogTypes, LogTypeOK
<1>3. ~syslog_enabled => Records(syslog, N + 1, syslog_enabled)
  BY <1>1, RecordsNoMore
<1>4. Records(log, N + 1, TRUE)
  BY <1>1
<1>5. Delivered'
  BY <1>1, <1>2, <1>3, <1>4 DEF Delivered, Logged, Sent, InCall, Records, Due
<1>6. LogTypes'
  BY <1>2 DEF LogTypes, LogTypeOK
<1>7. Passed'
  BY <1>2 DEF Passed, InCall, message, LogTypes
<1> QED BY <1>2, <1>5, <1>6, <1>7 DEF Closed

LEMMA SyslogStep ==
    ASSUME LogInv, Syslog
    PROVE  LogInv'
<1> USE DEF LogInv
<1>1. PICK N \in Nat :
          /\ Len(calls) = N + 1 /\ message = calls[N + 1]
          /\ message.level \in Nat /\ message.level % 256 \in 0 .. 255
          /\ Records(log, N + 1, TRUE) /\ Records(syslog, N, syslog_enabled)
  BY Pending DEF InCall, Syslog
<1>2. /\ at = "syslog" /\ open_files' = 0 /\ syslog_enabled /\ at' \in {"idle", "exit"}
      /\ UNCHANGED <<verbosity, logfile, syslog_enabled, level, raw, oom, calls, log>>
      /\ syslog' = Append(syslog, [of |-> N + 1, level |-> level])
      /\ [of |-> N + 1, level |-> level] \in SyslogRecord
  BY <1>1 DEF Syslog, Closed, ReturnFromLog, config, LogTypes, LogTypeOK, Passed, SyslogRecord
<1>3. Due(N + 1)
  BY <1>1, <1>2 DEF Passed, Due
<1>4. Records(syslog', N + 1, syslog_enabled) /\ syslog' \in Seq(SyslogRecord)
  <2>1. syslog \in Seq(SyslogRecord)
    BY DEF LogTypes
  <2>2. Append(syslog, [of |-> N + 1, level |-> level]) \in Seq(SyslogRecord)
    BY <1>2, <2>1
  <2>3. Records(Append(syslog, [of |-> N + 1, level |-> level]), N + 1, syslog_enabled)
    <3>1. PICK line \in SyslogRecord : line = [of |-> N + 1, level |-> level]
      BY <1>2
    <3>2. line.of = N + 1
      BY <3>1
    <3> QED BY <1>1, <1>2, <1>3, <2>1, <3>1, <3>2, RecordsOneMore
  <2> QED BY <1>2, <2>2, <2>3
<1>5. Delivered'
  BY <1>1, <1>2, <1>3, <1>4 DEF Delivered, Logged, Sent, InCall, Records, Due
<1>6. LogTypes'
  BY <1>2, <1>4 DEF LogTypes, LogTypeOK
<1> QED BY <1>2, <1>5, <1>6 DEF Passed, InCall, Closed

LEMMA LogStepInv == LogInv /\ [LogNext]_logVars => LogInv'
<1> SUFFICES ASSUME LogInv, [LogNext]_logVars PROVE LogInv'
  OBVIOUS
<1> USE DEF LogInv
<1>1. CASE Main
  BY <1>1 DEF Main, LogTypes, LogTypeOK, Passed, InCall, Delivered, Logged, Sent, Records,
              Due, Closed
<1>2. ASSUME NEW l \in Levels, NEW f \in {"serverLog", "serverLogRaw"}, Log(l, f)
      PROVE  LogInv'
  BY <1>2, EnterStep, LevelsOK DEF Log, LogTypes, LogTypeOK
<1>3. CASE redisOutOfMemoryHandler
  BY <1>3, EnterStep, LevelsOK DEF redisOutOfMemoryHandler
<1>4. CASE serverLogReturn
  <2>1. ~Due(Len(calls))
    <3>1. PICK N \in Nat : Len(calls) = N + 1 /\ message = calls[N + 1] /\ message.level \in Nat
      BY <1>4, Pending DEF serverLogReturn, InCall
    <3> QED BY <1>4, <3>1, DroppedNotDue DEF serverLogReturn, dropped_by_serverLog, LogTypes
  <2> QED BY <1>4, <2>1, ReturnEarly DEF serverLogReturn, LogTypes, LogTypeOK
<1>5. CASE serverLogPass
  <2>1. Passed'
    BY <1>5 DEF serverLogPass, Passed, InCall, message
  <2>2. Closed'
    BY <1>5 DEF serverLogPass, Closed, config
  <2> QED BY <1>5, <2>1, <2>2, OnTheWay DEF serverLogPass, LogTypes, LogTypeOK
<1>6. CASE Filter
  <2>0. message.level \in Nat /\ message.level % 256 \in 0 .. 255
    BY <1>6, Pending DEF Filter, InCall
  <2>1. /\ level' = message.level % 256 /\ level' \in Nat /\ level' < 256
        /\ raw' \in BOOLEAN /\ at = "serverLogRaw" /\ message = calls[Len(calls)]
        /\ UNCHANGED <<config, open_files, oom, calls, log, syslog>>
    BY <1>6, <2>0 DEF Filter, Passed, message
  <2>2. CASE level' < verbosity
    <3>1. ~Due(Len(calls))
      BY <2>1, <2>2 DEF Due, LogTypes
    <3>2. ReturnFromLog
      BY <1>6, <2>2 DEF Filter
    <3> QED BY <2>1, <3>1, <3>2, ReturnEarly
  <2>3. CASE ~(level' < verbosity)
    <3>1. at' = "open" /\ Closed'
      BY <1>6, <2>3 DEF Filter, Closed, config
    <3>2. Passed'
      BY <2>1, <2>3, <3>1 DEF Passed, InCall, message, LogTypes, config
    <3> QED BY <2>1, <3>1, <3>2, OnTheWay DEF LogTypes, LogTypeOK
  <2> QED BY <2>2, <2>3
<1>7. CASE OpenFails
  <2>1. ~Due(Len(calls))
    BY <1>7 DEF OpenFails, Due, message
  <2> QED BY <1>7, <2>1, ReturnEarly DEF OpenFails, LogTypes, LogTypeOK
<1>8. CASE Open
  <2>1. Passed'
    BY <1>8 DEF Open, Passed, InCall, message, config
  <2>2. Closed'
    BY <1>8 DEF Open, Closed, LogTypes, config
  <2> QED BY <1>8, <2>1, <2>2, OnTheWay DEF Open, LogTypes, LogTypeOK
<1>9. CASE WriteRaw \/ Write
  BY <1>9, WriteStep
<1>10. CASE Close
  BY <1>10, CloseStep
<1>11. CASE Syslog
  BY <1>11, SyslogStep
<1>12. CASE UNCHANGED logVars
  BY <1>12 DEF logVars, config, LogTypes, LogTypeOK, Passed, InCall, message, Delivered,
               Logged, Sent, Records, Due, Closed
<1> QED
  BY <1>1, <1>2, <1>3, <1>4, <1>5, <1>6, <1>7, <1>8, <1>9, <1>10, <1>11, <1>12
  DEF LogNext, LogStep

LEMMA LogInvHolds == LogSpec => []LogInv
BY LogInitInv, LogStepInv, PTL DEF LogSpec

\* For any messages, levels and verbosity, with a file that comes and goes,
\* the log and syslog hold the due messages once each and in order whenever
\* no call is in progress (server.c:7-69).
THEOREM LogDelivers == LogSpec => []DeliveredExactly
<1>1. LogInv => DeliveredExactly
  BY DEF LogInv, Delivered, Logged, Sent, InCall, DeliveredExactly, Finished
<1> QED BY <1>1, LogInvHolds, PTL

\* Every way out of a call closes what it opened (server.c:20-23, 47-50).
THEOREM LogCloses == LogSpec => []FileClosed
<1>1. LogInv => FileClosed
  BY DEF LogInv, Closed, FileClosed, Finished
<1> QED BY <1>1, LogInvHolds, PTL

\* The locals keep their types; a level is below 256 once it is masked.
THEOREM LogTypeCorrect == LogSpec => []LogTypeOK
<1>1. LogInv => LogTypeOK
  BY DEF LogInv, LogTypes
<1> QED BY <1>1, LogInvHolds, PTL

-----------------------------------------------------------------------------
LEMMA Widths ==
    /\ W \in Nat /\ W > 0 /\ BYTE \in Nat /\ BYTE > 0
    /\ \E q \in Nat \ {0} : W = (4 * BYTE) * q
    /\ W >= 4 * BYTE
    /\ W - 1 \in 0 .. (W - 1)
<1>1. W \in Nat \ {0} /\ BYTE \in Nat \ {0} /\ 4 * BYTE \in Nat \ {0} /\ W % (4 * BYTE) = 0
  BY WidthsOK
<1>2. PICK M \in Nat \ {0} : M = 4 * BYTE
  BY <1>1
<1>3. PICK q \in Nat, r \in 0 .. (M - 1) : W = M * q + r
  BY <1>1, DivideNat
<1>4. r = 0
  <2>1. W % M = r
    BY <1>3, DivisionUnique
  <2> QED BY <1>1, <1>2, <2>1
<1>5. q # 0 /\ W = M * q
  <2>1. M * q \in Nat /\ M * 0 = 0
    BY <1>3
  <2> QED BY <1>1, <1>3, <1>4, <2>1
<1>6. W >= M
  <2>1. M * 0 + M <= M * q /\ M * 0 = 0
    BY <1>5, MultipleGrows
  <2> QED BY <1>5, <2>1
<1> QED BY <1>1, <1>2, <1>5, <1>6

-----------------------------------------------------------------------------
LEMMA DisjointUnion ==
    ASSUME NEW A, NEW B, IsFiniteSet(A), IsFiniteSet(B), A \cap B = {}
    PROVE  Cardinality(A \cup B) = Cardinality(A) + Cardinality(B)
<1>1. Cardinality(A \cup B) = Cardinality(A) + Cardinality(B) - Cardinality(A \cap B)
  BY FS_Union
<1>2. Cardinality(A \cap B) = 0
  BY FS_EmptySet
<1>3. Cardinality(A) \in Nat /\ Cardinality(B) \in Nat
  BY FS_CardinalityType
<1> QED BY <1>1, <1>2, <1>3

\* How many elements a set has matters only modulo two.
Odd(A) == Cardinality(A) % 2 = 1

LEMMA OddXor ==
    ASSUME NEW A, NEW B, IsFiniteSet(A), IsFiniteSet(B)
    PROVE  Odd(Xor(A, B)) <=> ~(Odd(A) <=> Odd(B))
<1> DEFINE a == A \ B
           b == B \ A
           c == A \cap B
<1>1. IsFiniteSet(a) /\ IsFiniteSet(b) /\ IsFiniteSet(c)
  BY FS_Subset
<1>2. /\ Cardinality(a) \in Nat /\ Cardinality(b) \in Nat /\ Cardinality(c) \in Nat
  BY <1>1, FS_CardinalityType
<1>3. Cardinality(A) = Cardinality(a) + Cardinality(c)
  <2>1. a \cup c = A /\ a \cap c = {}
    OBVIOUS
  <2> QED BY <1>1, <2>1, DisjointUnion
<1>4. Cardinality(B) = Cardinality(b) + Cardinality(c)
  <2>1. b \cup c = B /\ b \cap c = {}
    OBVIOUS
  <2> QED BY <1>1, <2>1, DisjointUnion
<1>5. Cardinality(Xor(A, B)) = Cardinality(a) + Cardinality(b)
  <2>1. Xor(A, B) = a \cup b /\ a \cap b = {}
    BY DEF Xor
  <2> QED BY <1>1, <2>1, DisjointUnion
<1> HIDE DEF a, b, c
<1> QED BY <1>2, <1>3, <1>4, <1>5 DEF Odd

Shift(E, k) == {e + k : e \in E}

LEMMA OddShift ==
    ASSUME NEW E \in SUBSET Int, IsFiniteSet(E), NEW k \in Int
    PROVE  IsFiniteSet(Shift(E, k)) /\ (Odd(Shift(E, k)) <=> Odd(E))
<1> DEFINE f == [e \in E |-> e + k]
<1>1. f \in Bijection(E, Shift(E, k))
  <2>1. f \in [E -> Shift(E, k)]
    BY DEF Shift
  <2>2. \A x, y \in E : f[x] = f[y] => x = y
    OBVIOUS
  <2>3. \A y \in Shift(E, k) : \E x \in E : f[x] = y
    BY DEF Shift
  <2> HIDE DEF f
  <2> QED BY <2>1, <2>2, <2>3 DEF Bijection, Injection, IsInjective, Surjection
<1>2. ExistsBijection(E, Shift(E, k))
  BY <1>1 DEF ExistsBijection
<1> QED BY <1>2, FS_Bijection DEF Odd

LEMMA OddSmall == ~Odd({}) /\ \A x : Odd({x}) /\ IsFiniteSet({x})
<1>1. Cardinality({}) = 0
  BY FS_EmptySet
<1>2. ASSUME NEW x PROVE Cardinality({x}) = 1 /\ IsFiniteSet({x})
  BY FS_Singleton
<1>3. ~(0 % 2 = 1) /\ 1 % 2 = 1
  OBVIOUS
<1>4. ~Odd({})
  BY <1>1, <1>3 DEF Odd
<1>5. ASSUME NEW x PROVE Odd({x})
  BY <1>2, <1>3 DEF Odd
<1> QED BY <1>2, <1>4, <1>5

-----------------------------------------------------------------------------
LEMMA XorType == \A a, b \in Word : Xor(a, b) \in Word
BY DEF Word, Xor

LEMMA TimesType ==
    ASSUME NEW q \in Word, NEW r \in Word
    PROVE  Times_x(q, r) \in Word
<1> DEFINE up == {b + 1 : b \in r \ {W - 1}}
<1>1. up \in Word
  BY Widths DEF Word
<1>2. Times_x(q, r) = IF W - 1 \in r THEN Xor(up, q) ELSE up
  BY DEF Times_x
<1> HIDE DEF up
<1> QED BY <1>1, <1>2, XorType

\* The function of which PowerOf_x takes the last value.
Powers(q, e) == CHOOSE x : x =
    [k \in 0 .. e |-> IF k < W THEN {k} ELSE Times_x(q, x[k - 1])]

LEMMA PowersAre ==
    ASSUME NEW q \in Word, NEW e \in Nat
    PROVE  /\ Powers(q, e) \in [0 .. e -> Word]
           /\ \A k \in 0 .. e : Powers(q, e)[k] =
                 IF k < W THEN {k} ELSE Times_x(q, Powers(q, e)[k - 1])
<1> DEFINE step == [z \in Word \X (1 .. e) |->
                        IF z[2] < W THEN {z[2]} ELSE Times_x(q, z[1])]
<1>1. ASSUME NEW k \in 1 .. e, NEW r \in Word
      PROVE  /\ step[<<r, k>>] = IF k < W THEN {k} ELSE Times_x(q, r)
             /\ step[<<r, k>>] \in Word
  <2>1. step[<<r, k>>] = IF k < W THEN {k} ELSE Times_x(q, r)
    OBVIOUS
  <2> HIDE DEF step
  <2>2. k < W => {k} \in Word
    BY Widths DEF Word
  <2> QED BY <2>1, <2>2, TimesType
<1> HIDE DEF step
<1>2. {0} \in Word
  BY Widths DEF Word
<1>3. StaysIn(e, Word, step)
  BY <1>1 DEF StaysIn
<1>4. PICK f \in [0 .. e -> Word] : Iterates(e, {0}, step, f)
  BY <1>2, <1>3, Repeated
<1>5. ASSUME NEW k \in 0 .. e
      PROVE  f[k] = IF k < W THEN {k} ELSE Times_x(q, f[k - 1])
  <2>1. CASE k = 0
    BY <1>4, <2>1, Widths DEF Iterates
  <2>2. CASE k # 0
    <3>1. k \in 1 .. e /\ k - 1 \in 0 .. e
      BY <2>2
    <3>2. f[k] = step[<<f[k - 1], k>>] /\ f[k - 1] \in Word
      BY <1>4, <3>1 DEF Iterates
    <3> QED BY <1>1, <3>1, <3>2
  <2> QED BY <2>1, <2>2
<1>6. f = [k \in 0 .. e |-> IF k < W THEN {k} ELSE Times_x(q, f[k - 1])]
  BY <1>5
<1> DEFINE x == Powers(q, e)
<1>7. x = [k \in 0 .. e |-> IF k < W THEN {k} ELSE Times_x(q, x[k - 1])]
  <2>1. \E g : g = [k \in 0 .. e |-> IF k < W THEN {k} ELSE Times_x(q, g[k - 1])]
    BY <1>6
  <2> QED BY <2>1, Zenon DEF Powers
<1> HIDE DEF x
<1>8. \A k \in 0 .. e : x[k] = IF k < W THEN {k} ELSE Times_x(q, x[k - 1])
  BY <1>7
<1> DEFINE T == {k \in 0 .. e : x[k] \in Word}
<1>9. 0 \in T
  <2>1. 0 \in 0 .. e /\ 0 < W
    BY Widths
  <2>2. x[0] = {0}
    BY <1>8, <2>1
  <2> QED BY <1>2, <2>1, <2>2
<1>10. ASSUME NEW k \in 0 .. (e - 1), k \in T PROVE k + 1 \in T
  <2>1. k + 1 \in 0 .. e /\ (k + 1) - 1 = k
    OBVIOUS
  <2>2. x[k + 1] = IF k + 1 < W THEN {k + 1} ELSE Times_x(q, x[k])
    BY <1>8, <2>1
  <2>3. k + 1 < W => {k + 1} \in Word
    BY Widths DEF Word
  <2> QED BY <1>10, <2>1, <2>2, <2>3, TimesType
<1>11. \A k \in 0 .. e : k \in T
  <2> HIDE DEF T
  <2> QED BY <1>9, <1>10, UpTo
<1>12. x \in [0 .. e -> Word]
  BY <1>7, <1>11
<1> QED BY <1>8, <1>12 DEF x

\* The powers of x, one from the other.
LEMMA NextPower ==
    ASSUME NEW q \in Word, NEW e \in Nat
    PROVE  /\ PowerOf_x(q, e) \in Word
           /\ e < W => PowerOf_x(q, e) = {e}
           /\ e + 1 >= W => PowerOf_x(q, e + 1) = Times_x(q, PowerOf_x(q, e))
<1>1. ASSUME NEW d \in Nat PROVE PowerOf_x(q, d) = Powers(q, d)[d]
  BY Zenon DEF PowerOf_x, Powers
<1> DEFINE x == Powers(q, e)
           y == Powers(q, e + 1)
<1>2. /\ x \in [0 .. e -> Word]
      /\ \A k \in 0 .. e : x[k] = IF k < W THEN {k} ELSE Times_x(q, x[k - 1])
  BY PowersAre
<1>3. \A k \in 0 .. (e + 1) : y[k] = IF k < W THEN {k} ELSE Times_x(q, y[k - 1])
  <2>1. e + 1 \in Nat
    OBVIOUS
  <2> QED BY <2>1, PowersAre
<1>4. PowerOf_x(q, e) = x[e] /\ PowerOf_x(q, e + 1) = y[e + 1]
  BY <1>1
<1> HIDE DEF x, y
<1> DEFINE T == {k \in 0 .. e : x[k] = y[k]}
<1>5. 0 \in T
  <2>1. 0 \in 0 .. e /\ 0 \in 0 .. (e + 1) /\ 0 < W
    BY Widths
  <2>2. x[0] = {0} /\ y[0] = {0}
    BY <1>2, <1>3, <2>1
  <2> QED BY <2>1, <2>2
<1>6. ASSUME NEW k \in 0 .. (e - 1), k \in T PROVE k + 1 \in T
  <2>1. k + 1 \in 0 .. e /\ k + 1 \in 0 .. (e + 1) /\ (k + 1) - 1 = k
    OBVIOUS
  <2> QED BY <1>2, <1>3, <1>6, <2>1
<1>7. \A k \in 0 .. e : k \in T
  <2> HIDE DEF T
  <2> QED BY <1>5, <1>6, UpTo
<1>8. x[e] = y[e]
  BY <1>7
<1>9. y[e + 1] = IF e + 1 < W THEN {e + 1} ELSE Times_x(q, y[e])
  <2>1. e + 1 \in 0 .. (e + 1) /\ (e + 1) - 1 = e
    OBVIOUS
  <2> QED BY <1>3, <2>1
<1> QED BY <1>2, <1>4, <1>8, <1>9, Widths

LEMMA PowerStep ==
    ASSUME NEW q \in Word, NEW e \in Nat
    PROVE  PowerOf_x(q, e + 1) = Times_x(q, PowerOf_x(q, e))
<1>1. CASE e + 1 >= W
  BY <1>1, NextPower
<1>2. CASE ~(e + 1 >= W)
  <2>1. e < W /\ e + 1 < W /\ e + 1 \in Nat /\ e # W - 1
    BY <1>2, Widths
  <2>2. PowerOf_x(q, e) = {e}
    BY <2>1, NextPower
  <2>3. PowerOf_x(q, e + 1) = {e + 1}
    BY <2>1, NextPower
  <2>4. Times_x(q, {e}) = {e + 1}
    BY <2>1 DEF Times_x
  <2> QED BY <2>2, <2>3, <2>4
<1> QED BY <1>1, <1>2

-----------------------------------------------------------------------------
\* The powers that have bit b.
Has(q, E, b) == {e \in E : b \in PowerOf_x(q, e)}

LEMMA SumIs ==
    ASSUME NEW q, NEW E
    PROVE  /\ Sum(q, E) \in Word
           /\ \A b \in 0 .. (W - 1) : b \in Sum(q, E) <=> Odd(Has(q, E, b))
BY DEF Sum, Has, Odd, Word

LEMMA SameSum ==
    ASSUME NEW r \in Word, NEW s \in Word,
           \A b \in 0 .. (W - 1) : b \in r <=> b \in s
    PROVE  r = s
BY DEF Word

\* The sum of two sets together, where an exponent in both cancels out.
LEMMA SumXor ==
    ASSUME NEW q, NEW E, NEW F, IsFiniteSet(E), IsFiniteSet(F)
    PROVE  Sum(q, Xor(E, F)) = Xor(Sum(q, E), Sum(q, F))
<1>1. ASSUME NEW b \in 0 .. (W - 1)
      PROVE  b \in Sum(q, Xor(E, F)) <=> b \in Xor(Sum(q, E), Sum(q, F))
  <2>1. Has(q, Xor(E, F), b) = Xor(Has(q, E, b), Has(q, F, b))
    BY DEF Has, Xor
  <2>2. IsFiniteSet(Has(q, E, b)) /\ IsFiniteSet(Has(q, F, b))
    BY FS_Subset DEF Has
  <2>3. Odd(Has(q, Xor(E, F), b)) <=> ~(Odd(Has(q, E, b)) <=> Odd(Has(q, F, b)))
    BY <2>1, <2>2, OddXor
  <2>4. b \in Xor(Sum(q, E), Sum(q, F)) <=> ~(b \in Sum(q, E) <=> b \in Sum(q, F))
    BY DEF Xor
  <2> QED BY <2>3, <2>4, SumIs
<1> QED BY <1>1, SumIs, XorType, SameSum

\* The sum for one exponent.
LEMMA SumOne ==
    ASSUME NEW q \in Word, NEW e \in Nat
    PROVE  Sum(q, {e}) = PowerOf_x(q, e)
<1>1. ASSUME NEW b \in 0 .. (W - 1)
      PROVE  b \in Sum(q, {e}) <=> b \in PowerOf_x(q, e)
  <2>1. Has(q, {e}, b) = IF b \in PowerOf_x(q, e) THEN {e} ELSE {}
    BY DEF Has
  <2> QED BY <2>1, SumIs, OddSmall
<1> QED BY <1>1, SumIs, NextPower, SameSum

\* Below W the powers of x are the bits.
LEMMA SumOfWord ==
    ASSUME NEW q \in Word, NEW r \in Word
    PROVE  Sum(q, r) = r
<1>1. ASSUME NEW b \in 0 .. (W - 1)
      PROVE  b \in Sum(q, r) <=> b \in r
  <2>1. ASSUME NEW e \in r PROVE PowerOf_x(q, e) = {e}
    <3>1. e \in Nat /\ e < W
      BY Widths DEF Word
    <3> QED BY <3>1, NextPower
  <2>2. Has(q, r, b) = IF b \in r THEN {b} ELSE {}
    BY <2>1 DEF Has
  <2> QED BY <2>2, SumIs, OddSmall
<1> QED BY <1>1, SumIs, SameSum

\* One bit of a product with x.
LEMMA TimesBit ==
    ASSUME NEW q \in Word, NEW r \in Word, NEW b \in 0 .. (W - 1)
    PROVE  b \in Times_x(q, r) <=> ~(b - 1 \in r <=> W - 1 \in r /\ b \in q)
<1> DEFINE up == {d + 1 : d \in r \ {W - 1}}
<1>1. b \in up <=> b - 1 \in r
  <2>1. b - 1 # W - 1 /\ b \in Int /\ (b - 1) + 1 = b
    BY Widths
  <2>2. \A d \in r : d \in Int
    BY DEF Word
  <2> QED BY <2>1, <2>2
<1>2. Times_x(q, r) = IF W - 1 \in r THEN Xor(up, q) ELSE up
  BY DEF Times_x
<1> HIDE DEF up
<1> QED BY <1>1, <1>2 DEF Xor

\* To multiply the sum is to add one to the exponents.
LEMMA SumShift ==
    ASSUME NEW q \in Word, NEW E \in SUBSET Nat, IsFiniteSet(E)
    PROVE  Sum(q, Shift(E, 1)) = Times_x(q, Sum(q, E))
<1>1. ASSUME NEW b \in 0 .. (W - 1)
      PROVE  b \in Sum(q, Shift(E, 1)) <=> b \in Times_x(q, Sum(q, E))
  <2> DEFINE A == Has(q, E, b - 1)
             B == Has(q, E, W - 1)
             C == {e \in E : b \in Times_x(q, PowerOf_x(q, e))}
  <2>1. Has(q, Shift(E, 1), b) = Shift(C, 1)
    BY PowerStep DEF Has, Shift
  <2>2. C = IF b \in q THEN Xor(A, B) ELSE A
    <3>1. ASSUME NEW e \in E
          PROVE  b \in Times_x(q, PowerOf_x(q, e)) <=>
                    ~(b - 1 \in PowerOf_x(q, e) <=> W - 1 \in PowerOf_x(q, e) /\ b \in q)
      BY NextPower, TimesBit
    <3> QED BY <3>1 DEF Has, Xor
  <2>3. IsFiniteSet(A) /\ IsFiniteSet(B) /\ IsFiniteSet(C)
    BY FS_Subset DEF Has
  <2>4. Odd(Shift(C, 1)) <=> Odd(C)
    <3>1. C \subseteq E
      OBVIOUS
    <3> HIDE DEF C
    <3>2. C \in SUBSET Int
      BY <3>1
    <3> QED BY <2>3, <3>2, OddShift
  <2>5. b - 1 \in Sum(q, E) <=> Odd(A)
    <3>1. CASE b = 0
      <4>1. A = {}
        <5>1. ASSUME NEW e \in E PROVE b - 1 \notin PowerOf_x(q, e)
          <6>1. PowerOf_x(q, e) \in Word
            BY NextPower
          <6> QED BY <3>1, <6>1 DEF Word
        <5> QED BY <5>1 DEF Has
      <4>2. b - 1 \notin Sum(q, E)
        BY <3>1, SumIs DEF Word
      <4> QED BY <4>1, <4>2, OddSmall
    <3>2. CASE b # 0
      <4>1. b - 1 \in 0 .. (W - 1)
        BY <3>2, Widths
      <4> QED BY <4>1, SumIs
    <3> QED BY <3>1, <3>2
  <2>6. W - 1 \in Sum(q, E) <=> Odd(B)
    BY Widths, SumIs
  <2> HIDE DEF A, B, C
  <2>7. Odd(C) <=> ~(Odd(A) <=> Odd(B) /\ b \in q)
    BY <2>2, <2>3, OddXor
  <2>8. b \in Times_x(q, Sum(q, E)) <=>
          ~(b - 1 \in Sum(q, E) <=> W - 1 \in Sum(q, E) /\ b \in q)
    BY SumIs, TimesBit
  <2> QED BY <2>1, <2>4, <2>5, <2>6, <2>7, <2>8, SumIs
<1> QED BY <1>1, SumIs, TimesType, SameSum

LEMMA ShiftMore ==
    ASSUME NEW E \in SUBSET Nat, IsFiniteSet(E), NEW k \in Nat
    PROVE  /\ Shift(E, k) \in SUBSET Nat /\ IsFiniteSet(Shift(E, k))
           /\ Shift(Shift(E, k), 1) = Shift(E, k + 1)
           /\ Shift(E, 0) = E
<1>1. Shift(E, k) \in SUBSET Nat
  BY DEF Shift
<1>2. IsFiniteSet(Shift(E, k))
  <2>1. E \in SUBSET Int
    OBVIOUS
  <2> QED BY <2>1, OddShift
<1>3. Shift(Shift(E, k), 1) = Shift(E, k + 1)
  <2>1. \A e \in E : (e + k) + 1 = e + (k + 1)
    OBVIOUS
  <2> QED BY <2>1 DEF Shift
<1>4. Shift(E, 0) = E
  <2>1. \A e \in E : e + 0 = e
    OBVIOUS
  <2> QED BY <2>1 DEF Shift
<1> QED BY <1>1, <1>2, <1>3, <1>4

LEMMA WordFinite == \A r \in Word : r \in SUBSET Nat /\ IsFiniteSet(r)
<1>1. IsFiniteSet(0 .. (W - 1))
  BY Widths, FS_Interval
<1>2. ASSUME NEW r \in Word PROVE r \in SUBSET Nat /\ IsFiniteSet(r)
  <2>1. r \in SUBSET (0 .. (W - 1))
    BY DEF Word
  <2>2. IsFiniteSet(r)
    BY <1>1, <2>1, FS_Subset
  <2> QED BY <2>1, <2>2
<1> QED BY <1>2

\* A sum may be multiplied in the place of what it is the sum of.
LEMMA SumShifted ==
    ASSUME NEW q \in Word, NEW E \in SUBSET Nat, IsFiniteSet(E), NEW k \in Nat
    PROVE  Sum(q, Shift(E, k)) = Sum(q, Shift(Sum(q, E), k))
<1> DEFINE F == Sum(q, E)
           T == {j \in 0 .. k : Sum(q, Shift(E, j)) = Sum(q, Shift(F, j))}
<1>1. F \in Word /\ F \in SUBSET Nat /\ IsFiniteSet(F)
  BY SumIs, WordFinite
<1> HIDE DEF F
<1>2. 0 \in T
  <2>1. Sum(q, E) = Sum(q, F)
    BY <1>1, SumOfWord DEF F
  <2> QED BY <1>1, <2>1, ShiftMore
<1>3. ASSUME NEW j \in 0 .. (k - 1), j \in T PROVE j + 1 \in T
  <2>1. j \in Nat /\ j + 1 \in 0 .. k
    OBVIOUS
  <2>2. Sum(q, Shift(E, j + 1)) = Times_x(q, Sum(q, Shift(E, j)))
    <3>1. /\ Shift(E, j) \in SUBSET Nat /\ IsFiniteSet(Shift(E, j))
          /\ Shift(Shift(E, j), 1) = Shift(E, j + 1)
      BY <2>1, ShiftMore
    <3> QED BY <3>1, SumShift
  <2>3. Sum(q, Shift(F, j + 1)) = Times_x(q, Sum(q, Shift(F, j)))
    <3>1. /\ Shift(F, j) \in SUBSET Nat /\ IsFiniteSet(Shift(F, j))
          /\ Shift(Shift(F, j), 1) = Shift(F, j + 1)
      BY <1>1, <2>1, ShiftMore
    <3> QED BY <3>1, SumShift
  <2> QED BY <1>3, <2>1, <2>2, <2>3
<1>4. \A j \in 0 .. k : j \in T
  <2> HIDE DEF T
  <2> QED BY <1>2, <1>3, UpTo
<1> QED BY <1>4 DEF F

-----------------------------------------------------------------------------
\* The exponents of a message that has the bits Q, after t of its bits.
Before(Q, t) == {W + t - 1 - u : u \in Q \cap 0 .. (t - 1)}

LEMMA BeforeType ==
    ASSUME NEW Q \in SUBSET Nat, NEW t \in Nat
    PROVE  Before(Q, t) \in SUBSET Nat /\ IsFiniteSet(Before(Q, t))
<1>1. ASSUME NEW x \in Before(Q, t) PROVE x \in Nat /\ x <= W + t
  BY Widths DEF Before
<1>2. W + t \in Nat /\ Before(Q, t) \in SUBSET Nat
  BY <1>1, Widths
<1> QED BY <1>1, <1>2, FS_BoundedSetOfNaturals

\* One bit more: the others are multiplied with x, and it counts x^W.
LEMMA SumOneMore ==
    ASSUME NEW q \in Word, NEW Q \in SUBSET Nat, NEW t \in Nat
    PROVE  Sum(q, Before(Q, t + 1))
             = Xor(Times_x(q, Sum(q, Before(Q, t))), IF t \in Q THEN q ELSE {})
<1> DEFINE E == Before(Q, t)
           F == IF t \in Q THEN {W} ELSE {}
<1>1. E \in SUBSET Nat /\ IsFiniteSet(E)
  BY BeforeType
<1>2. Before(Q, t + 1) = Xor(Shift(E, 1), F)
  <2>1. Before(Q, t + 1) = Shift(E, 1) \cup F
    <3>1. Q \cap 0 .. ((t + 1) - 1) = (Q \cap 0 .. (t - 1)) \cup (IF t \in Q THEN {t} ELSE {})
      OBVIOUS
    <3>2. \A u \in Nat : W + (t + 1) - 1 - u = (W + t - 1 - u) + 1
      BY Widths
    <3>3. W + (t + 1) - 1 - t = W
      BY Widths
    <3> QED BY <3>1, <3>2, <3>3 DEF Before, Shift
  <2>2. W \notin Shift(E, 1)
    <3>1. \A u \in 0 .. (t - 1) : (W + t - 1 - u) + 1 # W
      BY Widths
    <3> QED BY <3>1 DEF Before, Shift
  <2> QED BY <2>1, <2>2 DEF Xor
<1> HIDE DEF E
<1>3. IsFiniteSet(Shift(E, 1)) /\ IsFiniteSet(F)
  BY <1>1, ShiftMore, OddSmall, FS_EmptySet
<1>4. Sum(q, Shift(E, 1)) = Times_x(q, Sum(q, E))
  BY <1>1, SumShift
<1>5. Sum(q, F) = IF t \in Q THEN q ELSE {}
  <2>1. CASE t \in Q
    <3>1. W \in Nat /\ W - 1 \in Nat /\ W - 1 < W /\ (W - 1) + 1 = W
      BY Widths
    <3>2. PowerOf_x(q, W - 1) = {W - 1}
      BY <3>1, NextPower
    <3>3. PowerOf_x(q, W) = Times_x(q, {W - 1})
      BY <3>1, <3>2, PowerStep
    <3>4. Times_x(q, {W - 1}) = q
      BY DEF Times_x, Xor
    <3> QED BY <2>1, <3>1, <3>3, <3>4, SumOne
  <2>2. CASE t \notin Q
    <3>1. {} \in Word
      BY DEF Word
    <3> QED BY <2>2, <3>1, SumOfWord
  <2> QED BY <2>1, <2>2
<1> HIDE DEF F
<1>6. Sum(q, Xor(Shift(E, 1), F)) = Xor(Sum(q, Shift(E, 1)), Sum(q, F))
  BY <1>3, SumXor
<1> QED BY <1>2, <1>4, <1>5, <1>6 DEF E

\* What the loop over the bits of a byte does to the register.
LEMMA BitStep ==
    ASSUME NEW q \in Word, NEW r \in Word, NEW c, NEW i
    PROVE  crc_bit(q, r, c, i) = Xor(Times_x(q, r), IF i \in c THEN q ELSE {})
<1> DEFINE up == {b + 1 : b \in r \ {W - 1}}
<1>1. Left(r, 1) = up
  <2>1. \A b \in r : b \in 0 .. (W - 1)
    BY DEF Word
  <2>2. \A b \in 0 .. (W - 1) : b + 1 \in 0 .. (W - 1) <=> b # W - 1
    BY Widths
  <2> QED BY <2>1, <2>2 DEF Left
<1>2. Times_x(q, r) = IF W - 1 \in r THEN Xor(up, q) ELSE up
  BY DEF Times_x
<1> HIDE DEF up
<1>3. crc_bit(q, r, c, i) = IF W - 1 \in r <=> i \in c THEN up ELSE Xor(up, q)
  BY <1>1 DEF crc_bit, takes_bit
<1>4. Xor(up, {}) = up /\ Xor(Xor(up, q), q) = up /\ Xor(Xor(up, q), {}) = Xor(up, q)
  BY DEF Xor
<1>5. CASE W - 1 \in r
  BY <1>2, <1>3, <1>4, <1>5
<1>6. CASE W - 1 \notin r
  BY <1>2, <1>3, <1>4, <1>6
<1> QED BY <1>5, <1>6

LEMMA BitType ==
    ASSUME NEW q \in Word, NEW r \in Word, NEW c, NEW i
    PROVE  crc_bit(q, r, c, i) \in Word
<1>1. {} \in Word
  BY DEF Word
<1>2. Times_x(q, r) \in Word
  BY TimesType
<1> QED BY <1>1, <1>2, BitStep, XorType

\* The register before and after each bit of a byte.
BitByBit(q, r, c, x) ==
    /\ x[0] = r
    /\ \A i \in 1 .. BYTE : x[i] = crc_bit(q, x[i - 1], c, i - 1)
    /\ crc_byte(q, r, c) = x[BYTE]

LEMMA ByteIs ==
    ASSUME NEW q \in Word, NEW r \in Word, NEW c
    PROVE  \E x \in [0 .. BYTE -> Word] : BitByBit(q, r, c, x)
<1> DEFINE step == [z \in Word \X (1 .. BYTE) |-> crc_bit(q, z[1], c, z[2] - 1)]
           x == CHOOSE b : b = [i \in 0 .. BYTE |->
                    IF i = 0 THEN r ELSE crc_bit(q, b[i - 1], c, i - 1)]
<1>0. BYTE \in Nat
  BY Widths
<1>1. ASSUME NEW i \in 1 .. BYTE, NEW s \in Word
      PROVE  step[<<s, i>>] = crc_bit(q, s, c, i - 1) /\ step[<<s, i>>] \in Word
  <2>1. step[<<s, i>>] = crc_bit(q, s, c, i - 1)
    OBVIOUS
  <2> HIDE DEF step
  <2> QED BY <2>1, BitType
<1> HIDE DEF step
<1>2. StaysIn(BYTE, Word, step)
  BY <1>1 DEF StaysIn
<1>3. PICK f \in [0 .. BYTE -> Word] : Iterates(BYTE, r, step, f)
  BY <1>0, <1>2, Repeated
<1>4. ASSUME NEW i \in 0 .. BYTE
      PROVE  f[i] = IF i = 0 THEN r ELSE crc_bit(q, f[i - 1], c, i - 1)
  <2>1. CASE i = 0
    BY <1>3, <2>1 DEF Iterates
  <2>2. CASE i # 0
    <3>1. i \in 1 .. BYTE /\ i - 1 \in 0 .. BYTE
      BY <1>0, <2>2
    <3>2. f[i] = step[<<f[i - 1], i>>] /\ f[i - 1] \in Word
      BY <1>3, <3>1 DEF Iterates
    <3> QED BY <1>1, <2>2, <3>1, <3>2
  <2> QED BY <2>1, <2>2
<1>5. f = [i \in 0 .. BYTE |-> IF i = 0 THEN r ELSE crc_bit(q, f[i - 1], c, i - 1)]
  BY <1>4
<1>6. x = [i \in 0 .. BYTE |-> IF i = 0 THEN r ELSE crc_bit(q, x[i - 1], c, i - 1)]
  <2>1. \E b : b = [i \in 0 .. BYTE |-> IF i = 0 THEN r ELSE crc_bit(q, b[i - 1], c, i - 1)]
    BY <1>5
  <2> QED BY <2>1, Zenon
<1>7. crc_byte(q, r, c) = x[BYTE]
  BY Zenon DEF crc_byte
<1> HIDE DEF x
<1>8. x[0] = r /\ \A i \in 1 .. BYTE : x[i] = crc_bit(q, x[i - 1], c, i - 1)
  BY <1>0, <1>6
<1> DEFINE T == {i \in 0 .. BYTE : x[i] \in Word}
<1>9. 0 \in T
  BY <1>0, <1>8
<1>10. ASSUME NEW i \in 0 .. (BYTE - 1), i \in T PROVE i + 1 \in T
  <2>1. i + 1 \in 0 .. BYTE /\ i + 1 \in 1 .. BYTE /\ (i + 1) - 1 = i
    BY <1>0
  <2>2. x[i + 1] = crc_bit(q, x[i], c, i)
    BY <1>8, <2>1
  <2> QED BY <1>10, <2>1, <2>2, BitType
<1>11. \A i \in 0 .. BYTE : i \in T
  <2> HIDE DEF T
  <2> QED BY <1>0, <1>9, <1>10, UpTo
<1>12. x \in [0 .. BYTE -> Word]
  BY <1>6, <1>11
<1> QED BY <1>7, <1>8, <1>12 DEF BitByBit

LEMMA ByteType ==
    ASSUME NEW q \in Word, NEW r \in Word, NEW c
    PROVE  crc_byte(q, r, c) \in Word
<1>1. PICK x \in [0 .. BYTE -> Word] : BitByBit(q, r, c, x)
  BY ByteIs
<1>2. BYTE \in 0 .. BYTE
  BY Widths
<1> QED BY <1>1, <1>2 DEF BitByBit

\* A byte has been taken in when each of its bits has.
LEMMA ByteSum ==
    ASSUME NEW q \in Word, NEW Q \in SUBSET Nat, NEW t \in Nat, NEW c,
           \A i \in 0 .. (BYTE - 1) : t + i \in Q <=> i \in c
    PROVE  crc_byte(q, Sum(q, Before(Q, t)), c) = Sum(q, Before(Q, t + BYTE))
<1> DEFINE r == Sum(q, Before(Q, t))
<1>0. BYTE \in Nat /\ r \in Word
  BY Widths, SumIs
<1>1. PICK x \in [0 .. BYTE -> Word] : BitByBit(q, r, c, x)
  BY <1>0, ByteIs
<1> USE DEF BitByBit
<1> DEFINE T == {i \in 0 .. BYTE : x[i] = Sum(q, Before(Q, t + i))}
<1>2. 0 \in T
  BY <1>0, <1>1
<1> HIDE DEF r
<1>3. ASSUME NEW i \in 0 .. (BYTE - 1), i \in T PROVE i + 1 \in T
  <2>1. /\ i + 1 \in 0 .. BYTE /\ i + 1 \in 1 .. BYTE /\ i \in 0 .. BYTE /\ (i + 1) - 1 = i
        /\ t + i \in Nat /\ (t + i) + 1 = t + (i + 1)
    BY <1>0
  <2>2. x[i + 1] = crc_bit(q, x[i], c, i)
    BY <1>1, <2>1
  <2>3. x[i + 1] = Xor(Times_x(q, x[i]), IF i \in c THEN q ELSE {})
    BY <2>1, <2>2, BitStep
  <2>4. Sum(q, Before(Q, (t + i) + 1))
          = Xor(Times_x(q, Sum(q, Before(Q, t + i))), IF t + i \in Q THEN q ELSE {})
    BY <2>1, SumOneMore
  <2>5. t + i \in Q <=> i \in c
    OBVIOUS
  <2>6. x[i] = Sum(q, Before(Q, t + i))
    BY <1>3
  <2>7. x[i + 1] = Sum(q, Before(Q, t + (i + 1)))
    BY <2>1, <2>3, <2>4, <2>5, <2>6
  <2> QED BY <2>1, <2>7
<1>4. \A i \in 0 .. BYTE : i \in T
  <2> HIDE DEF T
  <2> QED BY <1>0, <1>2, <1>3, UpTo
<1>5. x[BYTE] = Sum(q, Before(Q, t + BYTE))
  BY <1>0, <1>4
<1> QED BY <1>1, <1>5 DEF r

\* So has a message, from whatever the register holds of Q.
LEMMA BytesSum ==
    ASSUME NEW q \in Word, NEW Q \in SUBSET Nat, NEW t \in Nat,
           NEW data, Len(data) \in Nat,
           \A j \in 1 .. Len(data), i \in 0 .. (BYTE - 1) :
              t + BYTE * (j - 1) + i \in Q <=> i \in data[j]
    PROVE  crc_bytes(q, Sum(q, Before(Q, t)), data)
             = Sum(q, Before(Q, t + BYTE * Len(data)))
<1> DEFINE N == Len(data)
           r == Sum(q, Before(Q, t))
           step == [z \in Word \X (1 .. N) |-> crc_byte(q, z[1], data[z[2]])]
           x == CHOOSE d : d = [j \in 0 .. N |->
                    IF j = 0 THEN r ELSE crc_byte(q, d[j - 1], data[j])]
<1>0. N \in Nat /\ r \in Word
  BY SumIs
<1> HIDE DEF r
<1>1. ASSUME NEW j \in 1 .. N, NEW s \in Word
      PROVE  step[<<s, j>>] = crc_byte(q, s, data[j]) /\ step[<<s, j>>] \in Word
  <2>1. step[<<s, j>>] = crc_byte(q, s, data[j])
    OBVIOUS
  <2> HIDE DEF step
  <2> QED BY <2>1, ByteType
<1> HIDE DEF step
<1>2. StaysIn(N, Word, step)
  BY <1>1 DEF StaysIn
<1>3. PICK f \in [0 .. N -> Word] : Iterates(N, r, step, f)
  <2> HIDE DEF N
  <2> QED BY <1>0, <1>2, Repeated
<1>4. ASSUME NEW j \in 0 .. N
      PROVE  f[j] = IF j = 0 THEN r ELSE crc_byte(q, f[j - 1], data[j])
  <2>1. CASE j = 0
    BY <1>3, <2>1 DEF Iterates
  <2>2. CASE j # 0
    <3>1. j \in 1 .. N /\ j - 1 \in 0 .. N
      BY <1>0, <2>2
    <3>2. f[j] = step[<<f[j - 1], j>>] /\ f[j - 1] \in Word
      BY <1>3, <3>1 DEF Iterates
    <3> QED BY <1>1, <2>2, <3>1, <3>2
  <2> QED BY <2>1, <2>2
<1>5. f = [j \in 0 .. N |-> IF j = 0 THEN r ELSE crc_byte(q, f[j - 1], data[j])]
  BY <1>4
<1>6. x = [j \in 0 .. N |-> IF j = 0 THEN r ELSE crc_byte(q, x[j - 1], data[j])]
  <2>1. \E d : d = [j \in 0 .. N |-> IF j = 0 THEN r ELSE crc_byte(q, d[j - 1], data[j])]
    BY <1>5
  <2> QED BY <2>1, Zenon
<1>7. crc_bytes(q, r, data) = x[N]
  BY Zenon DEF crc_bytes
<1> HIDE DEF x
<1>8. x[0] = r /\ \A j \in 1 .. N : x[j] = crc_byte(q, x[j - 1], data[j])
  BY <1>0, <1>6
<1> DEFINE T == {j \in 0 .. N : x[j] = Sum(q, Before(Q, t + BYTE * j))}
<1>9. 0 \in T
  <2>1. t + BYTE * 0 = t /\ 0 \in 0 .. N
    BY <1>0, Widths
  <2> QED BY <1>8, <2>1 DEF r
<1>10. ASSUME NEW j \in 0 .. (N - 1), j \in T PROVE j + 1 \in T
  <2>1. /\ j \in Nat /\ j + 1 \in 0 .. N /\ j + 1 \in 1 .. N /\ (j + 1) - 1 = j
    BY <1>0
  <2>2. /\ BYTE * j \in Nat /\ BYTE * (j + 1) = BYTE * j + BYTE
    BY <2>1, Widths
  <2>3. PICK s \in Nat : s = t + BYTE * j
    BY <2>2
  <2>4. s + BYTE = t + BYTE * (j + 1)
    BY <2>2, <2>3, Widths
  <2>5. x[j + 1] = crc_byte(q, Sum(q, Before(Q, s)), data[j + 1])
    BY <1>8, <1>10, <2>1, <2>3
  <2>6. \A i \in 0 .. (BYTE - 1) : s + i \in Q <=> i \in data[j + 1]
    BY <2>1, <2>3
  <2>7. crc_byte(q, Sum(q, Before(Q, s)), data[j + 1]) = Sum(q, Before(Q, s + BYTE))
    BY <2>6, ByteSum
  <2> QED BY <2>1, <2>4, <2>5, <2>7
<1>11. \A j \in 0 .. N : j \in T
  <2> HIDE DEF T, N
  <2>1. \A j \in 0 .. (N - 1) : j \in T => j + 1 \in T
    BY <1>10
  <2> QED BY <1>0, <1>9, <2>1, UpTo
<1>12. x[N] = Sum(q, Before(Q, t + BYTE * N))
  BY <1>0, <1>11
<1> QED BY <1>7, <1>12 DEF r

-----------------------------------------------------------------------------
\* The bits of a message, and the exponents before its end.
LEMMA OnesAre ==
    ASSUME NEW data \in Seq(Bytes)
    PROVE  /\ Ones(data) \in SUBSET Nat
           /\ \A u \in Ones(data) : u < BYTE * Len(data)
           /\ \A j \in 1 .. Len(data), i \in 0 .. (BYTE - 1) :
                 BYTE * (j - 1) + i \in Ones(data) <=> i \in data[j]
           /\ Exponents(data) = Before(Ones(data), BYTE * Len(data))
<1>1. /\ Len(data) \in Nat /\ DOMAIN data = 1 .. Len(data)
      /\ \A j \in 1 .. Len(data) : data[j] \in SUBSET (0 .. (BYTE - 1))
  BY DEF Bytes
<1>2. BYTE \in Nat \ {0}
  BY Widths
<1>3. ASSUME NEW u \in Ones(data)
      PROVE  \E j \in 1 .. Len(data), b \in 0 .. (BYTE - 1) :
                b \in data[j] /\ u = BYTE * (j - 1) + b
  BY <1>1 DEF Ones
<1>4. ASSUME NEW j \in 1 .. Len(data), NEW b \in 0 .. (BYTE - 1)
      PROVE  BYTE * (j - 1) + b \in Nat /\ BYTE * (j - 1) + b < BYTE * Len(data)
  <2>1. j - 1 \in Nat /\ j - 1 < Len(data)
    BY <1>1
  <2>2. BYTE * (j - 1) + BYTE <= BYTE * Len(data)
    BY <1>1, <1>2, <2>1, MultipleGrows
  <2>3. BYTE * (j - 1) \in Nat /\ BYTE * Len(data) \in Nat
    BY <1>1, <1>2, <2>1
  <2> QED BY <1>2, <2>2, <2>3
<1>5. Ones(data) \in SUBSET Nat /\ \A u \in Ones(data) : u < BYTE * Len(data)
  BY <1>1, <1>3, <1>4
<1>6. ASSUME NEW j \in 1 .. Len(data), NEW i \in 0 .. (BYTE - 1)
      PROVE  BYTE * (j - 1) + i \in Ones(data) <=> i \in data[j]
  <2>1. ASSUME i \in data[j] PROVE BYTE * (j - 1) + i \in Ones(data)
    BY <1>1, <2>1 DEF Ones
  <2>2. ASSUME BYTE * (j - 1) + i \in Ones(data) PROVE i \in data[j]
    <3>1. PICK k \in 1 .. Len(data), b \in 0 .. (BYTE - 1) :
                b \in data[k] /\ BYTE * (j - 1) + i = BYTE * (k - 1) + b
      BY <1>3, <2>2
    <3>2. b \in 0 .. (BYTE - 1) /\ k - 1 \in Int /\ j - 1 \in Int
      BY <1>1
    <3>3. (BYTE * (j - 1) + i) \div BYTE = j - 1 /\ (BYTE * (j - 1) + i) % BYTE = i
      BY <1>2, <3>2, DivisionUnique
    <3>4. (BYTE * (k - 1) + b) \div BYTE = k - 1 /\ (BYTE * (k - 1) + b) % BYTE = b
      BY <1>2, <3>2, DivisionUnique
    <3>5. k = j /\ b = i
      BY <3>1, <3>2, <3>3, <3>4
    <3> QED BY <3>1, <3>5
  <2> QED BY <2>1, <2>2
<1>7. Exponents(data) = Before(Ones(data), BYTE * Len(data))
  <2>1. Ones(data) \cap 0 .. (BYTE * Len(data) - 1) = Ones(data)
    <3>1. BYTE * Len(data) \in Nat
      BY <1>1, <1>2
    <3> QED BY <1>5, <3>1
  <2> QED BY <2>1 DEF Exponents, Before
<1> QED BY <1>5, <1>6, <1>7

LEMMA BeforeFirst == ASSUME NEW q \in Word, NEW Q PROVE Sum(q, Before(Q, 0)) = {}
<1>1. Before(Q, 0) = {} /\ {} \in Word
  BY DEF Before, Word
<1> QED BY <1>1, SumOfWord

\* The register after a message is the sum for its bits.
LEMMA RegisterIs ==
    ASSUME NEW q \in Word, NEW data \in Seq(Bytes)
    PROVE  crc_bytes(q, {}, data) = Sum(q, Exponents(data))
<1> DEFINE Q == Ones(data)
<1>1. /\ Q \in SUBSET Nat /\ Len(data) \in Nat
      /\ \A j \in 1 .. Len(data), i \in 0 .. (BYTE - 1) :
            BYTE * (j - 1) + i \in Q <=> i \in data[j]
      /\ Exponents(data) = Before(Q, BYTE * Len(data))
  BY OnesAre
<1> HIDE DEF Q
<1>2. \A j \in Nat, i \in 0 .. (BYTE - 1) : 0 + BYTE * (j - 1) + i = BYTE * (j - 1) + i
  BY Widths
<1>3. 0 + BYTE * Len(data) = BYTE * Len(data) /\ 0 \in Nat
  BY <1>1, Widths
<1>4. crc_bytes(q, Sum(q, Before(Q, 0)), data) = Sum(q, Before(Q, 0 + BYTE * Len(data)))
  <2>1. \A j \in 1 .. Len(data), i \in 0 .. (BYTE - 1) :
          0 + BYTE * (j - 1) + i \in Q <=> i \in data[j]
    BY <1>1, <1>2
  <2> QED BY <1>1, <1>3, <2>1, BytesSum
<1> QED BY <1>1, <1>3, <1>4, BeforeFirst

\* So it is when the message comes in two parts.
LEMMA RegisterContinues ==
    ASSUME NEW q \in Word, NEW data \in Seq(Bytes), NEW more \in Seq(Bytes)
    PROVE  crc_bytes(q, crc_bytes(q, {}, data), more) = Sum(q, Exponents(data \o more))
<1> DEFINE D == data \o more
           Q == Ones(D)
<1>1. /\ D \in Seq(Bytes) /\ Len(D) = Len(data) + Len(more)
      /\ Len(data) \in Nat /\ Len(more) \in Nat
      /\ \A j \in 1 .. Len(data) : j \in 1 .. Len(D) /\ D[j] = data[j]
      /\ \A j \in 1 .. Len(more) :
            Len(data) + j \in 1 .. Len(D) /\ D[Len(data) + j] = more[j]
  OBVIOUS
<1> HIDE DEF D
<1>2. PICK t \in Nat : t = BYTE * Len(data)
  BY <1>1, Widths
<1>3. /\ Q \in SUBSET Nat
      /\ \A j \in 1 .. Len(D), i \in 0 .. (BYTE - 1) :
            BYTE * (j - 1) + i \in Q <=> i \in D[j]
      /\ Exponents(D) = Before(Q, BYTE * Len(D))
  BY <1>1, OnesAre
<1> HIDE DEF Q
<1>4. crc_bytes(q, {}, data) = Sum(q, Before(Q, t))
  <2>1. ASSUME NEW j \in 1 .. Len(data), NEW i \in 0 .. (BYTE - 1)
        PROVE  0 + BYTE * (j - 1) + i \in Q <=> i \in data[j]
    <3>1. 0 + BYTE * (j - 1) + i = BYTE * (j - 1) + i
      BY Widths
    <3> QED BY <1>1, <1>3, <3>1
  <2>2. 0 + BYTE * Len(data) = t /\ 0 \in Nat
    BY <1>2
  <2> HIDE DEF D
  <2>3. crc_bytes(q, Sum(q, Before(Q, 0)), data) = Sum(q, Before(Q, 0 + BYTE * Len(data)))
    BY <1>1, <1>3, <2>1, <2>2, BytesSum
  <2> QED BY <2>2, <2>3, BeforeFirst
<1>5. crc_bytes(q, Sum(q, Before(Q, t)), more) = Sum(q, Exponents(D))
  <2>1. ASSUME NEW j \in 1 .. Len(more), NEW i \in 0 .. (BYTE - 1)
        PROVE  t + BYTE * (j - 1) + i \in Q <=> i \in more[j]
    <3>1. PICK k \in 1 .. Len(D) : k = Len(data) + j
      BY <1>1
    <3>2. k - 1 = Len(data) + (j - 1)
      BY <1>1, <3>1
    <3>3. BYTE * (Len(data) + (j - 1)) = BYTE * Len(data) + BYTE * (j - 1)
      BY <1>1, Widths
    <3>4. t + BYTE * (j - 1) + i = BYTE * (k - 1) + i
      BY <1>2, <3>2, <3>3
    <3> QED BY <1>1, <1>3, <3>1, <3>4
  <2>2. t + BYTE * Len(more) = BYTE * Len(D)
    <3>1. BYTE * (Len(data) + Len(more)) = BYTE * Len(data) + BYTE * Len(more)
      BY <1>1, Widths
    <3> QED BY <1>1, <1>2, <3>1
  <2>3. crc_bytes(q, Sum(q, Before(Q, t)), more) = Sum(q, Before(Q, t + BYTE * Len(more)))
    BY <1>1, <1>3, <2>1, BytesSum
  <2> QED BY <1>3, <2>2, <2>3
<1> QED BY <1>4, <1>5 DEF D

-----------------------------------------------------------------------------
LEMMA Reflect ==
    ASSUME NEW r \in Word
    PROVE  /\ crc_reflect(r, W) \in Word
           /\ crc_reflect(crc_reflect(r, W), W) = r
           /\ \A b \in 0 .. (W - 1) : b \in crc_reflect(r, W) <=> W - 1 - b \in r
<1>1. W \in Nat /\ \A b \in r : b \in 0 .. (W - 1)
  BY Widths DEF Word
<1>2. ASSUME NEW b \in 0 .. (W - 1) PROVE b \in crc_reflect(r, W) <=> W - 1 - b \in r
  <2>1. W - 1 - b \in 0 .. (W - 1) /\ W - 1 - (W - 1 - b) = b
    BY <1>1
  <2>2. ASSUME NEW d \in r, b = W - 1 - d PROVE d = W - 1 - b
    BY <1>1, <2>2
  <2> QED BY <1>1, <2>1, <2>2 DEF crc_reflect
<1>3. crc_reflect(r, W) \in Word
  BY <1>1 DEF crc_reflect, Word
<1> DEFINE s == crc_reflect(r, W)
<1>4. ASSUME NEW b \in 0 .. (W - 1) PROVE b \in crc_reflect(s, W) <=> b \in r
  <2>1. W - 1 - b \in 0 .. (W - 1) /\ W - 1 - (W - 1 - b) = b
    BY <1>1
  <2>2. b \in crc_reflect(s, W) <=> W - 1 - b \in s
    <3>1. ASSUME NEW d \in 0 .. (W - 1), b = W - 1 - d PROVE d = W - 1 - b
      BY <1>1, <3>1
    <3> HIDE DEF s
    <3> QED BY <2>1, <3>1 DEF crc_reflect
  <2> QED BY <1>2, <2>1, <2>2
<1>5. crc_reflect(s, W) \in Word
  BY <1>1 DEF crc_reflect, Word
<1> QED BY <1>2, <1>3, <1>4, <1>5, SameSum

\* crc64.c divides a message of any length by any polynomial, in one call or
\* in two with the first result reflected back (crc64.c:19-41).
THEOREM DividesAnyMessage ==
    ASSUME NEW q \in Word, NEW data \in Seq(Bytes), NEW more \in Seq(Bytes)
    PROVE  /\ _crc64(q, {}, data) = Crc(q, data)
           /\ _crc64(q, crc_reflect(_crc64(q, {}, data), W), more) = Crc(q, data \o more)
<1>1. crc_bytes(q, {}, data) = Sum(q, Exponents(data)) /\ Sum(q, Exponents(data)) \in Word
  BY RegisterIs, SumIs
<1>2. crc_reflect(_crc64(q, {}, data), W) = crc_bytes(q, {}, data)
  BY <1>1, Reflect DEF _crc64
<1>3. crc_bytes(q, crc_bytes(q, {}, data), more) = Sum(q, Exponents(data \o more))
  BY RegisterContinues
<1> QED BY <1>1, <1>2, <1>3 DEF _crc64, Crc

\* With a polynomial that ends in 1 a bit, and so a byte, leaves different
\* registers different.
LEMMA BitKeepsApart ==
    ASSUME NEW q \in Word, 0 \in q, NEW r \in Word, NEW s \in Word, NEW c, NEW i,
           crc_bit(q, r, c, i) = crc_bit(q, s, c, i)
    PROVE  r = s
<1>1. 0 \notin Left(r, 1) /\ 0 \notin Left(s, 1)
  <2>1. \A b \in 0 .. (W - 1) : b + 1 # 0
    BY Widths
  <2> QED BY <2>1 DEF Left, Word
<1>2. /\ \A x : 0 \notin x => 0 \in Xor(x, q)
      /\ \A x, y : Xor(x, q) = Xor(y, q) => x = y
  BY DEF Xor
<1>3. (W - 1 \in r <=> W - 1 \in s) /\ Left(r, 1) = Left(s, 1)
  <2> DEFINE turns(x) == (W - 1 \in x) # takes_bit(c, i)
  <2>1. /\ crc_bit(q, r, c, i) = IF turns(r) THEN Xor(Left(r, 1), q) ELSE Left(r, 1)
        /\ crc_bit(q, s, c, i) = IF turns(s) THEN Xor(Left(s, 1), q) ELSE Left(s, 1)
    BY DEF crc_bit
  <2>2. (0 \in crc_bit(q, r, c, i) <=> turns(r)) /\ (0 \in crc_bit(q, s, c, i) <=> turns(s))
    <3> HIDE DEF turns
    <3> QED BY <1>1, <1>2, <2>1
  <2>3. turns(r) <=> turns(s)
    <3> HIDE DEF turns
    <3> QED BY <2>2
  <2>4. Left(r, 1) = Left(s, 1)
    <3> HIDE DEF turns
    <3>1. CASE turns(r)
      BY <1>2, <2>1, <2>3, <3>1
    <3>2. CASE ~turns(r)
      BY <2>1, <2>3, <3>2
    <3> QED BY <3>1, <3>2
  <2> QED BY <2>3, <2>4 DEF takes_bit
<1>4. ASSUME NEW b \in 0 .. (W - 1) PROVE b \in r <=> b \in s
  <2>1. CASE b = W - 1
    BY <1>3, <2>1
  <2>2. CASE b # W - 1
    <3>1. b + 1 \in 0 .. (W - 1)
      BY <2>2, Widths
    <3>2. \A x \in Word : b + 1 \in Left(x, 1) <=> b \in x
      <4>1. \A x \in Word : \A d \in x : d \in Int /\ (b + 1 = d + 1 => b = d)
        BY Widths DEF Word
      <4> QED BY <3>1, <4>1 DEF Left
    <3> QED BY <1>3, <3>2
  <2> QED BY <2>1, <2>2
<1> QED BY <1>4, SameSum

LEMMA ByteKeepsApart ==
    ASSUME NEW q \in Word, 0 \in q, NEW r \in Word, NEW s \in Word, NEW c,
           crc_byte(q, r, c) = crc_byte(q, s, c)
    PROVE  r = s
<1>0. BYTE \in Nat
  BY Widths
<1>1. PICK x \in [0 .. BYTE -> Word] : BitByBit(q, r, c, x)
  BY ByteIs
<1>2. PICK y \in [0 .. BYTE -> Word] : BitByBit(q, s, c, y)
  BY ByteIs
<1> DEFINE T == {k \in 0 .. BYTE : x[BYTE - k] = y[BYTE - k]}
<1>3. 0 \in T
  <2>1. BYTE - 0 = BYTE /\ 0 \in 0 .. BYTE
    BY <1>0
  <2>2. x[BYTE] = y[BYTE]
    BY <1>1, <1>2 DEF BitByBit
  <2> QED BY <2>1, <2>2
<1>4. ASSUME NEW k \in 0 .. (BYTE - 1), k \in T PROVE k + 1 \in T
  <2>1. PICK j \in 1 .. BYTE : j = BYTE - k /\ j - 1 = BYTE - (k + 1) /\ j - 1 \in 0 .. BYTE
    BY <1>0
  <2>2. x[j] = y[j] /\ x[j - 1] \in Word /\ y[j - 1] \in Word
    BY <1>4, <2>1
  <2>3. crc_bit(q, x[j - 1], c, j - 1) = crc_bit(q, y[j - 1], c, j - 1)
    BY <1>1, <1>2, <2>2 DEF BitByBit
  <2>4. x[j - 1] = y[j - 1]
    BY <2>2, <2>3, BitKeepsApart
  <2> QED BY <1>0, <2>1, <2>4
<1>5. \A k \in 0 .. BYTE : k \in T
  <2> HIDE DEF T
  <2> QED BY <1>0, <1>3, <1>4, UpTo
<1>6. x[0] = y[0]
  <2>1. BYTE \in 0 .. BYTE /\ BYTE - BYTE = 0
    BY <1>0
  <2> QED BY <1>5, <2>1
<1> QED BY <1>1, <1>2, <1>6 DEF BitByBit

\* What one byte makes of the register.
LEMMA OneByteOn ==
    ASSUME NEW q, NEW r, NEW b
    PROVE  crc_bytes(q, r, <<b>>) = crc_byte(q, r, b)
<1> DEFINE data == <<b>>
           x == CHOOSE d : d = [j \in 0 .. Len(data) |->
                    IF j = 0 THEN r ELSE crc_byte(q, d[j - 1], data[j])]
           f == [j \in 0 .. 1 |-> IF j = 0 THEN r ELSE crc_byte(q, r, b)]
<1>1. Len(data) = 1 /\ data[1] = b
  OBVIOUS
<1>2. f[0] = r /\ f[1] = crc_byte(q, r, b)
  OBVIOUS
<1> HIDE DEF data
<1>3. f = [j \in 0 .. Len(data) |-> IF j = 0 THEN r ELSE crc_byte(q, f[j - 1], data[j])]
  <2>1. ASSUME NEW j \in 0 .. 1
        PROVE  f[j] = IF j = 0 THEN r ELSE crc_byte(q, f[j - 1], data[j])
    <3>1. CASE j = 0
      BY <1>2, <3>1
    <3>2. CASE j = 1
      BY <1>1, <1>2, <3>2
    <3> QED BY <3>1, <3>2
  <2> QED BY <1>1, <2>1
<1>4. x = [j \in 0 .. Len(data) |-> IF j = 0 THEN r ELSE crc_byte(q, x[j - 1], data[j])]
  <2>1. \E d : d = [j \in 0 .. Len(data) |-> IF j = 0 THEN r ELSE crc_byte(q, d[j - 1], data[j])]
    BY <1>3
  <2> QED BY <2>1, Zenon
<1>5. crc_bytes(q, r, data) = x[Len(data)]
  BY Zenon DEF crc_bytes
<1> HIDE DEF x
<1>6. x[0] = r /\ x[1] = crc_byte(q, x[0], data[1])
  BY <1>1, <1>4
<1> QED BY <1>1, <1>5, <1>6 DEF data

\* With such a polynomial the first result may go on as it is only if it is
\* its own mirror image (crc64.c:40).
THEOREM ContinuesOnlyMirrored ==
    ASSUME NEW q \in Word, 0 \in q, NEW data \in Seq(Bytes), NEW b \in Bytes
    PROVE  LET crc == _crc64(q, {}, data)
           IN  _crc64(q, crc, <<b>>) = Crc(q, data \o <<b>>) <=> crc_reflect(crc, W) = crc
<1> DEFINE crc == _crc64(q, {}, data)
           back == crc_reflect(crc, W)
<1>1. <<b>> \in Seq(Bytes)
  OBVIOUS
<1>2. Crc(q, data \o <<b>>) = _crc64(q, back, <<b>>)
  BY <1>1, DividesAnyMessage
<1>3. crc \in Word /\ back \in Word
  <2>1. crc_bytes(q, {}, data) \in Word
    BY RegisterIs, SumIs
  <2> QED BY <2>1, Reflect DEF _crc64
<1> HIDE DEF crc, back
<1>4. ASSUME NEW r \in Word
      PROVE  _crc64(q, r, <<b>>) = crc_reflect(crc_byte(q, r, b), W) /\ crc_byte(q, r, b) \in Word
  BY OneByteOn, ByteType DEF _crc64
<1>5. \A x, y \in Word : crc_reflect(x, W) = crc_reflect(y, W) => x = y
  BY Reflect
<1>6. _crc64(q, crc, <<b>>) = _crc64(q, back, <<b>>) => crc_byte(q, crc, b) = crc_byte(q, back, b)
  BY <1>3, <1>4, <1>5
<1>7. crc_byte(q, crc, b) = crc_byte(q, back, b) => crc = back
  BY <1>3, ByteKeepsApart
<1>8. _crc64(q, crc, <<b>>) = Crc(q, data \o <<b>>) <=> back = crc
  BY <1>2, <1>6, <1>7
<1> QED BY <1>8 DEF crc, back

-----------------------------------------------------------------------------
\* What the bits of an int count.
LEMMA BitValues ==
    /\ BitValue \in [0 .. BYTE -> Nat \ {0}]
    /\ BitValue[0] = 1
    /\ \A b \in 1 .. BYTE : BitValue[b] = 2 * BitValue[b - 1]
<1> DEFINE P == Nat \ {0}
           step == [z \in P \X (1 .. BYTE) |-> 2 * z[1]]
<1>0. BYTE \in Nat
  BY Widths
<1>1. ASSUME NEW b \in 1 .. BYTE, NEW v \in P
      PROVE  step[<<v, b>>] = 2 * v /\ step[<<v, b>>] \in P
  <2>1. step[<<v, b>>] = 2 * v
    OBVIOUS
  <2> HIDE DEF step
  <2> QED BY <2>1
<1> HIDE DEF step
<1>2. StaysIn(BYTE, P, step) /\ 1 \in P
  BY <1>1 DEF StaysIn
<1>3. PICK f \in [0 .. BYTE -> P] : Iterates(BYTE, 1, step, f)
  <2> HIDE DEF P
  <2> QED BY <1>0, <1>2, Repeated
<1>4. ASSUME NEW b \in 0 .. BYTE
      PROVE  f[b] = IF b = 0 THEN 1 ELSE 2 * f[b - 1]
  <2>1. CASE b = 0
    BY <1>3, <2>1 DEF Iterates
  <2>2. CASE b # 0
    <3>1. b \in 1 .. BYTE /\ b - 1 \in 0 .. BYTE
      BY <1>0, <2>2
    <3>2. f[b] = step[<<f[b - 1], b>>] /\ f[b - 1] \in P
      BY <1>3, <3>1 DEF Iterates
    <3> QED BY <1>1, <2>2, <3>1, <3>2
  <2> QED BY <2>1, <2>2
<1>5. f = [b \in 0 .. BYTE |-> IF b = 0 THEN 1 ELSE 2 * f[b - 1]]
  BY <1>4
<1>6. BitValue = [b \in 0 .. BYTE |-> IF b = 0 THEN 1 ELSE 2 * BitValue[b - 1]]
  <2>1. \E g : g = [b \in 0 .. BYTE |-> IF b = 0 THEN 1 ELSE 2 * g[b - 1]]
    BY <1>5
  <2> QED BY <2>1, Zenon DEF BitValue
<1>7. BitValue[0] = 1 /\ \A b \in 1 .. BYTE : BitValue[b] = 2 * BitValue[b - 1]
  BY <1>0, <1>6
<1> DEFINE T == {b \in 0 .. BYTE : BitValue[b] \in P}
<1>8. 0 \in T
  BY <1>0, <1>7
<1>9. ASSUME NEW b \in 0 .. (BYTE - 1), b \in T PROVE b + 1 \in T
  <2>1. b + 1 \in 0 .. BYTE /\ b + 1 \in 1 .. BYTE /\ (b + 1) - 1 = b
    BY <1>0
  <2>2. BitValue[b + 1] = 2 * BitValue[b]
    BY <1>7, <2>1
  <2> QED BY <1>9, <2>1, <2>2
<1>10. \A b \in 0 .. BYTE : b \in T
  <2> HIDE DEF T
  <2> QED BY <1>0, <1>8, <1>9, UpTo
<1>11. BitValue \in [0 .. BYTE -> P]
  BY <1>6, <1>10
<1> QED BY <1>7, <1>11

LEMMA DivideDoubled ==
    ASSUME NEW V \in Nat \ {0}, NEW m \in Nat, NEW d \in {0, 1}
    PROVE  (2 * m + d) \div (2 * V) = m \div V
<1>1. PICK q \in Nat, r \in 0 .. (V - 1) : m = V * q + r
  BY DivideNat
<1>2. m \div V = q
  BY <1>1, DivisionUnique
<1>3. PICK D \in Nat \ {0} : D = 2 * V
  OBVIOUS
<1>4. PICK s \in 0 .. (D - 1) : s = 2 * r + d
  BY <1>3
<1>5. 2 * m + d = D * q + s
  <2>1. V * q \in Nat /\ (2 * V) * q = 2 * (V * q)
    BY <1>1
  <2> QED BY <1>1, <1>3, <1>4, <2>1
<1>6. (D * q + s) \div D = q
  BY DivisionUnique
<1> QED BY <1>2, <1>3, <1>5, <1>6

\* The loop over n reaches every byte.
LEMMA EveryByteReached ==
    \A c \in Bytes : \E m \in 0 .. (BitValue[BYTE] - 1) : Bits(m) = c
<1>0. BYTE \in Nat
  BY Widths
<1> DEFINE Agree(m, k, c) ==
               \A b \in 0 .. (k - 1) : (m \div BitValue[b]) % 2 = 1 <=> b \in c
           T == {k \in 0 .. BYTE : \A c \in SUBSET (0 .. (k - 1)) :
                                      \E m \in 0 .. (BitValue[k] - 1) : Agree(m, k, c)}
<1>1. 0 \in T
  <2>1. 0 \in 0 .. (BitValue[0] - 1) /\ \A c : Agree(0, 0, c)
    BY BitValues
  <2> QED BY <1>0, <2>1
<1>2. ASSUME NEW k \in 0 .. (BYTE - 1), k \in T PROVE k + 1 \in T
  <2>1. k \in Nat /\ k \in 0 .. BYTE /\ k + 1 \in 0 .. BYTE /\ k + 1 \in 1 .. BYTE
        /\ (k + 1) - 1 = k
    BY <1>0
  <2> SUFFICES ASSUME NEW c \in SUBSET (0 .. k)
               PROVE  \E m \in 0 .. (BitValue[k + 1] - 1) : Agree(m, k + 1, c)
    BY <2>1
  <2> DEFINE e == {b - 1 : b \in c \ {0}}
             d == IF 0 \in c THEN 1 ELSE 0
  <2>2. e \in SUBSET (0 .. (k - 1)) /\ \A b \in 1 .. k : b - 1 \in e <=> b \in c
    BY <2>1
  <2>3. d \in {0, 1} /\ (d = 1 <=> 0 \in c)
    OBVIOUS
  <2> HIDE DEF d, e
  <2>4. PICK m \in 0 .. (BitValue[k] - 1) : Agree(m, k, e)
    BY <1>2, <2>2
  <2>5. PICK V \in Nat : V = BitValue[k] /\ 2 * V = BitValue[k + 1]
    BY <2>1, BitValues
  <2>6. m \in Nat /\ m < V
    BY <2>4, <2>5
  <2>7. PICK u \in Nat : u = 2 * m + d
    BY <2>3, <2>6
  <2>8. u \in 0 .. (BitValue[k + 1] - 1)
    BY <2>3, <2>5, <2>6, <2>7
  <2>9. ASSUME NEW b \in 0 .. k PROVE (u \div BitValue[b]) % 2 = 1 <=> b \in c
    <3>1. CASE b = 0
      <4>1. u \div 1 = u
        BY DivisionUnique
      <4>2. u % 2 = d
        BY <2>3, <2>6, <2>7, DivisionUnique
      <4> QED BY <2>3, <3>1, <4>1, <4>2, BitValues
    <3>2. CASE b # 0
      <4>1. b \in 1 .. k /\ b \in 1 .. BYTE /\ b - 1 \in 0 .. BYTE /\ b - 1 \in 0 .. (k - 1)
        BY <1>0, <2>1, <3>2
      <4>2. PICK X \in Nat \ {0} : X = BitValue[b - 1] /\ BitValue[b] = 2 * X
        BY <4>1, BitValues
      <4>3. u \div (2 * X) = m \div X
        BY <2>3, <2>6, <2>7, DivideDoubled
      <4>4. (m \div BitValue[b - 1]) % 2 = 1 <=> b - 1 \in e
        BY <2>4, <4>1
      <4> QED BY <2>2, <4>1, <4>2, <4>3, <4>4
    <3> QED BY <3>1, <3>2
  <2> QED BY <2>1, <2>8, <2>9
<1>3. \A k \in 0 .. BYTE : k \in T
  <2> HIDE DEF T
  <2> QED BY <1>0, <1>1, <1>2, UpTo
<1>4. ASSUME NEW c \in Bytes
      PROVE  \E m \in 0 .. (BitValue[BYTE] - 1) : Bits(m) = c
  <2>1. c \in SUBSET (0 .. (BYTE - 1)) /\ BYTE \in T
    BY <1>0, <1>3 DEF Bytes
  <2>2. PICK m \in 0 .. (BitValue[BYTE] - 1) : Agree(m, BYTE, c)
    BY <2>1
  <2>3. Bits(m) = c
    BY <2>1, <2>2 DEF Bits
  <2> QED BY <2>3
<1> QED BY <1>4

-----------------------------------------------------------------------------
\* rev8 forgets its argument, and what it returns is not 0.
LEMMA ForgetsArgument ==
    /\ rev8({}) \in Word /\ rev8({}) # {}
    /\ \A a : rev8(a) = rev8({})
<1> DEFINE swapped == (Right(EvenPairs, 2 * BYTE) \cap EvenBytes)
                        \cup Left(EvenPairs \cap EvenBytes, 2 * BYTE)
<1>1. \A a : rev8(a) = Right(swapped, W \div 2) \cup Left(swapped, W \div 2)
  BY DEF rev8
<1>2. PICK x \in Nat : x = 2 * BYTE /\ x \in 0 .. (W - 1) /\ x # 0
  BY Widths
<1>3. PICK h \in Nat : h = W \div 2 /\ 2 * h <= W
  BY Widths
<1>4. 0 \in EvenPairs \cap EvenBytes
  <2>1. 0 \div x = 0 /\ 0 \div BYTE = 0 /\ 0 % 2 = 0 /\ 0 \in 0 .. (W - 1)
    BY <1>2, Widths
  <2> QED BY <1>2, <2>1 DEF EvenPairs, EvenBytes
<1>5. x \in swapped
  <2>1. 0 + x = x
    OBVIOUS
  <2> QED BY <1>2, <1>4, <2>1 DEF Left
<1> HIDE DEF swapped
<1>6. x + h \in 0 .. (W - 1) \/ x - h \in 0 .. (W - 1)
  BY <1>2, <1>3, Widths
<1>7. Right(swapped, h) \cup Left(swapped, h) # {}
  BY <1>5, <1>6 DEF Right, Left
<1>8. Right(swapped, h) \cup Left(swapped, h) \in Word
  BY DEF Right, Left, Word
<1> QED BY <1>1, <1>3, <1>7, <1>8

-----------------------------------------------------------------------------
LEMMA ReflectXor ==
    ASSUME NEW r \in Word, NEW s \in Word
    PROVE  crc_reflect(Xor(r, s), W) = Xor(crc_reflect(r, W), crc_reflect(s, W))
<1>1. ASSUME NEW b \in 0 .. (W - 1)
      PROVE  b \in crc_reflect(Xor(r, s), W) <=> b \in Xor(crc_reflect(r, W), crc_reflect(s, W))
  <2>1. b \in crc_reflect(Xor(r, s), W) <=> W - 1 - b \in Xor(r, s)
    BY XorType, Reflect
  <2>2. (b \in crc_reflect(r, W) <=> W - 1 - b \in r) /\ (b \in crc_reflect(s, W) <=> W - 1 - b \in s)
    BY Reflect
  <2> QED BY <2>1, <2>2 DEF Xor
<1> QED BY <1>1, Reflect, XorType, SameSum

\* The exponents of a byte.
LEMMA OneByte ==
    ASSUME NEW c \in Bytes
    PROVE  /\ <<c>> \in Seq(Bytes)
           /\ Exponents(<<c>>) = {W + BYTE - 1 - u : u \in c}
<1>1. Ones(<<c>>) = c
  <2>1. \A b \in c : BYTE * (1 - 1) + b = b
    BY Widths DEF Bytes
  <2>2. DOMAIN <<c>> = {1} /\ <<c>>[1] = c
    OBVIOUS
  <2> QED BY <2>1, <2>2 DEF Ones
<1>2. Len(<<c>>) = 1 /\ BYTE * 1 = BYTE
  BY Widths
<1> QED BY <1>1, <1>2 DEF Exponents

LEMMA CrcOfNothing == ASSUME NEW q \in Word PROVE Crc(q, <<{}>>) = {}
<1>1. {} \in Bytes /\ {} \in Word
  BY DEF Bytes, Word
<1>2. Exponents(<<{}>>) = {}
  BY <1>1, OneByte
<1> QED BY <1>1, <1>2, SumOfWord DEF Crc, crc_reflect

LEMMA CrcType == ASSUME NEW q \in Word, NEW data PROVE Crc(q, data) \in Word
BY SumIs, Reflect DEF Crc

\* A byte of 0 at the end multiplies with x^BYTE.
LEMMA ZeroByte ==
    ASSUME NEW q \in Word, NEW data \in Seq(Bytes)
    PROVE  Sum(q, Exponents(data \o <<{}>>)) = Sum(q, Shift(Sum(q, Exponents(data)), BYTE))
<1> DEFINE D == data \o <<{}>>
<1>1. /\ Len(data) \in Nat /\ Len(D) = Len(data) + 1
      /\ DOMAIN data = 1 .. Len(data) /\ DOMAIN D = 1 .. (Len(data) + 1)
      /\ \A j \in 1 .. Len(data) : D[j] = data[j]
      /\ D[Len(data) + 1] = {}
  OBVIOUS
<1> HIDE DEF D
<1>2. Ones(D) = Ones(data)
  BY <1>1 DEF Ones
<1>3. PICK t \in Nat : t = BYTE * Len(data) /\ t + BYTE = BYTE * Len(D)
  BY <1>1, Widths
<1>4. Ones(data) \in SUBSET Nat
  BY OnesAre
<1>5. Exponents(D) = Shift(Exponents(data), BYTE)
  <2>1. \A u \in Nat : W + (t + BYTE) - 1 - u = (W + t - 1 - u) + BYTE
    BY Widths
  <2>2. Exponents(data) = {W + t - 1 - u : u \in Ones(data)}
    BY <1>3 DEF Exponents
  <2>3. Exponents(D) = {W + (t + BYTE) - 1 - u : u \in Ones(data)}
    BY <1>2, <1>3 DEF Exponents
  <2> QED BY <1>4, <2>1, <2>2, <2>3 DEF Shift
<1>6. Exponents(data) \in SUBSET Nat /\ IsFiniteSet(Exponents(data))
  BY <1>3, <1>4, OnesAre, BeforeType
<1> QED BY <1>5, <1>6, SumShifted, Widths DEF D

\* The table has what becomes of the byte that is shifted out.
LEMMA ShiftByte ==
    ASSUME NEW q \in Word, NEW R \in Word, NEW c, c = crc_reflect(R, W)
    PROVE  crc_reflect(Sum(q, Shift(R, BYTE)), W)
             = Xor(Crc(q, <<c \cap 0 .. (BYTE - 1)>>), Right(c, BYTE))
<1> DEFINE low == c \cap 0 .. (BYTE - 1)
           L == R \cap 0 .. (W - BYTE - 1)
           H == R \ L
<1>0. W \in Nat /\ BYTE \in Nat /\ BYTE <= W /\ R \in SUBSET (0 .. (W - 1))
  BY Widths DEF Word
<1>1. low \in Bytes /\ c \in Word /\ \A b \in 0 .. (W - 1) : b \in c <=> W - 1 - b \in R
  BY Reflect DEF Bytes
<1>2. Exponents(<<low>>) = Shift(H, BYTE)
  <2>1. ASSUME NEW u \in low
        PROVE  W - 1 - u \in H /\ (W - 1 - u) + BYTE = W + BYTE - 1 - u
    BY <1>0, <1>1
  <2>2. ASSUME NEW h \in H
        PROVE  W - 1 - h \in low /\ W + BYTE - 1 - (W - 1 - h) = h + BYTE
    <3>1. W - 1 - h \in 0 .. (BYTE - 1) /\ W - 1 - h \in 0 .. (W - 1) /\ W - 1 - (W - 1 - h) = h
      BY <1>0
    <3> QED BY <1>0, <1>1, <3>1
  <2>3. Exponents(<<low>>) = {W + BYTE - 1 - u : u \in low}
    BY <1>1, OneByte
  <2> HIDE DEF low, H
  <2> QED BY <2>1, <2>2, <2>3 DEF Shift
<1>3. Shift(R, BYTE) = Xor(Shift(H, BYTE), Shift(L, BYTE))
  <2>1. \A x, y \in R : x + BYTE = y + BYTE => x = y
    BY <1>0
  <2> QED BY <2>1 DEF Xor, Shift
<1>4. Shift(L, BYTE) \in Word
  BY <1>0 DEF Shift, Word
<1>5. IsFiniteSet(Shift(H, BYTE)) /\ IsFiniteSet(Shift(L, BYTE))
  <2>1. H \in Word /\ L \in Word
    BY <1>0 DEF Word
  <2> HIDE DEF H, L
  <2> QED BY <1>0, <2>1, WordFinite, ShiftMore
<1>6. Sum(q, Shift(R, BYTE)) = Xor(Sum(q, Exponents(<<low>>)), Shift(L, BYTE))
  <2> HIDE DEF low, H, L
  <2>1. Sum(q, Xor(Shift(H, BYTE), Shift(L, BYTE)))
          = Xor(Sum(q, Shift(H, BYTE)), Sum(q, Shift(L, BYTE)))
    BY <1>5, SumXor
  <2>2. Sum(q, Shift(L, BYTE)) = Shift(L, BYTE)
    BY <1>4, SumOfWord
  <2> QED BY <1>2, <1>3, <2>1, <2>2
<1>7. crc_reflect(Shift(L, BYTE), W) = Right(c, BYTE)
  <2>1. ASSUME NEW b \in 0 .. (W - 1)
        PROVE  b \in crc_reflect(Shift(L, BYTE), W) <=> b \in Right(c, BYTE)
    <3>1. b \in crc_reflect(Shift(L, BYTE), W) <=> W - 1 - b \in Shift(L, BYTE)
      BY <1>4, Reflect
    <3>2. W - 1 - b \in Shift(L, BYTE) <=> W - 1 - (b + BYTE) \in L
      <4>1. \A d \in L : d + BYTE = W - 1 - b <=> d = W - 1 - (b + BYTE)
        BY <1>0
      <4> QED BY <4>1 DEF Shift
    <3>3. b \in Right(c, BYTE) <=> b + BYTE \in c
      <4>1. \A d \in c : d - BYTE = b <=> d = b + BYTE
        BY <1>0, <1>1 DEF Word
      <4> QED BY <4>1 DEF Right
    <3>4. W - 1 - (b + BYTE) \in L <=> b + BYTE \in c
      <4>1. CASE b + BYTE \in 0 .. (W - 1)
        BY <1>0, <1>1, <4>1
      <4>2. CASE b + BYTE \notin 0 .. (W - 1)
        BY <1>0, <1>1, <4>2 DEF Word
      <4> QED BY <4>1, <4>2
    <3> QED BY <3>1, <3>2, <3>3, <3>4
  <2>2. Right(c, BYTE) \in Word /\ crc_reflect(Shift(L, BYTE), W) \in Word
    BY <1>4, Reflect DEF Right, Word
  <2> QED BY <2>1, <2>2, SameSum
<1> HIDE DEF low, L, H
<1>8. crc_reflect(Xor(Sum(q, Exponents(<<low>>)), Shift(L, BYTE)), W)
        = Xor(crc_reflect(Sum(q, Exponents(<<low>>)), W), crc_reflect(Shift(L, BYTE), W))
  BY <1>4, SumIs, ReflectXor
<1> QED BY <1>6, <1>7, <1>8 DEF Crc, low

\* One zero more behind a message: what the loop over the slices computes.
LEMMA NextSlice ==
    ASSUME NEW q \in Word, NEW data \in Seq(Bytes), NEW c, c = Crc(q, data)
    PROVE  Crc(q, data \o <<{}>>) = Xor(Crc(q, <<c \cap 0 .. (BYTE - 1)>>), Right(c, BYTE))
<1>1. PICK R \in Word : R = Sum(q, Exponents(data))
  BY SumIs
<1>2. c = crc_reflect(R, W)
  BY <1>1 DEF Crc
<1>3. Crc(q, data \o <<{}>>) = crc_reflect(Sum(q, Shift(R, BYTE)), W)
  BY <1>1, ZeroByte DEF Crc
<1> QED BY <1>2, <1>3, ShiftByte

LEMMA ZerosBehind ==
    ASSUME NEW c \in Bytes, NEW k \in Nat
    PROVE  /\ <<c>> \o Zeros(k) \in Seq(Bytes)
           /\ <<c>> \o Zeros(0) = <<c>>
           /\ <<c>> \o Zeros(k + 1) = (<<c>> \o Zeros(k)) \o <<{}>>
<1>1. {} \in Bytes
  BY DEF Bytes
<1>2. ASSUME NEW j \in Nat
      PROVE  /\ Zeros(j) \in Seq(Bytes) /\ Len(Zeros(j)) = j
             /\ \A i \in 1 .. j : Zeros(j)[i] = {}
  BY <1>1 DEF Zeros
<1>3. <<c>> \o Zeros(k) \in Seq(Bytes)
  BY <1>2
<1>4. <<c>> \o Zeros(0) = <<c>>
  <2>1. Zeros(0) = << >>
    BY <1>2
  <2>2. ASSUME NEW s \in Seq(Bytes) PROVE s \o << >> = s
    OBVIOUS
  <2>3. <<c>> \in Seq(Bytes)
    OBVIOUS
  <2> QED BY <2>1, <2>2, <2>3
<1> DEFINE A == <<c>> \o Zeros(k + 1)
           B == (<<c>> \o Zeros(k)) \o <<{}>>
<1>5. k + 1 \in Nat
  OBVIOUS
<1>6. A \in Seq(Bytes) /\ Len(A) = k + 2 /\ A[1] = c /\ \A i \in 2 .. (k + 2) : A[i] = {}
  BY <1>2, <1>5
<1>7. B \in Seq(Bytes) /\ Len(B) = k + 2 /\ B[1] = c /\ \A i \in 2 .. (k + 2) : B[i] = {}
  BY <1>1, <1>2, <1>3
<1>8. A = B
  <2>1. ASSUME NEW i \in 1 .. (k + 2) PROVE A[i] = B[i]
    <3> HIDE DEF A, B
    <3>1. i = 1 \/ i \in 2 .. (k + 2)
      OBVIOUS
    <3> QED BY <1>6, <1>7, <3>1
  <2> HIDE DEF A, B
  <2> QED BY <1>6, <1>7, <2>1
<1> QED BY <1>3, <1>4, <1>8

-----------------------------------------------------------------------------
\* What the tables hold while they are made.  On a little-endian machine a
\* slice is right for the bytes that have been passed, and the first slice for
\* all of them before another is begun; on a big-endian one nothing is ever
\* looked up but the CRC of 0, and each slice is blank until rev8 fills it.
CrcTypes ==
    /\ poly \in Polys /\ little \in BOOLEAN
    /\ stage \in {"first", "others", "swap", "done"}
    /\ n \in Nat
    /\ stage \in {"first", "others"} => n < BitValue[BYTE]
    /\ stage = "swap" => n \in Slices
    /\ table \in [Slices -> [Bytes -> Word]]

Entry(c, k) == Crc(poly, <<c>> \o Zeros(k))

Little ==
    little =>
        /\ stage # "swap"
        /\ stage = "first" => \A m \in 0 .. (n - 1) : table[0][Bits(m)] = Entry(Bits(m), 0)
        /\ stage # "first" => \A c \in Bytes : table[0][c] = Entry(c, 0)
        /\ stage = "others" => \A m \in 0 .. (n - 1), k \in Slices :
                                  table[k][Bits(m)] = Entry(Bits(m), k)
        /\ stage = "done" => \A c \in Bytes, k \in Slices : table[k][c] = Entry(c, k)

Big ==
    ~little => \A k \in Slices, c \in Bytes :
        table[k][c] = IF stage = "done" \/ (stage = "swap" /\ k < n) THEN rev8({}) ELSE {}

CrcInv == CrcTypes /\ Little /\ Big

LEMMA SliceRange ==
    /\ \E s \in Nat : Slices = 0 .. s
    /\ 0 \in Slices
<1>1. PICK q \in Nat \ {0} : W = (4 * BYTE) * q
  BY Widths
<1>2. BYTE \in Nat \ {0} /\ (4 * BYTE) * q = BYTE * (4 * q) + 0 /\ 4 * q \in Nat /\ 4 * q >= 1
  BY Widths
<1>3. W \div BYTE = 4 * q
  BY <1>1, <1>2, DivisionUnique
<1>4. 4 * q - 1 \in Nat /\ Slices = 0 .. (4 * q - 1)
  BY <1>2, <1>3 DEF Slices
<1> QED BY <1>4

LEMMA BytesAre == {} \in Bytes /\ \A m : Bits(m) \in Bytes
BY DEF Bytes, Bits

\* A turn of the loop over the bytes, the last one of which has reached them all.
LEMMA Turn ==
    ASSUME CrcTypes, stage \in {"first", "others"}, NEW next, Loop(next)
    PROVE  \/ n' = n + 1 /\ n + 1 < BitValue[BYTE] /\ stage' = stage
           \/ /\ n' = 0 /\ 0 < BitValue[BYTE] /\ stage' = next
              /\ \A c \in Bytes : \E m \in 0 .. n : Bits(m) = c
<1>1. PICK V \in Nat : V = BitValue[BYTE] /\ 0 < V
  BY BitValues, Widths
<1>2. n \in Nat /\ n < V
  BY <1>1 DEF CrcTypes
<1>3. CASE n + 1 < V
  BY <1>1, <1>3 DEF Loop
<1>4. CASE ~(n + 1 < V)
  <2>1. n' = 0 /\ stage' = next
    BY <1>1, <1>4 DEF Loop
  <2>2. V - 1 = n
    BY <1>2, <1>4
  <2>3. \A c \in Bytes : \E m \in 0 .. (V - 1) : Bits(m) = c
    BY <1>1, EveryByteReached
  <2> QED BY <1>1, <2>1, <2>2, <2>3
<1> QED BY <1>3, <1>4

LEMMA EntryFacts ==
    ASSUME NEW q \in Word, NEW c \in Bytes
    PROVE  /\ Crc(q, <<c>> \o Zeros(0)) = Crc(q, <<c>>)
           /\ _crc64(q, {}, <<c>>) = Crc(q, <<c>>)
           /\ Crc(q, <<c>>) \in Word
<1>1. <<c>> \o Zeros(0) = <<c>>
  <2>1. 0 \in Nat
    OBVIOUS
  <2> QED BY <2>1, ZerosBehind
<1>2. <<c>> \in Seq(Bytes)
  BY OneByte
<1> QED BY <1>1, <1>2, DividesAnyMessage, CrcType

LEMMA CrcInitInv == CrcInit => CrcInv
<1> SUFFICES ASSUME CrcInit PROVE CrcInv
  OBVIOUS
<1>1. {} \in Word
  BY DEF Word
<1>2. 0 < BitValue[BYTE]
  BY BitValues, Widths
<1>3. CrcTypes
  BY <1>1, <1>2 DEF CrcInit, CrcTypes
<1>4. Little
  BY DEF CrcInit, Little
<1>5. Big
  BY DEF CrcInit, Big
<1> QED BY <1>3, <1>4, <1>5 DEF CrcInv

LEMMA FirstSliceInv == CrcInv /\ FirstSlice => CrcInv'
<1> SUFFICES ASSUME CrcInv, FirstSlice PROVE CrcInv'
  OBVIOUS
<1>1. /\ CrcTypes /\ Little /\ Big
      /\ stage = "first" /\ Loop("others") /\ poly' = poly /\ little' = little
      /\ poly \in Word /\ n \in Nat /\ table \in [Slices -> [Bytes -> Word]]
  BY WidthsOK DEF CrcInv, FirstSlice, CrcTypes, Word
<1>2. PICK c \in Bytes : c = Bits(n)
  BY BytesAre
<1>3. PICK v \in Word : /\ v = _crc64(poly, {}, <<first_byte>>)
                        /\ little => v = Crc(poly, <<c>>)
                        /\ ~little => v = {}
  <2>1. CASE little
    <3>1. first_byte = c
      BY <1>2, <2>1 DEF first_byte
    <3> QED BY <1>1, <2>1, <3>1, EntryFacts
  <2>2. CASE ~little
    <3>1. first_byte = {}
      BY <2>2 DEF first_byte
    <3>2. _crc64(poly, {}, <<{}>>) = {} /\ {} \in Word
      BY <1>1, BytesAre, EntryFacts, CrcOfNothing
    <3> QED BY <2>2, <3>1, <3>2
  <2> QED BY <2>1, <2>2
<1>4. /\ table' = [table EXCEPT ![0][c] = v]
      /\ 0 \in Slices
  BY <1>2, <1>3, SliceRange DEF FirstSlice
<1>5. /\ table' \in [Slices -> [Bytes -> Word]]
      /\ \A d \in Bytes : table'[0][d] = IF d = c THEN v ELSE table[0][d]
      /\ \A k \in Slices, d \in Bytes : k # 0 => table'[k][d] = table[k][d]
  BY <1>1, <1>4
<1>6. \/ n' = n + 1 /\ n + 1 < BitValue[BYTE] /\ stage' = "first"
      \/ /\ n' = 0 /\ 0 < BitValue[BYTE] /\ stage' = "others"
         /\ \A d \in Bytes : \E m \in 0 .. n : Bits(m) = d
  BY <1>1, Turn
<1>7. CrcTypes'
  BY <1>1, <1>5, <1>6 DEF CrcTypes
<1>8. Little'
  <2> SUFFICES ASSUME little PROVE Little'
    BY <1>1 DEF Little
  <2>1. v = Entry(c, 0)
    BY <1>1, <1>3, EntryFacts DEF Entry
  <2>2. ASSUME NEW m \in 0 .. n PROVE table'[0][Bits(m)] = Entry(Bits(m), 0)
    <3>1. CASE m = n
      BY <1>2, <1>5, <2>1, <3>1
    <3>2. CASE m # n
      <4>1. m \in 0 .. (n - 1) /\ Bits(m) \in Bytes
        BY <1>1, <3>2, BytesAre
      <4>2. table[0][Bits(m)] = Entry(Bits(m), 0)
        BY <1>1, <4>1 DEF Little
      <4> QED BY <1>5, <2>1, <4>1, <4>2
    <3> QED BY <3>1, <3>2
  <2>3. \A d, k : Entry(d, k)' = Entry(d, k)
    BY <1>1 DEF Entry
  <2>4. CASE stage' = "first"
    <3>1. n' - 1 = n
      BY <1>1, <1>6, <2>4
    <3> QED BY <2>2, <2>3, <2>4, <3>1 DEF Little
  <2>5. CASE stage' = "others"
    <3>1. \A d \in Bytes : table'[0][d] = Entry(d, 0)
      BY <1>6, <2>2, <2>5
    <3>2. 0 .. (n' - 1) = {}
      BY <1>6, <2>5
    <3> QED BY <2>3, <2>5, <3>1, <3>2 DEF Little
  <2> QED BY <1>6, <2>4, <2>5
<1>9. Big'
  <2> SUFFICES ASSUME ~little, NEW k \in Slices, NEW d \in Bytes PROVE table'[k][d] = {}
    BY <1>1, <1>6 DEF Big
  <2>1. v = {} /\ table[k][d] = {}
    BY <1>1, <1>3 DEF Big
  <2> QED BY <1>5, <2>1
<1> QED BY <1>7, <1>8, <1>9 DEF CrcInv

LEMMA ShiftType ==
    ASSUME CrcTypes, NEW r \in Word
    PROVE  shift_byte(r) \in Word
<1>1. table[0][r \cap 0 .. (BYTE - 1)] \in Word
  <2>1. r \cap 0 .. (BYTE - 1) \in Bytes
    BY DEF Bytes
  <2> QED BY <2>1, SliceRange DEF CrcTypes
<1>2. Right(r, BYTE) \in Word
  BY DEF Right, Word
<1> QED BY <1>1, <1>2, XorType DEF shift_byte

\* What one turn of OtherSlices puts into the slices.
RowOf(row) ==
    /\ row[0] = table[0][Bits(n)]
    /\ \A k \in Slices \ {0} : row[k] = shift_byte(row[k - 1])
    /\ table' = [k \in Slices |-> [table[k] EXCEPT ![Bits(n)] = row[k]]]

LEMMA RowIs ==
    ASSUME CrcTypes, OtherSlices
    PROVE  \E row \in [Slices -> Word] : RowOf(row)
<1> DEFINE a == table[0][Bits(n)]
           row == CHOOSE x : x = [k \in Slices |-> IF k = 0 THEN a ELSE shift_byte(x[k - 1])]
<1>0. PICK s \in Nat : Slices = 0 .. s
  BY SliceRange
<1>1. a \in Word
  BY SliceRange, BytesAre DEF CrcTypes
<1>2. table' = [k \in Slices |-> [table[k] EXCEPT ![Bits(n)] = row[k]]]
  BY Zenon DEF OtherSlices
<1> HIDE DEF a
<1> DEFINE step == [z \in Word \X (1 .. s) |-> shift_byte(z[1])]
<1>3. ASSUME NEW k \in 1 .. s, NEW r \in Word
      PROVE  step[<<r, k>>] = shift_byte(r) /\ step[<<r, k>>] \in Word
  <2>1. step[<<r, k>>] = shift_byte(r)
    OBVIOUS
  <2> HIDE DEF step
  <2> QED BY <2>1, ShiftType
<1> HIDE DEF step
<1>4. StaysIn(s, Word, step)
  BY <1>3 DEF StaysIn
<1>5. PICK f \in [0 .. s -> Word] : Iterates(s, a, step, f)
  BY <1>1, <1>4, Repeated
<1>6. ASSUME NEW k \in Slices PROVE f[k] = IF k = 0 THEN a ELSE shift_byte(f[k - 1])
  <2>1. CASE k = 0
    BY <1>5, <2>1 DEF Iterates
  <2>2. CASE k # 0
    <3>1. k \in 1 .. s /\ k - 1 \in 0 .. s
      BY <1>0, <2>2
    <3>2. f[k] = step[<<f[k - 1], k>>] /\ f[k - 1] \in Word
      BY <1>5, <3>1 DEF Iterates
    <3> QED BY <1>3, <2>2, <3>1, <3>2
  <2> QED BY <2>1, <2>2
<1>7. f = [k \in Slices |-> IF k = 0 THEN a ELSE shift_byte(f[k - 1])]
  BY <1>0, <1>6
<1>8. row = [k \in Slices |-> IF k = 0 THEN a ELSE shift_byte(row[k - 1])]
  <2>1. \E x : x = [k \in Slices |-> IF k = 0 THEN a ELSE shift_byte(x[k - 1])]
    BY <1>7
  <2> QED BY <2>1, Zenon
<1> HIDE DEF row
<1>9. row[0] = a /\ \A k \in Slices \ {0} : row[k] = shift_byte(row[k - 1])
  BY <1>8, SliceRange
<1> DEFINE T == {k \in 0 .. s : row[k] \in Word}
<1>10. 0 \in T
  BY <1>1, <1>9
<1>11. ASSUME NEW k \in 0 .. (s - 1), k \in T PROVE k + 1 \in T
  <2>1. k + 1 \in Slices \ {0} /\ (k + 1) - 1 = k
    BY <1>0
  <2>2. row[k + 1] = shift_byte(row[k])
    BY <1>9, <2>1
  <2> QED BY <1>0, <1>11, <2>1, <2>2, ShiftType
<1>12. \A k \in 0 .. s : k \in T
  <2> HIDE DEF T
  <2> QED BY <1>10, <1>11, UpTo
<1>13. row \in [Slices -> Word]
  BY <1>0, <1>8, <1>12
<1> QED BY <1>2, <1>9, <1>13 DEF RowOf, a

\* Where the first slice is right, the row is the CRCs with 0, 1, 2, ... zeros.
LEMMA RowOfCrcs ==
    ASSUME CrcTypes, Little, little, stage = "others", NEW row, RowOf(row)
    PROVE  \A k \in Slices : row[k] = Entry(Bits(n), k)
<1>0. PICK s \in Nat : Slices = 0 .. s
  BY SliceRange
<1>1. PICK c \in Bytes : c = Bits(n)
  BY BytesAre
<1>2. poly \in Word
  BY WidthsOK DEF CrcTypes, Word
<1> DEFINE T == {k \in 0 .. s : row[k] = Entry(c, k)}
<1>3. 0 \in T
  BY <1>1 DEF Little, RowOf
<1>4. ASSUME NEW k \in 0 .. (s - 1), k \in T PROVE k + 1 \in T
  <2>1. k \in Nat /\ k + 1 \in Slices \ {0} /\ (k + 1) - 1 = k
    BY <1>0
  <2>2. row[k + 1] = shift_byte(Entry(c, k))
    BY <1>4, <2>1 DEF RowOf
  <2>3. PICK low \in Bytes : low = Entry(c, k) \cap 0 .. (BYTE - 1)
    BY DEF Bytes
  <2>4. table[0][low] = Crc(poly, <<low>>)
    BY <1>2, EntryFacts DEF Little, Entry
  <2>5. shift_byte(Entry(c, k)) = Xor(Crc(poly, <<low>>), Right(Entry(c, k), BYTE))
    BY <2>3, <2>4 DEF shift_byte
  <2>6. <<c>> \o Zeros(k) \in Seq(Bytes) /\ <<c>> \o Zeros(k + 1) = (<<c>> \o Zeros(k)) \o <<{}>>
    BY <2>1, ZerosBehind
  <2>7. Crc(poly, (<<c>> \o Zeros(k)) \o <<{}>>)
          = Xor(Crc(poly, <<Entry(c, k) \cap 0 .. (BYTE - 1)>>), Right(Entry(c, k), BYTE))
    BY <1>2, <2>6, NextSlice DEF Entry
  <2>8. Entry(c, k + 1) = Crc(poly, (<<c>> \o Zeros(k)) \o <<{}>>)
    BY <2>6 DEF Entry
  <2> QED BY <1>0, <2>1, <2>2, <2>3, <2>5, <2>7, <2>8
<1>5. \A k \in 0 .. s : k \in T
  <2> HIDE DEF T
  <2> QED BY <1>3, <1>4, UpTo
<1> QED BY <1>0, <1>1, <1>5

\* Where it is blank, the row is blank.
LEMMA RowOfBlanks ==
    ASSUME CrcTypes, Big, ~little, stage = "others", NEW row, RowOf(row)
    PROVE  \A k \in Slices : row[k] = {}
<1>0. PICK s \in Nat : Slices = 0 .. s
  BY SliceRange
<1>1. \A d \in Bytes : table[0][d] = {}
  BY SliceRange DEF Big
<1>2. shift_byte({}) = {}
  BY <1>1, BytesAre DEF shift_byte, Right, Xor
<1> DEFINE T == {k \in 0 .. s : row[k] = {}}
<1>3. 0 \in T
  BY <1>1, BytesAre DEF RowOf
<1>4. ASSUME NEW k \in 0 .. (s - 1), k \in T PROVE k + 1 \in T
  <2>1. k + 1 \in Slices \ {0} /\ (k + 1) - 1 = k
    BY <1>0
  <2>2. row[k + 1] = shift_byte({})
    BY <1>4, <2>1 DEF RowOf
  <2> QED BY <1>0, <1>2, <2>1, <2>2
<1>5. \A k \in 0 .. s : k \in T
  <2> HIDE DEF T
  <2> QED BY <1>3, <1>4, UpTo
<1> QED BY <1>0, <1>5

LEMMA OtherSlicesInv == CrcInv /\ OtherSlices => CrcInv'
<1> SUFFICES ASSUME CrcInv, OtherSlices PROVE CrcInv'
  OBVIOUS
<1>1. /\ CrcTypes /\ Little /\ Big
      /\ stage = "others" /\ poly' = poly /\ little' = little
      /\ Loop(IF little THEN "done" ELSE "swap")
      /\ n \in Nat /\ table \in [Slices -> [Bytes -> Word]]
  BY DEF CrcInv, OtherSlices, CrcTypes
<1>2. PICK row \in [Slices -> Word] : RowOf(row)
  BY <1>1, RowIs
<1>3. PICK c \in Bytes : c = Bits(n)
  BY BytesAre
<1>4. /\ table' \in [Slices -> [Bytes -> Word]]
      /\ \A k \in Slices, d \in Bytes :
            table'[k][d] = IF d = c THEN row[k] ELSE table[k][d]
  BY <1>1, <1>2, <1>3 DEF RowOf
<1>5. \/ n' = n + 1 /\ n + 1 < BitValue[BYTE] /\ stage' = "others"
      \/ /\ n' = 0 /\ 0 < BitValue[BYTE] /\ stage' = IF little THEN "done" ELSE "swap"
         /\ \A d \in Bytes : \E m \in 0 .. n : Bits(m) = d
  BY <1>1, Turn
<1>6. CrcTypes'
  BY <1>1, <1>4, <1>5, SliceRange DEF CrcTypes
<1>7. Little'
  <2> SUFFICES ASSUME little PROVE Little'
    BY <1>1 DEF Little
  <2>1. \A k \in Slices : row[k] = Entry(c, k)
    BY <1>1, <1>2, <1>3, RowOfCrcs
  <2>2. ASSUME NEW m \in 0 .. n, NEW k \in Slices
        PROVE  table'[k][Bits(m)] = Entry(Bits(m), k)
    <3>1. CASE m = n
      BY <1>3, <1>4, <2>1, <3>1
    <3>2. CASE m # n
      <4>1. m \in 0 .. (n - 1) /\ Bits(m) \in Bytes
        BY <1>1, <3>2, BytesAre
      <4>2. table[k][Bits(m)] = Entry(Bits(m), k)
        BY <1>1, <4>1 DEF Little
      <4> QED BY <1>4, <2>1, <4>1, <4>2
    <3> QED BY <3>1, <3>2
  <2>3. \A d, k : Entry(d, k)' = Entry(d, k)
    BY <1>1 DEF Entry
  <2>4. \A d \in Bytes : table'[0][d] = Entry(d, 0)
    <3>1. \A d \in Bytes : table[0][d] = Entry(d, 0)
      BY <1>1 DEF Little
    <3> QED BY <1>4, <2>1, <3>1, SliceRange
  <2>5. CASE stage' = "others"
    <3>1. n' - 1 = n
      BY <1>1, <1>5, <2>5
    <3> QED BY <2>2, <2>3, <2>4, <2>5, <3>1 DEF Little
  <2>6. CASE stage' = "done"
    <3>1. \A d \in Bytes, k \in Slices : table'[k][d] = Entry(d, k)
      BY <1>5, <2>2, <2>6
    <3> QED BY <2>3, <2>4, <2>6, <3>1 DEF Little
  <2> QED BY <1>5, <2>5, <2>6
<1>8. Big'
  <2> SUFFICES ASSUME ~little, NEW k \in Slices, NEW d \in Bytes PROVE table'[k][d] = {}
    <3>1. stage' = "others" \/ (stage' = "swap" /\ n' = 0) \/ little
      BY <1>5
    <3>2. \A k \in Slices : ~(k < 0)
      BY SliceRange
    <3> QED BY <1>1, <3>1, <3>2 DEF Big
  <2>1. row[k] = {}
    BY <1>1, <1>2, RowOfBlanks
  <2>2. table[k][d] = {}
    BY <1>1 DEF Big
  <2> QED BY <1>4, <2>1, <2>2
<1> QED BY <1>6, <1>7, <1>8 DEF CrcInv

LEMMA SwapInv == CrcInv /\ Swap => CrcInv'
<1> SUFFICES ASSUME CrcInv, Swap PROVE CrcInv'
  OBVIOUS
<1>0. PICK s \in Nat : Slices = 0 .. s
  BY SliceRange
<1>1. /\ stage = "swap" /\ ~little /\ poly' = poly /\ little' = little
      /\ n \in Slices /\ table \in [Slices -> [Bytes -> Word]] /\ CrcTypes /\ Big
  BY DEF CrcInv, Swap, CrcTypes, Little
<1>2. PICK v \in Word : v = rev8({})
  BY ForgetsArgument
<1>3. table' = [table EXCEPT ![n] = [c \in Bytes |-> v]]
  <2>1. [c \in Bytes |-> rev8(table[n][c])] = [c \in Bytes |-> v]
    BY <1>2, ForgetsArgument
  <2> QED BY <2>1 DEF Swap
<1>4. /\ table' \in [Slices -> [Bytes -> Word]]
      /\ \A k \in Slices, c \in Bytes : table'[k][c] = IF k = n THEN v ELSE table[k][c]
  BY <1>1, <1>3
<1>5. \/ n' = n + 1 /\ n + 1 \in Slices /\ stage' = "swap"
      \/ n' = 0 /\ n + 1 \notin Slices /\ stage' = "done"
  BY <1>1 DEF Swap
<1>6. CrcTypes'
  <2>1. n' \in Nat /\ (stage' = "swap" => n' \in Slices)
    BY <1>0, <1>1, <1>5
  <2> QED BY <1>1, <1>4, <1>5, <2>1 DEF CrcTypes
<1>7. Little'
  BY <1>1 DEF Little
<1>8. Big'
  <2>1. ASSUME NEW k \in Slices, NEW c \in Bytes
        PROVE  table'[k][c] = IF stage' = "done" \/ (stage' = "swap" /\ k < n') THEN rev8({}) ELSE {}
    <3>1. table[k][c] = IF k < n THEN v ELSE {}
      BY <1>1, <1>2 DEF Big
    <3>2. CASE stage' = "swap"
      <4>1. k < n' <=> k < n \/ k = n
        BY <1>0, <1>1, <1>5, <3>2
      <4> QED BY <1>0, <1>1, <1>2, <1>4, <3>1, <3>2, <4>1
    <3>3. CASE stage' = "done"
      <4>1. k < n \/ k = n
        BY <1>0, <1>1, <1>5, <3>3
      <4> QED BY <1>2, <1>4, <3>1, <3>3, <4>1
    <3> QED BY <1>5, <3>2, <3>3
  <2>2. rev8({})' = rev8({})
    BY DEF rev8
  <2> QED BY <2>1, <2>2 DEF Big
<1> QED BY <1>6, <1>7, <1>8 DEF CrcInv

LEMMA CrcInvHolds == CrcSpec => []CrcInv
<1>1. CrcInv /\ UNCHANGED crcVars => CrcInv'
  <2> SUFFICES ASSUME CrcInv, UNCHANGED crcVars PROVE CrcInv'
    OBVIOUS
  <2>1. /\ poly' = poly /\ little' = little /\ stage' = stage /\ n' = n /\ table' = table
    BY DEF crcVars
  <2> QED BY <2>1 DEF CrcInv, CrcTypes, Little, Big, Entry
<1>2. CrcInv /\ [CrcNext]_crcVars => CrcInv'
  BY <1>1, FirstSliceInv, OtherSlicesInv, SwapInv DEF CrcNext
<1> QED BY <1>2, CrcInitInv, PTL DEF CrcSpec

\* _crc64 divides by whatever polynomial crcspeed.c is built with, in one call
\* or in two if the first result is reflected back; if it is not, the second
\* call is wrong but for results that are their own mirror image
\* (crc64.c:19-41).
THEOREM AlwaysDivides == CrcSpec => []DividesByPoly
<1>1. CrcInv => DividesByPoly
  <2> SUFFICES ASSUME CrcInv, NEW a \in Bytes, NEW b \in Bytes
               PROVE  LET crc == _crc64(poly, {}, <<a>>)
                      IN  /\ _crc64(poly, {}, <<a, b>>) = Crc(poly, <<a, b>>)
                          /\ _crc64(poly, crc_reflect(crc, W), <<b>>) = Crc(poly, <<a, b>>)
                          /\ 0 \in poly =>
                                (_crc64(poly, crc, <<b>>) = Crc(poly, <<a, b>>)
                                   <=> crc_reflect(crc, W) = crc)
    BY DEF DividesByPoly
  <2>1. poly \in Word
    BY WidthsOK DEF CrcInv, CrcTypes, Word
  <2>2. <<a>> \in Seq(Bytes) /\ <<b>> \in Seq(Bytes) /\ <<a, b>> \in Seq(Bytes)
    OBVIOUS
  <2>3. <<a>> \o <<b>> = <<a, b>>
    <3> DEFINE ab == <<a>> \o <<b>>
    <3>1. ab \in Seq(Bytes) /\ Len(ab) = 2 /\ ab[1] = a /\ ab[2] = b
      OBVIOUS
    <3>2. Len(<<a, b>>) = 2 /\ <<a, b>>[1] = a /\ <<a, b>>[2] = b
      OBVIOUS
    <3>3. \A s, t \in Seq(Bytes) :
             Len(s) = 2 /\ Len(t) = 2 /\ s[1] = t[1] /\ s[2] = t[2] => s = t
      OBVIOUS
    <3> HIDE DEF ab
    <3>4. ab = <<a, b>>
      BY <2>2, <3>1, <3>2, <3>3
    <3> QED BY <3>4 DEF ab
  <2>4. /\ _crc64(poly, {}, <<a, b>>) = Crc(poly, <<a, b>>)
        /\ _crc64(poly, crc_reflect(_crc64(poly, {}, <<a>>), W), <<b>>) = Crc(poly, <<a, b>>)
    BY <2>1, <2>2, <2>3, DividesAnyMessage
  <2>5. 0 \in poly =>
          (_crc64(poly, _crc64(poly, {}, <<a>>), <<b>>) = Crc(poly, <<a, b>>)
             <=> crc_reflect(_crc64(poly, {}, <<a>>), W) = _crc64(poly, {}, <<a>>))
    <3>1. 0 \in poly =>
            (_crc64(poly, _crc64(poly, {}, <<a>>), <<b>>) = Crc(poly, <<a>> \o <<b>>)
               <=> crc_reflect(_crc64(poly, {}, <<a>>), W) = _crc64(poly, {}, <<a>>))
      BY <2>1, <2>2, ContinuesOnlyMirrored, Zenon
    <3> QED BY <2>3, <3>1
  <2> QED BY <2>4, <2>5
<1> QED BY <1>1, CrcInvHolds, PTL

\* A little-endian machine gets the tables that slicing needs, for every
\* polynomial and every width (crcspeed.c:12-24).
THEOREM TablesAreCrcs == CrcSpec => []TableOfCrcs
<1>1. CrcInv => TableOfCrcs
  BY DEF CrcInv, Little, TableOfCrcs, Entry
<1> QED BY <1>1, CrcInvHolds, PTL

\* A big-endian one gets the same word in every place of them (crcspeed.c:7,
\* 15, 26-37).
THEOREM BigEndianBlank == CrcSpec => []BigEndianTableBlank
<1>1. CrcInv => BigEndianTableBlank
  <2> SUFFICES ASSUME CrcInv, ~little, NEW k \in Slices, NEW c \in Bytes
               PROVE  /\ stage \in {"first", "others", "swap"} /\ n = 0 => table[k][c] = {}
                      /\ stage = "done" => table[k][c] = table[0][{}] /\ table[k][c] # {}
    BY DEF BigEndianTableBlank
  <2>1. \A j \in Slices, d \in Bytes :
           table[j][d] = IF stage = "done" \/ (stage = "swap" /\ j < n) THEN rev8({}) ELSE {}
    BY DEF CrcInv, Big
  <2>2. ~(k < 0) /\ 0 \in Slices /\ {} \in Bytes
    BY SliceRange, BytesAre
  <2> QED BY <2>1, <2>2, ForgetsArgument
<1> QED BY <1>1, CrcInvHolds, PTL

-----------------------------------------------------------------------------
\* The steps that a call has left, at most.
CallStepsLeft ==
    CASE at = "serverLog" -> 6
      [] at = "serverLogRaw" -> 5
      [] at = "open" -> 4
      [] at = "write" -> 3
      [] at = "close" -> 2
      [] at = "syslog" -> 1
      [] at \in {"start", "idle", "exit", "crash"} -> 0

\* After the allocation failed the process is in the handler or has ended.
HandlerKeeps == oom => at \in InCall \cup {"exit", "crash"}

LEMMA HandlerKeepsInv == LogSpec => []HandlerKeeps
<1>1. LogInit => HandlerKeeps
  BY DEF LogInit, HandlerKeeps
<1>2. HandlerKeeps /\ [LogNext]_logVars => HandlerKeeps'
  <2> SUFFICES ASSUME HandlerKeeps, [LogNext]_logVars PROVE HandlerKeeps'
    OBVIOUS
  <2>1. CASE Main
    BY <2>1 DEF Main, HandlerKeeps, InCall
  <2>2. CASE redisOutOfMemoryHandler
    BY <2>2 DEF redisOutOfMemoryHandler, Enter, HandlerKeeps, InCall
  <2>3. CASE \E l \in Levels, f \in {"serverLog", "serverLogRaw"} : Log(l, f)
    BY <2>3 DEF Log, Enter, HandlerKeeps, InCall
  <2>4. CASE LogStep
    BY <2>4 DEF LogStep, serverLogReturn, serverLogPass, Filter, OpenFails, Open, WriteRaw,
            Write, Close, Syslog, ReturnFromLog, HandlerKeeps, InCall
  <2>5. CASE UNCHANGED logVars
    BY <2>5 DEF logVars, HandlerKeeps
  <2> QED BY <2>1, <2>2, <2>3, <2>4, <2>5 DEF LogNext
<1> QED BY <1>1, <1>2, PTL DEF LogSpec

\* A process whose zmalloc failed never returns into the allocation: from the
\* call of the handler on it goes through the code of the log, one step nearer
\* to its end each time, and does nothing else (server.c:12-76).
THEOREM HandlerNeverReturns ==
    LogSpec => /\ [](oom => at \notin {"start", "idle"})
               /\ [][oom => oom' /\ CallStepsLeft' < CallStepsLeft]_logVars
<1>1. HandlerKeeps => (oom => at \notin {"start", "idle"})
  BY DEF HandlerKeeps, InCall
<1>2. HandlerKeeps /\ [LogNext]_logVars
        => [oom => oom' /\ CallStepsLeft' < CallStepsLeft]_logVars
  <2> SUFFICES ASSUME HandlerKeeps, LogNext, oom
               PROVE  oom' /\ CallStepsLeft' < CallStepsLeft
    OBVIOUS
  <2>1. LogStep
    BY DEF LogNext, Main, Log, redisOutOfMemoryHandler, HandlerKeeps, InCall
  <2>2. CASE serverLogReturn
    BY <2>2 DEF serverLogReturn, ReturnFromLog, CallStepsLeft
  <2>3. CASE serverLogPass
    BY <2>3 DEF serverLogPass, CallStepsLeft
  <2>4. CASE Filter
    BY <2>4 DEF Filter, ReturnFromLog, CallStepsLeft
  <2>5. CASE OpenFails
    BY <2>5 DEF OpenFails, ReturnFromLog, CallStepsLeft
  <2>6. CASE Open
    BY <2>6 DEF Open, CallStepsLeft
  <2>7. CASE WriteRaw
    BY <2>7 DEF WriteRaw, CallStepsLeft
  <2>8. CASE Write
    BY <2>8 DEF Write, CallStepsLeft
  <2>9. CASE Close
    BY <2>9 DEF Close, ReturnFromLog, CallStepsLeft
  <2>10. CASE Syslog
    BY <2>10 DEF Syslog, ReturnFromLog, CallStepsLeft
  <2> QED BY <2>1, <2>2, <2>3, <2>4, <2>5, <2>6, <2>7, <2>8, <2>9, <2>10 DEF LogStep
<1> QED BY <1>1, <1>2, HandlerKeepsInv, PTL DEF LogSpec
=============================================================================
