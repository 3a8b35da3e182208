----------------------------- MODULE ServerLog -----------------------------
(***************************************************************************)
(* The log of redis/src/server.c, and main up to the place it has reached: *)
(* messages enter through serverLog or serverLogRaw, pass a level filter   *)
(* in each, and go to stdout or a file that is opened for every message,   *)
(* and then to syslog.  When zmalloc fails, the handler that main set logs *)
(* a warning and ends the process.                                         *)
(*                                                                         *)
(* Nothing assigns the fields of server yet: the configuration is any that *)
(* the struct allows, fixed from the start, except pid, which stays 0.     *)
(* The tables that main fills and the seed it draws are in Crc64 and       *)
(* RandomBytes.                                                            *)
(***************************************************************************)
EXTENDS Integers, Sequences

CONSTANTS Levels,       \* the level arguments of callers, LL_RAW included
          Verbosities,  \* values of server.verbosity
          MaxCalls      \* bound: messages logged in a run

LL_WARNING == 3
LL_RAW == 1024

ASSUME LevelsOK ==
    /\ LL_WARNING \in Levels
    /\ Levels \subseteq Nat /\ Verbosities \subseteq Nat /\ MaxCalls \in Nat

VARIABLES oom_handler,                               \* what main sets
          verbosity, logfile, syslog_enabled, sentinel_mode,  \* server
          at,           \* where the process is: "start", "idle", in a call, "exit", "crash"
          level, raw,   \* locals of serverLogRaw
          open_files,   \* streams of the log file: opened and not yet closed
          oom,          \* the call was made by redisOutOfMemoryHandler
          calls,        \* history: messages passed to either function, and
                        \* whether the log file could be opened for them
          log, syslog   \* history: the lines written and the syslog records

config == <<oom_handler, verbosity, logfile, syslog_enabled, sentinel_mode>>
logVars == <<config, at, level, raw, open_files, oom, calls, log, syslog>>

LogInit ==
    /\ oom_handler = "default"
    /\ verbosity \in Verbosities
    /\ logfile \in {"NULL", "path"}
    /\ syslog_enabled \in BOOLEAN /\ sentinel_mode \in BOOLEAN
    /\ at = "start"
    /\ level = 0 /\ raw = FALSE /\ open_files = 0 /\ oom = FALSE
    /\ calls = <<>> /\ log = <<>> /\ syslog = <<>>

\* main, whose calls nothing interrupts.
Main ==
    /\ at = "start" /\ at' = "idle"
    /\ oom_handler' = "redisOutOfMemoryHandler"
    /\ UNCHANGED <<verbosity, logfile, syslog_enabled, sentinel_mode, level, raw,
                   open_files, oom, calls, log, syslog>>

Enter(l, function) ==
    /\ Len(calls) < MaxCalls
    /\ at' = function
    /\ level' = l
    /\ \E openable \in BOOLEAN :
          calls' = Append(calls, [level |-> l, openable |-> openable])
    /\ UNCHANGED <<config, raw, open_files, log, syslog>>

Log(l, function) == at = "idle" /\ Enter(l, function) /\ UNCHANGED oom

\* zmalloc found no memory.
redisOutOfMemoryHandler ==
    /\ at = "idle" /\ oom_handler = "redisOutOfMemoryHandler"
    /\ oom' = TRUE
    /\ Enter(LL_WARNING, "serverLog")

\* Mutant: the handler returns to zmalloc.
ReturnFromLogAlways == at' = "idle"

\* Where a call ends: the handler goes on to serverPanic, which exits.
ReturnFromLog == at' = IF oom THEN "exit" ELSE "idle"

message == calls[Len(calls)]

\* level & 0xff < server.verbosity compares first: what is left is the lowest
\* bit of the level, or nothing.
dropped_by_serverLog == 255 < verbosity /\ level % 2 = 1

serverLogReturn ==
    /\ at = "serverLog" /\ dropped_by_serverLog
    /\ ReturnFromLog
    /\ UNCHANGED <<config, level, raw, open_files, oom, calls, log, syslog>>

serverLogPass ==
    /\ at = "serverLog" /\ ~dropped_by_serverLog
    /\ at' = "serverLogRaw"
    /\ UNCHANGED <<config, level, raw, open_files, oom, calls, log, syslog>>

\* Mutant: the raw bit stays in the level.
FilterUnmasked ==
    /\ at = "serverLogRaw"
    /\ raw' = ((level \div LL_RAW) % 2 = 1)
    /\ IF level < verbosity THEN ReturnFromLog ELSE at' = "open"
    /\ UNCHANGED <<config, level, open_files, oom, calls, log, syslog>>

Filter ==
    /\ at = "serverLogRaw"
    /\ raw' = ((level \div LL_RAW) % 2 = 1)
    /\ level' = level % 256
    /\ IF level' < verbosity THEN ReturnFromLog ELSE at' = "open"
    /\ UNCHANGED <<config, open_files, oom, calls, log, syslog>>

OpenFails ==
    /\ at = "open" /\ logfile = "path" /\ ~message.openable
    /\ ReturnFromLog
    /\ UNCHANGED <<config, level, raw, open_files, oom, calls, log, syslog>>

Open ==
    /\ at = "open" /\ (logfile = "NULL" \/ message.openable)
    /\ open_files' = IF logfile = "NULL" THEN open_files ELSE open_files + 1
    /\ at' = "write"
    /\ UNCHANGED <<config, level, raw, oom, calls, log, syslog>>

\* server.pid is 0 and the caller's process id is not.
role_char == IF sentinel_mode THEN "X" ELSE "C"

WriteRaw ==
    /\ at = "write" /\ raw
    /\ log' = Append(log, [of |-> Len(calls), level |-> level, time |-> FALSE,
                           role |-> "none", text |-> "msg"])
    /\ at' = "close"
    /\ UNCHANGED <<config, level, raw, open_files, oom, calls, syslog>>

\* The format asks for five arguments and is given four; msg is not among
\* them.  What the last one reads is undefined: some text, or a crash.
Write ==
    /\ at = "write" /\ ~raw
    /\ \/ /\ log' = Append(log, [of |-> Len(calls), level |-> level, time |-> TRUE,
                                 role |-> role_char, text |-> "undefined"])
          /\ at' = "close"
       \/ at' = "crash" /\ UNCHANGED log
    /\ UNCHANGED <<config, level, raw, open_files, oom, calls, syslog>>

\* Mutant: only a formatted line is followed by fclose.
CloseFormatted ==
    /\ at = "close"
    /\ open_files' = IF logfile = "NULL" \/ raw THEN open_files ELSE open_files - 1
    /\ IF syslog_enabled THEN at' = "syslog" ELSE ReturnFromLog
    /\ UNCHANGED <<config, level, raw, oom, calls, log, syslog>>

\* The log file is closed, stdout is not.
Close ==
    /\ at = "close"
    /\ open_files' = IF logfile = "NULL" THEN open_files ELSE open_files - 1
    /\ IF syslog_enabled THEN at' = "syslog" ELSE ReturnFromLog
    /\ UNCHANGED <<config, level, raw, oom, calls, log, syslog>>

Syslog ==
    /\ at = "syslog"
    /\ syslog' = Append(syslog, [of |-> Len(calls), level |-> level])
    /\ ReturnFromLog
    /\ UNCHANGED <<config, level, raw, open_files, oom, calls, log>>

LogStep == serverLogReturn \/ serverLogPass \/ Filter \/ OpenFails \/ Open
        \/ WriteRaw \/ Write \/ Close \/ Syslog

LogNext == Main \/ (\E l \in Levels, f \in {"serverLog", "serverLogRaw"} : Log(l, f))
        \/ redisOutOfMemoryHandler \/ LogStep

LogSpec == LogInit /\ [][LogNext]_logVars
\* A call that was made runs on.
FairLogSpec == LogSpec /\ WF_logVars(LogStep)
-----------------------------------------------------------------------------
Finished == at \in {"idle", "exit"}

LogTypeOK ==
    /\ at \in {"start", "idle", "serverLog", "serverLogRaw", "open", "write", "close",
               "syslog", "exit", "crash"}
    /\ level \in Nat /\ raw \in BOOLEAN /\ oom \in BOOLEAN
    /\ open_files \in Nat
    /\ at \in {"open", "write", "close", "syslog"} => level < 256

\* The messages that have to be recorded: level high enough, file there.
Due(k) ==
    /\ calls[k].level % 256 >= verbosity
    /\ logfile = "NULL" \/ calls[k].openable

\* The lines come from the messages up to n that are due, one from each and
\* in their order; from none when nothing is wanted there.
Records(lines, n, wanted) ==
    /\ \A i, j \in DOMAIN lines : i < j => lines[i].of < lines[j].of
    /\ {lines[i].of : i \in DOMAIN lines} = {k \in 1 .. n : wanted /\ Due(k)}

\* Between calls exactly the due messages are in the log, in order, and in
\* syslog when that is enabled, whichever function they entered by and with
\* the raw bit or without it: the filters agree, although they are written
\* differently, and a message that finds no log file is in neither place
\* (server.c:12-23, 52-54, 61).
DeliveredExactly ==
    Finished => /\ Records(log, Len(calls), TRUE)
                /\ Records(syslog, Len(calls), syslog_enabled)

\* No way through a call leaves the file open, or closes one that was not
\* opened: what Open opens is closed once, on the ways over raw and formatted
\* lines, with syslog and without, and the early returns lie before it
\* (server.c:12-23, 47-55).
FileClosed == Finished => open_files = 0

\* A process whose zmalloc failed ends: the handler does not return into
\* the allocation, whatever becomes of its message (server.c:71-76).
OutOfMemoryEnds == oom ~> at \in {"exit", "crash"}
=============================================================================
