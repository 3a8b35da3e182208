----------------------------- MODULE NewHandler -----------------------------
(***************************************************************************)
(* operator new of plugins/jemalloc/jemalloc_new.cc, called by several     *)
(* threads of a process that also installs new-handlers.                   *)
(*                                                                         *)
(* handleOOM reads the handler of the process by taking it away and        *)
(* putting it back, under a mutex that std::set_new_handler knows nothing  *)
(* of, and then calls it without the mutex.  A handler is code of the      *)
(* program: it may install another handler, allocate in turn, throw,       *)
(* return, or end the process.                                             *)
(*                                                                         *)
(* Taking the mutex is one step with the first exchange, and the second    *)
(* exchange one with the release: what falls between them is not seen.     *)
(*                                                                         *)
(* `installed` and `raced` are what an observer of the calls to            *)
(* std::set_new_handler made by the program knows; no code reads them.     *)
(***************************************************************************)
EXTENDS Integers, Sequences

CONSTANTS Threads,
          Handlers,           \* functions a program may install
          NULL,
          MaxDepth,           \* how deep handlers may allocate (a bound of the model)
          malloc_init_state   \* never assigned (jemalloc.c:12)

Modes == {"throwing", "nothrow"}

ASSUME ConstantsOK ==
    /\ NULL \notin Handlers
    /\ NULL \notin Threads
    /\ MaxDepth \in Nat \ {0}
    /\ malloc_init_state \in {"malloc_init_uninitialized", "malloc_init_a0_initialized",
                              "malloc_init_recursiable", "malloc_init_initialized"}

VARIABLES handler,    \* the new-handler of the process
          installed,  \* the one the program installed last
          raced,      \* that install fell between the two exchanges of a thread
          mtx,        \* the thread that holds the mutex of handleOOM
          pc,         \* where each thread is
          modes,      \* the operator new calls of each thread, innermost first
          handle,     \* the local variable of the innermost one
          result,     \* how the last call ended, and in which mode
          process

vars == <<handler, installed, raced, mtx, pc, modes, handle, result, process>>

\* "user": in code of the program, a handler or not; "lock": before the
\* mutex; "exchanged": between the two calls of set_new_handler.
Locations == {"user", "lock", "exchanged"}
Endings == {"none", "block", "null", "bad_alloc", "other"}

Init ==
    /\ handler = NULL /\ installed = NULL
    /\ raced = FALSE
    /\ mtx = NULL
    /\ pc = [t \in Threads |-> "user"]
    /\ modes = [t \in Threads |-> << >>]
    /\ handle = [t \in Threads |-> NULL]
    /\ result = [mode |-> "throwing", how |-> "none"]
    /\ process = "running"

At(t, location) == process = "running" /\ pc[t] = location

\* The thread is inside a handler that handleOOM called.
InHandler(t) == At(t, "user") /\ modes[t] # << >>

malloc_initialized == malloc_init_state = "malloc_init_initialized"

\* je_malloc may find memory only when jemalloc is initialised.
je_malloc(served) == served => malloc_initialized

\* The innermost call of t ends: what comes next is code of the program,
\* its handler one call further out or no handler.
EndCall(t, how) ==
    /\ result' = [mode |-> Head(modes[t]), how |-> how]
    /\ modes' = [modes EXCEPT ![t] = Tail(@)]
    /\ pc' = [pc EXCEPT ![t] = "user"]
    /\ handle' = [handle EXCEPT ![t] = NULL]

\* Mutant: no exception is thrown.
GiveUpWithNull(t) == EndCall(t, "null")

\* handleOOM after its loop: ptr is null.
GiveUp(t) == EndCall(t, IF Head(modes[t]) = "throwing" THEN "bad_alloc" ELSE "null")

\* operator new, called by the program or by a handler, finds memory at once.
New(t, mode) ==
    /\ At(t, "user")
    /\ je_malloc(TRUE)
    /\ result' = [mode |-> mode, how |-> "block"]
    /\ UNCHANGED <<handler, installed, raced, mtx, pc, modes, handle, process>>

\* It finds none and enters handleOOM.
NewFails(t, mode) ==
    /\ At(t, "user")
    /\ Len(modes[t]) < MaxDepth
    /\ je_malloc(FALSE)
    /\ modes' = [modes EXCEPT ![t] = <<mode>> \o @]
    /\ pc' = [pc EXCEPT ![t] = "lock"]
    /\ UNCHANGED <<handler, installed, raced, mtx, handle, result, process>>

\* Mutant: no lock_guard.
TakeHandlerUnlocked(t) ==
    /\ At(t, "lock")
    /\ mtx' = t
    /\ handle' = [handle EXCEPT ![t] = handler]
    /\ handler' = NULL
    /\ pc' = [pc EXCEPT ![t] = "exchanged"]
    /\ UNCHANGED <<installed, raced, modes, result, process>>

\* lock_guard, handle = set_new_handler(nullptr)
TakeHandler(t) ==
    /\ At(t, "lock")
    /\ mtx = NULL
    /\ mtx' = t
    /\ handle' = [handle EXCEPT ![t] = handler]
    /\ handler' = NULL
    /\ pc' = [pc EXCEPT ![t] = "exchanged"]
    /\ UNCHANGED <<installed, raced, modes, result, process>>

\* Mutants: the handler is called in the scope of lock_guard; the second
\* set_new_handler is missing.
PutHandlerBackLocked(t) ==
    /\ At(t, "exchanged")
    /\ handler' = handle[t]
    /\ \/ handle[t] = NULL /\ mtx' = NULL /\ GiveUp(t)
       \/ /\ handle[t] # NULL
          /\ pc' = [pc EXCEPT ![t] = "user"]
          /\ UNCHANGED <<mtx, modes, handle, result>>
    /\ UNCHANGED <<installed, raced, process>>
PutHandlerBackMissing(t) ==
    /\ At(t, "exchanged")
    /\ mtx' = NULL
    /\ \/ handle[t] = NULL /\ GiveUp(t)
       \/ /\ handle[t] # NULL
          /\ pc' = [pc EXCEPT ![t] = "user"]
          /\ UNCHANGED <<modes, handle, result>>
    /\ UNCHANGED <<handler, installed, raced, process>>

\* set_new_handler(handle), the end of the scope of lock_guard, and then
\* either the break on a null handle or the call of the handler.
PutHandlerBack(t) ==
    /\ At(t, "exchanged")
    /\ handler' = handle[t]
    /\ mtx' = NULL
    /\ \/ handle[t] = NULL /\ GiveUp(t)
       \/ /\ handle[t] # NULL
          /\ pc' = [pc EXCEPT ![t] = "user"]
          /\ UNCHANGED <<modes, handle, result>>
    /\ UNCHANGED <<installed, raced, process>>

\* The handler returns, je_malloc is tried again: a block ends the loop.
HandlerReturns(t) ==
    /\ InHandler(t)
    /\ \/ je_malloc(TRUE) /\ EndCall(t, "block")
       \/ /\ je_malloc(FALSE)
          /\ pc' = [pc EXCEPT ![t] = "lock"]
          /\ handle' = [handle EXCEPT ![t] = NULL]
          /\ UNCHANGED <<modes, result>>
    /\ UNCHANGED <<handler, installed, raced, mtx, process>>

\* catch (const std::bad_alloc &)
HandlerThrowsBadAlloc(t) ==
    /\ InHandler(t)
    /\ GiveUp(t)
    /\ UNCHANGED <<handler, installed, raced, mtx, process>>

\* Any other exception leaves handleOOM and reaches the noexcept of newImp:
\* std::terminate for the nothrow forms.
HandlerThrowsOther(t) ==
    /\ InHandler(t)
    /\ \/ /\ Head(modes[t]) = "throwing"
          /\ EndCall(t, "other")
          /\ UNCHANGED process
       \/ /\ Head(modes[t]) = "nothrow"
          /\ process' = "terminated"
          /\ UNCHANGED <<pc, modes, handle, result>>
    /\ UNCHANGED <<handler, installed, raced, mtx>>

\* The program, in a handler or not, calls std::set_new_handler.
SetNewHandler(t, h) ==
    /\ At(t, "user")
    /\ handler' = h
    /\ installed' = h
    /\ raced' = \E u \in Threads : pc[u] = "exchanged"
    /\ UNCHANGED <<mtx, pc, modes, handle, result, process>>

\* A handler may end the process, as oom_handler of set_new_handler.cc does.
HandlerExits(t) ==
    /\ InHandler(t)
    /\ process' = "exited"
    /\ UNCHANGED <<handler, installed, raced, mtx, pc, modes, handle, result>>

Ended == process # "running" /\ UNCHANGED vars

HandleOOM(t) == TakeHandler(t) \/ PutHandlerBack(t)

Next == \/ \E t \in Threads :
              \/ \E mode \in Modes : New(t, mode) \/ NewFails(t, mode)
              \/ HandleOOM(t)
              \/ HandlerReturns(t)
              \/ HandlerThrowsBadAlloc(t)
              \/ HandlerThrowsOther(t)
              \/ HandlerExits(t)
              \/ \E h \in Handlers \cup {NULL} : SetNewHandler(t, h)
        \/ Ended

Spec == Init /\ [][Next]_vars

\* A thread between the two exchanges runs straight-line code: the scheduler
\* lets it finish.  Nothing is assumed of the mutex or of user code.
FairSpec == Spec /\ \A t \in Threads : WF_vars(PutHandlerBack(t))
-----------------------------------------------------------------------------
TypeOK ==
    /\ handler \in Handlers \cup {NULL}
    /\ installed \in Handlers \cup {NULL}
    /\ raced \in BOOLEAN
    /\ mtx \in Threads \cup {NULL}
    /\ pc \in [Threads -> Locations]
    /\ modes \in [Threads -> Seq(Modes)]
    /\ handle \in [Threads -> Handlers \cup {NULL}]
    /\ result \in [mode : Modes, how : Endings]
    /\ process \in {"running", "terminated", "exited"}

\* The handler of the process is the one the program installed last, and a
\* thread between its exchanges holds just that one, however many threads
\* run out of memory together; an install can be undone only by a thread
\* that was between its exchanges when it happened (jemalloc_new.cc:28-35).
HandlerKept ==
    ~raced => /\ handler = installed \/ \E t \in Threads : pc[t] = "exchanged"
              /\ \A t \in Threads : pc[t] = "exchanged" => handle[t] = installed

\* operator new gives up for want of a handler only if the program has none
\* installed, or installed one in the middle of an exchange: the nullptr one
\* thread leaves in place is never taken for the answer by another
\* (jemalloc_new.cc:33-39).
GivesUpForWantOfHandler ==
    [][\A t \in Threads :
          (pc[t] = "exchanged" /\ pc'[t] = "user" /\ modes'[t] # modes[t])
             => installed = NULL \/ raced]_vars

\* Code of the program never runs under the mutex, so a handler that
\* allocates cannot wait for a mutex its own thread holds, and never two
\* threads are between the exchanges (jemalloc_new.cc:30-42).
NoLockInUserCode ==
    \A t \in Threads : mtx = t <=> pc[t] = "exchanged"

\* The two forms keep their contract through nested calls and exceptions: a
\* throwing form never returns null, a nothrow form never throws, and only
\* an exception the catch does not name ends the process for a nothrow form
\* (jemalloc_new.cc:43-64).
Contract ==
    /\ result.mode = "throwing" => result.how # "null"
    /\ result.mode = "nothrow" => result.how \notin {"bad_alloc", "other"}
    /\ process = "terminated" =>
          \E t \in Threads : modes[t] # << >> /\ Head(modes[t]) = "nothrow"

\* A handler that is taken away comes back, unless the process ends or the
\* program installs one meanwhile (jemalloc_new.cc:30-35).
HandlerComesBack ==
    \A h \in Handlers :
        (handler # installed /\ installed = h /\ ~raced)
            ~> (handler = h \/ installed # h \/ raced \/ process # "running")
=============================================================================
