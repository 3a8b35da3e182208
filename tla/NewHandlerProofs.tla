-------------------------- MODULE NewHandlerProofs --------------------------
(***************************************************************************)
(* Proofs about NewHandler, for any number of threads, handlers and nested *)
(* calls.                                                                  *)
(***************************************************************************)
EXTENDS NewHandler, TLAPS

\* The stack of calls of a thread stays a sequence of modes when a call is
\* entered (NewFails) and when one ends (EndCall).
LEMMA CallStack ==
    ASSUME NEW s \in Seq(Modes)
    PROVE  /\ s # << >> => Head(s) \in Modes /\ Tail(s) \in Seq(Modes)
           /\ \A m \in Modes : /\ <<m>> \o s \in Seq(Modes)
                               /\ <<m>> \o s # << >>
<1>1. s # << >> => Head(s) \in Modes /\ Tail(s) \in Seq(Modes)
  OBVIOUS
<1>2. ASSUME NEW m \in Modes
      PROVE  <<m>> \o s \in Seq(Modes) /\ <<m>> \o s # << >>
  <2>1. <<m>> \in Seq(Modes) /\ Len(<<m>>) = 1
    OBVIOUS
  <2>2. <<m>> \o s \in Seq(Modes) /\ Len(<<m>> \o s) = 1 + Len(s)
    BY <2>1
  <2> QED BY <2>2
<1> QED BY <1>1, <1>2

\* A thread inside operator new has a call on its stack.
CallsHaveFrames == \A t \in Threads : pc[t] # "user" => modes[t] # << >>

\* Each conjunct needs the others: the handler is kept because the mutex
\* admits one exchange at a time, the mutex is free because its holder is
\* the thread between the exchanges, and the contract is kept because a
\* call that ends is on the stack with its mode.
IInv == TypeOK /\ CallsHaveFrames /\ NoLockInUserCode /\ HandlerKept /\ Contract

\* How a call that ends leaves the types and the contract.
LEMMA EndCallSafe ==
    ASSUME IInv, NEW t \in Threads, modes[t] # << >>, process = "running",
           NEW how \in {"block", "bad_alloc", "null", "other"}, EndCall(t, how),
           how = "null" => Head(modes[t]) = "nothrow",
           how \in {"bad_alloc", "other"} => Head(modes[t]) = "throwing"
    PROVE  /\ result' \in [mode : Modes, how : Endings]
           /\ result'.mode = "throwing" => result'.how # "null"
           /\ result'.mode = "nothrow" => result'.how \notin {"bad_alloc", "other"}
           /\ modes' \in [Threads -> Seq(Modes)]
           /\ pc' \in [Threads -> Locations]
           /\ handle' \in [Threads -> Handlers \cup {NULL}]
           /\ pc'[t] = "user"
           /\ \A u \in Threads \ {t} : pc'[u] = pc[u] /\ modes'[u] = modes[u]
                                       /\ handle'[u] = handle[u]
<1>1. Head(modes[t]) \in Modes /\ Tail(modes[t]) \in Seq(Modes)
  BY CallStack DEF IInv, TypeOK
<1>2. result' = [mode |-> Head(modes[t]), how |-> how]
  BY DEF EndCall
<1>3. result'.mode = Head(modes[t]) /\ result'.how = how
  BY <1>2
<1>4. modes' = [modes EXCEPT ![t] = Tail(modes[t])]
  BY DEF EndCall
<1> QED
  BY <1>1, <1>2, <1>3, <1>4 DEF IInv, TypeOK, EndCall, Endings, Locations

\* Every step of handleOOM, of the handlers and of the program keeps it
\* (jemalloc_new.cc:26-65).
LEMMA InductiveStep == IInv /\ [Next]_vars => IInv'
<1> SUFFICES ASSUME IInv, [Next]_vars PROVE IInv'
  OBVIOUS
<1> USE ConstantsOK DEF IInv, TypeOK, CallsHaveFrames, NoLockInUserCode,
                        HandlerKept, Contract, Locations, At
<1>1. ASSUME NEW t \in Threads, NEW mode \in Modes, New(t, mode) PROVE IInv'
  BY <1>1 DEF New, Endings
<1>2. ASSUME NEW t \in Threads, NEW mode \in Modes, NewFails(t, mode) PROVE IInv'
  <2>1. <<mode>> \o modes[t] \in Seq(Modes) /\ <<mode>> \o modes[t] # << >>
    BY CallStack
  <2> QED BY <1>2, <2>1 DEF NewFails
<1>3. ASSUME NEW t \in Threads, TakeHandler(t) PROVE IInv'
  BY <1>3 DEF TakeHandler
<1>4. ASSUME NEW t \in Threads, PutHandlerBack(t) PROVE IInv'
  <2>1. modes[t] # << >> /\ Head(modes[t]) \in Modes
    BY <1>4, CallStack DEF PutHandlerBack
  <2>2. CASE handle[t] = NULL /\ GiveUp(t)
    <3>1. PICK how \in {"bad_alloc", "null"} :
              /\ EndCall(t, how)
              /\ how = "null" => Head(modes[t]) = "nothrow"
              /\ how = "bad_alloc" => Head(modes[t]) = "throwing"
      BY <2>1, <2>2 DEF GiveUp, Modes
    <3>2. process = "running" /\ pc[t] = "exchanged" /\ handler' = handle[t]
          /\ mtx' = NULL /\ UNCHANGED <<installed, raced, process>>
      BY <1>4 DEF PutHandlerBack
    <3>3. pc'[t] = "user" /\ \A u \in Threads \ {t} :
             pc'[u] = pc[u] /\ modes'[u] = modes[u] /\ handle'[u] = handle[u]
      BY <2>1, <3>1, <3>2, EndCallSafe
    <3>4. TypeOK' /\ CallsHaveFrames' /\ Contract'
      BY <2>1, <3>1, <3>2, EndCallSafe
    <3>5. \A u \in Threads : mtx # u /\ u # t => pc[u] # "exchanged"
      OBVIOUS
    <3>6. NoLockInUserCode'
      BY <3>2, <3>3, <3>5
    <3>7. HandlerKept'
      BY <3>2, <3>3, <3>5
    <3> QED BY <3>4, <3>6, <3>7
  <2>3. CASE handle[t] # NULL
    <3>1. /\ handler' = handle[t] /\ mtx' = NULL
          /\ pc' = [pc EXCEPT ![t] = "user"]
          /\ UNCHANGED <<installed, raced, modes, handle, result, process>>
      BY <1>4, <2>3 DEF PutHandlerBack
    <3>2. TypeOK' /\ CallsHaveFrames' /\ Contract'
      BY <3>1
    <3>3. \A u \in Threads : mtx # u /\ u # t => pc[u] # "exchanged"
      OBVIOUS
    <3>4. mtx = t
      BY <1>4 DEF PutHandlerBack
    <3>5. NoLockInUserCode'
      BY <3>1, <3>3, <3>4
    <3>6. HandlerKept'
      BY <1>4, <3>1, <3>3, <3>4 DEF PutHandlerBack
    <3> QED BY <3>2, <3>5, <3>6
  <2> QED BY <1>4, <2>2, <2>3 DEF PutHandlerBack
<1>5. ASSUME NEW t \in Threads, HandlerReturns(t) PROVE IInv'
  <2>1. CASE EndCall(t, "block")
    <3>1. /\ process = "running" /\ pc[t] = "user" /\ modes[t] # << >>
          /\ UNCHANGED <<handler, installed, raced, mtx, process>>
      BY <1>5 DEF HandlerReturns, InHandler
    <3>2. pc'[t] = "user" /\ \A u \in Threads \ {t} :
             pc'[u] = pc[u] /\ modes'[u] = modes[u] /\ handle'[u] = handle[u]
      BY <2>1, <3>1, EndCallSafe
    <3>3. TypeOK' /\ CallsHaveFrames' /\ Contract'
      BY <2>1, <3>1, EndCallSafe
    <3>4. NoLockInUserCode' /\ HandlerKept'
      BY <3>1, <3>2
    <3> QED BY <3>3, <3>4
  <2>2. CASE /\ pc' = [pc EXCEPT ![t] = "lock"]
             /\ handle' = [handle EXCEPT ![t] = NULL]
             /\ UNCHANGED <<modes, result>>
    <3>1. /\ pc[t] = "user" /\ modes[t] # << >>
          /\ UNCHANGED <<handler, installed, raced, mtx, process>>
      BY <1>5 DEF HandlerReturns, InHandler
    <3>2. TypeOK' /\ CallsHaveFrames' /\ Contract'
      BY <2>2, <3>1
    <3>3. NoLockInUserCode' /\ HandlerKept'
      BY <2>2, <3>1
    <3> QED BY <3>2, <3>3
  <2> QED BY <1>5, <2>1, <2>2 DEF HandlerReturns
<1>6. ASSUME NEW t \in Threads, HandlerThrowsBadAlloc(t) PROVE IInv'
  <2>1. modes[t] # << >> /\ Head(modes[t]) \in Modes
    BY <1>6, CallStack DEF HandlerThrowsBadAlloc, InHandler
  <2> QED
    BY <1>6, <2>1, EndCallSafe DEF HandlerThrowsBadAlloc, InHandler, GiveUp, Modes
<1>7. ASSUME NEW t \in Threads, HandlerThrowsOther(t) PROVE IInv'
  <2>1. CASE Head(modes[t]) = "throwing" /\ EndCall(t, "other")
    BY <1>7, <2>1, EndCallSafe DEF HandlerThrowsOther, InHandler
  <2>2. CASE Head(modes[t]) = "nothrow"
    BY <1>7, <2>2 DEF HandlerThrowsOther, InHandler
  <2> QED BY <1>7, <2>1, <2>2 DEF HandlerThrowsOther
<1>8. ASSUME NEW t \in Threads, HandlerExits(t) PROVE IInv'
  BY <1>8 DEF HandlerExits, InHandler
<1>9. ASSUME NEW t \in Threads, NEW h \in Handlers \cup {NULL}, SetNewHandler(t, h)
      PROVE  IInv'
  BY <1>9 DEF SetNewHandler
<1>10. CASE Ended \/ UNCHANGED vars
  BY <1>10 DEF Ended, vars
<1> QED
  BY <1>1, <1>2, <1>3, <1>4, <1>5, <1>6, <1>7, <1>8, <1>9, <1>10
  DEF Next, HandleOOM

\* The inductive invariant holds in every execution.
LEMMA InductiveInvariant == Spec => []IInv
<1>1. Init => IInv
  <2> SUFFICES ASSUME Init PROVE IInv
    OBVIOUS
  <2>1. << >> \in Seq(Modes)
    OBVIOUS
  <2>2. TypeOK
    BY <2>1 DEF Init, TypeOK, Locations, Modes, Endings
  <2>3. CallsHaveFrames /\ NoLockInUserCode
    BY ConstantsOK DEF Init, CallsHaveFrames, NoLockInUserCode
  <2>4. HandlerKept /\ Contract
    BY DEF Init, HandlerKept, Contract
  <2> QED BY <2>2, <2>3, <2>4 DEF IInv
<1> QED BY <1>1, InductiveStep, PTL DEF Spec

\* Every variable keeps its type at any depth of nesting (jemalloc_new.cc:26-65).
THEOREM TypeCorrect == Spec => []TypeOK
<1>1. IInv => TypeOK
  BY DEF IInv
<1> QED BY <1>1, InductiveInvariant, PTL

\* However many threads run out of memory together, the handler of the
\* process is the one the program installed last (jemalloc_new.cc:28-35).
THEOREM HandlerIsKept == Spec => []HandlerKept
<1>1. IInv => HandlerKept
  BY DEF IInv
<1> QED BY <1>1, InductiveInvariant, PTL

\* No thread holds the mutex of handleOOM while it runs a handler, so a
\* handler may allocate (jemalloc_new.cc:30-42).
THEOREM NoLockHeld == Spec => []NoLockInUserCode
<1>1. IInv => NoLockInUserCode
  BY DEF IInv
<1> QED BY <1>1, InductiveInvariant, PTL

\* Throwing forms never return null, nothrow forms never throw, at any
\* depth of nesting (jemalloc_new.cc:43-64).
THEOREM ContractIsKept == Spec => []Contract
<1>1. IInv => Contract
  BY DEF IInv
<1> QED BY <1>1, InductiveInvariant, PTL

\* operator new fails for want of a handler only if there was none to call,
\* or one was being installed (jemalloc_new.cc:33-39).
THEOREM NoSpuriousFailure == Spec => GivesUpForWantOfHandler
<1>1. IInv /\ [Next]_vars =>
         [\A t \in Threads :
            (pc[t] = "exchanged" /\ pc'[t] = "user" /\ modes'[t] # modes[t])
               => installed = NULL \/ raced]_vars
  <2> SUFFICES ASSUME IInv, [Next]_vars, NEW t \in Threads,
                      pc[t] = "exchanged", modes'[t] # modes[t]
               PROVE  installed = NULL \/ raced
    OBVIOUS
  <2>1. handle[t] = installed \/ raced
    BY DEF IInv, HandlerKept
  <2>2. PutHandlerBack(t)
    <3>1. \A u \in Threads : u # t => pc[u] # "exchanged"
      BY ConstantsOK DEF IInv, NoLockInUserCode, TypeOK
    <3> QED
      BY <3>1 DEF Next, IInv, TypeOK, New, NewFails, HandleOOM, TakeHandler, At,
        PutHandlerBack, HandlerReturns, HandlerThrowsBadAlloc, HandlerThrowsOther,
        HandlerExits, SetNewHandler, InHandler, GiveUp, EndCall, Ended, vars
  <2>3. handle[t] = NULL
    BY <2>2 DEF PutHandlerBack
  <2> QED BY <2>1, <2>3
<1> QED BY <1>1, InductiveInvariant, PTL DEF Spec, GivesUpForWantOfHandler
=============================================================================
