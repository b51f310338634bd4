---------------------------- MODULE ClientProofs ----------------------------
(***************************************************************************)
(* Proofs about Client, for every set of connections and of goroutines and *)
(* every reconnection limit: type correctness, the safety invariants, the  *)
(* action property, and that the client implements ClientLifecycle.        *)
(***************************************************************************)
EXTENDS Client, TLAPS

(* The inductive invariant: the safety invariants of Client, and where the *)
(* Runner's calls, the dialled socket, the error and the counters stand.   *)

\* Which call the Runner is in at each point of Run.
CallsMatch ==
  /\ pc = "closing" => op[Runner] \in {"swap", "shut", "ok"}
  /\ pc \in {"keyreq", "handle"} => op[Runner] \in {"check", "lock", "write", "ok", "fail"}
  /\ pc \notin {"closing", "keyreq", "handle"} => op[Runner] = "none"

\* A connection comes before its heartbeat, and is nobody's before it is installed.
Fresh ==
  /\ \A c \in Conns : sock[c] = "none" => hb[c] = "none"
  /\ \A c \in Conns : hb[c] = "none" => op[c] = "none"
  /\ pc \in {"install", "keyreq", "onconnect"} => hb[mine] = "none"
  /\ mine # None => sock[mine] # "none"
  /\ \A t \in Threads : held[t] # None =>
       sock[held[t]] # "none" /\ (pc = "install" => held[t] # mine)

\* What the error in hand says at each point of Run.
ErrorMeans ==
  /\ pc \in {"idle", "connect", "dial", "install", "keyreq", "onconnect",
             "read", "load", "recv", "handle"} => err = "nil"
  /\ pc \in {"drop", "closing", "done"} /\ err = "nil" => ctxDone \/ closed
  /\ pc \in {"retry", "backoff"} => err # "nil"

\* attempt runs ahead of the redials by the one being waited for.
Counting ==
  /\ pc \notin {"backoff", "done"} => attempt = redials
  /\ pc = "backoff" =>
       attempt = Bump(redials) /\ (MaxAttempts >= 0 => redials < MaxAttempts)

\* A goroutine that closes a connection is the only one to have it, and it was open.
OneShutter ==
  /\ conn # None => sock[conn] # "closed"
  /\ \A t \in Threads : op[t] = "shut" => held[t] # conn
  /\ \A s, t \in Threads : op[s] = "shut" /\ op[t] = "shut" /\ held[s] = held[t] => s = t

IInv ==
  /\ TypeOK
  /\ SocketOwned
  /\ ClosedOnce
  /\ CloseTakesEffect
  /\ ConnIsRunners
  /\ RetryBudget
  /\ HeartbeatFollowsConn
  /\ CallsMatch
  /\ Fresh
  /\ ErrorMeans
  /\ Counting
  /\ OneShutter

-----------------------------------------------------------------------------
\* The initial state satisfies the inductive invariant.
LEMMA InitInv == Init => IInv
<1> SUFFICES ASSUME Init PROVE IInv
  OBVIOUS
<1> USE ClientAssumption DEF Init, Threads
<1>1. TypeOK
  <2>1. 0 \in 0..AttemptBound
    OBVIOUS
  <2>2. \A t \in Threads : held[t] # None <=> op[t] \in {"lock", "write", "shut"}
    OBVIOUS
  <2>3. mine # None <=> pc \in Connected \cup {"install", "closing"}
    BY DEF Connected
  <2> QED
    BY <2>1, <2>2, <2>3 DEF TypeOK, Connected, Errors
<1>2. SocketOwned /\ CloseTakesEffect /\ ConnIsRunners /\ HeartbeatFollowsConn
  BY DEF SocketOwned, CloseTakesEffect, ConnIsRunners, HeartbeatFollowsConn
<1>3. RetryBudget /\ Counting /\ ErrorMeans
  BY DEF RetryBudget, Counting, ErrorMeans
<1>4. CallsMatch /\ Fresh /\ ClosedOnce /\ OneShutter
  BY DEF CallsMatch, Fresh, ClosedOnce, OneShutter
<1> QED
  BY <1>1, <1>2, <1>3, <1>4 DEF IInv

\* Every step preserves it; the actions are in the order of Client.
LEMMA StepInv == IInv /\ [Next]_vars => IInv'
<1> SUFFICES ASSUME IInv, [Next]_vars PROVE IInv'
  OBVIOUS
<1> USE ClientAssumption
    DEF IInv, TypeOK, SocketOwned, ClosedOnce, CloseTakesEffect, ConnIsRunners, RetryBudget,
        HeartbeatFollowsConn, CallsMatch, Fresh, ErrorMeans, Counting, OneShutter, Closing,
        Connected, Reading, Threads, Errors, shared, calls, counts, locals
<1>1. ASSUME NEW t \in Threads, SendCheck(t) PROVE IInv'
  BY <1>1 DEF SendCheck, SendRefused
<1>2. ASSUME NEW t \in Threads, EncodeFails(t) PROVE IInv'
  BY <1>2 DEF EncodeFails
<1>3. ASSUME NEW t \in Threads, AcquireWrite(t) PROVE IInv'
  BY <1>3 DEF AcquireWrite
<1>4. ASSUME NEW t \in Threads, WriteOK(t) PROVE IInv'
  BY <1>4 DEF WriteOK, EndWrite
<1>5. ASSUME NEW t \in Threads, WriteFail(t) PROVE IInv'
  BY <1>5 DEF WriteFail, EndWrite
<1>6. ASSUME NEW t \in Threads, SwapConn(t) PROVE IInv'
  BY <1>6 DEF SwapConn
<1>7. ASSUME NEW t \in Threads, ShutConn(t) PROVE IInv'
  BY <1>7 DEF ShutConn
<1>8. CASE StartRun
  BY <1>8 DEF StartRun, RunGoes
<1>9. CASE ConnectCheck
  BY <1>9 DEF ConnectCheck, RunGoes
<1>10. CASE DialOK
  BY <1>10 DEF DialOK, RunGoes
<1>11. CASE DialFail
  BY <1>11 DEF DialFail, RunGoes
<1>12. CASE DiscardDialed
  BY <1>12 DEF DiscardDialed, InstallRefused, RunGoes
<1>13. CASE InstallConn
  BY <1>13 DEF InstallConn, InstallRefused, RunCalls, RunGoes
<1>14. CASE KeySent
  BY <1>14 DEF KeySent, RunReturns, RunGoes
<1>15. CASE KeyFailed
  BY <1>15 DEF KeyFailed, RunCalls, RunGoes
<1>16. CASE OnConnectOK
  BY <1>16 DEF OnConnectOK, RunGoes
<1>17. CASE OnConnectErr
  BY <1>17 DEF OnConnectErr, RunCalls, RunGoes
<1>18. CASE ConnClosed
  BY <1>18 DEF ConnClosed, RunReturns, RunGoes
<1>19. CASE Retry
  BY <1>19 DEF Retry, ShouldRetry, Bump, RunGoes
<1>20. CASE GiveUp
  BY <1>20 DEF GiveUp, ShouldRetry, RunGoes
<1>21. CASE BackoffElapsed
  BY <1>21 DEF BackoffElapsed, Bump, RunGoes
<1>22. CASE BackoffInterrupted
  BY <1>22 DEF BackoffInterrupted, RunGoes
<1>23. CASE ReadTop
  BY <1>23 DEF ReadTop, ReadStops, RunGoes
<1>24. CASE LoadConn
  BY <1>24 DEF LoadConn, RunGoes
<1>25. CASE HandlerDone
  BY <1>25 DEF HandlerDone, RunReturns, RunGoes
<1>26. CASE ReadError
  BY <1>26 DEF ReadError, RunGoes
<1>27. CASE DropConn
  BY <1>27 DEF DropConn, RunCalls, Told, RunGoes
<1>28. CASE ReadMessage
  BY <1>28 DEF ReadMessage, RunGoes
<1>29. CASE ReadAndSend
  BY <1>29 DEF ReadAndSend, RunCalls, RunGoes
<1>30. CASE CancelContext
  BY <1>30 DEF CancelContext
<1>31. ASSUME NEW c \in Conns, Ping(c) PROVE IInv'
  BY <1>31 DEF Ping
<1>32. ASSUME NEW c \in Conns, PingReturn(c) PROVE IInv'
  BY <1>32 DEF PingReturn
<1>33. ASSUME NEW c \in Conns, StopHeartbeat(c) PROVE IInv'
  BY <1>33 DEF StopHeartbeat
<1>34. ASSUME NEW c \in Conns, BreakSocket(c) PROVE IInv'
  BY <1>34 DEF BreakSocket
<1>35. ASSUME NEW u \in Senders, CallSend(u) PROVE IInv'
  BY <1>35 DEF CallSend
<1>36. ASSUME NEW u \in Closers, CallClose(u) PROVE IInv'
  BY <1>36 DEF CallClose, CloseContinues
<1>37. ASSUME NEW u \in Senders \cup Closers, CallReturn(u) PROVE IInv'
  BY <1>37 DEF CallReturn
<1>38. CASE UNCHANGED vars
  BY <1>38 DEF vars
<1> QED
  BY <1>1, <1>2, <1>3, <1>4, <1>5, <1>6, <1>7, <1>8, <1>9, <1>10, <1>11,
     <1>12, <1>13, <1>14, <1>15, <1>16, <1>17, <1>18, <1>19, <1>20, <1>21,
     <1>22, <1>23, <1>24, <1>25, <1>26, <1>27, <1>28, <1>29, <1>30, <1>31,
     <1>32, <1>33, <1>34, <1>35, <1>36, <1>37, <1>38 DEF Next, RunStep,
     CallStep

\* The inductive invariant holds in every reachable state.
THEOREM Inductive == Spec => []IInv
BY InitInv, StepInv, PTL DEF Spec

\* Every reachable state is well typed and no call is about to use a nil connection.
THEOREM TypeCorrect == Spec => []TypeOK
<1>1. IInv => TypeOK
  BY DEF IInv
<1> QED
  BY <1>1, Inductive, PTL

\* No path through Connect, Run and Close leaks an open socket.
THEOREM NoSocketLeaks == Spec => []SocketOwned
<1>1. IInv => SocketOwned
  BY DEF IInv
<1> QED
  BY <1>1, Inductive, PTL

\* No two of the calls that close connections close the same socket, however many
\* closers there are and in whatever order they, Run and Connect come (client.go 577-586).
THEOREM NoSocketClosedTwice == Spec => []ClosedOnce
<1>1. IInv => ClosedOnce
  BY DEF IInv
<1> QED
  BY <1>1, Inductive, PTL

\* Close wins every race with Connect, whichever of them runs first.
THEOREM CloseWins == Spec => []CloseTakesEffect
<1>1. IInv => CloseTakesEffect
  BY DEF IInv
<1> QED
  BY <1>1, Inductive, PTL

\* Client.conn belongs to the Runner's present iteration; Run returns without one.
THEOREM RunnerOwnsConn == Spec => []ConnIsRunners
<1>1. IInv => ConnIsRunners
  BY DEF IInv
<1> QED
  BY <1>1, Inductive, PTL

\* For every limit, Run redials no more often and returns for a reason.
THEOREM RetriesBounded == Spec => []RetryBudget
<1>1. IInv => RetryBudget
  BY DEF IInv
<1> QED
  BY <1>1, Inductive, PTL

\* A live heartbeat is that of the connection being read, and writes to no other.
THEOREM HeartbeatsFollow == Spec => []HeartbeatFollowsConn
<1>1. IInv => HeartbeatFollowsConn
  BY DEF IInv
<1> QED
  BY <1>1, Inductive, PTL

\* A Send that holds a replaced connection never reports success.
THEOREM StaleWritesFail == Spec => StaleWriteFails
<1>1. IInv /\ [Next]_vars =>
        [\A t \in Threads : op[t] = "write" /\ op'[t] = "ok" =>
           conn = held[t] \/ Closing(held[t])]_vars
  <2> SUFFICES ASSUME IInv, Next, NEW t \in Threads, op[t] = "write", op'[t] = "ok"
               PROVE  conn = held[t] \/ Closing(held[t])
    BY Zenon
  <2> USE ClientAssumption DEF IInv, TypeOK, Threads
  \* Only WriteOK takes a goroutine from "write" to "ok".
  <2>1. WriteOK(t)
    BY DEF Next, RunStep, CallStep, shared, calls, counts, locals, SendCheck,
    SendRefused, EncodeFails, AcquireWrite, WriteOK, EndWrite, WriteFail,
    SwapConn, ShutConn, StartRun, RunGoes, ConnectCheck, DialOK, DialFail,
    DiscardDialed, InstallRefused, InstallConn, RunCalls, KeySent,
    RunReturns, KeyFailed, OnConnectOK, OnConnectErr, ConnClosed, Retry,
    ShouldRetry, Bump, GiveUp, BackoffElapsed, BackoffInterrupted,
    ReadTop, ReadStops, LoadConn, HandlerDone, ReadError, DropConn, Told,
    ReadMessage, ReadAndSend, CancelContext, Ping, PingReturn,
    StopHeartbeat, BreakSocket, CallSend, CallClose, CloseContinues,
    CallReturn
  \* The socket written to is not closed, so somebody owns it; it is not the one
  \* just dialled, which no goroutine holds.
  <2>2. held[t] \in Conns /\ sock[held[t]] \in {"open", "broken"}
    BY <2>1 DEF WriteOK, EndWrite, Fresh
  <2>3. ~(pc = "install" /\ mine = held[t])
    BY <2>2 DEF Fresh
  <2> QED
    BY <2>2, <2>3 DEF SocketOwned
<1> QED
  BY <1>1, Inductive, PTL DEF Spec, StaleWriteFails

\* The steps the Runner may take once the client is closed, in the two orders of
\* ClosedRunEnds: its way through Run, and its way through a call.
LEMMA ClosedGoesDown ==
  IInv /\ [Next]_vars =>
    [closed =>
       \/ UNCHANGED <<pc, op[Runner]>>
       \/ RunRank(pc') < RunRank(pc)
       \/ pc' = pc /\ CallRank(op'[Runner]) < CallRank(op[Runner])]_vars
<1> DEFINE Down == \/ UNCHANGED <<pc, op[Runner]>>
                   \/ RunRank(pc') < RunRank(pc)
                   \/ pc' = pc /\ CallRank(op'[Runner]) < CallRank(op[Runner])
<1> SUFFICES ASSUME IInv, Next, closed = TRUE PROVE Down
  BY Zenon
<1> USE ClientAssumption DEF IInv, TypeOK, CallsMatch, Threads
\* Each move of the Runner is to a point further down the list of RunRank.
<1>1. CASE StartRun
  BY <1>1 DEF StartRun, RunGoes, RunRank
<1>2. CASE ConnectCheck
  BY <1>2 DEF ConnectCheck, RunGoes, RunRank
<1>3. CASE DialOK
  BY <1>3 DEF DialOK, RunGoes, RunRank
<1>4. CASE DialFail
  BY <1>4 DEF DialFail, RunGoes, RunRank
<1>5. CASE DiscardDialed
  BY <1>5 DEF DiscardDialed, RunGoes, RunRank
<1>6. CASE InstallConn
  BY <1>6 DEF InstallConn, InstallRefused
<1>7. CASE KeySent \/ KeyFailed \/ OnConnectOK \/ OnConnectErr
  BY <1>7 DEF KeySent, KeyFailed, OnConnectOK, OnConnectErr, RunGoes, RunRank
<1>8. CASE ConnClosed \/ GiveUp \/ BackoffElapsed \/ BackoffInterrupted
  BY <1>8 DEF ConnClosed, GiveUp, BackoffElapsed, BackoffInterrupted, RunGoes, RunRank
<1>9. CASE LoadConn \/ HandlerDone \/ ReadError \/ DropConn \/ ReadMessage \/ ReadAndSend
  BY <1>9 DEF LoadConn, HandlerDone, ReadError, DropConn, ReadMessage, ReadAndSend,
              RunGoes, RunRank
\* The two places where only the closed flag keeps Run from going round again.
<1>10. CASE Retry
  BY <1>10 DEF Retry, ShouldRetry
<1>11. CASE ReadTop
  BY <1>11 DEF ReadTop, ReadStops, RunGoes, RunRank
\* A step of a call moves the Runner down CallRank if the call is the Runner's.
<1>12. ASSUME NEW t \in Threads, CallStep(t) \/ WriteOK(t) PROVE Down
  <2>1. pc' = pc
    BY <1>12 DEF CallStep, SendCheck, EncodeFails, AcquireWrite, WriteOK, WriteFail, EndWrite,
                SwapConn, ShutConn
  <2>2. CASE t = Runner
    <3>1. CASE SendCheck(t) \/ EncodeFails(t)
      BY <2>1, <2>2, <3>1 DEF SendCheck, EncodeFails, CallRank
    <3>2. CASE AcquireWrite(t)
      BY <2>1, <2>2, <3>2 DEF AcquireWrite, CallRank
    <3>3. CASE ShutConn(t)
      BY <2>1, <2>2, <3>3 DEF ShutConn, CallRank
    <3>4. CASE WriteOK(t) \/ WriteFail(t)
      BY <2>1, <2>2, <3>4 DEF WriteOK, WriteFail, EndWrite, CallRank
    <3>5. CASE SwapConn(t)
      BY <2>1, <2>2, <3>5 DEF SwapConn, CallRank
    <3> QED
      BY <1>12, <3>1, <3>2, <3>3, <3>4, <3>5 DEF CallStep
  <2>3. CASE t # Runner
    BY <1>12, <2>1, <2>3
    DEF CallStep, SendCheck, EncodeFails, AcquireWrite, WriteOK, WriteFail, EndWrite,
        SwapConn, ShutConn
  <2> QED
    BY <2>2, <2>3
\* Nothing else touches the Runner: it is no heartbeat and no application goroutine.
<1>13. ASSUME NEW c \in Conns, Ping(c) \/ PingReturn(c) \/ StopHeartbeat(c) \/ BreakSocket(c)
      PROVE  Down
  <2>1. c # Runner
    OBVIOUS
  <2> QED
    BY <1>13, <2>1 DEF Ping, PingReturn, StopHeartbeat, BreakSocket, calls
<1>14. ASSUME NEW u \in Senders \cup Closers, CallSend(u) \/ CallClose(u) \/ CallReturn(u)
       PROVE  Down
  <2>1. u # Runner
    OBVIOUS
  <2> QED
    BY <1>14, <2>1 DEF CallSend, CallClose, CallReturn
<1>15. CASE CancelContext
  BY <1>15 DEF CancelContext, calls
<1> QED
  BY <1>1, <1>2, <1>3, <1>4, <1>5, <1>6, <1>7, <1>8, <1>9, <1>10, <1>11,
     <1>12, <1>13, <1>14, <1>15 DEF Next, RunStep

\* After Close every step of Run brings it closer to its return: it goes round no more,
\* whatever its selects choose and the network does.
THEOREM ClosedRunReturns == Spec => ClosedRunEnds
BY ClosedGoesDown, Inductive, PTL DEF Spec, ClosedRunEnds

\* The client keeps the promises of ClientLifecycle.
THEOREM Implements == Spec => ImplementsLifecycle
<1>1. Init => Lifecycle!Init
  BY DEF Init, Lifecycle!Init
<1>2. IInv /\ [Next]_vars => [Lifecycle!Next]_(Lifecycle!vars)
  <2> SUFFICES ASSUME IInv, [Next]_vars PROVE [Lifecycle!Next]_(Lifecycle!vars)
    OBVIOUS
  <2> USE ClientAssumption
      DEF IInv, TypeOK, ConnIsRunners, CallsMatch, Connected, Threads, shared, calls,
          counts, locals, Lifecycle!Next, Lifecycle!vars, Lifecycle!Start, Lifecycle!LinkUp,
          Lifecycle!LinkDown, Lifecycle!Close, Lifecycle!Return
  \* Start, LinkUp, and the three ways Run returns, each without a connection.
  <2>1. CASE StartRun
    BY <2>1 DEF StartRun, RunGoes
  <2>2. CASE InstallConn
    BY <2>2 DEF InstallConn, InstallRefused, RunCalls, RunGoes
  <2>3. CASE ConnClosed
    BY <2>3 DEF ConnClosed, RunReturns, RunGoes
  <2>4. CASE GiveUp
    BY <2>4 DEF GiveUp, ShouldRetry, RunGoes
  <2>5. CASE BackoffInterrupted
    BY <2>5 DEF BackoffInterrupted, RunGoes
  \* LinkDown and Close.
  <2>6. ASSUME NEW t \in Threads, SwapConn(t) PROVE [Lifecycle!Next]_(Lifecycle!vars)
    BY <2>6 DEF SwapConn
  <2>7. ASSUME NEW u \in Closers, CallClose(u) PROVE [Lifecycle!Next]_(Lifecycle!vars)
    BY <2>7 DEF CallClose
  \* Everything else is a stuttering step of the life cycle.
  <2>8. CASE ConnectCheck \/ DialOK \/ DialFail \/ DiscardDialed \/ KeySent \/
            KeyFailed \/ OnConnectOK \/ OnConnectErr \/ Retry \/
            BackoffElapsed \/ ReadTop \/ LoadConn \/ HandlerDone \/ ReadError
            \/ DropConn \/ ReadMessage \/ ReadAndSend \/ CancelContext
    BY <2>8
    DEF ConnectCheck, RunGoes, DialOK, DialFail, DiscardDialed, KeySent,
        KeyFailed, OnConnectOK, OnConnectErr, Retry, BackoffElapsed, ReadTop,
        LoadConn, HandlerDone, ReadError, DropConn, ReadMessage, ReadAndSend,
        CancelContext
  <2>9. ASSUME NEW t \in Threads,
                SendCheck(t) \/ EncodeFails(t) \/ AcquireWrite(t) \/
                WriteOK(t) \/ WriteFail(t) \/ ShutConn(t)
         PROVE  UNCHANGED Lifecycle!vars
    BY <2>9 DEF SendCheck, EncodeFails, AcquireWrite, WriteOK, EndWrite, WriteFail, ShutConn
  <2>10. ASSUME NEW c \in Conns, Ping(c) \/ PingReturn(c) \/ StopHeartbeat(c) \/ BreakSocket(c)
         PROVE  UNCHANGED Lifecycle!vars
    BY <2>10 DEF Ping, PingReturn, StopHeartbeat, BreakSocket
  <2>11. ASSUME NEW u, CallSend(u) \/ CallReturn(u)
         PROVE  UNCHANGED Lifecycle!vars
    BY <2>11 DEF CallSend, CallReturn
  <2>12. CASE UNCHANGED vars
    BY <2>12 DEF vars
  <2> QED
    BY <2>1, <2>2, <2>3, <2>4, <2>5, <2>6, <2>7, <2>8, <2>9, <2>10, <2>11,
       <2>12
    DEF Next, RunStep, CallStep
<1> QED
  BY <1>1, <1>2, Inductive, PTL DEF Spec, ImplementsLifecycle, Lifecycle!Spec
=============================================================================
