------------------------- MODULE AccountQueryProofs -------------------------
(***************************************************************************)
(* The registry and the channels of AccountQuery for every set of calls,   *)
(* made by goroutines or by handlers, and any number of messages.          *)
(***************************************************************************)
EXTENDS AccountQuery, TLAPS

\* Taking the one occurrence of e out of a sequence leaves the others in their order.
LEMMA RemoveOne ==
  ASSUME NEW S, NEW s \in Seq(S), NEW e \in S, IsInjective(s), Contains(s, e)
  PROVE  /\ RemoveFirst(s, e) \in Seq(S)
         /\ IsInjective(RemoveFirst(s, e))
         /\ \A x : Contains(RemoveFirst(s, e), x) <=> Contains(s, x) /\ x # e
<1>1. PICK k \in 1..Len(s) : s[k] = e
  BY DEF Contains
<1>2. \A i \in 1..Len(s) : s[i] = e => i = k
  BY <1>1 DEF IsInjective
<1> DEFINE I == {i \in 1..Len(s) : s[i] = e}
           r == RemoveAt(s, k)
<1>3. I = {k}
  BY <1>1, <1>2
<1>4. Min(I) = k
  BY <1>1, <1>3 DEF Min
<1>5. RemoveFirst(s, e) = r
  BY <1>1, <1>3, <1>4 DEF RemoveFirst, SelectInSeq
<1>6. /\ r \in Seq(S) /\ Len(r) = Len(s) - 1
      /\ \A i \in 1..Len(r) : r[i] = IF i < k THEN s[i] ELSE s[i + 1]
  <2> DEFINE a == SubSeq(s, 1, k - 1)
             b == SubSeq(s, k + 1, Len(s))
  <2>1. /\ a \in Seq(S) /\ Len(a) = k - 1 /\ \A i \in 1..(k - 1) : a[i] = s[i]
    BY <1>1
  <2>2. /\ b \in Seq(S) /\ Len(b) = Len(s) - k /\ \A i \in 1..(Len(s) - k) : b[i] = s[k + i]
    BY <1>1
  <2>3. r = a \o b
    BY DEF RemoveAt
  <2> HIDE DEF a, b, r
  <2>4. r \in Seq(S) /\ Len(r) = Len(s) - 1
    BY <2>1, <2>2, <2>3, <1>1
  <2>5. ASSUME NEW i \in 1..Len(r) PROVE r[i] = IF i < k THEN s[i] ELSE s[i + 1]
    <3>1. CASE i < k
      BY <1>1, <2>1, <2>2, <2>3, <2>4, <3>1
    <3>2. CASE i >= k
      <4>1. r[i] = b[i - (k - 1)] /\ i - (k - 1) \in 1..(Len(s) - k)
        BY <1>1, <2>1, <2>2, <2>3, <2>4, <3>2
      <4> QED
        BY <1>1, <2>2, <2>4, <3>2, <4>1
    <3> QED
      BY <1>1, <2>4, <3>1, <3>2
  <2> QED
    BY <2>4, <2>5
<1> HIDE DEF r, I
<1>7. IsInjective(r)
  <2> SUFFICES ASSUME NEW i \in 1..Len(r), NEW j \in 1..Len(r), r[i] = r[j] PROVE i = j
    BY <1>6 DEF IsInjective
  <2>1. /\ k \in Nat /\ i \in Nat /\ j \in Nat /\ Len(s) \in Nat
        /\ 1 <= k /\ k <= Len(s) /\ 1 <= i /\ i < Len(s) /\ 1 <= j /\ j < Len(s)
    BY <1>1, <1>6
  <2>2. \A m, n \in 1..Len(s) : s[m] = s[n] => m = n
    BY DEF IsInjective
  <2>3. PICK m \in {i, i + 1} : r[i] = s[m] /\ (m = i <=> i < k)
    BY <2>1, <1>6
  <2>4. PICK n \in {j, j + 1} : r[j] = s[n] /\ (n = j <=> j < k)
    BY <2>1, <1>6
  <2>5. m \in 1..Len(s) /\ n \in 1..Len(s)
    BY <2>1
  <2>6. s[m] = s[n]
    BY <2>3, <2>4, Zenon
  <2>7. m = n
    BY <2>2, <2>5, <2>6
  <2> QED
    BY <2>1, <2>3, <2>4, <2>7
<1>8. ASSUME NEW x PROVE Contains(r, x) <=> Contains(s, x) /\ x # e
  <2>1. ASSUME NEW i \in 1..Len(r), r[i] = x PROVE Contains(s, x) /\ x # e
    BY <1>1, <1>2, <1>6, <2>1 DEF Contains
  <2>2. ASSUME NEW i \in 1..Len(s), s[i] = x, x # e PROVE Contains(r, x)
    <3>1. CASE i < k
      BY <1>1, <1>6, <2>2, <3>1 DEF Contains
    <3>2. CASE i > k
      <4>1. i - 1 \in 1..Len(r) /\ r[i - 1] = x
        BY <1>1, <1>6, <2>2, <3>2
      <4> QED
        BY <4>1 DEF Contains
    <3> QED
      BY <1>1, <2>2, <3>1, <3>2
  <2> QED
    BY <2>1, <2>2 DEF Contains
<1> QED
  BY <1>5, <1>6, <1>7, <1>8

\* Adding a new element at the end.
LEMMA AppendOne ==
  ASSUME NEW S, NEW s \in Seq(S), NEW e \in S, IsInjective(s), ~Contains(s, e)
  PROVE  /\ Append(s, e) \in Seq(S)
         /\ IsInjective(Append(s, e))
         /\ \A x : Contains(Append(s, e), x) <=> Contains(s, x) \/ x = e
<1>1. /\ Append(s, e) \in Seq(S) /\ Len(Append(s, e)) = Len(s) + 1
      /\ \A i \in 1..Len(s) : Append(s, e)[i] = s[i]
      /\ Append(s, e)[Len(s) + 1] = e
  OBVIOUS
<1>2. \A i \in 1..Len(s) : s[i] # e
  BY DEF Contains
<1>3. IsInjective(Append(s, e))
  BY <1>1, <1>2 DEF IsInjective
<1>4. \A x : Contains(Append(s, e), x) <=> Contains(s, x) \/ x = e
  BY <1>1 DEF Contains
<1> QED
  BY <1>1, <1>3, <1>4

-----------------------------------------------------------------------------
(* The inductive invariant.                                                *)

\* A dispatch has a message in hand.
HasMessage == reader = "dispatch" => dispatched > 0

\* A call that listens has heard of what was dispatched since it registered, or is still
\* ahead of the dispatch under way.
Hears ==
  \A u \in Calls :
    step[u] \in {"request", "send", "wait"} /\ since[u] < dispatched =>
      \/ ch[u] # <<>>
      \/ reader = "dispatch" /\ \E i \in next..Len(snapshot) : snapshot[i] = u

IInv == TypeOK /\ NoHandlerLeaks /\ HasMessage /\ Hears

\* Nobody has called, nothing has come.
LEMMA InitInv == Init => IInv
<1> SUFFICES ASSUME Init PROVE IInv
  OBVIOUS
<1>1. IsInjective(handlers) /\ \A u : ~Contains(handlers, u)
  BY DEF Init, IsInjective, Contains
<1>2. TypeOK
  <2>1. <<>> \in Seq(Calls) /\ Len(<<>>) = 0
    OBVIOUS
  <2>2. ch \in [Calls -> {<<>>} \cup {<<m>> : m \in 1..dispatched}]
    BY DEF Init
  <2>3. own \in [Calls -> 0..asked] /\ since \in [Calls -> 0..dispatched]
        /\ result \in [Calls -> Nat \cup {NoResult}]
    BY DEF Init
  <2>4. step \in [Calls -> {"idle", "request", "send", "wait", "cancel", "done"}]
    BY DEF Init
  <2>5. next \in 1..(Len(snapshot) + 1)
    BY <2>1 DEF Init
  <2>6. reader \in {"read", "recv", "dispatch", "handler", "done"} /\ closed \in BOOLEAN
        /\ inner \subseteq HandlerCalls /\ (reader = "handler" <=> inner # {}) /\ ctx \subseteq Calls
    BY DEF Init
  <2>7. asked \in Nat /\ answered \in 0..asked /\ dispatched \in 0..answered
    BY DEF Init
  <2>8. handlers \in Seq(Calls) /\ snapshot \in Seq(Calls)
    BY <2>1 DEF Init
  <2> QED
    BY <2>2, <2>3, <2>4, <2>5, <2>6, <2>7, <2>8 DEF TypeOK
<1> QED
  BY <1>1, <1>2 DEF Init, IInv, NoHandlerLeaks, HasMessage, Hears

\* On, from a goroutine or a handler.
LEMMA RegisterInv ==
  ASSUME IInv, NEW u \in Calls, RegisterHandler(u),
         UNCHANGED <<closed, snapshot, next>>,
         \/ UNCHANGED <<reader, inner>>
         \/ u \in HandlerCalls /\ reader = "recv" /\ reader' = "handler" /\ inner' = {u}
  PROVE  IInv'
<1> USE DEF IInv
<1>1. /\ step[u] = "idle" /\ step' = [step EXCEPT ![u] = "request"]
      /\ handlers' = Append(handlers, u) /\ since' = [since EXCEPT ![u] = dispatched]
      /\ UNCHANGED <<ch, ctx, result, own, asked, answered, dispatched>>
  BY DEF RegisterHandler, Moves, counts
<1>2. handlers \in Seq(Calls) /\ IsInjective(handlers) /\ ~Contains(handlers, u)
  BY <1>1 DEF TypeOK, NoHandlerLeaks
<1>3. TypeOK'
  <2>1. handlers' \in Seq(Calls) /\ since' \in [Calls -> 0..dispatched]
        /\ step' \in [Calls -> {"idle", "request", "send", "wait", "cancel", "done"}]
    BY <1>1, <1>2, AppendOne DEF TypeOK
  <2>2. /\ reader' \in {"read", "recv", "dispatch", "handler", "done"}
        /\ inner' \subseteq HandlerCalls /\ (reader' = "handler" <=> inner' # {})
    BY DEF TypeOK
  <2> QED
    BY <1>1, <2>1, <2>2 DEF TypeOK
<1>4. NoHandlerLeaks'
  <2>1. IsInjective(handlers') /\ \A v : Contains(handlers', v) <=> Contains(handlers, v) \/ v = u
    BY <1>1, <1>2, AppendOne
  <2>2. ASSUME NEW v \in Calls
        PROVE  Contains(handlers', v) <=> step'[v] \in {"request", "send", "wait", "cancel"}
    BY <1>1, <2>1 DEF TypeOK, NoHandlerLeaks
  <2> QED
    BY <2>1, <2>2 DEF NoHandlerLeaks
<1>5. HasMessage' /\ Hears'
  BY <1>1 DEF HasMessage, Hears, TypeOK
<1> QED
  BY <1>3, <1>4, <1>5

\* A call that goes from one place to another and leaves the registry alone.
LEMMA CallInv ==
  ASSUME IInv, NEW u \in Calls,
         Send(u) \/ Request(u) \/ RequestFails(u) \/ Take(u) \/ TimeOut(u)
  PROVE  IInv'
<1> USE DEF IInv, TypeOK, NoHandlerLeaks, HasMessage, Hears, Moves, counts, client
<1>1. CASE Request(u)
  BY <1>1 DEF Request
<1>2. CASE RequestFails(u)
  BY <1>2 DEF RequestFails, AfterFailure
<1>3. CASE Take(u)
  BY <1>3 DEF Take
<1>4. CASE TimeOut(u)
  BY <1>4 DEF TimeOut
<1>5. CASE Send(u)
  BY <1>5 DEF Send
<1> QED
  BY <1>1, <1>2, <1>3, <1>4, <1>5

\* The deferred cancel.
LEMMA UnregisterInv == ASSUME IInv, NEW u \in Calls, Unregister(u) PROVE IInv'
<1> USE DEF IInv
<1>1. /\ step[u] = "cancel" /\ step' = [step EXCEPT ![u] = "done"]
      /\ handlers' = RemoveFirst(handlers, u)
      /\ UNCHANGED <<ch, ctx, result, own, since, asked, answered, dispatched,
                     closed, reader, inner, snapshot, next>>
  BY DEF Unregister, Moves, counts, client
<1>2. handlers \in Seq(Calls) /\ IsInjective(handlers) /\ Contains(handlers, u)
  BY <1>1 DEF TypeOK, NoHandlerLeaks
<1>3. /\ handlers' \in Seq(Calls) /\ IsInjective(handlers')
      /\ \A v : Contains(handlers', v) <=> Contains(handlers, v) /\ v # u
  BY <1>1, <1>2, RemoveOne
<1>4. TypeOK' /\ HasMessage' /\ Hears'
  BY <1>1, <1>3 DEF TypeOK, HasMessage, Hears
<1>5. NoHandlerLeaks'
  <2>1. ASSUME NEW v \in Calls
        PROVE  Contains(handlers', v) <=> step'[v] \in {"request", "send", "wait", "cancel"}
    BY <1>1, <1>3 DEF TypeOK, NoHandlerLeaks
  <2> QED
    BY <1>3, <2>1 DEF NoHandlerLeaks
<1> QED
  BY <1>4, <1>5

\* The read loop.
LEMMA ReaderInv ==
  ASSUME IInv, Receive \/ ReaderStep
  PROVE  IInv'
<1> USE DEF IInv
<1>1. CASE Receive
  <2>1. /\ reader = "recv" /\ reader' = "dispatch" /\ answered < asked
        /\ answered' = answered + 1 /\ dispatched' = answered + 1
        /\ snapshot' = handlers /\ next' = 1
        /\ UNCHANGED <<handlers, step, ch, ctx, result, own, since, asked, closed, inner>>
    BY <1>1 DEF Receive
  <2>2. TypeOK' /\ NoHandlerLeaks' /\ HasMessage'
    BY <2>1 DEF TypeOK, NoHandlerLeaks, HasMessage
  <2>3. ASSUME NEW u \in Calls, step[u] \in {"request", "send", "wait"}
        PROVE  \E i \in next'..Len(snapshot') : snapshot'[i] = u
    BY <2>1, <2>3 DEF NoHandlerLeaks, Contains
  <2> QED
    BY <2>1, <2>2, <2>3 DEF Hears
<1>2. CASE Deliver
  <2> DEFINE v == snapshot[next]
  <2>1. /\ reader = "dispatch" /\ next \in 1..Len(snapshot) /\ v \in Calls
        /\ ch' = [ch EXCEPT ![v] = <<dispatched>>] /\ next' = next + 1
        /\ UNCHANGED <<handlers, step, ctx, result, own, since, asked, answered, dispatched,
                       closed, reader, inner, snapshot>>
    BY <1>2 DEF Deliver, Walked, TypeOK, counts
  <2>2. dispatched \in 1..dispatched
    BY <2>1 DEF HasMessage, TypeOK
  <2>3. \A u \in Calls : ch'[u] = IF u = v THEN <<dispatched>> ELSE ch[u]
    BY <2>1 DEF TypeOK
  <2>4. TypeOK' /\ NoHandlerLeaks' /\ HasMessage'
    <3>1. ch' \in [Calls -> {<<>>} \cup {<<m>> : m \in 1..dispatched}]
      BY <2>1, <2>2 DEF TypeOK
    <3>2. next' \in 1..(Len(snapshot) + 1)
      BY <2>1 DEF TypeOK
    <3>3. TypeOK'
      BY <2>1, <3>1, <3>2 DEF TypeOK
    <3>4. NoHandlerLeaks' /\ HasMessage'
      BY <2>1 DEF NoHandlerLeaks, HasMessage
    <3> QED
      BY <3>3, <3>4
  <2>5. Hears'
    <3> SUFFICES ASSUME NEW u \in Calls, step[u] \in {"request", "send", "wait"}, since[u] < dispatched,
                        u # v, ch[u] = <<>>
                 PROVE  \E i \in (next + 1)..Len(snapshot) : snapshot[i] = u
      BY <2>1, <2>3 DEF Hears
    <3>1. PICK i \in next..Len(snapshot) : snapshot[i] = u
      BY DEF Hears
    <3>2. i # next
      BY <3>1
    <3> QED
      BY <2>1, <3>1, <3>2
  <2> QED
    BY <2>4, <2>5
<1>3. CASE DispatchDone
  <2>1. ~\E i \in next..Len(snapshot) : TRUE
    BY <1>3 DEF DispatchDone, Walked, TypeOK
  <2> QED
    BY <1>3, <2>1 DEF DispatchDone, TypeOK, NoHandlerLeaks, HasMessage, Hears, counts
<1>4. CASE HandlerReturns
  BY <1>4 DEF HandlerReturns, TypeOK, NoHandlerLeaks, HasMessage, Hears, counts
<1>5. CASE ReaderStops
  BY <1>5 DEF ReaderStops, TypeOK, NoHandlerLeaks, HasMessage, Hears, counts
<1>6. CASE ReadTop
  BY <1>6 DEF ReadTop, TypeOK, NoHandlerLeaks, HasMessage, Hears, counts
<1> QED
  BY <1>1, <1>2, <1>3, <1>4, <1>5, <1>6 DEF ReaderStep

\* Every step keeps the invariant.
LEMMA StepInv == IInv /\ [Next]_vars => IInv'
<1> SUFFICES ASSUME IInv, [Next]_vars PROVE IInv'
  OBVIOUS
<1>1. ASSUME NEW u \in Calls, CallStep(u) PROVE IInv'
  BY <1>1, RegisterInv, CallInv, UnregisterInv DEF CallStep, Register, client
<1>2. ASSUME NEW u \in Calls, RegisterInHandler(u) PROVE IInv'
  BY <1>2, RegisterInv DEF RegisterInHandler
<1>3. CASE Receive \/ ReaderStep
  BY <1>3, ReaderInv
<1> USE DEF IInv, TypeOK, NoHandlerLeaks, HasMessage, Hears, counts, client
<1>4. ASSUME NEW u \in Calls, CancelContext(u) PROVE IInv'
  BY <1>4 DEF CancelContext
<1>5. CASE Close
  BY <1>5 DEF Close
<1>6. CASE AnswerLost
  BY <1>6 DEF AnswerLost
<1>7. CASE UNCHANGED vars
  BY <1>7 DEF vars
<1> QED
  BY <1>1, <1>2, <1>3, <1>4, <1>5, <1>6, <1>7 DEF Next

-----------------------------------------------------------------------------
\* Types, for any set of calls.
THEOREM TypeCorrect == Spec => []TypeOK
<1>1. IInv => TypeOK
  BY DEF IInv
<1> QED
  BY InitInv, StepInv, <1>1, PTL DEF Spec

\* A handler is in the registry once and as long as its call is under way, whichever way
\* the call leaves (account.go 129-145, client.go 220-230).
THEOREM NoLeaks == Spec => []NoHandlerLeaks
<1>1. IInv => NoHandlerLeaks
  BY DEF IInv
<1> QED
  BY InitInv, StepInv, <1>1, PTL DEF Spec

\* No dispatch skips a handler because others come and go (client.go 513-528).
THEOREM AllHear == Spec => []EveryWaiterHears
<1>1. IInv => EveryWaiterHears
  BY DEF IInv, Hears, EveryWaiterHears
<1> QED
  BY InitInv, StepInv, <1>1, PTL DEF Spec

-----------------------------------------------------------------------------
(* The promise of Query.                                                   *)

\* What a call has in its channel was dispatched after it registered.
InTime == \A u \in Calls : ch[u] # <<>> => step[u] # "idle" /\ since[u] < Head(ch[u])

\* Those in a snapshot registered before its message.
SnapshotOlder ==
  reader = "dispatch" =>
    \A i \in 1..Len(snapshot) : step[snapshot[i]] # "idle" /\ since[snapshot[i]] < dispatched

Timely == InTime /\ SnapshotOlder

\* Every step keeps it: a new call is in no snapshot, a new snapshot is older than its
\* message.
LEMMA TimelyStep == IInv /\ Timely /\ [Next]_vars => Timely'
<1> SUFFICES ASSUME IInv, Timely, [Next]_vars PROVE Timely'
  OBVIOUS
<1> USE DEF IInv, Timely, InTime, SnapshotOlder
<1>1. ASSUME NEW u \in Calls, RegisterHandler(u), snapshot' = snapshot,
             reader' = "dispatch" => reader = "dispatch"
      PROVE  Timely'
  <2>1. /\ step[u] = "idle" /\ step' = [step EXCEPT ![u] = "request"]
        /\ since' = [since EXCEPT ![u] = dispatched] /\ ch' = ch /\ dispatched' = dispatched
    BY <1>1 DEF RegisterHandler, Moves, counts
  <2>2. InTime'
    BY <2>1 DEF TypeOK
  <2>3. SnapshotOlder'
    <3> SUFFICES ASSUME reader = "dispatch", NEW i \in 1..Len(snapshot)
                 PROVE  step'[snapshot[i]] # "idle" /\ since'[snapshot[i]] < dispatched
      BY <1>1, <2>1
    <3>1. snapshot[i] \in Calls /\ snapshot[i] # u
      BY <2>1 DEF TypeOK
    <3> QED
      BY <2>1, <3>1 DEF TypeOK
  <2> QED
    BY <2>2, <2>3
<1>2. ASSUME NEW u \in Calls,
             \/ Send(u) \/ Request(u) \/ RequestFails(u)
             \/ Take(u) \/ TimeOut(u) \/ Unregister(u)
      PROVE  Timely'
  <2>1. PICK q \in {"send", "wait", "cancel", "done"} : step' = [step EXCEPT ![u] = q]
    BY <1>2 DEF Send, Request, RequestFails, AfterFailure, Take, TimeOut, Unregister, Moves
  <2>2. /\ since' = since /\ dispatched' = dispatched /\ reader' = reader /\ snapshot' = snapshot
        /\ ch' = ch \/ ch' = [ch EXCEPT ![u] = <<>>]
    BY <1>2 DEF Send, Request, RequestFails, Take, TimeOut, Unregister, counts, client
  <2>3. \A v \in Calls : step[v] # "idle" => step'[v] # "idle"
    BY <2>1 DEF TypeOK
  <2>4. \A v \in Calls : ch'[v] # <<>> => ch'[v] = ch[v] /\ step'[v] # "idle"
    BY <2>2, <2>3 DEF TypeOK
  <2>5. \A i \in 1..Len(snapshot) : snapshot[i] \in Calls
    BY DEF TypeOK
  <2> QED
    BY <2>2, <2>3, <2>4, <2>5
<1>3. CASE Receive
  <2>1. /\ dispatched' = answered + 1 /\ snapshot' = handlers /\ UNCHANGED <<step, ch, since>>
    BY <1>3 DEF Receive
  <2>2. ASSUME NEW i \in 1..Len(handlers)
        PROVE  step[handlers[i]] # "idle" /\ since[handlers[i]] < answered + 1
    <3>1. handlers[i] \in Calls /\ Contains(handlers, handlers[i])
      BY DEF TypeOK, Contains
    <3>2. step[handlers[i]] \in {"request", "send", "wait", "cancel"}
      BY <3>1 DEF NoHandlerLeaks
    <3>3. since[handlers[i]] \in 0..dispatched /\ dispatched \in 0..answered /\ answered \in Nat
      BY <3>1 DEF TypeOK
    <3> HIDE DEF IInv, Timely
    <3> QED
      BY <3>2, <3>3
  <2> QED
    BY <2>1, <2>2
<1>4. CASE Deliver
  <2> DEFINE v == snapshot[next]
  <2>1. /\ reader = "dispatch" /\ next \in 1..Len(snapshot) /\ v \in Calls
        /\ ch' = [ch EXCEPT ![v] = <<dispatched>>]
        /\ UNCHANGED <<step, since, dispatched, reader, snapshot>>
    BY <1>4 DEF Deliver, Walked, TypeOK, counts
  <2>2. step[v] # "idle" /\ since[v] < dispatched
    BY <2>1
  <2>3. \A u \in Calls : ch'[u] = IF u = v THEN <<dispatched>> ELSE ch[u]
    BY <2>1 DEF TypeOK
  <2> QED
    BY <2>1, <2>2, <2>3
<1>5. CASE ReadTop \/ DispatchDone \/ HandlerReturns \/ ReaderStops
  BY <1>5 DEF ReadTop, DispatchDone, HandlerReturns, ReaderStops, counts
<1>6. ASSUME NEW u \in Calls, CancelContext(u) PROVE Timely'
  BY <1>6 DEF CancelContext, counts, client
<1>7. CASE Close \/ AnswerLost
  BY <1>7 DEF Close, AnswerLost, counts, client
<1>8. CASE UNCHANGED vars
  BY <1>8 DEF vars
<1> QED
  BY <1>1, <1>2, <1>3, <1>4, <1>5, <1>6, <1>7, <1>8
  DEF Next, CallStep, ReaderStep, Register, RegisterInHandler, client

\* A call that takes a message or gives up returns an answer of Query.
LEMMA ReturnsOnce ==
  ASSUME IInv, Timely, NEW u \in Calls, Take(u) \/ TimeOut(u) \/ RequestFails(u)
  PROVE  Promise!Return(u)
<1> USE DEF IInv
<1>1. /\ step[u] \in {"request", "send", "wait"} /\ step' = [step EXCEPT ![u] = "cancel"]
      /\ UNCHANGED <<since, dispatched>>
  BY DEF Take, TimeOut, RequestFails, AfterFailure, Moves, counts
<1>2. PICK m \in {0} \cup (since[u] + 1)..dispatched : result' = [result EXCEPT ![u] = m]
  <2>1. CASE Take(u)
    <3>1. PICK m \in 1..dispatched : ch[u] = <<m>>
      BY <2>1 DEF Take, TypeOK
    <3>2. since[u] < m
      BY <3>1 DEF Timely, InTime
    <3>3. since[u] \in Nat /\ dispatched \in Nat
      BY DEF TypeOK
    <3>4. m \in (since[u] + 1)..dispatched
      BY <3>1, <3>2, <3>3
    <3>5. result' = [result EXCEPT ![u] = m]
      BY <2>1, <3>1 DEF Take
    <3> QED
      BY <3>4, <3>5
  <2> QED
    BY <2>1 DEF TimeOut, RequestFails
<1> QED
  BY <1>1, <1>2 DEF Promise!Return, TypeOK

\* A call returns once, with an error or with a message that was dispatched after it
\* registered, whatever other calls do (account.go 129-145, client.go 513-528).
THEOREM ImplementsPromise == Spec => ImplementsQuery
<1>1. Init => Promise!Init /\ Timely
  BY DEF Init, Promise!Init, Timely, InTime, SnapshotOlder
<1>2. IInv /\ Timely /\ [Next]_vars => [Promise!Next]_(Promise!vars)
  <2> SUFFICES ASSUME IInv, Timely, [Next]_vars PROVE [Promise!Next]_(Promise!vars)
    OBVIOUS
  <2> USE DEF IInv, Promise!Next, Promise!vars
  <2>1. ASSUME NEW u \in Calls, RegisterHandler(u) PROVE Promise!Open(u)
    BY <2>1 DEF RegisterHandler, Moves, Promise!Open, TypeOK, counts
  <2>2. ASSUME NEW u \in Calls, Take(u) \/ TimeOut(u) \/ RequestFails(u)
        PROVE  Promise!Return(u)
    BY <2>2, ReturnsOnce
  <2>3. CASE Receive
    BY <2>3 DEF Receive, Promise!Publish, TypeOK
  \* Everything else is a stuttering step of the promise.
  <2>4. ASSUME NEW u \in Calls, Send(u) \/ Request(u) \/ Unregister(u) \/ CancelContext(u)
        PROVE  UNCHANGED Promise!vars
    BY <2>4 DEF Send, Request, Unregister, CancelContext, Moves, TypeOK, counts
  <2>5. CASE ReaderStep \/ Close \/ AnswerLost \/ UNCHANGED vars
    BY <2>5
    DEF ReaderStep, ReadTop, Deliver, DispatchDone, HandlerReturns, ReaderStops, Close, AnswerLost,
        vars, counts
  <2> QED
    BY <2>1, <2>2, <2>3, <2>4, <2>5 DEF Next, CallStep, Register, RegisterInHandler
<1> QED
  BY <1>1, <1>2, InitInv, StepInv, TimelyStep, PTL DEF Spec, ImplementsQuery, Promise!Spec
=============================================================================
