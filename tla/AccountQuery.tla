---------------------------- MODULE AccountQuery ----------------------------
(***************************************************************************)
(* GetAccountInfo (account.go) over the handler registry and the dispatch  *)
(* of Client (client.go): several goroutines register a handler for        *)
(* account messages, send a request and wait on a channel of one place for *)
(* what the read loop hands their handler, while messages arrive and       *)
(* contexts are cancelled.  A call is one execution of GetAccountInfo: it  *)
(* has a handler id, a channel and a context of its own.                   *)
(*                                                                         *)
(* The n-th request sent is answered by the n-th message, or never.  A     *)
(* message that cannot be decoded takes the same way, as an error.         *)
(***************************************************************************)
EXTENDS Naturals, SequencesExt

CONSTANTS
  Calls,         (* the executions of GetAccountInfo in a behaviour *)
  HandlerCalls,  (* those a handler of another command may make     *)
  NoResult       (* a call has not returned                         *)

ASSUME AccountQueryAssumption == NoResult \notin Nat /\ HandlerCalls \subseteq Calls

VARIABLES
  handlers,    (* Client.handlers[CommandRequestAccount], in order              *)
  step,        (* where a call is: "idle", "request", "send", "wait", "cancel", "done" *)
  ch,          (* its channel                                                   *)
  ctx,         (* the calls whose context is cancelled                          *)
  result,      (* what it returns: a message, 0 for an error, NoResult so far   *)
  own,         (* history: the number of its request; 0 before                  *)
  since,       (* history: the messages dispatched before it registered         *)
  asked,       (* requests sent                                                 *)
  answered,    (* the last request whose answer came or was lost                *)
  dispatched,  (* the last message handed to dispatch                           *)
  closed,      (* Client.closed                                                 *)
  reader,      (* the read loop: "read", "recv", "dispatch", "handler", "done"  *)
  inner,       (* the calls made by the handler it is in                        *)
  snapshot,    (* dispatch's copy of the handlers                               *)
  next         (* its position in it                                            *)

client == <<closed, reader, inner, snapshot, next>>
counts == <<asked, answered, dispatched>>
vars == <<handlers, step, ch, ctx, result, own, since, asked, answered, dispatched,
          closed, reader, inner, snapshot, next>>

-----------------------------------------------------------------------------
(* GetAccountInfo.                                                         *)

Moves(u, from, to) == step[u] = from /\ step' = [step EXCEPT ![u] = to]

\* IsAuthenticated held; On appends the handler.
RegisterHandler(u) ==
  /\ Moves(u, "idle", "request")
  /\ handlers' = Append(handlers, u)
  /\ since' = [since EXCEPT ![u] = dispatched]
  /\ UNCHANGED <<ch, ctx, result, own, counts>>

Register(u) == RegisterHandler(u) /\ UNCHANGED client

\* The same in a handler of another command, which holds the read loop meanwhile.
RegisterInHandler(u) ==
  /\ u \in HandlerCalls
  /\ reader = "recv" /\ reader' = "handler"
  /\ inner' = {u}
  /\ RegisterHandler(u)
  /\ UNCHANGED <<closed, snapshot, next>>

\* Send's look at closed; the call then waits for writeMu and for the write to end.
Send(u) ==
  /\ Moves(u, "request", "send")
  /\ ~closed
  /\ UNCHANGED <<handlers, ch, ctx, result, own, since, counts, client>>

\* The frame is written, which nothing in this program makes happen.
Request(u) ==
  /\ Moves(u, "send", "wait")
  /\ asked' = asked + 1
  /\ own' = [own EXCEPT ![u] = asked + 1]
  /\ UNCHANGED <<handlers, ch, ctx, result, since, answered, dispatched, client>>

\* A call that returns the error of RequestAccountInfo without its deferred cancel.
AfterFailure_NoCancel == "done"

AfterFailure == "cancel"

\* No longer authenticated, closed, no connection; or the write fails.
RequestFails(u) ==
  /\ Moves(u, "request", AfterFailure) \/ Moves(u, "send", AfterFailure)
  /\ result' = [result EXCEPT ![u] = 0]
  /\ UNCHANGED <<handlers, ch, ctx, own, since, counts, client>>

Take(u) ==
  /\ Moves(u, "wait", "cancel")
  /\ ch[u] # <<>>
  /\ result' = [result EXCEPT ![u] = Head(ch[u])]
  /\ ch' = [ch EXCEPT ![u] = <<>>]
  /\ UNCHANGED <<handlers, ctx, own, since, counts, client>>

\* A wait that does not look at its context.
Cancelled_Ignored(u) == FALSE

Cancelled(u) == u \in ctx

TimeOut(u) ==
  /\ Moves(u, "wait", "cancel")
  /\ Cancelled(u)
  /\ result' = [result EXCEPT ![u] = 0]
  /\ UNCHANGED <<handlers, ch, ctx, own, since, counts, client>>

\* The deferred cancel, under handlersMu.
Unregister(u) ==
  /\ Moves(u, "cancel", "done")
  /\ handlers' = RemoveFirst(handlers, u)
  /\ UNCHANGED <<ch, ctx, result, own, since, counts, client>>

CancelContext(u) ==
  /\ u \notin ctx
  /\ ctx' = ctx \cup {u}
  /\ UNCHANGED <<handlers, step, ch, result, own, since, counts, client>>

-----------------------------------------------------------------------------
(* The read loop and dispatch.                                             *)

\* The look at closeCh at the top of the loop, then ReadMessage.
ReadTop ==
  /\ reader = "read" /\ ~closed
  /\ reader' = "recv"
  /\ UNCHANGED <<handlers, step, ch, ctx, result, own, since, counts, closed, inner, snapshot, next>>

\* Close may come after that look: the message awaited then is still dispatched.
Receive ==
  /\ reader = "recv"
  /\ answered < asked
  /\ answered' = answered + 1
  /\ dispatched' = answered + 1
  /\ snapshot' = handlers
  /\ next' = 1
  /\ reader' = "dispatch"
  /\ UNCHANGED <<handlers, step, ch, ctx, result, own, since, asked, closed, inner>>

\* A dispatch that walks the registry itself.
Walked_Live == handlers

\* The list dispatch walks is the copy it took, not the registry.
Walked == snapshot

\* The handler of the next entry: it blocks while the channel is full, and still
\* runs if the call has cancelled it since the snapshot was taken.
Deliver ==
  /\ reader = "dispatch" /\ next <= Len(Walked)
  /\ ch[Walked[next]] = <<>>
  /\ ch' = [ch EXCEPT ![Walked[next]] = <<dispatched>>]
  /\ next' = next + 1
  /\ UNCHANGED <<handlers, step, ctx, result, own, since, counts, closed, reader, inner, snapshot>>

DispatchDone ==
  /\ reader = "dispatch" /\ next > Len(Walked)
  /\ reader' = "read"
  /\ snapshot' = <<>> /\ next' = 1
  /\ UNCHANGED <<handlers, step, ch, ctx, result, own, since, counts, closed, inner>>

\* The handler has its answer, and returns.
HandlerReturns ==
  /\ reader = "handler" /\ \A u \in inner : step[u] = "done"
  /\ reader' = "read" /\ inner' = {}
  /\ UNCHANGED <<handlers, step, ch, ctx, result, own, since, counts, closed, snapshot, next>>

\* The closed channel at the top of readLoop, or the closed socket under ReadMessage.
ReaderStops ==
  /\ reader \in {"read", "recv"} /\ closed
  /\ reader' = "done"
  /\ UNCHANGED <<handlers, step, ch, ctx, result, own, since, counts, closed, inner, snapshot, next>>

Close ==
  /\ ~closed /\ closed' = TRUE
  /\ UNCHANGED <<handlers, step, ch, ctx, result, own, since, counts, reader, inner, snapshot, next>>

\* A connection is lost with the answer, or the server never sends one.
AnswerLost ==
  /\ answered < asked
  /\ answered' = answered + 1
  /\ UNCHANGED <<handlers, step, ch, ctx, result, own, since, asked, dispatched, client>>

-----------------------------------------------------------------------------
Init ==
  /\ handlers = <<>>
  /\ step = [u \in Calls |-> "idle"]
  /\ ch = [u \in Calls |-> <<>>]
  /\ ctx = {}
  /\ result = [u \in Calls |-> NoResult]
  /\ own = [u \in Calls |-> 0] /\ since = [u \in Calls |-> 0]
  /\ asked = 0 /\ answered = 0 /\ dispatched = 0
  /\ closed = FALSE /\ reader = "read" /\ inner = {}
  /\ snapshot = <<>> /\ next = 1

ReaderStep == ReadTop \/ Deliver \/ DispatchDone \/ HandlerReturns \/ ReaderStops

CallStep(u) ==
  \/ Register(u) \/ Send(u) \/ Request(u) \/ RequestFails(u)
  \/ Take(u) \/ TimeOut(u) \/ Unregister(u)

Next ==
  \/ \E u \in Calls : CallStep(u) \/ RegisterInHandler(u) \/ CancelContext(u)
  \/ Receive \/ ReaderStep \/ Close \/ AnswerLost

Spec == Init /\ [][Next]_vars

\* A call that nobody makes is not owed a start, nor one in a write its end: the write
\* may block for ever, without a look at the context, until Close shuts the socket.
Runnable(u) ==
  \/ step[u] \in {"request", "wait", "cancel"}
  \/ step[u] = "send" /\ closed

\* Goroutines that can run do.
FairSpec ==
  /\ Spec /\ WF_vars(ReaderStep)
  /\ \A u \in Calls :
       WF_vars(Runnable(u) /\ (Send(u) \/ RequestFails(u) \/ Take(u) \/ TimeOut(u) \/ Unregister(u)))

-----------------------------------------------------------------------------
(* Properties.                                                             *)

TypeOK ==
  /\ handlers \in Seq(Calls) /\ snapshot \in Seq(Calls)
  /\ step \in [Calls -> {"idle", "request", "send", "wait", "cancel", "done"}]
  /\ ch \in [Calls -> {<<>>} \cup {<<m>> : m \in 1..dispatched}]
  /\ ctx \subseteq Calls
  /\ result \in [Calls -> Nat \cup {NoResult}] /\ own \in [Calls -> 0..asked]
  /\ since \in [Calls -> 0..dispatched]
  /\ asked \in Nat /\ answered \in 0..asked /\ dispatched \in 0..answered
  /\ closed \in BOOLEAN /\ reader \in {"read", "recv", "dispatch", "handler", "done"}
  /\ inner \subseteq HandlerCalls /\ (reader = "handler" <=> inner # {})
  /\ next \in 1..(Len(snapshot) + 1)

\* A handler is registered exactly once, exactly while its call is under way, by
\* whichever path the call leaves (account.go 129-145, client.go 220-230).
NoHandlerLeaks ==
  /\ IsInjective(handlers)
  /\ \A u \in Calls : Contains(handlers, u) <=> step[u] \in {"request", "send", "wait", "cancel"}

\* No registered handler is skipped because others come and go during a dispatch:
\* between messages, a call still waiting has in its channel any message that was
\* dispatched since it registered (client.go 513-528).
EveryWaiterHears ==
  \A u \in Calls :
    reader \in {"read", "recv"} /\ step[u] = "wait" /\ since[u] < dispatched => ch[u] # <<>>

\* A call ends once its context is cancelled, even if its answer is lost or the read
\* loop is stuck (account.go 140-145).
CancelReturns == \A u \in Calls : step[u] = "wait" /\ u \in ctx ~> step[u] = "done"

\* The peer reads what it is sent, so that no write blocks for ever.
PeerServes == \A u \in Calls : WF_vars(Request(u))

\* A handler that makes such a call waits for the read loop it is in; it has nothing but
\* its context to get it out, and with it out the loop goes on - if the request gets
\* written: SendCommand, in the handler too, knows no context (account.go 115-145,
\* client.go 410-412).
CancelFreesReader ==
  PeerServes => (inner # {} /\ inner \subseteq ctx ~> inner = {})

Promise == INSTANCE Query WITH
  call <- [u \in Calls |-> IF step[u] = "idle" THEN "idle"
                           ELSE IF step[u] \in {"request", "send", "wait"} THEN "open"
                           ELSE "returned"],
  answer <- result, opened <- since, news <- dispatched

\* A call returns once, and nothing older than itself: a handler that registers while a
\* message is dispatched is not in the snapshot and does not get it (account.go 129-145,
\* client.go 513-528).
ImplementsQuery == Promise!Spec

-----------------------------------------------------------------------------
(* What the documentation says and the code does not do.                   *)

\* client.go 300-301: Run blocks until the client is closed.
CloseStopsReader == closed ~> reader = "done"

\* account.go 115-117: GetAccountInfo sends a request and returns the response.
ResultIsOwn == \A u \in Calls : result[u] \in {NoResult, 0, own[u]}
=============================================================================
