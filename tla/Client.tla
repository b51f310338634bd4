------------------------------- MODULE Client -------------------------------
(***************************************************************************)
(* The connection life cycle of mt5.Client (client.go): one goroutine in   *)
(* Run, one heartbeat goroutine per established connection, and any number *)
(* of application goroutines that call SendCommand and Close while the     *)
(* network fails and the caller of Run cancels its context.                *)
(*                                                                         *)
(* A step is one critical section of Client.mu or Client.writeMu, one      *)
(* channel operation, one blocking call into the WebSocket library, or one *)
(* user callback.  Payloads, encryption and the handlers' work are left    *)
(* out: a received message only decides whether dispatch sends a frame.    *)
(***************************************************************************)
EXTENDS Integers

CONSTANTS
  Conns,          (* sockets a behaviour may dial; bounds the dials that succeed *)
  Senders,        (* application goroutines calling SendCommand or Send          *)
  Closers,        (* application goroutines calling Close                        *)
  Runner,         (* the goroutine that calls Run                                *)
  None,           (* the nil *websocket.Conn                                     *)
  MaxAttempts,    (* Config.ReconnectMaxAttempts                                 *)
  AttemptBound,   (* where the counters of attempts saturate                     *)
  AutoRequestKey  (* Config.AutoRequestKey                                       *)

ASSUME ClientAssumption ==
  /\ None \notin Conns
  /\ Runner \notin Conns \cup Senders \cup Closers
  /\ Conns \cap (Senders \cup Closers) = {} /\ Senders \cap Closers = {}
  /\ AttemptBound \in Nat
  /\ MaxAttempts \in Int /\ MaxAttempts < AttemptBound
  /\ AutoRequestKey \in BOOLEAN

VARIABLES
  closed,         (* Client.closed; closeCh is closed in the same critical section *)
  ctxDone,        (* the context given to Run is cancelled                         *)
  conn,           (* Client.conn                                                   *)
  sock,           (* the sockets: "none" before the dial, then "open", "broken"    *)
                  (* by the network, "closed" by conn.Close()                      *)
  hb,             (* heartbeatLoop of a connection: "live", "told" once            *)
                  (* heartbeatDone is closed, "exited"                             *)
  op,             (* where a goroutine is inside Send or closeConn                 *)
  held,           (* the local conn that call has read                             *)
  pc,             (* where the Runner is in Run, Connect or readLoop               *)
  mine,           (* the conn of the Runner's current iteration                    *)
  err,            (* the error in hand; Run's result once pc = "done"              *)
  attempt,        (* Run's attempt                                                 *)
  connectedOnce,  (* Run's connectedOnce                                           *)
  redials         (* history: Connect calls since the last usable connection       *)

shared == <<closed, ctxDone, conn, sock>>
calls  == <<op, held>>
counts == <<attempt, connectedOnce, redials>>
locals == <<mine, err, counts>>
vars   == <<closed, ctxDone, conn, sock, hb, op, held, pc, mine, err, attempt,
            connectedOnce, redials>>

\* A heartbeat goroutine is named by the connection it was started for.
Threads == {Runner} \cup Conns \cup Senders \cup Closers

Errors == {"nil", "ErrClientClosed", "ErrNotConnected", "ErrReadError",
           "dial", "send", "hook"}

-----------------------------------------------------------------------------
(* Send and closeConn, as any goroutine runs them.  The caller starts the  *)
(* call by setting op[t] to "check" or "swap" and resumes at "ok", "fail". *)

\* A Send that forgets to look for a nil connection.
SendRefused_NilUnchecked == closed

\* Both early returns of Send: the client is closed, or has no connection.
SendRefused == closed \/ conn = None

SendCheck(t) ==
  /\ op[t] = "check"
  /\ \/ SendRefused /\ op' = [op EXCEPT ![t] = "fail"] /\ held' = held
     \/ ~SendRefused /\ op' = [op EXCEPT ![t] = "lock"] /\ held' = [held EXCEPT ![t] = conn]
  /\ UNCHANGED <<shared, hb, pc, locals>>

\* SendCommand fails before Send: the codec or the cipher returns an error.
EncodeFails(t) ==
  /\ op[t] = "check"
  /\ op' = [op EXCEPT ![t] = "fail"]
  /\ UNCHANGED <<shared, hb, held, pc, locals>>

\* writeMu is held from here to the end of WriteMessage.
AcquireWrite(t) ==
  /\ op[t] = "lock"
  /\ \A s \in Threads : op[s] # "write"
  /\ op' = [op EXCEPT ![t] = "write"]
  /\ UNCHANGED <<shared, hb, held, pc, locals>>

EndWrite(t, result) ==
  /\ op[t] = "write"
  /\ op' = [op EXCEPT ![t] = result]
  /\ held' = [held EXCEPT ![t] = None]
  /\ UNCHANGED <<shared, hb, pc, locals>>

\* A write may be buffered although the peer is gone, never once conn.Close() ran.
WriteOK(t)   == EndWrite(t, "ok") /\ sock[held[t]] # "closed"
WriteFail(t) == EndWrite(t, "fail") /\ sock[held[t]] # "open"

\* A closeConn that closes the connection and leaves it where it is.
SwapConn_KeepConn(t) ==
  /\ op[t] = "swap"
  /\ held' = [held EXCEPT ![t] = conn]
  /\ op' = [op EXCEPT ![t] = IF conn = None THEN "ok" ELSE "shut"]
  /\ UNCHANGED <<shared, hb, pc, locals>>

\* closeConn takes the connection out under mu and closes it after unlocking.
SwapConn(t) ==
  /\ op[t] = "swap"
  /\ conn' = None
  /\ held' = [held EXCEPT ![t] = conn]
  /\ op' = [op EXCEPT ![t] = IF conn = None THEN "ok" ELSE "shut"]
  /\ UNCHANGED <<closed, ctxDone, sock, hb, pc, locals>>

ShutConn(t) ==
  /\ op[t] = "shut"
  /\ sock' = [sock EXCEPT ![held[t]] = "closed"]
  /\ held' = [held EXCEPT ![t] = None]
  /\ op' = [op EXCEPT ![t] = "ok"]
  /\ UNCHANGED <<closed, ctxDone, conn, hb, pc, locals>>

-----------------------------------------------------------------------------
(* Run and Connect.                                                        *)

RunGoes(from, to) == pc = from /\ pc' = to

\* The Runner's call into Send or closeConn, and its return.
RunCalls(start)    == op' = [op EXCEPT ![Runner] = start]
RunReturns(result) == op[Runner] = result /\ op' = [op EXCEPT ![Runner] = "none"]

StartRun == RunGoes("idle", "connect") /\ UNCHANGED <<shared, hb, calls, locals>>

\* Connect, first look at closed.
ConnectCheck ==
  /\ \/ closed /\ RunGoes("connect", "retry") /\ err' = "ErrClientClosed"
     \/ ~closed /\ RunGoes("connect", "dial") /\ err' = err
  /\ UNCHANGED <<shared, hb, calls, mine, counts>>

\* DialContext.  Only the Runner reads ctxDone, so a context cancelled while a
\* dial succeeds is the same as one cancelled right after it.
DialOK ==
  /\ RunGoes("dial", "install")
  /\ ~ctxDone
  /\ \E c \in Conns :
       sock[c] = "none" /\ sock' = [sock EXCEPT ![c] = "open"] /\ mine' = c
  /\ UNCHANGED <<closed, ctxDone, conn, hb, calls, err, counts>>

DialFail ==
  /\ RunGoes("dial", "retry")
  /\ err' = "dial"
  /\ UNCHANGED <<shared, hb, calls, mine, counts>>

\* A Connect that relies on its first look at closed.
InstallRefused_NoRecheck == FALSE

\* Connect, second look at closed: Close may have run during the dial.
InstallRefused == closed

DiscardDialed ==
  /\ RunGoes("install", "retry")
  /\ InstallRefused
  /\ sock' = [sock EXCEPT ![mine] = "closed"]
  /\ mine' = None
  /\ err' = "ErrClientClosed"
  /\ UNCHANGED <<closed, ctxDone, conn, hb, calls, counts>>

InstallConn ==
  /\ ~InstallRefused
  /\ conn' = mine
  /\ \/ AutoRequestKey /\ RunGoes("install", "keyreq") /\ RunCalls("check")
     \/ ~AutoRequestKey /\ RunGoes("install", "onconnect") /\ op' = op
  /\ UNCHANGED <<closed, ctxDone, sock, hb, held, locals>>

KeySent ==
  /\ RunGoes("keyreq", "onconnect")
  /\ RunReturns("ok")
  /\ UNCHANGED <<shared, hb, held, locals>>

\* A Connect that returns RequestKey's error and keeps the connection.
KeyFailed_KeepConn ==
  /\ RunGoes("keyreq", "retry")
  /\ RunReturns("fail")
  /\ mine' = None
  /\ err' = "send"
  /\ UNCHANGED <<shared, hb, held, counts>>

KeyFailed ==
  /\ RunGoes("keyreq", "closing")
  /\ op[Runner] = "fail"
  /\ RunCalls("swap")
  /\ err' = "send"
  /\ UNCHANGED <<shared, hb, held, mine, counts>>

\* OnConnect returned nil, or is not configured; the heartbeat starts.
OnConnectOK ==
  /\ RunGoes("onconnect", "read")
  /\ connectedOnce' = TRUE
  /\ attempt' = 0
  /\ redials' = 0
  /\ hb' = [hb EXCEPT ![mine] = "live"]
  /\ UNCHANGED <<shared, calls, mine, err>>

OnConnectErr ==
  /\ RunGoes("onconnect", "closing")
  /\ RunCalls("swap")
  /\ err' = "hook"
  /\ UNCHANGED <<shared, hb, held, mine, attempt, connectedOnce, redials>>

\* Run's closeConn returned, after a failed set-up or a finished read loop.
ConnClosed ==
  /\ RunGoes("closing", IF err = "nil" THEN "done" ELSE "retry")
  /\ RunReturns("ok")
  /\ mine' = None
  /\ UNCHANGED <<shared, hb, held, err, counts>>

\* Off by one: one attempt more than the limit.
ShouldRetry_OneMore ==
  /\ ~closed
  /\ MaxAttempts # 0
  /\ MaxAttempts < 0 \/ attempt <= MaxAttempts

\* shouldRetry; every path that reaches it carries an error.
ShouldRetry ==
  /\ ~closed
  /\ MaxAttempts # 0
  /\ MaxAttempts < 0 \/ attempt < MaxAttempts

Bump(n) == IF n < AttemptBound THEN n + 1 ELSE n

Retry ==
  /\ RunGoes("retry", "backoff")
  /\ ShouldRetry
  /\ attempt' = Bump(attempt)
  /\ UNCHANGED <<shared, hb, calls, mine, err, connectedOnce, redials>>

GiveUp ==
  /\ RunGoes("retry", "done")
  /\ ~ShouldRetry
  /\ UNCHANGED <<shared, hb, calls, locals>>

\* The select of waitBackoff; err is a variable of one iteration.
BackoffElapsed ==
  /\ RunGoes("backoff", "connect")
  /\ redials' = Bump(redials)
  /\ err' = "nil"
  /\ UNCHANGED <<shared, hb, calls, mine, attempt, connectedOnce>>

BackoffInterrupted ==
  /\ RunGoes("backoff", "done")
  /\ ctxDone \/ closed
  /\ err' = "nil"
  /\ UNCHANGED <<shared, hb, calls, mine, counts>>

-----------------------------------------------------------------------------
(* readLoop.                                                               *)

\* A readLoop that looks at closeCh only.
ReadStops_IgnoresContext == closed

\* A readLoop that looks at the context only.
ReadStops_IgnoresClose == ctxDone

\* The select at the top of readLoop.
ReadStops == ctxDone \/ closed

ReadTop ==
  /\ \/ ReadStops /\ RunGoes("read", "drop")
     \/ ~ReadStops /\ RunGoes("read", "load")
  /\ UNCHANGED <<shared, hb, calls, locals>>

LoadConn ==
  /\ \/ conn = None /\ RunGoes("load", "drop") /\ err' = "ErrNotConnected" /\ mine' = mine
     \/ conn # None /\ RunGoes("load", "recv") /\ err' = err /\ mine' = conn
  /\ UNCHANGED <<shared, hb, calls, counts>>

\* A frame arrives, perhaps one buffered before the socket went away: it is
\* undecodable, skipped, or dispatched to handlers that send nothing ...
ReadMessage == RunGoes("recv", "read") /\ UNCHANGED <<shared, hb, calls, locals>>

\* ... or to a handler that calls SendCommand, as the login handler does.
ReadAndSend ==
  /\ RunGoes("recv", "handle")
  /\ RunCalls("check")
  /\ UNCHANGED <<shared, hb, held, locals>>

\* A handler's error goes to its callback or to publishError; neither blocks.
HandlerDone ==
  /\ RunGoes("handle", "read")
  /\ RunReturns("ok") \/ RunReturns("fail")
  /\ UNCHANGED <<shared, hb, held, locals>>

\* A readLoop that skips a failed read as it skips an undecodable frame.
ReadError_Continue ==
  /\ RunGoes("recv", "read")
  /\ sock[mine] # "open"
  /\ UNCHANGED <<shared, hb, calls, locals>>

ReadError ==
  /\ RunGoes("recv", "drop")
  /\ sock[mine] # "open"
  /\ err' = "ErrReadError"
  /\ UNCHANGED <<shared, hb, calls, mine, counts>>

\* A Run that leaves heartbeatDone open.
Told_Never(state) == state

\* close(heartbeatDone), as the goroutine it belongs to will see it.
Told(state) == IF state = "live" THEN "told" ELSE state

\* readLoop returned: OnDisconnect if err is not nil, close(heartbeatDone),
\* then closeConn.
DropConn ==
  /\ RunGoes("drop", "closing")
  /\ hb' = [hb EXCEPT ![mine] = Told(@)]
  /\ RunCalls("swap")
  /\ UNCHANGED <<shared, held, locals>>

-----------------------------------------------------------------------------
(* heartbeatLoop of connection c.                                          *)

Ping(c) ==
  /\ hb[c] \in {"live", "told"}
  /\ op[c] = "none"
  /\ op' = [op EXCEPT ![c] = "check"]
  /\ UNCHANGED <<shared, hb, held, pc, locals>>

PingReturn(c) ==
  /\ op[c] \in {"ok", "fail"}
  /\ op' = [op EXCEPT ![c] = "none"]
  /\ hb' = [hb EXCEPT ![c] = IF op[c] = "ok" THEN @ ELSE "exited"]
  /\ UNCHANGED <<shared, held, pc, locals>>

StopHeartbeat(c) ==
  /\ op[c] = "none"
  /\ hb[c] = "told" \/ (hb[c] = "live" /\ closed)
  /\ hb' = [hb EXCEPT ![c] = "exited"]
  /\ UNCHANGED <<shared, calls, pc, locals>>

-----------------------------------------------------------------------------
(* Application goroutines and the environment.                             *)

CallSend(u) ==
  /\ op[u] = "none"
  /\ op' = [op EXCEPT ![u] = "check"]
  /\ UNCHANGED <<shared, hb, held, pc, locals>>

\* A Close that leaves the socket to Run.
CloseContinues_KeepConn == "ok"

\* What Close does after marking the client closed: closeConn.
CloseContinues == "swap"

\* A Close that finds the client closed returns at once.
CallClose(u) ==
  /\ op[u] = "none"
  /\ closed' = TRUE
  /\ op' = [op EXCEPT ![u] = IF closed THEN "ok" ELSE CloseContinues]
  /\ UNCHANGED <<ctxDone, conn, sock, hb, held, pc, locals>>

CallReturn(u) ==
  /\ op[u] \in {"ok", "fail"}
  /\ op' = [op EXCEPT ![u] = "none"]
  /\ UNCHANGED <<shared, hb, held, pc, locals>>

CancelContext ==
  /\ ~ctxDone
  /\ ctxDone' = TRUE
  /\ UNCHANGED <<closed, conn, sock, hb, calls, pc, locals>>

BreakSocket(c) ==
  /\ sock[c] = "open"
  /\ sock' = [sock EXCEPT ![c] = "broken"]
  /\ UNCHANGED <<closed, ctxDone, conn, hb, calls, pc, locals>>

-----------------------------------------------------------------------------
Init ==
  /\ closed = FALSE
  /\ ctxDone = FALSE
  /\ conn = None
  /\ sock = [c \in Conns |-> "none"]
  /\ hb = [c \in Conns |-> "none"]
  /\ op = [t \in Threads |-> "none"]
  /\ held = [t \in Threads |-> None]
  /\ pc = "idle"
  /\ mine = None
  /\ err = "nil"
  /\ attempt = 0
  /\ connectedOnce = FALSE
  /\ redials = 0

\* Steps of the goroutines that need nothing but the scheduler.  A step that
\* waits for the peer (ReadMessage, ReadAndSend, WriteOK) is not among them.
RunStep ==
  \/ ConnectCheck \/ DialOK \/ DialFail \/ DiscardDialed \/ InstallConn
  \/ KeySent \/ KeyFailed \/ OnConnectOK \/ OnConnectErr \/ ConnClosed
  \/ Retry \/ GiveUp \/ BackoffElapsed \/ BackoffInterrupted
  \/ ReadTop \/ LoadConn \/ HandlerDone \/ ReadError \/ DropConn

CallStep(t) ==
  \/ SendCheck(t) \/ EncodeFails(t) \/ AcquireWrite(t) \/ WriteFail(t)
  \/ SwapConn(t) \/ ShutConn(t)

Next ==
  \/ StartRun \/ RunStep \/ ReadMessage \/ ReadAndSend
  \/ \E t \in Threads : CallStep(t) \/ WriteOK(t)
  \/ \E c \in Conns : Ping(c) \/ PingReturn(c) \/ StopHeartbeat(c) \/ BreakSocket(c)
  \/ \E u \in Senders : CallSend(u) \/ CallReturn(u)
  \/ \E u \in Closers : CallClose(u) \/ CallReturn(u)
  \/ CancelContext

Spec == Init /\ [][Next]_vars

\* The scheduler runs every goroutine that can run.  ReadError is strong: a dead
\* socket holds finitely many buffered frames.  So are the arms of a select, which
\* Go picks at random among the ready ones, and writeMu, which serves waiters in
\* turn.  Nothing is assumed of the peer: a read or a write may block for ever.
Fairness ==
  /\ WF_vars(RunStep) /\ SF_vars(ReadError) /\ SF_vars(BackoffInterrupted)
  /\ \A t \in Threads : SF_vars(CallStep(t) \/ (t \in Conns /\ PingReturn(t)))
  /\ \A c \in Conns : SF_vars(StopHeartbeat(c))

FairSpec == Spec /\ Fairness

-----------------------------------------------------------------------------
(* Safety.                                                                 *)

\* Where the Runner has a connection of its own, and where it has handed it over.
Connected == {"keyreq", "onconnect", "read", "load", "recv", "handle", "drop"}
Reading   == {"read", "load", "recv", "handle", "drop"}

\* Types, and no nil *websocket.Conn is ever dereferenced: a goroutine that is
\* about to write or to close has a connection in hand.
TypeOK ==
  /\ closed \in BOOLEAN /\ ctxDone \in BOOLEAN
  /\ conn \in Conns \cup {None}
  /\ sock \in [Conns -> {"none", "open", "broken", "closed"}]
  /\ hb \in [Conns -> {"none", "live", "told", "exited"}]
  /\ op \in [Threads -> {"none", "check", "lock", "write", "ok", "fail", "swap", "shut"}]
  /\ held \in [Threads -> Conns \cup {None}]
  /\ pc \in Connected \cup {"idle", "connect", "dial", "install", "closing",
                            "retry", "backoff", "done"}
  /\ mine \in Conns \cup {None}
  /\ err \in Errors
  /\ attempt \in 0..AttemptBound /\ redials \in 0..AttemptBound
  /\ connectedOnce \in BOOLEAN
  /\ \A t \in Threads : held[t] # None <=> op[t] \in {"lock", "write", "shut"}
  /\ mine # None <=> pc \in Connected \cup {"install", "closing"}

\* No socket leaks: one that is not closed is Client.conn, or was just dialled, or
\* is in the hands of a goroutine about to close it (client.go 279-291, 577-586).
Closing(c) == \E t \in Threads : op[t] = "shut" /\ held[t] = c

SocketOwned ==
  \A c \in Conns : sock[c] \in {"open", "broken"} =>
    conn = c \/ (pc = "install" /\ mine = c) \/ Closing(c)

\* Close, Run and a Connect that fails may all be on the way to close a connection, or a
\* second one after it: none of them closes a socket that is closed (client.go 279-291,
\* 345, 373, 577-586).
ClosedOnce ==
  /\ \A t \in Threads : op[t] = "shut" => sock[held[t]] # "closed"
  /\ pc = "install" => sock[mine] # "closed"

\* Close wins every race with Connect: a closed client has a connection only while
\* the goroutine that closes it has yet to reach closeConn (client.go 279-284).
CloseTakesEffect == closed /\ conn # None => \E t \in Threads : op[t] = "swap"

\* Only the Runner's present iteration owns Client.conn, so Run returns, retries
\* and dials again disconnected (client.go 306-359).
ConnIsRunners ==
  conn # None =>
    /\ conn = mine
    /\ pc \in Connected \/ (pc = "closing" /\ op[Runner] = "swap")

\* Run redials at most ReconnectMaxAttempts times since the last usable connection
\* and returns only for a reason: nil when stopped, an error when it may retry no
\* more (client.go 307-316, 540-561).
RetryBudget ==
  /\ MaxAttempts >= 0 => redials <= MaxAttempts
  /\ pc = "done" =>
       IF err = "nil" THEN ctxDone \/ closed
       ELSE closed \/ (MaxAttempts >= 0 /\ redials = MaxAttempts)

\* A heartbeat is live only during the read loop of its own connection, and until it
\* is told to stop writes to no other one (client.go 337-345, 494-511).
HeartbeatFollowsConn ==
  \A c \in Conns : hb[c] = "live" =>
    /\ mine = c /\ pc \in Reading
    /\ held[c] \in {c, None}

\* A goroutine that captured a connection before it was replaced never succeeds in
\* writing to it: its frame goes out only while that connection is still the
\* client's, or is on the way to being closed (client.go 403-412).
StaleWriteFails ==
  [][\A t \in Threads : op[t] = "write" /\ op'[t] = "ok" =>
       conn = held[t] \/ Closing(held[t])]_vars

\* The points of Run and of the calls it makes, in the order a closed client leaves them.
RunRank(p) ==
  CASE p = "idle" -> 14 [] p = "backoff" -> 13 [] p = "connect" -> 12 [] p = "dial" -> 11
    [] p = "install" -> 10 [] p = "keyreq" -> 9 [] p = "onconnect" -> 8 [] p = "load" -> 7
    [] p = "recv" -> 6 [] p = "handle" -> 5 [] p = "read" -> 4 [] p = "drop" -> 3
    [] p = "closing" -> 2 [] p = "retry" -> 1 [] OTHER -> 0

CallRank(o) ==
  CASE o = "check" -> 4 [] o \in {"lock", "swap"} -> 3 [] o \in {"write", "shut"} -> 2
    [] o \in {"ok", "fail"} -> 1 [] OTHER -> 0

\* After Close Run never goes round again: it passes each point at most once, whichever
\* arm its selects take, and so returns after so many steps of its own, or is blocked in
\* one (client.go 303-360, 443-490, 540-575).
ClosedRunEnds ==
  [][closed =>
       \/ UNCHANGED <<pc, op[Runner]>>
       \/ RunRank(pc') < RunRank(pc)
       \/ pc' = pc /\ CallRank(op'[Runner]) < CallRank(op[Runner])]_vars

-----------------------------------------------------------------------------
(* Liveness.                                                               *)

\* Every socket closed, every heartbeat goroutine gone.
Released == \A c \in Conns : sock[c] \in {"none", "closed"} /\ hb[c] \in {"none", "exited"}

\* However Run ends, all it opened is released and every heartbeat goroutine ends, those
\* waiting for writeMu and those in a write too (client.go 337-359, 494-511).
RunReleases == pc = "done" ~> Released

\* A connection the network broke is taken out even if nobody writes to it, so
\* Run can reconnect (client.go 460-464, 345).
BrokenIsDropped == \A c \in Conns : sock[c] = "broken" /\ conn = c ~> conn # c

\* A peer that keeps sending and keeps reading what it is sent.
PeerServes ==
  /\ WF_vars(ReadMessage)
  /\ \A t \in Threads : WF_vars(WriteOK(t))

\* A cancelled context makes Run return as long as the peer serves: no other wait of
\* Run goes on without a look at the context (client.go 311-313, 445-451).
CancelStopsServedRun == PeerServes => (ctxDone /\ pc # "idle" ~> pc = "done")

-----------------------------------------------------------------------------
(* What the documentation says and the code does not do.                   *)

\* client.go 300-301: Run blocks until the context is cancelled, whatever the peer does.
CancelStopsRun == ctxDone /\ pc # "idle" ~> pc = "done"

\* client.go 30-31: the reconnect argument of ConnectHook, which is connectedOnce,
\* is true for all connections after the first.
ReconnectFlagged ==
  pc = "onconnect" /\ (\E c \in Conns \ {mine} : sock[c] # "none") => connectedOnce

-----------------------------------------------------------------------------
(* What the client promises.                                               *)

Lifecycle == INSTANCE ClientLifecycle WITH
  linked <- conn # None,
  run <- IF pc = "idle" THEN "idle" ELSE IF pc = "done" THEN "returned" ELSE "running"

\* Every step of the client is a step of the life cycle promised, or none: a link
\* only while Run runs and the client is open, no return with a link up.
ImplementsLifecycle == Lifecycle!Spec

\* Close ends Run wherever it is: dialling, backing off, blocked in a read, a write
\* or on writeMu (client.go 302, 363-374).
CloseEndsRun == Lifecycle!CloseEndsRun
=============================================================================
