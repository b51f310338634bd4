------------------------------ MODULE Session ------------------------------
(***************************************************************************)
(* The session AppClient negotiates over the connections of its Client     *)
(* (app.go, actions.go, crypto.go): Connect asks for a session key, the    *)
(* key message installs it and sends the login, the login answer           *)
(* authenticates, and the request methods of application goroutines look   *)
(* at that flag before they send.  SendCommand encrypts first and writes   *)
(* later, so a frame may meet another key, or another connection.          *)
(*                                                                         *)
(* The connection itself is module Client's; here it is up or down.  The   *)
(* server is external, modelled from what this code expects of it: on a    *)
(* new connection it speaks the default key, answers a key request under   *)
(* the key in use, with a key it then changes to or with a short refusal,  *)
(* decides on a login, pushes messages after accepting one, and cannot     *)
(* read a frame under any other key.                                       *)
(***************************************************************************)
EXTENDS Naturals, Sequences

CONSTANTS
  Callers,      (* goroutines calling RequestOpenPositions and its like     *)
  Runner,       (* the goroutine in Start, hence in Client.Run              *)
  Heart,        (* heartbeatLoop                                            *)
  MaxDials,     (* bound: connections a behaviour makes                     *)
  QueueBound    (* bound: frames in flight each way before a sender waits   *)

ASSUME SessionAssumption ==
  /\ Runner # Heart /\ {Runner, Heart} \cap Callers = {}
  /\ MaxDials \in Nat /\ QueueBound \in Nat \ {0}

VARIABLES
  key,              (* DefaultCrypto.block                                  *)
  awaitingKey, sessionKeyLoaded, authenticated,   (* AppClient's flags      *)
  pc,               (* where the Runner is                                  *)
  msg,              (* the message being dispatched                         *)
  frame,            (* what each goroutine has encrypted and not yet sent   *)
  checked,          (* callers that have passed IsAuthenticated             *)
  up, dials,        (* the connection is up; connections made so far        *)
  toServer, toClient,     (* frames in flight                               *)
  serverKey,        (* the key the server speaks on this connection         *)
  verdict,          (* what it says of a key or login on it           *)
  logins            (* history: connections it accepted a login on since Start *)

flags  == <<awaitingKey, sessionKeyLoaded, authenticated>>
server == <<serverKey, verdict, logins>>
wire   == <<up, dials, toServer, toClient>>
vars   == <<key, awaitingKey, sessionKeyLoaded, authenticated, pc, msg, frame, checked,
            up, dials, toServer, toClient, serverKey, verdict, logins>>

Threads == {Runner, Heart} \cup Callers

\* The key issued on the n-th connection is n.
DefaultKey == 0
Keys == 0..MaxDials

\* What else a message holds where a key would be: nothing, for the body ends before
\* SessionKeyOffset; too little for SetKey; or bytes that SetKey takes for a key.
NoKey == MaxDials + 1
Short == MaxDials + 2
Junk  == MaxDials + 3
Noise == {NoKey, Short, Junk}
Bodies == Keys \cup Noise

\* A frame to the server, and a message from it, under a key.
Commands == {"key", "login", "loginSuccess", "push"}
Frames == [cmd : {"keyreq", "login", "ping", "request"}, key : Keys \cup {Junk}]
NoFrame == [cmd |-> "none", key |-> DefaultKey]
Messages == [cmd : Commands, key : Keys \cup {Junk}, code : {0, 1}, body : Bodies]
NoMessage == [cmd |-> "push", key |-> DefaultKey, code |-> 0, body |-> NoKey]

\* Decrypted with the wrong key a message is noise, which no handler but the key
\* handler looks at.
Decrypted(m) == IF m.key = key THEN {m} ELSE {[m EXCEPT !.cmd = "push", !.body = b] : b \in Noise}

-----------------------------------------------------------------------------
(* SendCommand: Encrypt takes the key of the moment, Send writes later.    *)

Encrypt(t, cmd) ==
  /\ frame[t] = NoFrame
  /\ frame' = [frame EXCEPT ![t] = [cmd |-> cmd, key |-> key]]

\* The frame goes to whatever connection there is now; without one Send fails.
Send(t) ==
  /\ frame[t] # NoFrame
  /\ up => Len(toServer) < QueueBound
  /\ toServer' = IF up THEN Append(toServer, frame[t]) ELSE toServer
  /\ frame' = [frame EXCEPT ![t] = NoFrame]

-----------------------------------------------------------------------------
(* The Runner: Start, Connect, readLoop and the handlers.                  *)

Goes(from, to) == pc = from /\ pc' = to

Start ==
  /\ Goes("stopped", "connect")
  /\ awaitingKey' = TRUE /\ sessionKeyLoaded' = FALSE /\ authenticated' = FALSE
  /\ logins' = {}
  /\ UNCHANGED <<key, msg, frame, checked, wire, serverKey, verdict>>

Connect ==
  /\ Goes("connect", "request")
  /\ dials < MaxDials
  /\ up' = TRUE /\ dials' = dials + 1
  /\ toServer' = <<>> /\ toClient' = <<>>
  /\ serverKey' = DefaultKey /\ verdict' = "none"
  /\ UNCHANGED <<key, flags, msg, frame, checked, logins>>

\* The Client gives up reconnecting, or is closed.
Stop ==
  /\ Goes("connect", "stopped")
  /\ UNCHANGED <<key, flags, msg, frame, checked, wire, server>>

\* Config.AutoRequestKey is set: Connect sends the key request.
RequestKey ==
  /\ pc = "request"
  /\ Encrypt(Runner, "keyreq")
  /\ UNCHANGED <<key, flags, pc, msg, checked, wire, server>>

KeyRequested ==
  /\ Goes("request", IF up THEN "read" ELSE "connect")
  /\ Send(Runner)
  /\ UNCHANGED <<key, flags, msg, checked, up, dials, toClient, server>>

\* ReadMessage, Decrypt, ParseMessage; then the handlers of the command.
Receive ==
  /\ toClient # <<>>
  /\ msg' \in Decrypted(Head(toClient))
  /\ toClient' = Tail(toClient)
  /\ Goes("read", IF msg'.cmd \in {"login", "loginSuccess"} THEN "ack" ELSE "any")
  /\ UNCHANGED <<key, flags, frame, checked, up, dials, toServer, server>>

\* An acknowledgement that is not asked for its code.
Accepts_AnyCode(m) == TRUE

Accepts(m) == m.code = 0

\* handleLoginAck and handleLoginSuccess.
LoginAck ==
  /\ Goes("ack", "any")
  /\ authenticated' = (authenticated \/ Accepts(msg))
  /\ UNCHANGED <<key, awaitingKey, sessionKeyLoaded, msg, frame, checked, wire, server>>

\* A key handler that does not look at the length of the body.
TakenForKey_Short(m) == (awaitingKey /\ ~sessionKeyLoaded) \/ m.cmd = "key"

\* A key handler that takes any message for the key whenever it is long enough.
TakenForKey_Always(m) == m.body # NoKey

\* handleSessionKeyMessage, called for every message: the key message, or any
\* message at all while the key is awaited, if its body reaches the key's offset.
TakenForKey(m) ==
  /\ (awaitingKey /\ ~sessionKeyLoaded) \/ m.cmd = "key"
  /\ m.body # NoKey

AnyHandler ==
  /\ Goes("any", IF TakenForKey(msg) THEN "setKey" ELSE "read")
  /\ UNCHANGED <<key, flags, msg, frame, checked, wire, server>>

\* A key handler that sets its flags and forgets Client.SetSessionKey.
SetSessionKey_Skipped ==
  /\ Goes("setKey", "loaded")
  /\ UNCHANGED <<key, flags, msg, frame, checked, wire, server>>

SetSessionKey ==
  /\ Goes("setKey", "loaded")
  /\ msg.body # Short
  /\ key' = msg.body
  /\ UNCHANGED <<flags, msg, frame, checked, wire, server>>

\* SetKey rejects a length AES does not have.
KeyRejected ==
  /\ Goes("setKey", "read")
  /\ msg.body = Short
  /\ UNCHANGED <<key, flags, msg, frame, checked, wire, server>>

KeyLoaded ==
  /\ Goes("loaded", "login")
  /\ sessionKeyLoaded' = TRUE /\ awaitingKey' = FALSE /\ authenticated' = FALSE
  /\ UNCHANGED <<key, msg, frame, checked, wire, server>>

Login ==
  /\ pc = "login"
  /\ Encrypt(Runner, "login")
  /\ UNCHANGED <<key, flags, pc, msg, checked, wire, server>>

LoginSent ==
  /\ Goes("login", "read")
  /\ Send(Runner)
  /\ UNCHANGED <<key, flags, msg, checked, up, dials, toClient, server>>

\* NewApp gives Client no OnDisconnect: nothing of the session is reset.
ReadError ==
  /\ Goes("read", "connect")
  /\ ~up
  /\ UNCHANGED <<key, flags, msg, frame, checked, wire, server>>

-----------------------------------------------------------------------------
(* Heartbeats and application goroutines.                                  *)

Ping ==
  /\ pc \notin {"stopped", "connect", "request"}
  /\ Encrypt(Heart, "ping")
  /\ UNCHANGED <<key, flags, pc, msg, checked, wire, server>>

PingSent ==
  /\ Send(Heart)
  /\ UNCHANGED <<key, flags, pc, msg, checked, up, dials, toClient, server>>

\* A request method that does not ask.
Check_Unasked(u) ==
  /\ u \notin checked
  /\ checked' = checked \cup {u}
  /\ UNCHANGED <<key, flags, pc, msg, frame, wire, server>>

\* RequestOpenPositions and its like: ErrNotAuthenticated changes nothing.
Check(u) ==
  /\ u \notin checked
  /\ authenticated
  /\ checked' = checked \cup {u}
  /\ UNCHANGED <<key, flags, pc, msg, frame, wire, server>>

Request(u) ==
  /\ u \in checked
  /\ Encrypt(u, "request")
  /\ UNCHANGED <<key, flags, pc, msg, checked, wire, server>>

RequestSent(u) ==
  /\ Send(u)
  /\ checked' = checked \ {u}
  /\ UNCHANGED <<key, flags, pc, msg, up, dials, toClient, server>>

SetUnauthenticated ==
  /\ authenticated' = FALSE
  /\ UNCHANGED <<key, awaitingKey, sessionKeyLoaded, pc, msg, frame, checked, wire, server>>

-----------------------------------------------------------------------------
(* The server and the network.                                             *)

Answer(cmd, code, body) ==
  toClient' = Append(toClient, [cmd |-> cmd, key |-> serverKey, code |-> code, body |-> body])

\* A frame under another key is lost on the server.
ServerReads ==
  /\ up /\ toServer # <<>> /\ Len(toClient) < QueueBound
  /\ toServer' = Tail(toServer)
  /\ LET f == Head(toServer) IN
       \/ /\ f.key = serverKey /\ f.cmd = "keyreq"
          /\ Answer("key", 0, dials)
          /\ serverKey' = dials
          /\ UNCHANGED <<verdict, logins>>
       \/ /\ f.key = serverKey /\ f.cmd = "keyreq"
          /\ \E body \in {NoKey, Short} : Answer("key", 1, body)
          /\ verdict' = "rejected"
          /\ UNCHANGED <<serverKey, logins>>
       \/ /\ f.key = serverKey /\ f.cmd = "login"
          /\ \E cmd \in {"login", "loginSuccess"}, code \in {0, 1}, body \in Noise :
               /\ Answer(cmd, code, body)
               /\ verdict' = IF code = 0 THEN "accepted" ELSE "rejected"
               /\ logins' = IF code = 0 THEN logins \cup {dials} ELSE logins
          /\ serverKey' = serverKey
       \/ /\ f.key # serverKey \/ f.cmd \in {"ping", "request"}
          /\ UNCHANGED <<toClient, server>>
  /\ UNCHANGED <<key, flags, pc, msg, frame, checked, up, dials>>

\* Ticks, trade events and the like.
ServerPushes ==
  /\ up /\ verdict = "accepted" /\ Len(toClient) < QueueBound
  /\ \E body \in Noise : Answer("push", 0, body)
  /\ UNCHANGED <<key, flags, pc, msg, frame, checked, up, dials, toServer, server>>

\* What has reached the client's buffers can still be read.
Disconnect ==
  /\ up /\ up' = FALSE
  /\ toServer' = <<>>
  /\ UNCHANGED <<key, flags, pc, msg, frame, checked, dials, toClient, server>>

-----------------------------------------------------------------------------
Init ==
  /\ key = DefaultKey
  /\ awaitingKey = TRUE /\ sessionKeyLoaded = FALSE /\ authenticated = FALSE
  /\ pc = "stopped"
  /\ msg = NoMessage
  /\ frame = [t \in Threads |-> NoFrame]
  /\ checked = {}
  /\ up = FALSE /\ dials = 0
  /\ toServer = <<>> /\ toClient = <<>>
  /\ serverKey = DefaultKey /\ verdict = "none" /\ logins = {}

RunStep ==
  \/ Connect \/ Stop \/ RequestKey \/ KeyRequested \/ Receive \/ LoginAck \/ AnyHandler
  \/ SetSessionKey \/ KeyRejected \/ KeyLoaded \/ Login \/ LoginSent \/ ReadError

Next ==
  \/ Start \/ RunStep \/ Ping \/ PingSent
  \/ \E u \in Callers : Check(u) \/ Request(u) \/ RequestSent(u)
  \/ SetUnauthenticated \/ ServerReads \/ ServerPushes \/ Disconnect

Spec == Init /\ [][Next]_vars

\* The Runner runs, the server serves, the network delivers, and writeMu serves its
\* waiters in turn, so pings do not keep the Runner's frames out for ever.
FairSpec ==
  Spec /\ WF_vars(RunStep) /\ SF_vars(KeyRequested \/ LoginSent) /\ WF_vars(ServerReads)

-----------------------------------------------------------------------------
(* Properties.                                                             *)

TypeOK ==
  /\ key \in Keys \cup {Junk} /\ serverKey \in Keys
  /\ awaitingKey \in BOOLEAN /\ sessionKeyLoaded \in BOOLEAN /\ authenticated \in BOOLEAN
  /\ pc \in {"stopped", "connect", "request", "read", "ack", "any", "setKey", "loaded", "login"}
  /\ msg \in Messages
  /\ frame \in [Threads -> Frames \cup {NoFrame}]
  /\ checked \subseteq Callers
  /\ up \in BOOLEAN /\ dials \in 0..MaxDials
  /\ toServer \in Seq(Frames) /\ Len(toServer) <= QueueBound
  /\ toClient \in Seq(Messages) /\ Len(toClient) <= QueueBound
  /\ verdict \in {"none", "accepted", "rejected"} /\ logins \subseteq 1..MaxDials

\* Client and server change keys in step: whenever the read loop takes a message it
\* holds the key that message was encrypted under, whatever was pushed, lost or
\* reconnected in between (client.go 472, app.go 249-267).
InboxReadable == pc = "read" /\ toClient # <<>> => Head(toClient).key = key

\* The automatic login is always encrypted under the key the server just issued
\* (app.go 265-277, actions.go 19-29).
LoginReadable ==
  \A i \in 1..Len(toServer) : toServer[i].cmd = "login" => toServer[i].key = serverKey

\* The client calls itself authenticated only if the server accepted a login since
\* Start, never on a rejection or on noise (app.go 152-159, 294-322).
AuthenticatedByServer == authenticated => logins # {}

\* Neither the password nor a request is ever encrypted under the default key, which is
\* built into the package: not between the check of the flag and the send, not after a
\* restart or on another connection (app.go 193-198, actions.go 19-42, crypto.go 50-61).
SecretFrames == {"login", "request"}

SecretsKeyed ==
  /\ \A t \in Threads : frame[t].cmd \in SecretFrames => frame[t].key # DefaultKey
  /\ \A i \in 1..Len(toServer) : toServer[i].cmd \in SecretFrames => toServer[i].key # DefaultKey

\* The client has come with the key of an earlier connection and the server cannot read
\* its key request.
KeptOldKey == key # DefaultKey /\ serverKey = DefaultKey /\ dials > 1

\* Until the server has decided, the negotiation is always in somebody's hands: the
\* Runner is about to send, the server has a frame it can read, or the key is under way
\* or being installed, whatever fails or is reset on the way; it comes to a standstill
\* in one way only, by the key of an earlier connection (app.go 237-277, client.go 285-299).
NegotiationHeld ==
  up /\ verdict = "none" =>
    \/ pc \in {"request", "loaded", "login"}
    \/ \E i \in 1..Len(toServer) :
         toServer[i].cmd \in {"keyreq", "login"} /\ toServer[i].key = serverKey
    \/ \E i \in 1..Len(toClient) : toClient[i].cmd = "key"
    \/ pc \in {"any", "setKey"} /\ msg.cmd = "key"
    \/ KeptOldKey

\* On the first connection key, login and answer follow one another to the end as
\* long as it lasts: the client is authenticated, or the server rejected it.
FirstNegotiates ==
  up /\ dials = 1 /\ verdict = "none" ~> ~up \/ authenticated \/ verdict = "rejected"

-----------------------------------------------------------------------------
(* What the documentation says and the code does not do.                   *)

\* doc.go 2-3, app.go 69-70: the package handles authentication and reconnection,
\* with automatic session-key negotiation and login; so on a second connection too.
Renegotiates == up /\ dials = 2 ~> ~up \/ verdict # "none"
=============================================================================
