--------------------------- MODULE SessionProofs ---------------------------
(***************************************************************************)
(* The session of AppClient for every number of connections, of goroutines *)
(* with requests, and of frames in flight.                                 *)
(***************************************************************************)
EXTENDS Session, TLAPS

(* The inductive invariant.                                                *)

Connected == pc \notin {"stopped", "connect"}

InServer == {toServer[i] : i \in 1..Len(toServer)}
InClient == {toClient[i] : i \in 1..Len(toClient)}

\* A connection that is up is the Runner's, and what is sent on none is dropped.
Linked ==
  /\ up => Connected
  /\ ~up => toServer = <<>>
  /\ Connected => dials # 0

\* Each goroutine encrypts its own commands, and the Runner's frame is under the key in use.
FramesMatch ==
  /\ \A t \in Threads \ {Runner} : frame[t].cmd \notin {"keyreq", "login"}
  /\ frame[Runner] \in {NoFrame, [cmd |-> "keyreq", key |-> key], [cmd |-> "login", key |-> key]}
  /\ frame[Runner].cmd = "keyreq" => pc = "request"
  /\ frame[Runner].cmd = "login" => pc = "login"

NoRequest == \A f \in InServer : f.cmd # "keyreq"
NoLogin == \A f \in InServer : f.cmd # "login"

\* What a connection has come to, one of four.  The server has said nothing, and will
\* hear at most one key request ...
Unanswered ==
  /\ serverKey = DefaultKey /\ verdict = "none"
  /\ toClient = <<>>
  /\ pc \in {"request", "read"}
  /\ NoLogin
  /\ pc = "request" => NoRequest
  /\ \A f \in InServer : f.cmd = "keyreq" => f.key = key
  /\ \A i, j \in 1..Len(toServer) :
       toServer[i].cmd = "keyreq" /\ toServer[j].cmd = "keyreq" => i = j

\* ... or has issued a key that the client does not have yet ...
Issue == [cmd |-> "key", key |-> DefaultKey, code |-> 0, body |-> dials]

Issued ==
  /\ serverKey = dials /\ key = DefaultKey /\ verdict = "none"
  /\ NoLogin /\ NoRequest
  /\ \/ pc = "read" /\ toClient = <<Issue>>
     \/ pc \in {"any", "setKey"} /\ toClient = <<>> /\ msg = Issue

\* ... or has refused one ...
Refused ==
  /\ serverKey = DefaultKey /\ key = DefaultKey /\ verdict = "rejected"
  /\ NoLogin /\ NoRequest
  /\ pc \in {"read", "any", "setKey"}
  /\ \A m \in InClient : m.cmd = "key" /\ m.key = DefaultKey /\ m.body \in {NoKey, Short}
  /\ pc \in {"any", "setKey"} => msg.cmd = "key" /\ msg.body \in {NoKey, Short}
  /\ pc = "setKey" => msg.body = Short

\* ... or both have the key of this connection and speak under no other.
Agreed ==
  /\ serverKey = dials /\ key = dials
  /\ NoRequest
  /\ \A f \in InServer : f.cmd = "login" => f.key = key
  /\ \A m \in InClient : m.cmd # "key" /\ m.key = key
  /\ pc \in {"loaded", "login", "read", "ack", "any"}
  /\ pc # "loaded" => ~awaitingKey
  /\ pc \in {"ack", "any"} => msg.cmd # "key"

Phase == Connected => Unanswered \/ Issued \/ Refused \/ Agreed

\* A key is said to be loaded only when the default one has been replaced, and is
\* awaited exactly until then.
KeyState ==
  /\ awaitingKey = ~sessionKeyLoaded
  /\ sessionKeyLoaded => key # DefaultKey

\* Nothing that follows a login comes before the cipher has left the default key.
Keyed ==
  pc \in {"loaded", "login"} \/ checked # {} \/ logins # {} => key # DefaultKey

\* An accepted login that is under way to the Runner, or in its hands, is on record.
LoginCommands == {"login", "loginSuccess"}

Recorded ==
  /\ Connected => \A m \in InClient : m.cmd \in LoginCommands /\ m.code = 0 => logins # {}
  /\ pc = "ack" /\ msg.code = 0 => logins # {}

IInv ==
  /\ TypeOK /\ Linked /\ FramesMatch /\ Phase
  /\ KeyState /\ Keyed /\ SecretsKeyed /\ Recorded /\ AuthenticatedByServer

-----------------------------------------------------------------------------
(* The queues, as what is in them.                                         *)

\* What a queue holds after a message joins it.
LEMMA Appended ==
  ASSUME NEW S, NEW s \in Seq(S), NEW e \in S
  PROVE  /\ Append(s, e) \in Seq(S) /\ Len(Append(s, e)) = Len(s) + 1
         /\ {Append(s, e)[i] : i \in 1..Len(Append(s, e))} = {s[i] : i \in 1..Len(s)} \cup {e}
<1>1. /\ Append(s, e) \in Seq(S) /\ Len(Append(s, e)) = Len(s) + 1
      /\ \A i \in 1..Len(s) : Append(s, e)[i] = s[i]
      /\ Append(s, e)[Len(s) + 1] = e
  OBVIOUS
<1> QED
  BY <1>1

\* What it holds after its first message is taken.
LEMMA Dropped ==
  ASSUME NEW S, NEW s \in Seq(S), s # <<>>
  PROVE  /\ Tail(s) \in Seq(S) /\ Len(Tail(s)) = Len(s) - 1
         /\ {Tail(s)[i] : i \in 1..Len(Tail(s))} \subseteq {s[i] : i \in 1..Len(s)}
         /\ Head(s) \in {s[i] : i \in 1..Len(s)} /\ Head(s) = s[1]
         /\ \A i \in 1..Len(Tail(s)) : i + 1 \in 1..Len(s) /\ Tail(s)[i] = s[i + 1]
<1>1. /\ Tail(s) \in Seq(S) /\ Len(Tail(s)) = Len(s) - 1 /\ Head(s) = s[1] /\ 1 \in 1..Len(s)
      /\ \A i \in 1..Len(Tail(s)) : i + 1 \in 1..Len(s) /\ Tail(s)[i] = s[i + 1]
  OBVIOUS
<1> QED
  BY <1>1

-----------------------------------------------------------------------------
(* Every step keeps the invariant.                                         *)

\* A client that has not connected has agreed on nothing.
LEMMA InitInv == Init => IInv
<1> SUFFICES ASSUME Init PROVE IInv
  OBVIOUS
<1>1. toServer = <<>> /\ toClient = <<>>
      /\ toServer \in Seq(Frames) /\ toClient \in Seq(Messages) /\ Len(<<>>) = 0
  BY DEF Init
<1>2. InServer = {} /\ InClient = {} /\ ~Connected
  BY <1>1 DEF Init, InServer, InClient, Connected
<1>3. Runner \in Threads /\ frame \in [Threads -> {NoFrame}] /\ \A t \in Threads : frame[t] = NoFrame
  BY DEF Init, Threads
<1>4. msg \in Messages
  BY SessionAssumption DEF Init, Messages, NoMessage, Keys, Bodies, Noise, Commands, DefaultKey
<1>5. TypeOK
  <2>1. key \in Keys \cup {Junk} /\ serverKey \in Keys /\ dials \in 0..MaxDials
    BY SessionAssumption DEF Init, Keys, DefaultKey
  <2>2. frame \in [Threads -> Frames \cup {NoFrame}]
    BY <1>3
  <2>3. Len(toServer) <= QueueBound /\ Len(toClient) <= QueueBound
    BY <1>1, SessionAssumption
  <2> QED
    BY <1>1, <1>4, <2>1, <2>2, <2>3 DEF Init, TypeOK
<1>6. Linked /\ FramesMatch /\ Phase
  BY <1>1, <1>2, <1>3 DEF Init, Linked, FramesMatch, Phase, NoFrame
<1>7. KeyState /\ Keyed /\ SecretsKeyed /\ Recorded /\ AuthenticatedByServer
  <2>1. KeyState /\ Keyed /\ AuthenticatedByServer /\ Recorded
    BY <1>1, <1>2 DEF Init, KeyState, Keyed, Recorded, AuthenticatedByServer
  <2>2. SecretsKeyed
    BY <1>1, <1>3 DEF SecretsKeyed, SecretFrames, NoFrame
  <2> QED
    BY <2>1, <2>2
<1> QED
  BY <1>5, <1>6, <1>7 DEF IInv

\* The steps that move the Runner, set flags or install a key, and send nothing.
LEMMA ControlInv ==
  ASSUME IInv,
         \/ Start \/ Stop \/ LoginAck \/ AnyHandler \/ SetSessionKey \/ KeyRejected \/ KeyLoaded
         \/ ReadError \/ SetUnauthenticated \/ \E u \in Callers : Check(u)
  PROVE  IInv'
<1> USE DEF IInv
<1>1. UNCHANGED <<frame, toServer, toClient>> /\ InServer' = InServer /\ InClient' = InClient
  BY DEF Start, Stop, LoginAck, AnyHandler, SetSessionKey, KeyRejected, KeyLoaded, ReadError,
     SetUnauthenticated, Check, InServer, InClient, wire
<1>2. /\ NoRequest' = NoRequest /\ NoLogin' = NoLogin
      /\ dials \in Nat /\ dials # NoKey /\ dials # Short
  BY <1>1, SessionAssumption DEF NoRequest, NoLogin, TypeOK, NoKey, Short
<1> DEFINE Rest == KeyState /\ Keyed /\ SecretsKeyed /\ Recorded /\ AuthenticatedByServer
<1> USE DEF flags, wire, server, Goes
<1>3. CASE Start
  <2>1. TypeOK'
    BY <1>3 DEF Start, TypeOK
  <2>2. Linked' /\ FramesMatch'
    BY <1>1, <1>3 DEF Start, Linked, FramesMatch, Connected, NoFrame
  <2>3. Phase'
    BY <1>1, <1>3 DEF Start, Phase, Connected, Unanswered, Issued, Refused, Agreed
  <2>4. Rest'
    BY <1>1, <1>3 DEF Start, KeyState, Keyed, SecretsKeyed, SecretFrames, Recorded, AuthenticatedByServer, LoginCommands, Connected
  <2> QED
    BY <2>1, <2>2, <2>3, <2>4
<1>4. CASE Stop
  <2>1. TypeOK'
    BY <1>4 DEF Stop, TypeOK
  <2>2. Linked' /\ FramesMatch'
    BY <1>1, <1>4 DEF Stop, Linked, FramesMatch, Connected, NoFrame
  <2>3. Phase'
    BY <1>1, <1>4 DEF Stop, Phase, Connected, Unanswered, Issued, Refused, Agreed
  <2>4. Rest'
    BY <1>1, <1>4 DEF Stop, KeyState, Keyed, SecretsKeyed, SecretFrames, Recorded, AuthenticatedByServer, LoginCommands, Connected
  <2> QED
    BY <2>1, <2>2, <2>3, <2>4
<1>5. CASE LoginAck
  <2>1. TypeOK'
    BY <1>5 DEF LoginAck, TypeOK
  <2>2. Linked' /\ FramesMatch'
    BY <1>1, <1>5 DEF LoginAck, Linked, FramesMatch, Connected, NoFrame
  <2>3. Phase'
    <3>1. Agreed
      BY <1>5 DEF LoginAck, Phase, Connected, Unanswered, Issued, Refused
    <3> QED
      BY <1>1, <1>2, <1>5, <3>1 DEF LoginAck, Phase, Agreed
  <2>4. Rest'
    BY <1>1, <1>5 DEF LoginAck, Accepts, KeyState, Keyed, SecretsKeyed, SecretFrames, Recorded, AuthenticatedByServer, LoginCommands, Connected
  <2> QED
    BY <2>1, <2>2, <2>3, <2>4
<1>6. CASE AnyHandler
  <2>1. TypeOK'
    BY <1>6 DEF AnyHandler, TypeOK
  <2>2. Linked' /\ FramesMatch'
    BY <1>1, <1>6 DEF AnyHandler, Linked, FramesMatch, Connected, NoFrame
  <2>3. Phase'
    <3>1. CASE Issued
      BY <1>1, <1>2, <1>6, <3>1 DEF AnyHandler, Phase, Issued, Issue, TakenForKey
    <3>2. CASE Refused
      BY <1>1, <1>2, <1>6, <3>2 DEF AnyHandler, Phase, Refused, TakenForKey
    <3>3. CASE Agreed
      BY <1>1, <1>2, <1>6, <3>3 DEF AnyHandler, Phase, Agreed, TakenForKey, KeyState
    <3> QED
      BY <1>6, <3>1, <3>2, <3>3 DEF AnyHandler, Phase, Connected, Unanswered
  <2>4. Rest'
    BY <1>1, <1>6 DEF AnyHandler, KeyState, Keyed, SecretsKeyed, SecretFrames, Recorded, AuthenticatedByServer, LoginCommands, Connected
  <2> QED
    BY <2>1, <2>2, <2>3, <2>4
<1>7. CASE SetSessionKey
  <2>0. Issued /\ msg.body = dials /\ dials \in 1..MaxDials
    BY <1>2, <1>7 DEF SetSessionKey, Phase, Connected, Unanswered, Issued, Issue, Refused, Agreed, Linked, TypeOK
  <2>1. TypeOK'
    BY <1>7, <2>0 DEF SetSessionKey, TypeOK, Keys
  <2>2. Linked' /\ FramesMatch'
    BY <1>1, <1>7 DEF SetSessionKey, Linked, FramesMatch, Connected, NoFrame
  <2>3. Phase'
    BY <1>1, <1>2, <1>7, <2>0 DEF SetSessionKey, Phase, Issued, Agreed, NoLogin, NoRequest, InClient
  <2>4. Rest'
    BY <1>1, <1>7, <2>0 DEF SetSessionKey, DefaultKey, KeyState, Keyed, SecretsKeyed, SecretFrames, Recorded, AuthenticatedByServer, LoginCommands, Connected
  <2> QED
    BY <2>1, <2>2, <2>3, <2>4
<1>8. CASE KeyRejected
  <2>1. TypeOK'
    BY <1>8 DEF KeyRejected, TypeOK
  <2>2. Linked' /\ FramesMatch'
    BY <1>1, <1>8 DEF KeyRejected, Linked, FramesMatch, Connected, NoFrame
  <2>3. Phase'
    <3>1. Refused
      BY <1>2, <1>8 DEF KeyRejected, Phase, Connected, Unanswered, Issued, Issue, Agreed
    <3> QED
      BY <1>1, <1>2, <1>8, <3>1 DEF KeyRejected, Phase, Refused
  <2>4. Rest'
    BY <1>1, <1>8 DEF KeyRejected, KeyState, Keyed, SecretsKeyed, SecretFrames, Recorded, AuthenticatedByServer, LoginCommands, Connected
  <2> QED
    BY <2>1, <2>2, <2>3, <2>4
<1>9. CASE KeyLoaded
  <2>1. TypeOK'
    BY <1>9 DEF KeyLoaded, TypeOK
  <2>2. Linked' /\ FramesMatch'
    BY <1>1, <1>9 DEF KeyLoaded, Linked, FramesMatch, Connected, NoFrame
  <2>3. Phase'
    <3>1. Agreed
      BY <1>9 DEF KeyLoaded, Phase, Connected, Unanswered, Issued, Refused
    <3> QED
      BY <1>1, <1>2, <1>9, <3>1 DEF KeyLoaded, Phase, Agreed
  <2>4. Rest'
    BY <1>1, <1>9 DEF KeyLoaded, KeyState, Keyed, SecretsKeyed, SecretFrames, Recorded, AuthenticatedByServer, LoginCommands, Connected
  <2> QED
    BY <2>1, <2>2, <2>3, <2>4
<1>10. CASE ReadError
  <2>1. TypeOK'
    BY <1>10 DEF ReadError, TypeOK
  <2>2. Linked' /\ FramesMatch'
    BY <1>1, <1>10 DEF ReadError, Linked, FramesMatch, Connected, NoFrame
  <2>3. Phase'
    BY <1>1, <1>10 DEF ReadError, Phase, Connected, Unanswered, Issued, Refused, Agreed
  <2>4. Rest'
    BY <1>1, <1>10 DEF ReadError, KeyState, Keyed, SecretsKeyed, SecretFrames, Recorded, AuthenticatedByServer, LoginCommands, Connected
  <2> QED
    BY <2>1, <2>2, <2>3, <2>4
<1>11. CASE SetUnauthenticated
  <2>1. TypeOK'
    BY <1>11 DEF SetUnauthenticated, TypeOK
  <2>2. Linked' /\ FramesMatch'
    BY <1>1, <1>11 DEF SetUnauthenticated, Linked, FramesMatch, Connected, NoFrame
  <2>3. Phase'
    <3>1. (Connected' = Connected) /\ (Unanswered' = Unanswered) /\ (Issued' = Issued)
      BY <1>1, <1>2, <1>11 DEF SetUnauthenticated, Connected, Unanswered, Issued, Issue
    <3>2. (Refused' = Refused) /\ (Agreed' = Agreed)
      BY <1>1, <1>2, <1>11 DEF SetUnauthenticated, Refused, Agreed
    <3> QED
      BY <3>1, <3>2 DEF Phase
  <2>4. Rest'
    BY <1>1, <1>11 DEF SetUnauthenticated, KeyState, Keyed, SecretsKeyed, SecretFrames, Recorded, AuthenticatedByServer, LoginCommands, Connected
  <2> QED
    BY <2>1, <2>2, <2>3, <2>4
<1>12. ASSUME NEW u \in Callers, Check(u) PROVE IInv'
  <2>1. TypeOK'
    BY <1>12 DEF Check, TypeOK
  <2>2. Linked' /\ FramesMatch'
    BY <1>1, <1>12 DEF Check, Linked, FramesMatch, Connected
  <2>3. Phase'
    <3>1. (Connected' = Connected) /\ (Unanswered' = Unanswered) /\ (Issued' = Issued)
      BY <1>1, <1>2, <1>12 DEF Check, Connected, Unanswered, Issued, Issue
    <3>2. (Refused' = Refused) /\ (Agreed' = Agreed)
      BY <1>1, <1>2, <1>12 DEF Check, Refused, Agreed
    <3> QED
      BY <3>1, <3>2 DEF Phase
  <2>4. Rest'
    BY <1>1, <1>12 DEF Check, KeyState, Keyed, SecretsKeyed, SecretFrames, Recorded, AuthenticatedByServer, LoginCommands, Connected
  <2> QED
    BY <2>1, <2>2, <2>3, <2>4
<1> QED
  BY <1>3, <1>4, <1>5, <1>6, <1>7, <1>8, <1>9, <1>10, <1>11, <1>12

\* SendCommand encrypts: the frame is under the key of the moment.
LEMMA EncryptInv ==
  ASSUME IInv, RequestKey \/ Login \/ Ping \/ \E u \in Callers : Request(u)
  PROVE  IInv'
<1> USE DEF IInv
<1>1. /\ UNCHANGED <<key, awaitingKey, sessionKeyLoaded, authenticated, pc, msg, checked, up, dials,
                     toServer, toClient, serverKey, verdict, logins>>
      /\ InServer' = InServer /\ InClient' = InClient
  BY DEF RequestKey, Login, Ping, Request, flags, wire, server, InServer, InClient
<1>2. PICK t \in Threads, c \in {"keyreq", "login", "ping", "request"} :
        /\ Encrypt(t, c)
        /\ c = "keyreq" => t = Runner /\ pc = "request"
        /\ c = "login" => t = Runner /\ pc = "login"
        /\ c = "request" => checked # {}
        /\ t = Runner => c \in {"keyreq", "login"}
  BY SessionAssumption DEF RequestKey, Login, Ping, Request, Threads
<1>3. /\ frame[t] = NoFrame /\ [cmd |-> c, key |-> key] \in Frames
      /\ \A x \in Threads : frame'[x] = IF x = t THEN [cmd |-> c, key |-> key] ELSE frame[x]
  BY <1>2 DEF Encrypt, TypeOK, Frames
<1>4. TypeOK'
  <2>1. frame' \in [Threads -> Frames \cup {NoFrame}]
    BY <1>2, <1>3 DEF Encrypt, TypeOK
  <2> QED
    BY <1>1, <2>1 DEF TypeOK
<1>5. Linked' /\ KeyState' /\ Keyed' /\ Recorded' /\ AuthenticatedByServer'
  BY <1>1 DEF Linked, Connected, KeyState, Keyed, Recorded, AuthenticatedByServer
<1>6. FramesMatch'
  BY <1>1, <1>2, <1>3 DEF FramesMatch, Threads, NoFrame
<1>7. SecretsKeyed'
  BY <1>1, <1>2, <1>3 DEF SecretsKeyed, SecretFrames, Keyed
<1>8. Phase'
  <2>1. (Connected' = Connected) /\ (Issued' = Issued) /\ (Unanswered' = Unanswered)
    BY <1>1 DEF Connected, Issued, Issue, Unanswered, NoRequest, NoLogin
  <2>2. (Refused' = Refused) /\ (Agreed' = Agreed)
    BY <1>1 DEF Refused, Agreed, NoRequest, NoLogin
  <2> QED
    BY <2>1, <2>2 DEF Phase
<1> QED
  BY <1>4, <1>5, <1>6, <1>7, <1>8

\* A frame goes out, or is dropped.
LEMMA SendInv ==
  ASSUME IInv, KeyRequested \/ LoginSent \/ PingSent \/ \E u \in Callers : RequestSent(u)
  PROVE  IInv'
<1> USE DEF IInv
<1>1. /\ UNCHANGED <<key, awaitingKey, sessionKeyLoaded, authenticated, msg, up, dials,
                     toClient, serverKey, verdict, logins>>
      /\ InClient' = InClient /\ checked' \subseteq checked
  BY DEF KeyRequested, LoginSent, PingSent, RequestSent, flags, server, InClient
<1>2. PICK t \in Threads :
        /\ Send(t)
        /\ \/ t # Runner /\ pc' = pc
           \/ t = Runner /\ pc = "request" /\ pc' = IF up THEN "read" ELSE "connect"
           \/ t = Runner /\ pc = "login" /\ pc' = "read"
  BY SessionAssumption DEF KeyRequested, LoginSent, PingSent, RequestSent, Threads, Goes
<1>3. /\ frame[t] \in Frames
      /\ \A x \in Threads : frame'[x] = IF x = t THEN NoFrame ELSE frame[x]
      /\ frame' \in [Threads -> Frames \cup {NoFrame}]
  BY <1>2 DEF Send, TypeOK
<1>4. /\ toServer' \in Seq(Frames) /\ Len(toServer') <= QueueBound
      /\ \/ ~up /\ toServer' = toServer /\ InServer' = InServer
         \/ up /\ toServer' = Append(toServer, frame[t]) /\ InServer' = InServer \cup {frame[t]}
  BY <1>2, <1>3, Appended, SessionAssumption DEF Send, TypeOK, InServer
<1>5. /\ t # Runner => frame[t].cmd \notin {"keyreq", "login"}
      /\ t = Runner => frame[t] \in {[cmd |-> "keyreq", key |-> key], [cmd |-> "login", key |-> key]}
      /\ t = Runner /\ pc = "request" => frame[t].cmd = "keyreq"
      /\ t = Runner /\ pc = "login" => frame[t].cmd = "login"
  BY <1>2, <1>3 DEF FramesMatch, Send
<1>6. TypeOK'
  BY <1>1, <1>2, <1>3, <1>4 DEF TypeOK
<1>7. Linked' /\ KeyState' /\ Keyed' /\ AuthenticatedByServer'
  BY <1>1, <1>2, <1>4 DEF Linked, Connected, KeyState, Keyed, AuthenticatedByServer
<1>8. FramesMatch'
  BY <1>1, <1>2, <1>3, <1>5 DEF FramesMatch, NoFrame, Threads
<1>9. SecretsKeyed' /\ Recorded'
  <2>1. \A f \in InServer' : f.cmd \in SecretFrames => f.key # DefaultKey
    BY <1>2, <1>4 DEF SecretsKeyed, InServer
  <2>2. SecretsKeyed'
    BY <1>3, <2>1 DEF SecretsKeyed, SecretFrames, NoFrame, InServer
  <2>3. Recorded'
    BY <1>1, <1>2 DEF Recorded, Connected
  <2> QED
    BY <2>2, <2>3
<1>10. Phase'
  <2> SUFFICES ASSUME Connected' PROVE (Unanswered \/ Issued \/ Refused \/ Agreed)'
    BY DEF Phase
  <2>1. \A f \in InServer' : f \in InServer \/ f = frame[t]
    BY <1>4
  <2>2. CASE Unanswered
    <3>1. pc' \in {"request", "read"} /\ NoLogin' /\ (pc' = "request" => NoRequest')
          /\ \A f \in InServer' : f.cmd = "keyreq" => f.key = key
      BY <1>1, <1>2, <1>5, <2>1, <2>2 DEF Connected, Unanswered, NoLogin, NoRequest
    <3>2. ASSUME NEW i \in 1..Len(toServer'), NEW j \in 1..Len(toServer'),
                 toServer'[i].cmd = "keyreq", toServer'[j].cmd = "keyreq"
          PROVE  i = j
      <4>1. CASE toServer' = toServer
        BY <2>2, <3>2, <4>1 DEF Unanswered
      <4>2. CASE toServer' = Append(toServer, frame[t]) /\ t # Runner
        <5>1. i \in 1..Len(toServer) /\ j \in 1..Len(toServer)
              /\ toServer'[i] = toServer[i] /\ toServer'[j] = toServer[j]
          BY <1>3, <1>5, <3>2, <4>2 DEF TypeOK
        <5> QED
          BY <2>2, <3>2, <5>1 DEF Unanswered
      <4>3. CASE toServer' = Append(toServer, frame[t]) /\ t = Runner
        <5>1. NoRequest
          BY <1>2, <2>2, <4>3 DEF Unanswered
        <5>2. \A k \in 1..Len(toServer) : toServer[k].cmd # "keyreq"
          BY <5>1 DEF NoRequest, InServer
        <5> QED
          BY <1>3, <3>2, <4>3, <5>2 DEF TypeOK
      <4> QED
        BY <1>4, <4>1, <4>2, <4>3
    <3> QED
      BY <1>1, <2>2, <3>1, <3>2 DEF Unanswered
  <2>3. CASE Issued
    BY <1>1, <1>2, <1>5, <2>1, <2>3 DEF Issued, Issue, NoLogin, NoRequest
  <2>4. CASE Refused
    BY <1>1, <1>2, <1>5, <2>1, <2>4 DEF Refused, NoLogin, NoRequest
  <2>5. CASE Agreed
    BY <1>1, <1>2, <1>5, <2>1, <2>5 DEF Agreed, NoLogin, NoRequest
  <2> QED
    BY <1>2, <2>2, <2>3, <2>4, <2>5 DEF Phase, Connected
<1> QED
  BY <1>6, <1>7, <1>8, <1>9, <1>10

\* A new connection: nothing on it is old.
LEMMA ConnectInv == ASSUME IInv, Connect PROVE IInv'
<1> USE DEF IInv
<1>1. /\ pc = "connect" /\ pc' = "request" /\ up' = TRUE /\ dials' = dials + 1 /\ dials < MaxDials
      /\ toServer' = <<>> /\ toClient' = <<>> /\ serverKey' = DefaultKey /\ verdict' = "none"
      /\ UNCHANGED <<key, awaitingKey, sessionKeyLoaded, authenticated, msg, frame, checked, logins>>
      /\ <<>> \in Seq(Frames) /\ <<>> \in Seq(Messages) /\ Len(<<>>) = 0
  BY DEF Connect, Goes, flags
<1>2. InServer' = {} /\ InClient' = {}
  BY <1>1 DEF InServer, InClient
<1>3. TypeOK'
  BY <1>1, SessionAssumption DEF TypeOK, Keys, DefaultKey
<1>4. Linked' /\ FramesMatch'
  BY <1>1 DEF Linked, FramesMatch, Connected, TypeOK
<1>5. Phase'
  BY <1>1, <1>2 DEF Phase, Unanswered, NoLogin, NoRequest
<1>6. KeyState' /\ Keyed' /\ SecretsKeyed' /\ Recorded' /\ AuthenticatedByServer'
  BY <1>1, <1>2 DEF KeyState, Keyed, SecretsKeyed, Recorded, AuthenticatedByServer
<1> QED
  BY <1>3, <1>4, <1>5, <1>6

\* The read loop takes a message.
LEMMA ReceiveInv == ASSUME IInv, Receive PROVE IInv'
<1> USE DEF IInv
<1>1. /\ pc = "read" /\ toClient # <<>> /\ toClient' = Tail(toClient)
      /\ pc' = (IF msg'.cmd \in {"login", "loginSuccess"} THEN "ack" ELSE "any")
      /\ UNCHANGED <<key, awaitingKey, sessionKeyLoaded, authenticated, frame, checked, up, dials,
                     toServer, serverKey, verdict, logins>>
      /\ InServer' = InServer
  BY DEF Receive, Goes, flags, server, InServer
<1>2. /\ Head(toClient) \in InClient /\ InClient' \subseteq InClient
      /\ toClient' \in Seq(Messages) /\ Len(toClient') <= QueueBound /\ Head(toClient) \in Messages
  BY <1>1, Dropped, SessionAssumption DEF TypeOK, InClient
<1>3. Head(toClient).key = key
  BY <1>1, <1>2 DEF Phase, Connected, Unanswered, Issued, Issue, Refused, Agreed
<1>4. msg' = Head(toClient)
  BY <1>3 DEF Receive, Decrypted
<1>5. TypeOK'
  BY <1>1, <1>2, <1>4 DEF TypeOK
<1>6. Linked' /\ FramesMatch'
  BY <1>1 DEF Linked, FramesMatch, Connected
<1>7. KeyState' /\ Keyed' /\ SecretsKeyed' /\ AuthenticatedByServer'
  BY <1>1 DEF KeyState, Keyed, SecretsKeyed, AuthenticatedByServer
<1>8. Recorded'
  BY <1>1, <1>2, <1>4 DEF Recorded, Connected, LoginCommands
<1>9. Phase'
  <2>1. Issued \/ Refused \/ Agreed
    BY <1>1 DEF Phase, Connected, Unanswered
  <2>2. CASE Issued
    <3>1. Head(<<Issue>>) = Issue /\ Tail(<<Issue>>) = <<>>
      OBVIOUS
    <3>2. toClient = <<Issue>>
      BY <1>1, <2>2 DEF Issued
    <3>3. toClient' = <<>> /\ msg' = Issue /\ Issue' = Issue /\ Issue.cmd = "key"
      BY <1>1, <1>4, <3>1, <3>2 DEF Issue
    <3>4. pc' = "any"
      BY <1>1, <3>3
    <3> QED
      BY <1>1, <2>2, <3>3, <3>4 DEF Phase, Issued, NoLogin, NoRequest
  <2>3. CASE Refused
    BY <1>1, <1>2, <1>4, <2>3 DEF Phase, Refused, NoLogin, NoRequest
  <2>4. CASE Agreed
    BY <1>1, <1>2, <1>4, <2>4 DEF Phase, Agreed, NoRequest
  <2> QED
    BY <2>1, <2>2, <2>3, <2>4
<1> QED
  BY <1>5, <1>6, <1>7, <1>8, <1>9

\* The server and the network.
LEMMA NetworkInv == ASSUME IInv, ServerPushes \/ Disconnect PROVE IInv'
<1> USE DEF IInv
<1>1. /\ UNCHANGED <<key, awaitingKey, sessionKeyLoaded, authenticated, pc, msg, frame, checked, dials,
                     serverKey, verdict, logins>>
      /\ (KeyState' = KeyState) /\ (Keyed' = Keyed) /\ (AuthenticatedByServer' = AuthenticatedByServer)
      /\ (FramesMatch' = FramesMatch)
  BY DEF ServerPushes, Disconnect, flags, server, KeyState, Keyed, AuthenticatedByServer, FramesMatch
<1>2. CASE ServerPushes
  <2>1. /\ up /\ verdict = "accepted" /\ Len(toClient) < QueueBound
        /\ UNCHANGED <<up, toServer>> /\ InServer' = InServer
    BY <1>2 DEF ServerPushes, InServer
  <2>2. PICK body \in Noise :
          toClient' = Append(toClient, [cmd |-> "push", key |-> serverKey, code |-> 0, body |-> body])
    BY <1>2 DEF ServerPushes, Answer
  <2> DEFINE m == [cmd |-> "push", key |-> serverKey, code |-> 0, body |-> body]
  <2>3. m \in Messages
    BY DEF TypeOK, Messages, Commands, Bodies
  <2>4. toClient' \in Seq(Messages) /\ Len(toClient') <= QueueBound /\ InClient' = InClient \cup {m}
    BY <2>1, <2>2, <2>3, Appended, SessionAssumption DEF TypeOK, InClient
  <2>5. Agreed
    BY <2>1 DEF Phase, Linked, Unanswered, Issued, Refused
  <2>6. TypeOK' /\ Linked'
    BY <1>1, <2>1, <2>4 DEF TypeOK, Linked, Connected
  <2>7. Phase'
    BY <1>1, <2>1, <2>4, <2>5 DEF Phase, Agreed, NoRequest
  <2>8. SecretsKeyed' /\ Recorded'
    BY <1>1, <2>1, <2>4 DEF SecretsKeyed, Recorded, LoginCommands, Connected
  <2> QED
    BY <1>1, <2>6, <2>7, <2>8
<1>3. CASE Disconnect
  <2>1. toServer' = <<>> /\ up' = FALSE /\ toClient' = toClient /\ <<>> \in Seq(Frames) /\ Len(<<>>) = 0
    BY <1>3 DEF Disconnect
  <2>2. InServer' = {} /\ InClient' = InClient
    BY <2>1 DEF InServer, InClient
  <2>3. TypeOK' /\ Linked'
    <3>1. toServer' \in Seq(Frames) /\ Len(toServer') <= QueueBound
      BY <2>1, SessionAssumption
    <3>2. TypeOK'
      BY <1>1, <2>1, <3>1 DEF TypeOK
    <3> QED
      BY <1>1, <2>1, <3>2 DEF Linked, Connected
  <2>4. Phase'
    <3>1. CASE Unanswered
      BY <1>1, <2>1, <2>2, <3>1 DEF Phase, Unanswered, NoLogin, NoRequest
    <3>2. CASE Issued
      BY <1>1, <2>1, <2>2, <3>2 DEF Phase, Issued, Issue, NoLogin, NoRequest
    <3>3. CASE Refused
      BY <1>1, <2>1, <2>2, <3>3 DEF Phase, Refused, NoLogin, NoRequest
    <3>4. CASE Agreed
      BY <1>1, <2>1, <2>2, <3>4 DEF Phase, Agreed, NoRequest
    <3> QED
      BY <1>1, <3>1, <3>2, <3>3, <3>4 DEF Phase, Connected
  <2>5. SecretsKeyed' /\ Recorded'
    BY <1>1, <2>1, <2>2 DEF SecretsKeyed, Recorded, Connected
  <2> QED
    BY <1>1, <2>3, <2>4, <2>5
<1> QED
  BY <1>2, <1>3

\* What the server reads moves a connection from one situation of Phase to the next.
LEMMA ServerInv == ASSUME IInv, ServerReads PROVE IInv'
<1> USE DEF IInv
<1> DEFINE f == Head(toServer)
<1>1. /\ up /\ toServer # <<>> /\ Len(toClient) < QueueBound /\ toServer' = Tail(toServer)
      /\ UNCHANGED <<key, awaitingKey, sessionKeyLoaded, authenticated, pc, msg, frame, checked, up, dials>>
      /\ Connected /\ Connected' /\ dials \in 1..MaxDials
  BY DEF ServerReads, flags, Connected, Linked, TypeOK
<1>2. /\ f \in InServer /\ f = toServer[1] /\ InServer' \subseteq InServer
      /\ toServer' \in Seq(Frames) /\ Len(toServer') <= QueueBound
      /\ Len(toServer) \in Nat /\ Len(toServer') = Len(toServer) - 1
      /\ \A i \in 1..Len(toServer') : i + 1 \in 1..Len(toServer) /\ toServer'[i] = toServer[i + 1]
  BY <1>1, Dropped, SessionAssumption DEF TypeOK, InServer
<1>3. Linked' /\ FramesMatch' /\ KeyState' /\ AuthenticatedByServer' /\ SecretsKeyed'
  <2>1. Linked' /\ FramesMatch' /\ KeyState'
    BY <1>1 DEF Linked, FramesMatch, KeyState
  <2>2. \A g \in InServer' : g.cmd \in SecretFrames => g.key # DefaultKey
    BY <1>2 DEF SecretsKeyed, InServer
  <2>3. SecretsKeyed'
    BY <1>1, <2>2 DEF SecretsKeyed, InServer
  <2>4. logins \subseteq logins'
    BY DEF ServerReads, server
  <2> QED
    BY <1>1, <2>1, <2>3, <2>4 DEF AuthenticatedByServer
<1>4. CASE f.key = serverKey /\ f.cmd = "keyreq"
  <2>1. Unanswered /\ key = DefaultKey /\ pc = "read"
    BY <1>1, <1>2, <1>4 DEF Phase, Issued, Refused, Agreed, Unanswered, NoRequest
  <2>2. NoLogin' /\ NoRequest'
    <3>1. NoLogin'
      BY <1>2, <2>1 DEF Unanswered, NoLogin
    <3>2. ASSUME NEW i \in 1..Len(toServer') PROVE toServer'[i].cmd # "keyreq"
      <4>1. i + 1 \in 1..Len(toServer) /\ toServer'[i] = toServer[i + 1] /\ i + 1 # 1
            /\ 1 \in 1..Len(toServer) /\ toServer[1].cmd = "keyreq"
        BY <1>2, <1>4
      <4> QED
        BY <2>1, <4>1 DEF Unanswered
    <3> QED
      BY <3>1, <3>2 DEF NoRequest, InServer
  <2>3. logins' = logins
    BY <1>4 DEF ServerReads, server
  <2>4. Keyed'
    BY <1>1, <2>3 DEF Keyed
  <2>5. CASE Answer("key", 0, dials) /\ serverKey' = dials /\ verdict' = verdict
    <3>1. toClient' = <<Issue>> /\ Issue' = Issue
      BY <1>1, <2>1, <2>5 DEF Unanswered, Answer, Issue
    <3>2. Issue \in Messages
      BY <1>1, SessionAssumption DEF Issue, Messages, Commands, Bodies, Keys, DefaultKey
    <3>3. TypeOK'
      <4>1. toClient' \in Seq(Messages) /\ Len(toClient') <= QueueBound /\ serverKey' \in Keys
        BY <1>1, <2>5, <3>1, <3>2, SessionAssumption DEF Keys, TypeOK
      <4> QED
        BY <1>1, <1>2, <2>3, <2>5, <4>1 DEF TypeOK
    <3>4. InClient' = {Issue}
      BY <3>1 DEF InClient
    <3>5. Recorded'
      BY <1>1, <2>1, <3>4 DEF Recorded, Issue, LoginCommands
    <3>6. Phase'
      BY <1>1, <2>1, <2>2, <2>5, <3>1 DEF Phase, Issued, Unanswered
    <3> QED
      BY <1>3, <2>4, <3>3, <3>5, <3>6
  <2>6. ASSUME NEW body \in {NoKey, Short}, Answer("key", 1, body), verdict' = "rejected",
               serverKey' = serverKey
        PROVE  IInv'
    <3> DEFINE m == [cmd |-> "key", key |-> DefaultKey, code |-> 1, body |-> body]
    <3>1. toClient' = <<m>>
      BY <2>1, <2>6 DEF Unanswered, Answer
    <3>2. m \in Messages
      BY SessionAssumption DEF Messages, Commands, Bodies, Noise, Keys, DefaultKey
    <3>3. TypeOK'
      <4>1. toClient' \in Seq(Messages) /\ Len(toClient') <= QueueBound
        BY <3>1, <3>2, SessionAssumption
      <4> QED
        BY <1>1, <1>2, <2>3, <2>6, <4>1 DEF TypeOK
    <3>4. InClient' = {m}
      BY <3>1 DEF InClient
    <3>5. Recorded'
      BY <1>1, <2>1, <3>4 DEF Recorded, LoginCommands
    <3>6. Phase'
      BY <1>1, <2>1, <2>2, <2>6, <3>4 DEF Phase, Refused, Unanswered
    <3> QED
      BY <1>3, <2>4, <3>3, <3>5, <3>6
  <2> QED
    BY <1>4, <2>5, <2>6 DEF ServerReads
<1>5. CASE f.key = serverKey /\ f.cmd = "login"
  <2>1. Agreed /\ key # DefaultKey
    BY <1>1, <1>2, <1>5 DEF Phase, Unanswered, Issued, Refused, NoLogin, Agreed, DefaultKey
  <2>2. PICK cmd \in LoginCommands, code \in {0, 1}, body \in Noise :
          /\ Answer(cmd, code, body)
          /\ verdict' = IF code = 0 THEN "accepted" ELSE "rejected"
          /\ logins' = IF code = 0 THEN logins \cup {dials} ELSE logins
          /\ serverKey' = serverKey
    BY <1>5 DEF ServerReads, LoginCommands
  <2> DEFINE m == [cmd |-> cmd, key |-> serverKey, code |-> code, body |-> body]
  <2>3. m \in Messages
    BY DEF TypeOK, Messages, Commands, Bodies, LoginCommands
  <2>4. toClient' \in Seq(Messages) /\ Len(toClient') <= QueueBound /\ InClient' = InClient \cup {m}
    BY <1>1, <2>2, <2>3, Appended, SessionAssumption DEF TypeOK, InClient, Answer
  <2>5. TypeOK'
    BY <1>1, <1>2, <2>2, <2>4 DEF TypeOK
  <2>6. Phase'
    BY <1>1, <1>2, <2>1, <2>2, <2>4 DEF Phase, Agreed, NoRequest, LoginCommands
  <2>7. Keyed' /\ Recorded'
    <3>1. Keyed'
      BY <1>1, <2>1 DEF Keyed
    <3>2. (code = 0 => logins' # {}) /\ (logins # {} => logins' # {}) /\ m.code = code
      BY <2>2
    <3> QED
      BY <1>1, <2>4, <3>1, <3>2 DEF Recorded
  <2> QED
    BY <1>3, <2>5, <2>6, <2>7
<1>6. CASE UNCHANGED <<toClient, serverKey, verdict, logins>>
  <2>1. InClient' = InClient
    BY <1>6 DEF InClient
  <2>2. TypeOK' /\ Keyed' /\ Recorded'
    BY <1>1, <1>2, <1>6, <2>1 DEF TypeOK, Keyed, Recorded
  <2>3. Phase'
    <3>1. CASE Unanswered
      <4>1. ASSUME NEW i \in 1..Len(toServer'), NEW j \in 1..Len(toServer'),
                   toServer'[i].cmd = "keyreq", toServer'[j].cmd = "keyreq"
            PROVE  i = j
        <5>1. i + 1 = j + 1
          BY <1>2, <3>1, <4>1 DEF Unanswered
        <5> QED
          BY <5>1
      <4> QED
        BY <1>1, <1>2, <1>6, <3>1, <4>1 DEF Phase, Unanswered, NoLogin, NoRequest
    <3>2. CASE Issued
      BY <1>1, <1>2, <1>6, <3>2 DEF Phase, Issued, Issue, NoLogin, NoRequest
    <3>3. CASE Refused
      BY <1>1, <1>2, <1>6, <2>1, <3>3 DEF Phase, Refused, NoLogin, NoRequest
    <3>4. CASE Agreed
      BY <1>1, <1>2, <1>6, <2>1, <3>4 DEF Phase, Agreed, NoRequest
    <3> QED
      BY <1>1, <3>1, <3>2, <3>3, <3>4 DEF Phase
  <2> QED
    BY <1>3, <2>2, <2>3
<1> QED
  BY <1>4, <1>5, <1>6 DEF ServerReads, server

\* Every step of the session preserves the inductive invariant.
LEMMA StepInv == IInv /\ [Next]_vars => IInv'
<1> SUFFICES ASSUME IInv, [Next]_vars PROVE IInv'
  OBVIOUS
<1>1. CASE UNCHANGED vars
  <2>1. InServer' = InServer /\ InClient' = InClient
    BY <1>1 DEF vars, InServer, InClient
  <2>2. TypeOK' /\ Linked' /\ FramesMatch' /\ KeyState' /\ Keyed' /\ SecretsKeyed' /\ Recorded'
        /\ AuthenticatedByServer'
    BY <1>1, <2>1 DEF IInv, vars, TypeOK, Linked, FramesMatch, KeyState, Keyed, SecretsKeyed, Recorded,
       AuthenticatedByServer, Connected
  <2>3. (Unanswered' = Unanswered) /\ (Issued' = Issued) /\ (Connected' = Connected)
    BY <1>1, <2>1 DEF vars, Unanswered, Issued, Issue, Connected, NoRequest, NoLogin
  <2>4. (Refused' = Refused) /\ (Agreed' = Agreed)
    BY <1>1, <2>1 DEF vars, Refused, Agreed, NoRequest, NoLogin
  <2> QED
    BY <2>2, <2>3, <2>4 DEF IInv, Phase
<1> QED
  BY <1>1, ControlInv, EncryptInv, SendInv, ConnectInv, ReceiveInv, NetworkInv, ServerInv
     DEF Next, RunStep

-----------------------------------------------------------------------------
(* Who has the negotiation in hand.                                        *)

\* The client's key is the default one or that of a connection, and of an earlier one as
\* long as the server of this one has issued none.
OldKey ==
  /\ key \in 0..dials
  /\ Connected /\ serverKey = DefaultKey => key # dials

\* When the Runner waits, what it has sent is on its way; with a common key the server
\* says nothing before the login.
Held ==
  up /\ verdict = "none" =>
    /\ serverKey = DefaultKey /\ key = DefaultKey /\ pc = "read" => ~NoRequest
    /\ serverKey # DefaultKey /\ key = serverKey =>
         /\ toClient = <<>>
         /\ pc \in {"loaded", "login", "read"}
         /\ pc = "read" => ~NoLogin

\* A key becomes this connection's only after the server has issued it.
LEMMA OldKeyStep == IInv /\ OldKey /\ [Next]_vars => OldKey'
<1> SUFFICES ASSUME IInv, OldKey, [Next]_vars PROVE OldKey'
  OBVIOUS
<1>1. dials \in Nat /\ serverKey \in Nat
  BY SessionAssumption DEF IInv, TypeOK, Keys
<1>2. CASE Connect
  BY <1>1, <1>2 DEF Connect, OldKey
<1>3. CASE SetSessionKey
  <2>1. Issued /\ msg.body = dials /\ dials # 0 /\ dials # NoKey /\ dials # Short
    BY <1>1, <1>3, SessionAssumption
    DEF SetSessionKey, Goes, IInv, Linked, Phase, Connected, Unanswered, Issued, Issue, Refused, Agreed,
        TypeOK, NoKey, Short
  <2> QED
    BY <1>1, <1>3, <2>1 DEF SetSessionKey, OldKey, Issued, DefaultKey, wire, server
<1>4. CASE ServerReads
  <2>1. UNCHANGED <<key, dials, pc>> /\ serverKey' \in {serverKey, dials} /\ dials # 0
    BY <1>4 DEF ServerReads, server, IInv, Linked
  <2> QED
    BY <1>1, <2>1 DEF OldKey, Connected, DefaultKey
<1>5. CASE UNCHANGED <<key, dials, serverKey>> /\ (Connected' => Connected)
  BY <1>5 DEF OldKey
<1>6. CASE \/ Start \/ Stop \/ RequestKey \/ KeyRequested \/ Receive \/ LoginAck \/ AnyHandler
           \/ KeyRejected \/ KeyLoaded \/ Login \/ LoginSent \/ ReadError
           \/ Ping \/ PingSent \/ (\E u \in Callers : Check(u) \/ Request(u) \/ RequestSent(u))
           \/ SetUnauthenticated \/ ServerPushes \/ Disconnect \/ UNCHANGED vars
  <2>1. UNCHANGED <<key, dials, serverKey>>
    BY <1>6
    DEF Start, Stop, RequestKey, KeyRequested, Receive, LoginAck, AnyHandler, KeyRejected, KeyLoaded,
        Login, LoginSent, ReadError, Ping, PingSent, Check, Request, RequestSent, SetUnauthenticated,
        ServerPushes, Disconnect, vars, wire, server
  <2>2. Connected' => Connected
    BY <1>6
    DEF Start, Stop, RequestKey, KeyRequested, Receive, LoginAck, AnyHandler, KeyRejected, KeyLoaded,
        Login, LoginSent, ReadError, Ping, PingSent, Check, Request, RequestSent, SetUnauthenticated,
        ServerPushes, Disconnect, vars, Goes, Connected
  <2> QED
    BY <1>5, <2>1, <2>2
<1> QED
  BY <1>2, <1>3, <1>4, <1>6 DEF Next, RunStep

\* The steps that send nothing to the server.
LEMMA HeldQuietly ==
  ASSUME IInv, Held,
         \/ Start \/ Stop \/ LoginAck \/ AnyHandler \/ SetSessionKey \/ KeyRejected \/ KeyLoaded
         \/ ReadError \/ SetUnauthenticated \/ RequestKey \/ Login \/ Ping
         \/ \E u \in Callers : Check(u) \/ Request(u)
  PROVE  Held'
<1> SUFFICES ASSUME up, verdict = "none" PROVE Held'
  <2>1. UNCHANGED <<up, verdict>>
    BY DEF Start, Stop, LoginAck, AnyHandler, SetSessionKey, KeyRejected, KeyLoaded, ReadError,
           SetUnauthenticated, RequestKey, Login, Ping, Check, Request, wire, server
  <2> QED
    BY <2>1 DEF Held
<1>1. /\ UNCHANGED <<up, verdict, toServer, toClient, serverKey, dials>>
      /\ (NoRequest' = NoRequest) /\ (NoLogin' = NoLogin)
  BY DEF Start, Stop, LoginAck, AnyHandler, SetSessionKey, KeyRejected, KeyLoaded, ReadError,
         SetUnauthenticated, RequestKey, Login, Ping, Check, Request, wire, server,
         NoRequest, NoLogin, InServer
<1>2. Connected /\ dials # 0
  BY DEF IInv, Linked
<1>3. CASE Start \/ Stop \/ ReadError
  BY <1>2, <1>3 DEF Start, Stop, ReadError, Goes, Connected
<1>4. CASE LoginAck
  <2>1. pc = "ack" /\ pc' = "any" /\ key' = key
    BY <1>4 DEF LoginAck, Goes
  <2> QED
    BY <1>1, <2>1 DEF Held
<1>5. CASE AnyHandler
  <2>1. pc = "any" /\ pc' \in {"setKey", "read"} /\ key' = key
    BY <1>5 DEF AnyHandler, Goes
  <2>2. serverKey # DefaultKey
    BY <1>2, <2>1 DEF IInv, Phase, Unanswered, Issued, Refused, Agreed, DefaultKey
  <2> QED
    BY <1>1, <2>1, <2>2 DEF Held
<1>6. CASE SetSessionKey
  <2>1. pc = "setKey" /\ pc' = "loaded"
    BY <1>6 DEF SetSessionKey, Goes
  <2>2. toClient = <<>>
    BY <1>2, <2>1 DEF IInv, Phase, Unanswered, Issued, Refused, Agreed
  <2> QED
    BY <1>1, <2>1, <2>2 DEF Held
<1>7. CASE KeyRejected
  <2>1. pc = "setKey" /\ msg.body = Short
    BY <1>7 DEF KeyRejected, Goes
  <2>2. dials # Short
    BY SessionAssumption DEF IInv, TypeOK, Short
  <2> QED
    BY <1>2, <2>1, <2>2 DEF IInv, Phase, Unanswered, Issued, Issue, Refused, Agreed
<1>8. CASE KeyLoaded
  <2>1. pc = "loaded" /\ pc' = "login" /\ key' = key
    BY <1>8 DEF KeyLoaded, Goes
  <2> QED
    BY <1>1, <2>1 DEF Held
<1>9. CASE SetUnauthenticated \/ RequestKey \/ Login \/ Ping \/ \E u \in Callers : Check(u) \/ Request(u)
  <2>1. UNCHANGED <<pc, key>>
    BY <1>9 DEF SetUnauthenticated, RequestKey, Login, Ping, Check, Request
  <2> QED
    BY <1>1, <2>1 DEF Held
<1> QED
  BY <1>3, <1>4, <1>5, <1>6, <1>7, <1>8, <1>9

\* What is sent joins what the server has yet to read.
LEMMA HeldSending ==
  ASSUME IInv, Held, KeyRequested \/ LoginSent \/ PingSent \/ \E u \in Callers : RequestSent(u)
  PROVE  Held'
<1>1. UNCHANGED <<key, up, toClient, serverKey, verdict>>
  BY DEF KeyRequested, LoginSent, PingSent, RequestSent, server
<1>2. PICK t \in Threads :
        /\ Send(t)
        /\ \/ t # Runner /\ pc' = pc
           \/ t = Runner /\ pc = "request" /\ pc' = IF up THEN "read" ELSE "connect"
           \/ t = Runner /\ pc = "login" /\ pc' = "read"
  BY SessionAssumption DEF KeyRequested, LoginSent, PingSent, RequestSent, Threads, Goes
<1> SUFFICES ASSUME up, verdict = "none" PROVE Held'
  BY <1>1 DEF Held
<1>3. Connected /\ dials # 0
  BY DEF IInv, Linked
<1>4. InServer' = InServer \cup {frame[t]}
  <2>1. frame[t] \in Frames /\ toServer' = Append(toServer, frame[t])
    BY <1>2 DEF Send, IInv, TypeOK
  <2> QED
    BY <2>1, Appended DEF IInv, TypeOK, InServer
<1>5. (~NoRequest => ~NoRequest') /\ (~NoLogin => ~NoLogin')
  BY <1>4 DEF NoRequest, NoLogin
<1>6. CASE t # Runner
  BY <1>1, <1>2, <1>5, <1>6 DEF Held
<1>7. CASE t = Runner /\ pc = "request"
  <2>1. frame[Runner].cmd = "keyreq"
    BY <1>2, <1>7 DEF IInv, FramesMatch, Send
  <2>2. ~NoRequest'
    BY <1>4, <1>7, <2>1 DEF NoRequest
  <2>3. serverKey = DefaultKey
    BY <1>3, <1>7 DEF IInv, Phase, Unanswered, Issued, Refused, Agreed
  <2> QED
    BY <1>1, <2>2, <2>3 DEF Held
<1>8. CASE t = Runner /\ pc = "login"
  <2>1. frame[Runner].cmd = "login"
    BY <1>2, <1>8 DEF IInv, FramesMatch, Send
  <2>2. ~NoLogin'
    BY <1>4, <1>8, <2>1 DEF NoLogin
  <2>3. serverKey # DefaultKey
    BY <1>3, <1>8 DEF IInv, Phase, Unanswered, Issued, Refused, Agreed, DefaultKey
  <2> QED
    BY <1>1, <1>2, <1>8, <2>2, <2>3 DEF Held
<1> QED
  BY <1>2, <1>6, <1>7, <1>8

\* The server decides, issues a key that the client does not have yet, or reads a frame
\* that is nobody's turn.
LEMMA HeldServing == ASSUME IInv, Held, ServerReads PROVE Held'
<1> DEFINE f == Head(toServer)
<1>1. /\ up /\ toServer # <<>> /\ toServer' = Tail(toServer) /\ UNCHANGED <<key, pc, up, dials>>
      /\ Connected /\ dials # 0
  BY DEF ServerReads, flags, IInv, Linked
<1>2. f \in InServer /\ InServer \subseteq InServer' \cup {f}
  <2>1. toServer \in Seq(Frames) /\ f = toServer[1] /\ f \in InServer
    BY <1>1, Dropped DEF IInv, TypeOK, InServer
  <2>2. ASSUME NEW i \in 1..Len(toServer), i # 1 PROVE toServer[i] \in InServer'
    <3>1. i - 1 \in 1..Len(toServer') /\ toServer'[i - 1] = toServer[i]
      BY <1>1, <2>1, <2>2
    <3> QED
      BY <3>1 DEF InServer
  <2> QED
    BY <2>1, <2>2 DEF InServer
<1>3. CASE f.key = serverKey /\ f.cmd = "keyreq"
  <2>1. key = DefaultKey
    BY <1>1, <1>2, <1>3 DEF IInv, Phase, Issued, Refused, Agreed, Unanswered, NoRequest
  <2>2. serverKey' = dials \/ verdict' = "rejected"
    BY <1>3 DEF ServerReads
  <2> QED
    BY <1>1, <2>1, <2>2 DEF Held, DefaultKey
<1>4. CASE f.key = serverKey /\ f.cmd = "login"
  <2>1. verdict' # "none"
    BY <1>4 DEF ServerReads
  <2> QED
    BY <2>1 DEF Held
<1>5. CASE (f.key # serverKey \/ f.cmd \in {"ping", "request"}) /\ UNCHANGED <<toClient, server>>
  <2> SUFFICES ASSUME verdict = "none" PROVE Held'
    BY <1>5 DEF Held, server
  <2>1. ASSUME serverKey = DefaultKey, key = DefaultKey, ~NoRequest PROVE ~NoRequest'
    <3>1. PICK g \in InServer : g.cmd = "keyreq"
      BY <2>1 DEF NoRequest
    <3>2. g.key = serverKey
      BY <1>1, <2>1, <3>1 DEF IInv, Phase, Issued, Refused, Agreed, Unanswered, NoRequest
    <3> QED
      BY <1>2, <1>5, <3>1, <3>2 DEF NoRequest
  <2>2. ASSUME serverKey # DefaultKey, key = serverKey, ~NoLogin PROVE ~NoLogin'
    <3>1. PICK g \in InServer : g.cmd = "login"
      BY <2>2 DEF NoLogin
    <3>2. g.key = serverKey
      BY <1>1, <2>2, <3>1 DEF IInv, Phase, Issued, Refused, Agreed, Unanswered, NoLogin
    <3> QED
      BY <1>2, <1>5, <3>1, <3>2 DEF NoLogin
  <2> QED
    BY <1>1, <1>5, <2>1, <2>2 DEF Held, server
<1> QED
  BY <1>3, <1>4, <1>5 DEF ServerReads

\* No step leaves the negotiation in nobody's hands.
LEMMA HeldStep == IInv /\ Held /\ [Next]_vars => Held'
<1> SUFFICES ASSUME IInv, Held, [Next]_vars PROVE Held'
  OBVIOUS
<1>1. CASE Connect
  BY <1>1 DEF Connect, Goes, Held
<1>2. CASE Receive
  <2>1. /\ pc = "read" /\ pc' \in {"ack", "any"} /\ toClient # <<>>
        /\ UNCHANGED <<key, up, serverKey, verdict>>
    BY <1>2 DEF Receive, Goes, server
  <2> QED
    BY <2>1 DEF Held
<1>3. CASE ServerPushes
  BY <1>3 DEF ServerPushes, server, Held
<1>4. CASE Disconnect
  BY <1>4 DEF Disconnect, Held
<1>5. CASE UNCHANGED vars
  BY <1>5 DEF vars, Held, NoRequest, NoLogin, InServer
<1> QED
  BY <1>1, <1>2, <1>3, <1>4, <1>5, HeldQuietly, HeldSending, HeldServing DEF Next, RunStep

-----------------------------------------------------------------------------
\* Types, for any number of connections, callers and frames in flight.
THEOREM TypeCorrect == Spec => []TypeOK
<1>1. IInv => TypeOK
  BY DEF IInv
<1> QED
  BY InitInv, StepInv, <1>1, PTL DEF Spec

\* The read loop holds the key of every message it takes (client.go 472, app.go 249-267).
THEOREM KeysInStep == Spec => []InboxReadable
<1>1. IInv => InboxReadable
  <2> SUFFICES ASSUME IInv, pc = "read", toClient # <<>> PROVE Head(toClient).key = key
    BY DEF InboxReadable
  <2>1. Head(toClient) \in InClient
    BY Dropped DEF IInv, TypeOK, InClient
  <2> QED
    BY <2>1 DEF IInv, Phase, Connected, Unanswered, Issued, Issue, Refused, Agreed
<1> QED
  BY InitInv, StepInv, <1>1, PTL DEF Spec

\* A login is under the key the server just issued (app.go 265-277, actions.go 19-29).
THEOREM LoginsAreRead == Spec => []LoginReadable
<1>1. IInv => LoginReadable
  <2> SUFFICES ASSUME IInv, NEW i \in 1..Len(toServer), toServer[i].cmd = "login"
               PROVE  toServer[i].key = serverKey
    BY DEF LoginReadable
  <2>1. Connected /\ toServer[i] \in InServer
    BY DEF IInv, Linked, InServer
  <2> QED
    BY <2>1 DEF IInv, Phase, Unanswered, Issued, Refused, Agreed, NoLogin
<1> QED
  BY InitInv, StepInv, <1>1, PTL DEF Spec

\* Nobody is authenticated but by the server (app.go 152-159, 294-322).
THEOREM ServerDecides == Spec => []AuthenticatedByServer
<1>1. IInv => AuthenticatedByServer
  BY DEF IInv
<1> QED
  BY InitInv, StepInv, <1>1, PTL DEF Spec

\* No password and no request under the built-in key (app.go 193-198, actions.go 19-42).
THEOREM SecretsUnderSessionKey == Spec => []SecretsKeyed
<1>1. IInv => SecretsKeyed
  BY DEF IInv
<1> QED
  BY InitInv, StepInv, <1>1, PTL DEF Spec

\* For any number of connections, goroutines and frames, the negotiation is in somebody's
\* hands until the server has decided, or the client has kept an old key
\* (app.go 237-277, client.go 285-299).
THEOREM NegotiationGoesOn == Spec => []NegotiationHeld
<1>1. Init => OldKey /\ Held
  BY DEF Init, OldKey, Held, Connected, DefaultKey
<1>2. IInv /\ OldKey /\ Held => NegotiationHeld
  <2> SUFFICES ASSUME IInv, OldKey, Held, up, verdict = "none",
                      pc \notin {"request", "loaded", "login"}, ~KeptOldKey
               PROVE  \/ \E i \in 1..Len(toServer) :
                           toServer[i].cmd \in {"keyreq", "login"} /\ toServer[i].key = serverKey
                      \/ \E i \in 1..Len(toClient) : toClient[i].cmd = "key"
                      \/ pc \in {"any", "setKey"} /\ msg.cmd = "key"
    BY DEF NegotiationHeld
  <2>1. Connected /\ dials \in Nat /\ dials # 0
    BY DEF IInv, Linked, TypeOK
  <2>2. CASE Unanswered
    <3>1. serverKey = DefaultKey /\ pc = "read"
      BY <2>2 DEF Unanswered
    <3>2. key = DefaultKey
      BY <2>1, <3>1 DEF OldKey, KeptOldKey, DefaultKey
    <3>3. PICK f \in InServer : f.cmd = "keyreq"
      BY <3>1, <3>2 DEF Held, NoRequest
    <3>4. f.key = serverKey
      BY <2>2, <3>1, <3>2, <3>3 DEF Unanswered
    <3> QED
      BY <3>3, <3>4 DEF InServer
  <2>3. CASE Issued
    <3>1. toClient = <<Issue>> => Len(toClient) = 1 /\ toClient[1] = Issue
      OBVIOUS
    <3> QED
      BY <2>3, <3>1 DEF Issued, Issue
  <2>4. CASE Agreed
    <3>1. serverKey # DefaultKey /\ key = serverKey
      BY <2>1, <2>4 DEF Agreed, DefaultKey
    <3>2. PICK f \in InServer : f.cmd = "login"
      BY <3>1 DEF Held, NoLogin
    <3>3. f.key = serverKey
      BY <2>4, <3>1, <3>2 DEF Agreed
    <3> QED
      BY <3>2, <3>3 DEF InServer
  <2> QED
    BY <2>1, <2>2, <2>3, <2>4 DEF IInv, Phase, Refused
<1> QED
  BY <1>1, <1>2, InitInv, StepInv, OldKeyStep, HeldStep, PTL DEF Spec
=============================================================================
