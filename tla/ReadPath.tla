------------------------------ MODULE ReadPath ------------------------------
(***************************************************************************)
(* The way of one message through the read loop (client.go): unpacked,     *)
(* decrypted, parsed, dispatched to the handlers of its command and to     *)
(* those of any, which decode it (tick.go, symbols.go, AccountDecoder) or  *)
(* take the session key from it and make the login request (app.go,        *)
(* FieldSerializer).  What goes wrong becomes an error: a handler with a   *)
(* callback of its own gets it there, any other goes to publishError, as   *)
(* do those of the heartbeat goroutine.  A panic ends the process.         *)
(*                                                                         *)
(* The order of keys, logins and connections is module Session's; here a   *)
(* message has lengths.  The server is external: it sends complete         *)
(* messages, and frames too short for one.                                 *)
(***************************************************************************)
EXTENDS AccountDecoder, FieldSerializer

CONSTANTS
  Own,           (* the handlers registered WithErrorHandler    *)
  ErrorBuffer,   (* Config.ErrorBuffer                          *)
  KeyLengths,    (* the keys the server may issue               *)
  MaxRecords,    (* bound: ticks and symbols in a message       *)
  StrayFrames    (* lengths of frames that hold no message      *)

ASSUME ReadPathAssumption ==
  /\ ErrorBuffer \in Nat \ {0} /\ MaxRecords \in Nat
  /\ KeyLengths \subseteq Nat /\ StrayFrames \subseteq Nat

VARIABLES
  turn,        (* what the reader does once no publishError is under way *)
  frame,       (* the frame it has read: its length, the message in it   *)
  queue,       (* what is left of dispatch's snapshot                    *)
  awaiting,    (* awaitingKey, and not sessionKeyLoaded                  *)
  heart,       (* the heartbeat goroutine: "ticking" or "gone"           *)
  publishing,  (* how far each goroutine is in publishError              *)
  errCh,       (* the number of errors in the channel of Errors          *)
  ran,         (* history: the handlers this message was handed to       *)
  given,       (* history: the records they were given                   *)
  installed,   (* history: the length of the key they installed, or 0    *)
  unheard      (* history: goroutines with an error nobody was told      *)

readVars == <<turn, frame, queue, awaiting, heart, publishing, errCh,
              ran, given, installed, unheard>>
pathVars == <<vars, serializerVars, readVars>>

parser == vars
errors == <<publishing, errCh, unheard>>
Publishers == {"reader", "heart"}

-----------------------------------------------------------------------------
(* What the server sends.                                                  *)

Message(cmd, code, body, n, claims) ==
  [cmd |-> cmd, code |-> code, body |-> body, n |-> n, claims |-> claims]

Messages ==
  {Message("key", 0, SessionKeyOffset + k, k, 0) : k \in KeyLengths} \cup
  {Message("key", 1, 1, 0, 0), Message("ping", 0, 0, 0, 0), Message("trade", 0, 120, 0, 0)} \cup
  {Message("login", code, 4, 0, 0) : code \in {0, 1}} \cup
  {Message("ticks", 0, TickSize * n, n, n) : n \in 0..MaxRecords} \cup
  {Message("symbols", 0, 4 + SymbolSize * n, n, n + d) : n \in 0..MaxRecords, d \in {0, 1}} \cup
  {Message("account", 0, a[1], a[2], a[2]) : a \in Answers}

Stray == Message("none", 0, 0, 0, 0)

Frames ==
  {[raw |-> Pack(padZero(MessageHeader + m.body)), msg |-> m] : m \in Messages} \cup
  {[raw |-> r, msg |-> Stray] : r \in StrayFrames}

-----------------------------------------------------------------------------
(* readLoop and dispatch.                                                  *)

\* Unpack, Decrypt and ParseMessage each refuse a length.
Readable(f) ==
  Unpacks(f.raw) /\ Decrypts(Unpack(f.raw)) /\ Parses(Unpack(f.raw))

BodyLen == BodyLength(Unpack(frame.raw))

\* The default of Config.SkipCommands holds the heartbeats.
Skipped(f) == f.msg.cmd = "ping"

\* NewApp registers "key", "ack" first; the application the decoders and a handler.
Entries(cmd) ==
  (CASE cmd = "login" -> <<"ack">>
     [] cmd = "ticks" -> <<"ticks">>
     [] cmd = "symbols" -> <<"symbols">>
     [] cmd = "account" -> <<"account">>
     [] OTHER -> <<>>) \o <<"key", "app">>

Dispatched(f) == IF Readable(f) /\ ~Skipped(f) THEN Entries(f.msg.cmd) ELSE <<>>

\* The goroutine has an error and calls publishError.
Fails(t) ==
  /\ publishing' = [publishing EXCEPT ![t] = "report"]
  /\ unheard' = unheard \cup {t}

\* publishError is called in the reader's turn and has to return first.
At(point) == turn = point /\ publishing["reader"] = "no"

Receive ==
  /\ At("read")
  /\ \E f \in Frames :
       /\ frame' = f
       /\ queue' = Dispatched(f)
       /\ turn' = IF Dispatched(f) = <<>> THEN "read" ELSE "dispatch"
       /\ IF Readable(f) THEN UNCHANGED <<publishing, unheard>> ELSE Fails("reader")
  /\ ran' = <<>> /\ given' = 0 /\ installed' = 0
  /\ UNCHANGED <<parser, serializerVars, awaiting, heart, errCh>>

\* ErrReadError ends the loop; Run tells the heartbeat to stop.
ReadFails ==
  /\ At("read")
  /\ turn' = "stopped"
  /\ Fails("reader")
  /\ UNCHANGED <<parser, serializerVars, frame, queue, awaiting, heart, errCh, ran, given, installed>>

Handles(h) == At("dispatch") /\ Head(queue) = h

\* A handler h has come to its end, and rest are the handlers after it.
Finish(h, rest) ==
  /\ queue' = rest
  /\ turn' = IF rest = <<>> THEN "read" ELSE "dispatch"
  /\ ran' = Append(ran, h)

Return(h) == Finish(h, Tail(queue)) /\ UNCHANGED errors

\* A dispatch that leaves out the handlers after one that failed.
AfterError_Stop == <<>>

\* A dispatch that tries a handler again when it failed.
AfterError_Again == queue

\* The handlers after one that returned an error.
AfterError == Tail(queue)

\* The error of a handler goes to its own callback or to publishError.
Raise(h) ==
  /\ Finish(h, AfterError)
  /\ IF h \in Own THEN UNCHANGED <<publishing, unheard>> ELSE Fails("reader")
  /\ errCh' = errCh

-----------------------------------------------------------------------------
(* The handlers.                                                           *)

TickHandler ==
  /\ Handles("ticks")
  /\ given' = TickCount(BodyLen)
  /\ Return("ticks")
  /\ UNCHANGED <<parser, serializerVars, frame, awaiting, heart, installed>>

SymbolHandler ==
  /\ Handles("symbols")
  /\ IF SymbolsFit(frame.msg.claims, BodyLen)
     THEN given' = frame.msg.claims /\ Return("symbols")
     ELSE given' = given /\ Raise("symbols")
  /\ UNCHANGED <<parser, serializerVars, frame, awaiting, heart, installed>>

AccountHandler ==
  /\ Handles("account")
  /\ turn' = "parse"
  /\ StartParse(frame.msg.body, frame.msg.n)
  /\ UNCHANGED <<serializerVars, frame, queue, awaiting, heart, errors, ran, given, installed>>

ParseRuns ==
  /\ turn = "parse"
  /\ ParseStep
  /\ turn' = IF stage' = "panic" THEN "dead" ELSE "parse"
  /\ UNCHANGED <<serializerVars, frame, queue, awaiting, heart, errors, ran, given, installed>>

AccountGiven ==
  /\ turn = "parse"
  /\ TakeAccount
  /\ Return("account")
  /\ UNCHANGED <<serializerVars, frame, awaiting, heart, given, installed>>

\* handleLoginAck and handleLoginSuccess.
AckHandler ==
  /\ Handles("ack")
  /\ IF frame.msg.code = 0 THEN Return("ack") ELSE Raise("ack")
  /\ UNCHANGED <<parser, serializerVars, frame, awaiting, heart, given, installed>>

\* handleSessionKeyMessage: any message is a candidate while the key is awaited.
Candidate == awaiting \/ frame.msg.cmd = "key"
HoldsKey == SessionKeyOffset < BodyLen

\* A message without a key is an error only if it is the key message.
NoKeyFound ==
  /\ Handles("key")
  /\ ~Candidate \/ ~HoldsKey \/ ~KeyAccepted(ExtractedKey(BodyLen))
  /\ IF Candidate /\ (HoldsKey \/ frame.msg.cmd = "key") THEN Raise("key") ELSE Return("key")
  /\ UNCHANGED <<parser, serializerVars, frame, awaiting, heart, given, installed>>

\* SetSessionKey, the flags, and Login's buildLoginRequest.
KeyFound ==
  /\ Handles("key")
  /\ Candidate /\ HoldsKey /\ KeyAccepted(ExtractedKey(BodyLen))
  /\ installed' = InitKey(ExtractedKey(BodyLen))
  /\ awaiting' = FALSE
  /\ turn' = "login"
  /\ \E list \in Lists : StartSerialize(list)
  /\ UNCHANGED <<parser, frame, queue, heart, errors, ran, given>>

SerializeRuns ==
  /\ turn = "login"
  /\ SerializerStep
  /\ turn' = IF phase' = "panic" THEN "dead" ELSE "login"
  /\ UNCHANGED <<parser, frame, queue, awaiting, heart, errors, ran, given, installed>>

\* No request, or Send refuses it; else it goes to SendCommand.
LoginMade ==
  /\ turn = "login"
  /\ TakeRequest
  /\ \/ Raise("key")
     \/ phase = "done" /\ turn' = "send" /\ UNCHANGED <<queue, ran, errors>>
  /\ UNCHANGED <<parser, frame, awaiting, heart, given, installed>>

\* writeMu and the socket let go of the reader: the request is sent, or not.
LoginSent ==
  /\ turn = "send"
  /\ Return("key") \/ Raise("key")
  /\ UNCHANGED <<parser, serializerVars, frame, awaiting, heart, given, installed>>

\* A handler of the application, registered for any command.
AppHandler ==
  /\ Handles("app")
  /\ Return("app") \/ Raise("app")
  /\ UNCHANGED <<parser, serializerVars, frame, awaiting, heart, given, installed>>

-----------------------------------------------------------------------------
(* The heartbeat goroutine, and publishError.                              *)

PingFails ==
  /\ heart = "ticking"
  /\ heart' = "gone"
  /\ Fails("heart")
  /\ UNCHANGED <<parser, serializerVars, turn, frame, queue, awaiting, errCh, ran, given, installed>>

HeartStops ==
  /\ heart = "ticking" /\ turn = "stopped"
  /\ heart' = "gone"
  /\ UNCHANGED <<parser, serializerVars, turn, frame, queue, awaiting, errors, ran, given, installed>>

\* A publishError that calls OnError when the channel has taken the error.
Told_IfRoom(t) == IF errCh < ErrorBuffer THEN unheard \ {t} ELSE unheard

\* OnError, if there is one, hears of every error.
Told(t) == unheard \ {t}

Report(t) ==
  /\ publishing[t] = "report"
  /\ publishing' = [publishing EXCEPT ![t] = "offer"]
  /\ unheard' = Told(t)
  /\ UNCHANGED <<parser, serializerVars, turn, frame, queue, awaiting, heart, errCh,
                 ran, given, installed>>

\* A plain send waits for room.
MayOffer_Blocking == errCh < ErrorBuffer

\* The default arm of the select: a full channel does not hold the sender up.
MayOffer == TRUE

\* A full channel loses the error.
Offered == IF errCh < ErrorBuffer THEN errCh + 1 ELSE errCh

Offer(t) ==
  /\ publishing[t] = "offer"
  /\ MayOffer
  /\ publishing' = [publishing EXCEPT ![t] = "no"]
  /\ errCh' = Offered
  /\ UNCHANGED <<parser, serializerVars, turn, frame, queue, awaiting, heart, ran, given,
                 installed, unheard>>

\* Somebody receives from Errors.
Drain ==
  /\ errCh > 0 /\ errCh' = errCh - 1
  /\ UNCHANGED <<parser, serializerVars, turn, frame, queue, awaiting, heart, publishing,
                 ran, given, installed, unheard>>

-----------------------------------------------------------------------------
ReadInit ==
  /\ Init /\ SerializerInit
  /\ turn = "read" /\ frame = [raw |-> 0, msg |-> Stray] /\ queue = <<>>
  /\ awaiting = TRUE /\ heart = "ticking"
  /\ publishing = [t \in Publishers |-> "no"]
  /\ errCh = 0 /\ ran = <<>> /\ given = 0 /\ installed = 0 /\ unheard = {}

\* What the reader does with a message once it has it, by itself.
Processing ==
  \/ TickHandler \/ SymbolHandler \/ AccountHandler \/ ParseRuns \/ AccountGiven
  \/ AckHandler \/ NoKeyFound \/ KeyFound \/ SerializeRuns \/ LoginMade \/ AppHandler
  \/ Report("reader") \/ Offer("reader")

ReadNext ==
  /\ turn # "dead"
  /\ \/ Receive \/ ReadFails \/ Processing \/ LoginSent
     \/ PingFails \/ HeartStops \/ Report("heart") \/ Offer("heart") \/ Drain

ReadSpec == ReadInit /\ [][ReadNext]_pathVars

\* The reader runs, and so do the handlers of the application, which return.  Nothing
\* ends its wait in a write.
FairReadSpec == ReadSpec /\ WF_pathVars(turn # "dead" /\ Processing)

-----------------------------------------------------------------------------
(* Properties.                                                             *)

ReadTypeOK ==
  /\ turn \in {"read", "dispatch", "parse", "login", "send", "stopped", "dead"}
  /\ turn = "dispatch" => queue # <<>>
  /\ awaiting \in BOOLEAN /\ heart \in {"ticking", "gone"}
  /\ publishing \in [Publishers -> {"no", "report", "offer"}]
  /\ errCh \in 0..ErrorBuffer
  /\ given \in Nat /\ installed \in {0, 16, 24, 32} /\ unheard \subseteq Publishers
  /\ stage = "idle" \/ turn \in {"parse", "dead"}
  /\ phase = "idle" \/ turn \in {"login", "dead"}

\* OnError is never lossy: no goroutine gets out of publishError with an error that
\* nobody was told, whatever the other one and the channel do (app.go 62-64,
\* client.go 589-602).
ErrorsHeard == \A t \in unheard : publishing[t] = "report"

\* When the reader is back at its socket, each handler of the message in hand has run
\* once, those of the command before those of any, whichever of them failed
\* (client.go 513-538).
AllHandlersRun == At("read") => ran = Dispatched(frame)

\* The padding is never taken for a record, nor a record lost, and a list that
\* announces more than it holds gives none (tick.go 51, symbols.go 68-82).
RecordsAsSent ==
  turn = "read" =>
    /\ frame.msg.cmd = "ticks" => given = frame.msg.n
    /\ frame.msg.cmd = "symbols" => given = IF frame.msg.claims = frame.msg.n THEN frame.msg.n ELSE 0

\* A key message installs the key the server issued or none: the padding behind it does
\* not become part of it, and a key of full length is accepted (app.go 282-292,
\* mtcrypto.go 14-27).
KeyAsIssued ==
  turn = "read" /\ frame.msg.cmd = "key" =>
    /\ installed \in {0, frame.msg.n}
    /\ frame.msg.n = 32 => installed = 32

\* What the reader has before it, most significant first: handlers, whether the first is
\* yet to begin, the passes and fields of what it runs, and the way out of publishError.
Passes ==
  (CASE stage = "core" -> 7 [] stage = "count" -> 6 [] stage = "settings" -> 5 [] stage = "O" -> 4
     [] stage = "N" -> 3 [] stage = "C" -> 2 [] stage = "done" -> 1 [] OTHER -> 0)
  + (CASE phase = "size" -> 3 [] phase = "write" -> 2 [] phase \in {"done", "error"} -> 1 [] OTHER -> 0)

FieldsLeft ==
  CASE stage = "core" -> Len(Core) - field
    [] stage = "settings" -> Len(Settings) - field
    [] phase \in {"size", "write"} -> Len(fields) + 1 - at
    [] OTHER -> 0

Work ==
  << Len(queue), IF turn = "dispatch" THEN 1 ELSE 0, Passes, left, FieldsLeft,
     CASE publishing["reader"] = "report" -> 2 [] publishing["reader"] = "offer" -> 1 [] OTHER -> 0 >>

\* The lexicographic order.
Below(v, w) == \E i \in 1..6 : v[i] < w[i] /\ \A j \in 1..(i - 1) : v[j] = w[j]

\* Every step of the reader brings it nearer to its socket, whatever it handles and
\* whatever fails; of the steps of others none throws it back, and only at the socket
\* does it get more to do (client.go 491-538, account.go 256-571, ec.go 19-184).
ReaderAdvances ==
  [][IF Processing \/ LoginSent THEN Below(Work', Work)
     ELSE At("read") \/ Work' = Work]_pathVars

\* The peer reads, so that no write blocks for ever.
PeerReads == WF_pathVars(LoginSent)

\* If the peer reads, the reader always comes back to its socket, or stops: no error it or
\* another goroutine publishes holds it up, though nobody receives from Errors.  The one
\* thing in its way is the login request, which it writes itself (client.go 598-601,
\* actions.go 25).
ReaderComesBack ==
  PeerReads => (turn # "dead" ~> At("read") \/ At("stopped") \/ turn = "dead")
=============================================================================
