--------------------------- MODULE ReadPathProofs ---------------------------
(***************************************************************************)
(* The way of a message through the read loop, for every number of records *)
(* and every buffer of errors.                                             *)
(***************************************************************************)
EXTENDS ReadPath, FramingProofs, SequenceTheorems

(* The inductive invariant.                                                *)

Handlers == {"ack", "ticks", "symbols", "account", "key", "app"}

NoFrameYet == [raw |-> 0, msg |-> Stray]

\* What has run and what is queued are the handlers of the message, in their order.
Walking ==
  /\ frame \in Frames \cup {NoFrameYet}
  /\ ran \in Seq(Handlers) /\ queue \in Seq(Handlers)
  /\ turn \in {"read", "dispatch", "parse", "login", "send"} =>
       /\ Len(ran) + Len(queue) = Len(Dispatched(frame))
       /\ \A i \in 1..Len(ran) : ran[i] = Dispatched(frame)[i]
       /\ \A i \in 1..Len(queue) : queue[i] = Dispatched(frame)[Len(ran) + i]
       /\ turn = "read" <=> queue = <<>>
       /\ turn = "parse" => Head(queue) = "account"
       /\ turn \in {"login", "send"} => Head(queue) = "key"

\* The number of records that the decoder of the message, always its first handler,
\* has to give.
Due == IF frame.msg.cmd = "ticks" \/ frame.msg.claims = frame.msg.n THEN frame.msg.n ELSE 0

Counted ==
  turn \in {"read", "dispatch", "parse", "login", "send"} /\ frame.msg.cmd \in {"ticks", "symbols"} =>
    given = IF ran = <<>> THEN 0 ELSE Due

\* The keys that AES has.
AESKeys == KeyLengths \subseteq {16, 24, 32}

\* The key handler is the first one of a key message.
Keyed ==
  AESKeys /\ turn \in {"read", "dispatch", "parse", "login", "send"} /\ frame.msg.cmd = "key" =>
    IF ran = <<>> /\ turn \notin {"login", "send"} THEN installed = 0
    ELSE /\ installed \in {0, frame.msg.n}
         /\ frame.msg.n = 32 => installed = 32

IInv == ReadTypeOK /\ ErrorsHeard /\ Walking /\ Counted /\ Keyed

-----------------------------------------------------------------------------
(* The messages of the server.                                             *)

\* Every frame with a message is readable, and its body has the padding at most.
LEMMA FrameShapes ==
  ASSUME NEW f \in Frames, f.msg.cmd # "none"
  PROVE  /\ f.msg \in Messages
         /\ f.msg.body \in Nat => Readable(f) /\ BodyLength(Unpack(f.raw)) = Delivered(f.msg.body)
<1>1. PICK m \in Messages : f = [raw |-> Pack(padZero(MessageHeader + m.body)), msg |-> m]
  BY DEF Frames, Stray, Message
<1>2. ASSUME m.body \in Nat PROVE Readable(f) /\ BodyLength(Unpack(f.raw)) = Delivered(m.body)
  BY <1>1, <1>2, FramesAreRead DEF Readable, Delivered
<1> QED
  BY <1>1, <1>2

\* What the server puts into a message of each command.
LEMMA MessageShapes ==
  ASSUME NEW m \in Messages
  PROVE  /\ m.cmd = "ticks" => m.n \in Nat /\ m.body = TickSize * m.n /\ m.claims = m.n
         /\ m.cmd = "symbols" =>
              m.n \in Nat /\ m.body = 4 + SymbolSize * m.n /\ m.claims \in {m.n, m.n + 1}
         /\ m.cmd = "key" =>
              \/ m.n \in KeyLengths /\ m.body = SessionKeyOffset + m.n
              \/ m.n = 0 /\ m.body = 1
         /\ m.cmd \in {"key", "ping", "trade", "login", "ticks", "symbols", "account"}
BY ReadPathAssumption DEF Messages, Message, TickSize, SymbolSize, SessionKeyOffset

\* Putting a handler before two others is the list of the three.
LEMMA ConsTwo ==
  ASSUME NEW S, NEW a \in S, NEW b \in S, NEW c \in S
  PROVE  <<a>> \o <<b, c>> = <<a, b, c>>
<1> DEFINE l == <<a>> \o <<b, c>>
           r == <<a, b, c>>
<1>1. l \in Seq(S) /\ Len(l) = 3 /\ l[1] = a /\ l[2] = b /\ l[3] = c
  <2>1. /\ <<a>> \in Seq(S) /\ Len(<<a>>) = 1 /\ <<a>>[1] = a
        /\ <<b, c>> \in Seq(S) /\ Len(<<b, c>>) = 2 /\ <<b, c>>[1] = b /\ <<b, c>>[2] = c
    OBVIOUS
  <2> QED
    BY <2>1, ConcatProperties
<1>2. r \in Seq(S) /\ Len(r) = 3 /\ r[1] = a /\ r[2] = b /\ r[3] = c
  OBVIOUS
<1> HIDE DEF l, r
<1>3. \A i \in 1..3 : i = 1 \/ i = 2 \/ i = 3
  OBVIOUS
<1>4. l = r
  BY <1>1, <1>2, <1>3, SeqEqual
<1> QED
  BY <1>4 DEF l, r

\* The handlers of a message.
LEMMA EntriesShape ==
  ASSUME NEW f
  PROVE  /\ Dispatched(f) \in Seq(Handlers)
         /\ Dispatched(f) # <<>> => Readable(f) /\ ~Skipped(f)
         /\ Readable(f) /\ f.msg.cmd \in {"ticks", "symbols"} =>
              Len(Dispatched(f)) = 3 /\ Dispatched(f)[1] = f.msg.cmd
         /\ Readable(f) /\ f.msg.cmd = "key" => Len(Dispatched(f)) = 2 /\ Dispatched(f)[1] = "key"
         /\ \A i \in 1..Len(Dispatched(f)) :
              /\ Dispatched(f)[i] \in {"ticks", "symbols", "account"} =>
                   Dispatched(f)[i] = f.msg.cmd /\ i = 1
              /\ Dispatched(f)[i] = "key" /\ f.msg.cmd = "key" => i = 1
<1> DEFINE e == Entries(f.msg.cmd)
           d == Dispatched(f)
<1>1. ASSUME NEW h \in Handlers PROVE <<h>> \o <<"key", "app">> = <<h, "key", "app">>
  <2>1. "key" \in Handlers /\ "app" \in Handlers
    BY DEF Handlers
  <2> QED
    BY <2>1, ConsTwo
<1>2. <<>> \o <<"key", "app">> = <<"key", "app">>
  OBVIOUS
<1>3. /\ f.msg.cmd = "login" => e = <<"ack", "key", "app">>
      /\ f.msg.cmd = "ticks" => e = <<"ticks", "key", "app">>
      /\ f.msg.cmd = "symbols" => e = <<"symbols", "key", "app">>
      /\ f.msg.cmd = "account" => e = <<"account", "key", "app">>
      /\ f.msg.cmd \notin {"login", "ticks", "symbols", "account"} => e = <<"key", "app">>
  <2>1. /\ f.msg.cmd = "login" => e = <<"ack">> \o <<"key", "app">>
        /\ f.msg.cmd = "ticks" => e = <<"ticks">> \o <<"key", "app">>
        /\ f.msg.cmd = "symbols" => e = <<"symbols">> \o <<"key", "app">>
        /\ f.msg.cmd = "account" => e = <<"account">> \o <<"key", "app">>
        /\ f.msg.cmd \notin {"login", "ticks", "symbols", "account"} => e = <<>> \o <<"key", "app">>
    BY DEF Entries
  <2>2. "ack" \in Handlers /\ "ticks" \in Handlers /\ "symbols" \in Handlers /\ "account" \in Handlers
    BY DEF Handlers
  <2> HIDE DEF e
  <2> QED
    BY <1>1, <1>2, <2>1, <2>2, Zenon
<1>4. d = IF Readable(f) /\ ~Skipped(f) THEN e ELSE <<>>
  BY DEF Dispatched
<1>5. f.msg.cmd \in {"ticks", "symbols", "key"} => ~Skipped(f)
  BY DEF Skipped
<1> HIDE DEF e, d
<1>6. CASE d = <<>>
  <2>1. d \in Seq(Handlers) /\ Len(d) = 0
    BY <1>6
  <2>2. <<"ticks", "key", "app">> # <<>> /\ <<"symbols", "key", "app">> # <<>> /\ <<"key", "app">> # <<>>
    OBVIOUS
  <2>3. ~(Readable(f) /\ f.msg.cmd \in {"ticks", "symbols", "key"})
    BY <1>3, <1>4, <1>5, <1>6, <2>2
  <2> QED
    BY <1>6, <2>1, <2>3 DEF d
<1>7. CASE d # <<>> /\ f.msg.cmd \in {"login", "ticks", "symbols", "account"}
  <2>1. PICK h \in {"ack", "ticks", "symbols", "account"} :
          /\ d = <<h, "key", "app">>
          /\ f.msg.cmd \in {"ticks", "symbols"} => h = f.msg.cmd
          /\ h \in {"ticks", "symbols", "account"} => h = f.msg.cmd
    BY <1>3, <1>4, <1>7
  <2>2. d \in Seq(Handlers) /\ Len(d) = 3 /\ d[1] = h /\ d[2] = "key" /\ d[3] = "app"
    BY <2>1 DEF Handlers
  <2> QED
    BY <1>4, <1>7, <2>1, <2>2 DEF d
<1>8. CASE d # <<>> /\ f.msg.cmd \notin {"login", "ticks", "symbols", "account"}
  <2>1. d = <<"key", "app">>
    BY <1>3, <1>4, <1>8
  <2>2. d \in Seq(Handlers) /\ Len(d) = 2 /\ d[1] = "key" /\ d[2] = "app"
    BY <2>1 DEF Handlers
  <2> QED
    BY <1>4, <1>8, <2>2 DEF d
<1> QED
  BY <1>6, <1>7, <1>8

-----------------------------------------------------------------------------
(* Every step keeps the invariant.                                         *)

Busy == turn \in {"dispatch", "parse", "login", "send"}

\* A handler runs only for its message, and the decoder of a message before the others.
LEMMA HandlerFacts ==
  ASSUME IInv, Busy
  PROVE  /\ queue # <<>> /\ Head(queue) \in Handlers /\ Tail(queue) \in Seq(Handlers)
         /\ frame \in Frames /\ Readable(frame)
         /\ Head(queue) \in {"ticks", "symbols", "account"} => frame.msg.cmd = Head(queue) /\ ran = <<>>
         /\ frame.msg.cmd \in {"ticks", "symbols"} /\ ran = <<>> => Head(queue) = frame.msg.cmd
         /\ frame.msg.cmd = "key" => (ran = <<>> <=> Head(queue) = "key")
<1> USE DEF IInv, Busy
<1> DEFINE d == Dispatched(frame)
<1>1. queue # <<>> /\ Head(queue) \in Handlers /\ Tail(queue) \in Seq(Handlers)
  BY DEF Walking
<1>2. /\ Len(ran) \in Nat /\ Len(queue) \in Nat /\ Len(queue) >= 1
      /\ Len(ran) + Len(queue) = Len(d) /\ Head(queue) = queue[1] /\ queue[1] = d[Len(ran) + 1]
  BY <1>1 DEF Walking
<1>3. d \in Seq(Handlers) /\ d # <<>> /\ Len(ran) + 1 \in 1..Len(d)
  BY <1>2, EntriesShape
<1>4. Readable(frame)
  BY <1>3, EntriesShape
<1>5. frame \in Frames
  BY <1>4 DEF Walking, NoFrameYet, Readable, Unpacks, FrameHeader
<1>6. ran = <<>> <=> Len(ran) = 0
  BY DEF Walking
<1> HIDE DEF d
<1>7. /\ d[Len(ran) + 1] \in {"ticks", "symbols", "account"} =>
           d[Len(ran) + 1] = frame.msg.cmd /\ Len(ran) + 1 = 1
      /\ d[Len(ran) + 1] = "key" /\ frame.msg.cmd = "key" => Len(ran) + 1 = 1
  BY <1>3, EntriesShape DEF d
<1>8. /\ frame.msg.cmd \in {"ticks", "symbols"} => d[1] = frame.msg.cmd
      /\ frame.msg.cmd = "key" => d[1] = "key"
  BY <1>4, EntriesShape DEF d
<1> QED
  BY <1>1, <1>2, <1>4, <1>5, <1>6, <1>7, <1>8

\* The handler at the head of the queue comes to its end.
LEMMA FinishWalks ==
  ASSUME IInv, Busy, NEW h, Head(queue) = h, Finish(h, Tail(queue)), frame' = frame
  PROVE  /\ Walking'
         /\ ran' # <<>> /\ turn' \in {"read", "dispatch"} /\ (turn' = "dispatch" => queue' # <<>>)
<1> USE DEF IInv
<1>1. /\ queue # <<>> /\ h \in Handlers /\ queue \in Seq(Handlers) /\ ran \in Seq(Handlers)
      /\ frame \in Frames
  BY HandlerFacts DEF Walking
<1>2. /\ queue' = Tail(queue) /\ ran' = Append(ran, h)
      /\ turn' = IF Tail(queue) = <<>> THEN "read" ELSE "dispatch"
  BY DEF Finish
<1>3. /\ queue' \in Seq(Handlers) /\ Len(queue') = Len(queue) - 1 /\ queue[1] = h /\ Len(queue) >= 1
      /\ \A i \in 1..Len(queue') : queue'[i] = queue[i + 1]
  BY <1>1, <1>2
<1>4. /\ ran' \in Seq(Handlers) /\ Len(ran') = Len(ran) + 1 /\ ran'[Len(ran) + 1] = h
      /\ \A i \in 1..Len(ran) : ran'[i] = ran[i]
  BY <1>1, <1>2
<1> DEFINE d == Dispatched(frame)
<1>5. /\ Len(ran) + Len(queue) = Len(d)
      /\ \A i \in 1..Len(ran) : ran[i] = d[i]
      /\ \A i \in 1..Len(queue) : queue[i] = d[Len(ran) + i]
      /\ Len(ran) \in Nat /\ Len(queue) \in Nat
  BY <1>1 DEF Busy, Walking
<1>6. Dispatched(frame)' = d
  BY DEF Dispatched, Entries, Readable, Skipped
<1> HIDE DEF d
<1>7. Len(ran') + Len(queue') = Len(d)
  <2>1. Len(queue') = Len(queue) - 1 /\ Len(ran') = Len(ran) + 1
    BY <1>3, <1>4
  <2>2. Len(ran) + Len(queue) = Len(d) /\ Len(ran) \in Nat /\ Len(queue) \in Nat
    BY <1>5
  <2> QED
    BY <2>1, <2>2
<1>8. ASSUME NEW i \in 1..Len(ran') PROVE ran'[i] = d[i]
  <2>1. CASE i = Len(ran) + 1
    BY <1>3, <1>4, <1>5, <2>1
  <2>2. CASE i # Len(ran) + 1
    BY <1>4, <1>5, <2>2
  <2> QED
    BY <2>1, <2>2
<1>9. ASSUME NEW i \in 1..Len(queue') PROVE queue'[i] = d[Len(ran') + i]
  <2>1. i + 1 \in 1..Len(queue) /\ queue'[i] = queue[i + 1] /\ Len(ran) + (i + 1) = Len(ran') + i
    BY <1>3, <1>4, <1>5
  <2> QED
    BY <1>5, <2>1
<1>10. turn' \in {"read", "dispatch"} /\ (turn' = "read" <=> queue' = <<>>)
  BY <1>2
<1>11. ran' # <<>>
  BY <1>4, <1>5
<1> QED
  BY <1>1, <1>3, <1>4, <1>6, <1>7, <1>8, <1>9, <1>10, <1>11 DEF Walking

\* publishError is entered, or nothing is told.
LEMMA FailsHeard ==
  ASSUME IInv, NEW t \in Publishers, Fails(t) \/ UNCHANGED <<publishing, unheard>>
  PROVE  /\ publishing' \in [Publishers -> {"no", "report", "offer"}] /\ unheard' \subseteq Publishers
         /\ ErrorsHeard'
BY DEF IInv, ReadTypeOK, ErrorsHeard, Fails

\* The end of a handler that has nothing to do with records and keys.
LEMMA PlainInv ==
  ASSUME IInv, Busy, NEW h, Head(queue) = h, Return(h) \/ Raise(h), UNCHANGED <<frame, heart, given, installed>>,
         awaiting' \in BOOLEAN,
         stage' = "idle", phase' = "idle",
         h \notin {"ticks", "symbols"},
         AESKeys /\ h = "key" /\ frame.msg.cmd = "key" =>
           installed \in {0, frame.msg.n} /\ (frame.msg.n = 32 => installed = 32)
  PROVE  IInv'
<1> USE DEF IInv
<1>1. /\ Walking' /\ ran' # <<>> /\ turn' \in {"read", "dispatch"} /\ (turn' = "dispatch" => queue' # <<>>)
  BY FinishWalks DEF Return, Raise, AfterError
<1>2. /\ publishing' \in [Publishers -> {"no", "report", "offer"}] /\ unheard' \subseteq Publishers
      /\ ErrorsHeard' /\ errCh' = errCh
  BY FailsHeard DEF Return, Raise, errors, Publishers
<1>3. ReadTypeOK'
  BY <1>1, <1>2 DEF ReadTypeOK
<1>4. Counted'
  BY <1>1, HandlerFacts DEF Counted, Due, Busy
<1>5. Keyed'
  BY <1>1, HandlerFacts DEF Keyed, Busy
<1> QED
  BY <1>1, <1>2, <1>3, <1>4, <1>5

\* The reader takes a frame, or its socket fails.
LEMMA ReceiveInv == ASSUME IInv, Receive \/ ReadFails PROVE IInv'
<1> USE DEF IInv
<1>1. stage = "idle" /\ phase = "idle" /\ UNCHANGED <<parser, serializerVars>>
      /\ "reader" \in Publishers
  BY DEF Receive, ReadFails, At, ReadTypeOK, Publishers
<1>2. stage' = "idle" /\ phase' = "idle"
  BY <1>1 DEF parser, vars, serializerVars
<1>3. CASE Receive
  <2>1. PICK f \in Frames :
          /\ frame' = f /\ queue' = Dispatched(f)
          /\ turn' = IF Dispatched(f) = <<>> THEN "read" ELSE "dispatch"
          /\ Fails("reader") \/ UNCHANGED <<publishing, unheard>>
    BY <1>3 DEF Receive
  <2>2. ran' = <<>> /\ given' = 0 /\ installed' = 0 /\ UNCHANGED <<awaiting, heart, errCh>>
    BY <1>3 DEF Receive
  <2>3. ReadTypeOK' /\ ErrorsHeard'
    BY <1>1, <1>2, <2>1, <2>2, FailsHeard DEF ReadTypeOK
  <2>4. Dispatched(frame)' = Dispatched(f)
    BY <2>1 DEF Dispatched, Entries, Readable, Skipped
  <2>5. Walking'
    <3> DEFINE d == Dispatched(f)
    <3>1. d \in Seq(Handlers)
      BY EntriesShape
    <3> HIDE DEF d
    <3>2. /\ queue' = d /\ ran' = <<>> /\ Len(ran') = 0 /\ Dispatched(frame)' = d
          /\ turn' = IF d = <<>> THEN "read" ELSE "dispatch"
      BY <2>1, <2>2, <2>4 DEF d
    <3>3. ran' \in Seq(Handlers) /\ queue' \in Seq(Handlers) /\ frame' \in Frames
      BY <2>1, <3>1, <3>2
    <3>4. Len(d) \in Nat /\ \A i \in 1..Len(d) : 0 + i = i
      BY <3>1
    <3> QED
      BY <3>2, <3>3, <3>4 DEF Walking
  <2>6. Counted' /\ Keyed'
    BY <2>1, <2>2 DEF Counted, Keyed
  <2> QED
    BY <2>3, <2>5, <2>6
<1>4. CASE ReadFails
  <2>1. turn' = "stopped" /\ Fails("reader")
        /\ UNCHANGED <<frame, queue, awaiting, heart, errCh, ran, given, installed>>
    BY <1>4 DEF ReadFails
  <2>2. ReadTypeOK' /\ ErrorsHeard'
    BY <1>1, <1>2, <2>1, FailsHeard DEF ReadTypeOK
  <2>3. Walking' /\ Counted' /\ Keyed'
    BY <2>1 DEF Walking, Counted, Keyed
  <2> QED
    BY <2>2, <2>3
<1> QED
  BY <1>3, <1>4

\* The decoders of ticks and symbols give what was sent.
LEMMA RecordsInv == ASSUME IInv, TickHandler \/ SymbolHandler PROVE IInv'
<1> USE DEF IInv
<1>1. Busy /\ turn = "dispatch" /\ Head(queue) \in {"ticks", "symbols"}
      /\ UNCHANGED <<parser, serializerVars, frame, awaiting, heart, installed>>
  BY DEF TickHandler, SymbolHandler, Handles, At, Busy
<1>2. stage' = "idle" /\ phase' = "idle"
  BY <1>1 DEF ReadTypeOK, parser, vars, serializerVars
<1>3. frame \in Frames /\ frame.msg.cmd = Head(queue) /\ ran = <<>>
  BY <1>1, HandlerFacts
<1>4. frame.msg \in Messages /\ (frame.msg.body \in Nat => BodyLen = Delivered(frame.msg.body))
  BY <1>1, <1>3, FrameShapes DEF BodyLen
<1>5. PICK h : /\ h = Head(queue)
               /\ Return(h) \/ Raise(h)
               /\ given' = Due /\ given' \in Nat
  <2>1. CASE TickHandler
    <3>1. frame.msg.n \in Nat /\ frame.msg.body = TickSize * frame.msg.n /\ frame.msg.cmd = "ticks"
      BY <1>3, <1>4, <2>1, MessageShapes DEF TickHandler, Handles
    <3>2. TickSize * frame.msg.n \in Nat
      BY <3>1 DEF TickSize
    <3>3. given' = frame.msg.n
      BY <1>4, <2>1, <3>1, <3>2, NoPhantomTick DEF TickHandler
    <3> QED
      BY <2>1, <3>1, <3>3 DEF TickHandler, Handles, Due
  <2>2. CASE SymbolHandler
    <3>1. frame.msg.n \in Nat /\ frame.msg.body = 4 + SymbolSize * frame.msg.n
          /\ frame.msg.claims \in {frame.msg.n, frame.msg.n + 1} /\ frame.msg.cmd = "symbols"
      BY <1>3, <1>4, <2>2, MessageShapes DEF SymbolHandler, Handles
    <3>2. 4 + SymbolSize * frame.msg.n \in Nat
      BY <3>1 DEF SymbolSize
    <3>3. SymbolsFit(frame.msg.claims, BodyLen) <=> frame.msg.claims = frame.msg.n
      BY <1>4, <3>1, <3>2, SymbolsCounted
    <3>4. given = 0
      BY <1>1, <1>3, <3>1 DEF Counted
    <3>5. given' = IF frame.msg.claims = frame.msg.n THEN frame.msg.n ELSE 0
      BY <2>2, <3>3, <3>4 DEF SymbolHandler
    <3>6. Return("symbols") \/ Raise("symbols")
      BY <2>2 DEF SymbolHandler
    <3> QED
      BY <2>2, <3>1, <3>5, <3>6 DEF SymbolHandler, Handles, Due
  <2> QED
    BY <2>1, <2>2
<1>6. /\ Walking' /\ ran' # <<>> /\ turn' \in {"read", "dispatch"} /\ (turn' = "dispatch" => queue' # <<>>)
  <2>1. Finish(h, Tail(queue))
    BY <1>5 DEF Return, Raise, AfterError
  <2>2. frame' = frame /\ Head(queue) = h
    BY <1>1, <1>5
  <2> QED
    BY <1>1, <2>1, <2>2, FinishWalks
<1>7. /\ publishing' \in [Publishers -> {"no", "report", "offer"}] /\ unheard' \subseteq Publishers
      /\ ErrorsHeard' /\ errCh' = errCh
  BY <1>5, FailsHeard DEF Return, Raise, errors, Publishers
<1>8. ReadTypeOK'
  BY <1>1, <1>2, <1>5, <1>6, <1>7 DEF ReadTypeOK
<1>9. Counted' /\ Keyed'
  BY <1>1, <1>3, <1>5, <1>6 DEF Counted, Due, Keyed
<1> QED
  BY <1>6, <1>7, <1>8, <1>9

\* The other handlers of a message.
LEMMA HandlersInv ==
  ASSUME IInv, AckHandler \/ AppHandler \/ AccountGiven \/ AccountHandler \/ ParseRuns \/ SerializeRuns
               \/ LoginMade \/ LoginSent
  PROVE  IInv'
<1> USE DEF IInv
<1>1. CASE AckHandler
  <2>1. Busy /\ Head(queue) = "ack" /\ (Return("ack") \/ Raise("ack")) /\ stage' = "idle" /\ phase' = "idle"
    BY <1>1 DEF AckHandler, Handles, At, Busy, ReadTypeOK, parser, vars, serializerVars
  <2>2. UNCHANGED <<frame, heart, given, installed>> /\ awaiting' \in BOOLEAN
    BY <1>1 DEF AckHandler, ReadTypeOK
  <2> QED
    BY <2>1, <2>2, PlainInv
<1>2. CASE AppHandler
  <2>1. Busy /\ Head(queue) = "app" /\ (Return("app") \/ Raise("app")) /\ stage' = "idle" /\ phase' = "idle"
    BY <1>2 DEF AppHandler, Handles, At, Busy, ReadTypeOK, parser, vars, serializerVars
  <2>2. UNCHANGED <<frame, heart, given, installed>> /\ awaiting' \in BOOLEAN
    BY <1>2 DEF AppHandler, ReadTypeOK
  <2> QED
    BY <2>1, <2>2, PlainInv
<1>3. CASE AccountGiven
  <2>1. Busy /\ Head(queue) = "account" /\ Return("account") /\ stage' = "idle" /\ phase' = "idle"
    BY <1>3 DEF AccountGiven, TakeAccount, Walking, Busy, ReadTypeOK, serializerVars
  <2>2. UNCHANGED <<frame, heart, given, installed>> /\ awaiting' \in BOOLEAN
    BY <1>3 DEF AccountGiven, ReadTypeOK
  <2> QED
    BY <2>1, <2>2, PlainInv
<1>4. CASE LoginMade \/ LoginSent
  <2>1. /\ Busy /\ turn \in {"login", "send"} /\ Head(queue) = "key"
        /\ stage' = "idle" /\ phase' = "idle"
    BY <1>4 DEF LoginMade, LoginSent, TakeRequest, Walking, Busy, ReadTypeOK, parser, vars,
                serializerVars
  <2>2. UNCHANGED <<frame, heart, given, installed>> /\ awaiting' \in BOOLEAN
    BY <1>4 DEF LoginMade, LoginSent, ReadTypeOK
  <2>3. AESKeys /\ frame.msg.cmd = "key" =>
          installed \in {0, frame.msg.n} /\ (frame.msg.n = 32 => installed = 32)
    BY <2>1 DEF Keyed
  <2>4. CASE Return("key") \/ Raise("key")
    BY <2>1, <2>2, <2>3, <2>4, PlainInv
  <2>5. CASE turn' = "send" /\ UNCHANGED <<queue, ran, errors, awaiting>>
    <3>1. Dispatched(frame)' = Dispatched(frame)
      BY <2>2 DEF Dispatched, Entries, Readable, Skipped
    <3>2. queue # <<>>
      BY <2>1, HandlerFacts
    <3>3. ReadTypeOK' /\ ErrorsHeard'
      BY <2>1, <2>2, <2>5 DEF ReadTypeOK, ErrorsHeard, errors
    <3>4. Walking'
      BY <2>1, <2>2, <2>5, <3>1, <3>2 DEF Walking
    <3>5. Counted' /\ Keyed'
      BY <2>1, <2>2, <2>5 DEF Counted, Due, Keyed
    <3> QED
      BY <3>3, <3>4, <3>5
  <2> QED
    BY <1>4, <2>4, <2>5 DEF LoginMade, LoginSent
<1>5. CASE AccountHandler \/ ParseRuns
  <2>1. /\ turn \in {"dispatch", "parse"} /\ turn' \in {"parse", "dead"} /\ queue # <<>> /\ Head(queue) = "account"
        /\ UNCHANGED <<frame, queue, awaiting, heart, errors, errCh, ran, given, installed>> /\ phase' = "idle"
    BY <1>5, HandlerFacts DEF AccountHandler, ParseRuns, Handles, At, Walking, Busy, ReadTypeOK, serializerVars, errors
  <2>2. Dispatched(frame)' = Dispatched(frame)
    BY <2>1 DEF Dispatched, Entries, Readable, Skipped
  <2>3. ReadTypeOK' /\ ErrorsHeard'
    BY <2>1 DEF ReadTypeOK, ErrorsHeard, errors
  <2>4. Walking'
    BY <2>1, <2>2 DEF Walking
  <2>5. Counted' /\ Keyed'
    BY <2>1, HandlerFacts DEF Counted, Due, Keyed, Busy
  <2> QED
    BY <2>3, <2>4, <2>5
<1>6. CASE SerializeRuns
  <2>1. /\ turn = "login" /\ turn' \in {"login", "dead"} /\ stage' = "idle"
        /\ UNCHANGED <<frame, queue, awaiting, heart, errors, errCh, ran, given, installed>>
    BY <1>6 DEF SerializeRuns, ReadTypeOK, parser, vars, errors
  <2>2. Dispatched(frame)' = Dispatched(frame)
    BY <2>1 DEF Dispatched, Entries, Readable, Skipped
  <2>3. ReadTypeOK' /\ ErrorsHeard'
    BY <2>1 DEF ReadTypeOK, ErrorsHeard, errors
  <2>4. Walking' /\ Counted' /\ Keyed'
    BY <2>1, <2>2 DEF Walking, Counted, Due, Keyed
  <2> QED
    BY <2>3, <2>4
<1> QED
  BY <1>1, <1>2, <1>3, <1>4, <1>5, <1>6

\* The key handler: what it installs is what was issued.
LEMMA KeyInv ==
  ASSUME IInv, NoKeyFound \/ KeyFound
  PROVE  IInv'
<1> USE DEF IInv
<1>1. Busy /\ turn = "dispatch" /\ Head(queue) = "key" /\ stage = "idle" /\ phase = "idle"
  BY DEF NoKeyFound, KeyFound, Handles, At, Busy, ReadTypeOK
<1>2. /\ queue # <<>> /\ frame \in Frames /\ Readable(frame)
      /\ AESKeys /\ frame.msg.cmd = "key" => ran = <<>> /\ installed = 0
      /\ frame.msg.cmd \in {"ticks", "symbols"} => ran # <<>>
  BY <1>1, HandlerFacts DEF Keyed
<1>3. ASSUME AESKeys, frame.msg.cmd = "key"
      PROVE  \/ frame.msg.n \in {16, 24, 32} /\ BodyLen = Delivered(SessionKeyOffset + frame.msg.n)
             \/ frame.msg.n = 0 /\ BodyLen = 11
  <2>1. frame.msg \in Messages /\ (frame.msg.body \in Nat => BodyLen = Delivered(frame.msg.body))
    BY <1>2, <1>3, FrameShapes DEF BodyLen
  <2>2. \/ frame.msg.n \in {16, 24, 32} /\ frame.msg.body = SessionKeyOffset + frame.msg.n
        \/ frame.msg.n = 0 /\ frame.msg.body = 1
    BY <1>3, <2>1, MessageShapes DEF AESKeys
  <2>3. Delivered(1) = 11
    BY DEF Delivered, BodyLength, padZero, MessageHeader, BlockSize
  <2> QED
    BY <2>1, <2>2, <2>3 DEF SessionKeyOffset
<1>4. ASSUME AESKeys, frame.msg.cmd = "key", HoldsKey
      PROVE  /\ frame.msg.n \in {16, 24, 32}
             /\ KeyAccepted(ExtractedKey(BodyLen)) <=> frame.msg.n = 32
             /\ frame.msg.n = 32 => InitKey(ExtractedKey(BodyLen)) = 32
  <2>1. frame.msg.n \in {16, 24, 32} /\ BodyLen = Delivered(SessionKeyOffset + frame.msg.n)
    BY <1>3, <1>4 DEF HoldsKey, SessionKeyOffset
  <2> QED
    BY <2>1, OnlyLongKeys
<1>5. AESKeys /\ frame.msg.cmd = "key" /\ frame.msg.n = 32 => HoldsKey
  <2>1. Delivered(98) = 107
    BY DEF Delivered, BodyLength, padZero, MessageHeader, BlockSize
  <2> QED
    BY <1>3, <2>1 DEF HoldsKey, SessionKeyOffset
<1>6. CASE NoKeyFound
  <2>1. (Return("key") \/ Raise("key")) /\ stage' = "idle" /\ phase' = "idle"
    BY <1>1, <1>6 DEF NoKeyFound, parser, vars, serializerVars
  <2>2. UNCHANGED <<frame, heart, given, installed>> /\ awaiting' \in BOOLEAN
    BY <1>6 DEF NoKeyFound, ReadTypeOK
  <2>3. AESKeys /\ frame.msg.cmd = "key" =>
          installed \in {0, frame.msg.n} /\ (frame.msg.n = 32 => installed = 32)
    BY <1>2, <1>4, <1>5, <1>6 DEF NoKeyFound, Candidate
  <2> QED
    BY <1>1, <2>1, <2>2, <2>3, PlainInv
<1>7. CASE KeyFound
  <2>1. /\ HoldsKey /\ KeyAccepted(ExtractedKey(BodyLen)) /\ installed' = InitKey(ExtractedKey(BodyLen))
        /\ awaiting' = FALSE /\ turn' = "login"
        /\ UNCHANGED <<frame, queue, heart, errCh, publishing, unheard, ran, given>> /\ stage' = "idle"
    BY <1>1, <1>7 DEF KeyFound, parser, vars, errors
  <2>2. installed' \in {16, 24, 32}
    BY <2>1 DEF KeyAccepted
  <2>3. ReadTypeOK' /\ ErrorsHeard'
    <3>1. installed' \in {0, 16, 24, 32}
      BY <2>2
    <3>2. ErrorsHeard'
      BY <2>1 DEF ErrorsHeard
    <3> QED
      BY <2>1, <3>1, <3>2 DEF ReadTypeOK
  <2>4. Dispatched(frame)' = Dispatched(frame)
    BY <2>1 DEF Dispatched, Entries, Readable, Skipped
  <2>5. Walking'
    BY <1>1, <1>2, <2>1, <2>4 DEF Walking
  <2>6. Counted'
    BY <1>1, <2>1 DEF Counted, Due
  <2>7. Keyed'
    BY <1>4, <2>1 DEF Keyed
  <2> QED
    BY <2>3, <2>5, <2>6, <2>7
<1> QED
  BY <1>6, <1>7

\* The heartbeat goroutine, publishError, and the application at the channel of errors.
LEMMA ErrorsInv ==
  ASSUME IInv, PingFails \/ HeartStops \/ Drain \/ (\E t \in Publishers : Report(t) \/ Offer(t))
  PROVE  IInv'
<1> USE DEF IInv
<1>1. /\ UNCHANGED <<parser, serializerVars, turn, frame, queue, awaiting, ran, given, installed>>
      /\ stage' = stage /\ phase' = phase
  BY DEF PingFails, HeartStops, Drain, Report, Offer, parser, vars, serializerVars
<1>2. Dispatched(frame)' = Dispatched(frame)
  BY <1>1 DEF Dispatched, Entries, Readable, Skipped
<1>3. Walking' /\ Counted' /\ Keyed'
  BY <1>1, <1>2 DEF Walking, Counted, Due, Keyed
<1>4. CASE PingFails
  <2>1. heart' = "gone" /\ errCh' = errCh /\ Fails("heart") /\ "heart" \in Publishers
    BY <1>4 DEF PingFails, Publishers
  <2> QED
    BY <1>1, <1>3, <2>1, FailsHeard DEF ReadTypeOK
<1>5. CASE HeartStops
  BY <1>1, <1>3, <1>5 DEF HeartStops, ReadTypeOK, ErrorsHeard, errors
<1>6. CASE Drain
  BY <1>1, <1>3, <1>6, ReadPathAssumption DEF Drain, ReadTypeOK, ErrorsHeard
<1>7. ASSUME NEW t \in Publishers, Report(t) PROVE IInv'
  BY <1>1, <1>3, <1>7 DEF Report, Told, ReadTypeOK, ErrorsHeard
<1>8. ASSUME NEW t \in Publishers, Offer(t) PROVE IInv'
  <2>1. errCh' \in 0..ErrorBuffer
    BY <1>8, ReadPathAssumption DEF Offer, Offered, ReadTypeOK
  <2> QED
    BY <1>1, <1>3, <1>8, <2>1 DEF Offer, ReadTypeOK, ErrorsHeard
<1> QED
  BY <1>4, <1>5, <1>6, <1>7, <1>8

\* The reader starts in the inductive invariant.
LEMMA ReadInitInv == ReadInit => IInv
<1> SUFFICES ASSUME ReadInit PROVE IInv
  OBVIOUS
<1>1. ReadTypeOK /\ ErrorsHeard
  BY ReadPathAssumption DEF ReadInit, Init, SerializerInit, ReadTypeOK, ErrorsHeard
<1>2. Dispatched(NoFrameYet) = <<>>
  BY DEF Dispatched, Readable, NoFrameYet, Unpacks, FrameHeader
<1>3. Walking
  <2>1. Len(<<>>) = 0 /\ <<>> \in Seq(Handlers)
    OBVIOUS
  <2> QED
    BY <1>2, <2>1 DEF ReadInit, Walking, NoFrameYet
<1>4. Counted /\ Keyed
  BY DEF ReadInit, Counted, Keyed, Stray, Message
<1> QED
  BY <1>1, <1>3, <1>4 DEF IInv

\* Every step of the read path keeps it.
LEMMA ReadStepInv == IInv /\ [ReadNext]_pathVars => IInv'
<1> SUFFICES ASSUME IInv, [ReadNext]_pathVars PROVE IInv'
  OBVIOUS
<1>1. "reader" \in Publishers /\ "heart" \in Publishers
  BY DEF Publishers
<1>2. CASE ReadNext
  BY <1>1, <1>2, ReceiveInv, RecordsInv, HandlersInv, KeyInv, ErrorsInv DEF ReadNext, Processing
<1>3. CASE UNCHANGED pathVars
  <2>1. UNCHANGED <<turn, frame, queue, awaiting, heart, publishing, errCh, ran, given, installed, unheard>>
        /\ stage' = stage /\ phase' = phase
    BY <1>3 DEF pathVars, readVars, vars, serializerVars
  <2>2. Dispatched(frame)' = Dispatched(frame)
    BY <2>1 DEF Dispatched, Entries, Readable, Skipped
  <2> QED
    BY <2>1, <2>2 DEF IInv, ReadTypeOK, ErrorsHeard, Walking, Counted, Due, Keyed
<1> QED
  BY <1>2, <1>3

-----------------------------------------------------------------------------
\* Types, for every number of records and errors.
THEOREM ReadTypes == ReadSpec => []ReadTypeOK
<1>1. IInv => ReadTypeOK
  BY DEF IInv
<1> QED
  BY ReadInitInv, ReadStepInv, <1>1, PTL DEF ReadSpec

\* No error is lost to OnError (app.go 62-64, client.go 589-602).
THEOREM NoErrorUnheard == ReadSpec => []ErrorsHeard
<1>1. IInv => ErrorsHeard
  BY DEF IInv
<1> QED
  BY ReadInitInv, ReadStepInv, <1>1, PTL DEF ReadSpec

\* No handler is left out because one before it failed (client.go 513-538).
THEOREM EveryHandlerRuns == ReadSpec => []AllHandlersRun
<1>1. IInv => AllHandlersRun
  <2> SUFFICES ASSUME IInv, turn = "read" PROVE ran = Dispatched(frame)
    BY DEF AllHandlersRun, At
  <2> DEFINE d == Dispatched(frame)
  <2>1. /\ ran \in Seq(Handlers) /\ queue = <<>> /\ Len(queue) = 0 /\ Len(ran) + Len(queue) = Len(d)
        /\ \A i \in 1..Len(ran) : ran[i] = d[i]
    BY DEF IInv, Walking
  <2>2. d \in Seq(Handlers)
    BY EntriesShape
  <2> HIDE DEF d
  <2>3. ran = d
    BY <2>1, <2>2, SeqEqual
  <2> QED
    BY <2>3 DEF d
<1> QED
  BY ReadInitInv, ReadStepInv, <1>1, PTL DEF ReadSpec

\* The handlers get the records the server wrote (tick.go 51, symbols.go 68-82).
THEOREM RecordsGiven == ReadSpec => []RecordsAsSent
<1>1. IInv => RecordsAsSent
  <2> SUFFICES ASSUME IInv, turn = "read", frame.msg.cmd \in {"ticks", "symbols"} PROVE given = Due
    BY DEF RecordsAsSent, Due
  <2>1. CASE ran # <<>>
    BY <2>1 DEF IInv, Counted
  <2>2. CASE ran = <<>>
    <3>1. queue = <<>> /\ Len(ran) + Len(queue) = Len(Dispatched(frame)) /\ Len(ran) = 0 /\ Len(queue) = 0
      BY <2>2 DEF IInv, Walking
    <3>2. frame \in Frames /\ frame.msg \in Messages /\ (frame.msg.body \in Nat => Readable(frame))
      BY FrameShapes DEF IInv, Walking, NoFrameYet, Stray, Message
    <3>3. frame.msg.body \in Nat
      BY <3>2, MessageShapes DEF TickSize, SymbolSize
    <3> QED
      BY <3>1, <3>2, <3>3, EntriesShape
  <2> QED
    BY <2>1, <2>2
<1> QED
  BY ReadInitInv, ReadStepInv, <1>1, PTL DEF ReadSpec

\* The key that is installed is the key that was issued (app.go 282-292, mtcrypto.go 14-27).
THEOREM IssuedKeyInstalled == ASSUME KeyLengths \subseteq {16, 24, 32} PROVE ReadSpec => []KeyAsIssued
<1>1. IInv => KeyAsIssued
  <2> SUFFICES ASSUME IInv, turn = "read", frame.msg.cmd = "key"
               PROVE  installed \in {0, frame.msg.n} /\ (frame.msg.n = 32 => installed = 32)
    BY DEF KeyAsIssued
  <2>1. CASE ran # <<>>
    BY <2>1 DEF IInv, Keyed, AESKeys
  <2>2. CASE ran = <<>>
    <3>1. queue = <<>> /\ Len(ran) + Len(queue) = Len(Dispatched(frame)) /\ Len(ran) = 0 /\ Len(queue) = 0
      BY <2>2 DEF IInv, Walking
    <3>2. frame \in Frames /\ frame.msg \in Messages /\ (frame.msg.body \in Nat => Readable(frame))
      BY FrameShapes DEF IInv, Walking, NoFrameYet, Stray, Message
    <3>3. frame.msg.body \in Nat
      <4>1. \/ frame.msg.n \in {16, 24, 32} /\ frame.msg.body = SessionKeyOffset + frame.msg.n
            \/ frame.msg.body = 1
        BY <3>2, MessageShapes
      <4> QED
        BY <4>1 DEF SessionKeyOffset
    <3> QED
      BY <3>1, <3>2, <3>3, EntriesShape
  <2> QED
    BY <2>1, <2>2
<1> QED
  BY ReadInitInv, ReadStepInv, <1>1, PTL DEF ReadSpec
=============================================================================
