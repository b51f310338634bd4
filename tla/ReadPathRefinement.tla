------------------------- MODULE ReadPathRefinement -------------------------
(***************************************************************************)
(* The read loop runs the account decoder and the field serializer as      *)
(* their modules say, so that what is proved of them alone holds of them   *)
(* in its hands; each of its steps brings it nearer to its socket; and     *)
(* complete answers and fitting login requests keep the process alive.     *)
(***************************************************************************)
EXTENDS ReadPathProofs, AccountDecoderProofs, FieldSerializerProofs

-----------------------------------------------------------------------------
(* The parts.                                                              *)

\* An account message has one of the server's answers in it.
LEMMA AnswerShapes ==
  ASSUME NEW m \in Messages, m.cmd = "account"
  PROVE  \E a \in Answers : m.body = a[1] /\ m.n = a[2]
BY DEF Messages, Message

\* A step of the reader is one of the decoder's and one of the serializer's, or leaves
\* them alone.
LEMMA PartsStep ==
  ASSUME IInv, [ReadNext]_pathVars
  PROVE  [Next]_vars /\ [SerializerNext]_serializerVars
<1>1. CASE AccountHandler
  <2>1. Busy /\ Head(queue) = "account" /\ UNCHANGED serializerVars
    BY <1>1 DEF AccountHandler, Handles, At, Busy
  <2>2. frame.msg \in Messages /\ frame.msg.cmd = "account"
    BY <2>1, HandlerFacts, FrameShapes
  <2>3. PICK a \in Answers : frame.msg.body = a[1] /\ frame.msg.n = a[2]
    BY <2>2, AnswerShapes
  <2>4. StartParse(a[1], a[2])
    BY <1>1, <2>3 DEF AccountHandler
  <2> QED
    BY <2>1, <2>4 DEF Next
<1>2. CASE ParseRuns
  BY <1>2 DEF ParseRuns, Next
<1>3. CASE AccountGiven
  BY <1>3 DEF AccountGiven, Next
<1>4. CASE KeyFound
  BY <1>4 DEF KeyFound, SerializerNext, parser
<1>5. CASE SerializeRuns
  BY <1>5 DEF SerializeRuns, SerializerNext, parser
<1>6. CASE LoginMade \/ LoginSent
  BY <1>6 DEF LoginMade, LoginSent, SerializerNext, parser
<1>7. CASE TickHandler \/ SymbolHandler \/ AckHandler \/ NoKeyFound \/ AppHandler
  BY <1>7 DEF TickHandler, SymbolHandler, AckHandler, NoKeyFound, AppHandler, parser
<1>8. CASE Receive \/ ReadFails \/ PingFails \/ HeartStops \/ Drain
           \/ (\E t \in Publishers : Report(t) \/ Offer(t))
  BY <1>8 DEF Receive, ReadFails, PingFails, HeartStops, Drain, Report, Offer, parser
<1>9. CASE UNCHANGED pathVars
  BY <1>9 DEF pathVars
<1> QED
  BY <1>1, <1>2, <1>3, <1>4, <1>5, <1>6, <1>7, <1>8, <1>9 DEF ReadNext, Processing, Publishers

\* The decoder in the hands of the read loop behaves like the decoder alone: each body it
\* is given is that of an answer, and nothing else moves its cursor (account.go 256-571).
THEOREM DecoderImplemented == ReadSpec => Spec
<1>1. ReadInit => Init
  BY DEF ReadInit
<1>2. IInv /\ [ReadNext]_pathVars => [Next]_vars
  BY PartsStep
<1> QED
  BY <1>1, <1>2, ReadInitInv, ReadStepInv, PTL DEF ReadSpec, Spec

\* So does the serializer of the login request (ec.go 19-184, actions.go 91-98).
THEOREM SerializerImplemented == ReadSpec => SerializerSpec
<1>1. ReadInit => SerializerInit
  BY DEF ReadInit
<1>2. IInv /\ [ReadNext]_pathVars => [SerializerNext]_serializerVars
  BY PartsStep
<1> QED
  BY <1>1, <1>2, ReadInitInv, ReadStepInv, PTL DEF ReadSpec, SerializerSpec

\* What holds of the parts alone holds of them in the read loop.
COROLLARY PartsInReadPath ==
  ReadSpec => [](TypeOK /\ OnLayout /\ SerializerTypeOK /\ InPlace /\ NumbersSurvive)
BY DecoderImplemented, SerializerImplemented, TypeCorrect, CursorOnLayout, SerializerTypes,
   WrittenInPlace, DataSurvives, PTL

-----------------------------------------------------------------------------
(* Every step of the reader brings it nearer to its socket.                *)

\* Work gets less if a component does and those before it stay.
LEMMA BelowFrom ==
  ASSUME NEW q1, NEW d1, NEW p1, NEW l1, NEW f1, NEW r1,
         NEW q2, NEW d2, NEW p2, NEW l2, NEW f2, NEW r2,
         \/ q2 < q1
         \/ q2 = q1 /\ d2 < d1
         \/ q2 = q1 /\ d2 = d1 /\ p2 < p1
         \/ q2 = q1 /\ d2 = d1 /\ p2 = p1 /\ l2 < l1
         \/ q2 = q1 /\ d2 = d1 /\ p2 = p1 /\ l2 = l1 /\ f2 < f1
         \/ q2 = q1 /\ d2 = d1 /\ p2 = p1 /\ l2 = l1 /\ f2 = f1 /\ r2 < r1
  PROVE  Below(<<q2, d2, p2, l2, f2, r2>>, <<q1, d1, p1, l1, f1, r1>>)
<1> DEFINE v == <<q2, d2, p2, l2, f2, r2>>
           w == <<q1, d1, p1, l1, f1, r1>>
<1>1. /\ v[1] = q2 /\ v[2] = d2 /\ v[3] = p2 /\ v[4] = l2 /\ v[5] = f2 /\ v[6] = r2
      /\ w[1] = q1 /\ w[2] = d1 /\ w[3] = p1 /\ w[4] = l1 /\ w[5] = f1 /\ w[6] = r1
  OBVIOUS
<1> HIDE DEF v, w
<1>2. SUFFICES \E i \in 1..6 : v[i] < w[i] /\ \A j \in 1..(i - 1) : v[j] = w[j]
  BY DEF Below, v, w
<1>3. CASE q2 < q1
  BY <1>1, <1>3
<1>4. CASE q2 = q1 /\ d2 < d1
  BY <1>1, <1>4
<1>5. CASE q2 = q1 /\ d2 = d1 /\ p2 < p1
  BY <1>1, <1>5
<1>6. CASE q2 = q1 /\ d2 = d1 /\ p2 = p1 /\ l2 < l1
  BY <1>1, <1>6
<1>7. CASE q2 = q1 /\ d2 = d1 /\ p2 = p1 /\ l2 = l1 /\ f2 < f1
  BY <1>1, <1>7
<1>8. CASE q2 = q1 /\ d2 = d1 /\ p2 = p1 /\ l2 = l1 /\ f2 = f1 /\ r2 < r1
  BY <1>1, <1>8
<1> QED
  BY <1>3, <1>4, <1>5, <1>6, <1>7, <1>8

\* The handlers that end take one from the queue.
LEMMA HandlersAdvance ==
  ASSUME IInv, Busy, NEW h, Return(h) \/ Raise(h)
  PROVE  Below(Work', Work)
<1>1. queue \in Seq(Handlers) /\ queue # <<>> /\ queue' = Tail(queue)
  BY HandlerFacts DEF IInv, Walking, Return, Raise, Finish, AfterError
<1>2. Len(queue') < Len(queue)
  BY <1>1
<1> QED
  BY <1>2, BelowFrom DEF Work

\* A step of the decoder: a field, a record or a part less.
LEMMA ParserAdvances ==
  ASSUME IInv, TypeOK, ParseRuns
  PROVE  Below(Work', Work)
<1>1. /\ turn = "parse" /\ turn' # "dispatch" /\ phase = "idle" /\ phase' = "idle"
      /\ queue' = queue /\ left \in Nat /\ Len(Core) = 26 /\ Len(Settings) = 38
  BY LayoutSizes DEF ParseRuns, IInv, ReadTypeOK, serializerVars, TypeOK
<1>2. \/ Passes' < Passes
      \/ Passes' = Passes /\ left' < left
      \/ Passes' = Passes /\ left' = left /\ FieldsLeft' < FieldsLeft
  <2>1. CASE CoreField
    <3>1. stage = "core" /\ field \in 1..26
      BY <1>1, <2>1 DEF CoreField, TypeOK
    <3>2. \/ stage' = "core" /\ field' = field + 1 /\ left' = left
          \/ stage' \in {"count", "panic"}
      BY <1>1, <2>1, <3>1 DEF CoreField
    <3> QED
      BY <1>1, <3>1, <3>2 DEF Passes, FieldsLeft
  <2>2. CASE SettingsField
    <3>1. stage = "settings" /\ field \in 1..38 /\ left > 0
      BY <1>1, <2>2 DEF SettingsField, TypeOK
    <3>2. \/ stage' = "settings" /\ field' = field + 1 /\ left' = left
          \/ stage' = "settings" /\ left' = left - 1
          \/ stage' \in {"O", "panic"}
      BY <1>1, <2>2, <3>1 DEF SettingsField, AfterRecord
    <3> QED
      BY <1>1, <3>1, <3>2 DEF Passes, FieldsLeft
  <2>3. CASE ReadCount
    <3>1. stage = "count" /\ stage' \in {"settings", "O", "panic"}
      BY <2>3 DEF ReadCount, Panic
    <3> QED
      BY <1>1, <3>1 DEF Passes
  <2>4. CASE ReadValue("O", 4, "N") \/ ReadValue("N", 4, "C") \/ ReadValue("C", 8, "done")
    <3>1. \/ stage = "O" /\ stage' \in {"N", "panic"}
          \/ stage = "N" /\ stage' \in {"C", "panic"}
          \/ stage = "C" /\ stage' \in {"done", "panic"}
      BY <2>4 DEF ReadValue, Panic
    <3> QED
      BY <1>1, <3>1 DEF Passes
  <2> QED
    BY <2>1, <2>2, <2>3, <2>4 DEF ParseRuns, ParseStep
<1> QED
  BY <1>1, <1>2, BelowFrom DEF Work

\* A step of the serializer: a field or a pass less.
LEMMA SerializerAdvances ==
  ASSUME IInv, SerializerTypeOK, SerializeRuns
  PROVE  Below(Work', Work)
<1>1. /\ turn = "login" /\ turn' # "dispatch" /\ stage = "idle" /\ stage' = "idle"
      /\ queue' = queue /\ left' = left /\ Len(fields) \in Nat /\ at \in 1..(Len(fields) + 1)
      /\ fields' = fields
  BY DEF SerializeRuns, IInv, ReadTypeOK, parser, vars, SerializerTypeOK, SerializerStep,
         SizeField, Allocate, WriteField, Serialized
<1>2. \/ phase = "size" /\ phase' = "size" /\ at' = at + 1
      \/ phase = "write" /\ phase' = "write" /\ at' = at + 1
      \/ phase = "size" /\ phase' \in {"error", "write"}
      \/ phase = "write" /\ phase' \in {"error", "panic", "done"}
  BY DEF SerializeRuns, SerializerStep, SizeField, Allocate, WriteField, Serialized
<1>3. \/ Passes' < Passes
      \/ Passes' = Passes /\ FieldsLeft' < FieldsLeft
  BY <1>1, <1>2 DEF Passes, FieldsLeft
<1> QED
  BY <1>1, <1>3, BelowFrom DEF Work

\* publishError goes through its two steps, and nothing else moves meanwhile.
LEMMA PublishAdvances ==
  ASSUME IInv, Report("reader") \/ Offer("reader")
  PROVE  Below(Work', Work)
<1>1. /\ UNCHANGED <<parser, serializerVars, turn, queue>>
      /\ \/ publishing["reader"] = "report" /\ publishing'["reader"] = "offer"
         \/ publishing["reader"] = "offer" /\ publishing'["reader"] = "no"
  BY DEF IInv, ReadTypeOK, Report, Offer, Publishers
<1>2. Passes' = Passes /\ FieldsLeft' = FieldsLeft /\ left' = left
  BY <1>1 DEF Passes, FieldsLeft, parser, vars, serializerVars
<1> QED
  BY <1>1, <1>2, BelowFrom DEF Work

\* The login request is taken to SendCommand: a pass less.
LEMMA LoginAdvances ==
  ASSUME IInv, LoginMade, turn' = "send", queue' = queue
  PROVE  Below(Work', Work)
<1>1. turn = "login" /\ phase \in {"done", "error"} /\ phase' = "idle"
  BY DEF LoginMade, TakeRequest
<1>2. stage' = stage
  BY DEF LoginMade, parser, vars
<1>3. Passes' < Passes
  BY <1>1, <1>2 DEF Passes
<1> QED
  BY <1>1, <1>3, BelowFrom DEF Work

\* Every step of Processing gets on, and so does the end of the write.
LEMMA ProcessingAdvances ==
  ASSUME IInv, TypeOK, SerializerTypeOK, Processing \/ LoginSent
  PROVE  Below(Work', Work)
<1>1. CASE AccountHandler \/ KeyFound
  <2>1. turn = "dispatch" /\ turn' # "dispatch" /\ queue' = queue
    BY <1>1 DEF AccountHandler, KeyFound, Handles, At
  <2> QED
    BY <2>1, BelowFrom DEF Work
<1>2. CASE TickHandler \/ SymbolHandler \/ AckHandler \/ NoKeyFound \/ AppHandler
  <2>1. Busy /\ \E h \in Handlers : Return(h) \/ Raise(h)
    BY <1>2 DEF TickHandler, SymbolHandler, AckHandler, NoKeyFound, AppHandler, Handles, At, Busy, Handlers
  <2> QED
    BY <2>1, HandlersAdvance
<1>3. CASE AccountGiven \/ LoginSent
  <2>1. Busy /\ \E h \in Handlers : Return(h) \/ Raise(h)
    BY <1>3 DEF AccountGiven, LoginSent, Busy, Handlers
  <2> QED
    BY <2>1, HandlersAdvance
<1>4. CASE LoginMade
  <2>1. CASE Raise("key")
    BY <1>4, <2>1, HandlersAdvance DEF LoginMade, Busy
  <2>2. CASE turn' = "send" /\ queue' = queue
    BY <1>4, <2>2, LoginAdvances
  <2> QED
    BY <1>4, <2>1, <2>2 DEF LoginMade
<1> QED
  BY <1>1, <1>2, <1>3, <1>4, ParserAdvances, SerializerAdvances, PublishAdvances DEF Processing

\* The other goroutines do not touch the reader's work.
LEMMA OthersKeepWork ==
  ASSUME IInv, [ReadNext]_pathVars, ~Processing, ~LoginSent, ~At("read")
  PROVE  Work' = Work
<1>1. PingFails \/ HeartStops \/ Drain \/ Report("heart") \/ Offer("heart") \/ UNCHANGED pathVars
  BY DEF ReadNext, Receive, ReadFails
<1>2. UNCHANGED <<parser, serializerVars, turn, queue>>
  BY <1>1 DEF PingFails, HeartStops, Drain, Report, Offer, pathVars, readVars, parser
<1>3. publishing'["reader"] = publishing["reader"]
  <2>1. publishing \in [Publishers -> {"no", "report", "offer"}] /\ "reader" \in Publishers
    BY DEF IInv, ReadTypeOK, Publishers
  <2>2. \/ publishing' = publishing
        \/ \E x \in {"no", "report", "offer"} : publishing' = [publishing EXCEPT !["heart"] = x]
    BY <1>1 DEF PingFails, HeartStops, Drain, Report, Offer, Fails, errors, pathVars, readVars
  <2> QED
    BY <2>1, <2>2
<1> QED
  BY <1>2, <1>3 DEF Work, Passes, FieldsLeft, parser, vars, serializerVars

\* Whatever the messages, the layouts and the lists are, and however many errors are under
\* way, the reader gets nearer to its socket with each of its steps (client.go 491-538).
THEOREM EveryStepAdvances == ReadSpec => ReaderAdvances
<1>1. IInv /\ TypeOK /\ SerializerTypeOK /\ [ReadNext]_pathVars =>
        [IF Processing \/ LoginSent THEN Below(Work', Work)
         ELSE At("read") \/ Work' = Work]_pathVars
  BY ProcessingAdvances, OthersKeepWork
<1> QED
  BY <1>1, PartsInReadPath, ReadInitInv, ReadStepInv, PTL DEF ReadSpec, ReaderAdvances

-----------------------------------------------------------------------------
(* What keeps the process alive.                                           *)

\* The server sends an account with all the parts the code parses, or too little for one.
WholeAnswers ==
  /\ Parts \subseteq {4}
  /\ \A s \in ShortBodies : Delivered(s) <= CoreSize

\* The login requests whose texts fit their fields.
FittingLogins ==
  {list \in LoginRequests :
     \A i \in 1..Len(list) : list[i].type = UTF16 => 2 * list[i].units <= list[i].length}

\* What the decoder has in hand the server sent.
AnswerInHand == stage # "idle" => <<sent, count>> \in Answers

\* It takes up an answer of the server and keeps it to the end of the parse.
LEMMA AnswerKept == AnswerInHand /\ [Next]_vars => AnswerInHand'
<1> SUFFICES ASSUME AnswerInHand, [Next]_vars PROVE AnswerInHand'
  OBVIOUS
<1>1. ASSUME NEW a \in Answers, StartParse(a[1], a[2]) PROVE AnswerInHand'
  <2>1. a = <<a[1], a[2]>>
    BY DEF Answers
  <2> QED
    BY <1>1, <2>1 DEF StartParse, AnswerInHand
<1>2. CASE ParseStep
  <2>1. stage # "idle" /\ sent' = sent /\ count' = count
    BY <1>2 DEF ParseStep, CoreField, ReadCount, SettingsField, ReadValue, Panic
  <2> QED
    BY <2>1 DEF AnswerInHand
<1>3. CASE TakeAccount
  BY <1>3 DEF TakeAccount, AnswerInHand
<1>4. CASE UNCHANGED vars
  BY <1>4 DEF vars, AnswerInHand
<1> QED
  BY <1>1, <1>2, <1>3, <1>4 DEF Next

\* Whole answers are complete, or too short for an account.
LEMMA WholeOrShort ==
  ASSUME WholeAnswers, TypeOK, AnswerInHand, stage # "idle"
  PROVE  Complete \/ sent \in ShortBodies
<1>1. PICK a \in Answers : sent = a[1] /\ count = a[2]
  BY DEF AnswerInHand
<1>2. CASE sent \notin ShortBodies
  <2>1. PICK n \in Counts, m \in Nested \cup {0} : sent = FullSize(4, n) + m /\ count = n
    <3>1. \/ \E n \in Counts : sent = FullSize(4, n) /\ count = n
          \/ \E n \in Counts, m \in Nested : sent = FullSize(4, n) + m /\ count = n
      BY <1>1, <1>2 DEF Answers, WholeAnswers
    <3>2. \A n \in Counts : FullSize(4, n) + 0 = FullSize(4, n)
      BY DecoderAssumption DEF FullSize, CoreSize, SettingsSize
    <3> QED
      BY <3>1, <3>2
  <2>2. n \in Nat /\ m \in Nat
    BY DecoderAssumption
  <2>3. FullSize(4, n) \in Nat
    BY <2>2 DEF FullSize, CoreSize, SettingsSize
  <2> QED
    BY <2>1, <2>2, <2>3 DEF Complete
<1> QED
  BY <1>2

\* Only fitting lists are ever in hand.
LEMMA TextsStayFitting ==
  ASSUME Lists \subseteq FittingLogins
  PROVE  TextsFit /\ [SerializerNext]_serializerVars => TextsFit'
BY DEF SerializerNext, SerializerStep, StartSerialize, SizeField, Allocate, WriteField, Serialized,
       TakeRequest, serializerVars, TextsFit, FittingLogins

\* The reader dies of a panic of the decoder or the serializer, and of nothing else.
DiesOfPanic == turn = "dead" => stage = "panic" \/ phase = "panic"

\* Nothing but such a panic ends the reader in "dead".
LEMMA DeathHasCause == DiesOfPanic /\ [ReadNext]_pathVars => DiesOfPanic'
<1> SUFFICES ASSUME DiesOfPanic, [ReadNext]_pathVars PROVE DiesOfPanic'
  OBVIOUS
<1>1. CASE ParseRuns \/ SerializeRuns
  BY <1>1 DEF ParseRuns, SerializeRuns, DiesOfPanic
<1>2. CASE \E h \in Handlers : Return(h) \/ Raise(h)
  BY <1>2 DEF Return, Raise, Finish, DiesOfPanic
<1>3. CASE TickHandler \/ SymbolHandler \/ AckHandler \/ NoKeyFound \/ AppHandler \/ AccountGiven
           \/ LoginMade \/ LoginSent
  BY <1>2, <1>3 DEF TickHandler, SymbolHandler, AckHandler, NoKeyFound, AppHandler, AccountGiven,
                    LoginMade, LoginSent, Handlers, DiesOfPanic
<1>4. CASE Receive \/ ReadFails \/ AccountHandler \/ KeyFound
  BY <1>4 DEF Receive, ReadFails, AccountHandler, KeyFound, DiesOfPanic
<1>5. CASE PingFails \/ HeartStops \/ Drain \/ (\E t \in Publishers : Report(t) \/ Offer(t))
  <2>1. UNCHANGED <<turn, parser, serializerVars>>
    BY <1>5 DEF PingFails, HeartStops, Drain, Report, Offer
  <2> QED
    BY <2>1 DEF DiesOfPanic, parser, vars, serializerVars
<1>6. CASE UNCHANGED pathVars
  BY <1>6 DEF pathVars, readVars, vars, serializerVars, DiesOfPanic
<1> QED
  BY <1>1, <1>3, <1>4, <1>5, <1>6 DEF ReadNext, Processing, Publishers

\* If the server's answers are whole and the two texts of the application fit, no sequence
\* of messages, errors and lost connections makes the read loop panic, for any number of
\* records and frames of any length (client.go 452-538, account.go 456-571, ec.go 19-184).
THEOREM ReaderSurvives ==
  ASSUME WholeAnswers, Lists \subseteq FittingLogins
  PROVE  ReadSpec => [](turn # "dead")
<1>1. Spec => []CompleteIsRead
  BY CompleteAnswersRead DEF WholeAnswers
<1>2. SerializerSpec => []FittingRequestIsExact
  BY LoginIsExact DEF FittingLogins
<1>3. ReadInit => AnswerInHand /\ TextsFit /\ DiesOfPanic
  BY DEF ReadInit, Init, SerializerInit, AnswerInHand, TextsFit, DiesOfPanic
<1>4. IInv /\ [ReadNext]_pathVars => [Next]_vars /\ [SerializerNext]_serializerVars
  BY PartsStep
<1>5. AnswerInHand /\ [Next]_vars => AnswerInHand'
  BY AnswerKept
<1>6. TextsFit /\ [SerializerNext]_serializerVars => TextsFit'
  BY TextsStayFitting
<1>7. DiesOfPanic /\ [ReadNext]_pathVars => DiesOfPanic'
  BY DeathHasCause
<1>8. AnswerInHand /\ TextsFit /\ DiesOfPanic /\ TypeOK /\ CompleteIsRead /\ FittingRequestIsExact
        => turn # "dead"
  <2> SUFFICES ASSUME AnswerInHand, TextsFit, DiesOfPanic, TypeOK, CompleteIsRead,
                      FittingRequestIsExact, turn = "dead"
               PROVE  FALSE
    OBVIOUS
  <2>1. phase # "panic"
    BY DEF FittingRequestIsExact, TextsFit
  <2>2. stage = "panic"
    BY <2>1 DEF DiesOfPanic
  <2> QED
    BY <2>2, WholeOrShort DEF CompleteIsRead
<1> QED
  BY <1>1, <1>2, <1>3, <1>4, <1>5, <1>6, <1>7, <1>8, DecoderImplemented, SerializerImplemented,
     PartsInReadPath, ReadInitInv, ReadStepInv, PTL DEF ReadSpec
=============================================================================
