# A verification project for mt5

`mt5` is a Go client for a trading server that speaks a binary protocol over a
WebSocket. This directory holds TLA+ modules that model it, TLC configurations
that check them on small instances, and proofs that TLAPS checks for every
instance. Line numbers below are those of the Go files.

## 1. The system

| Component | State | Operations | Works with |
|---|---|---|---|
| `Client`, connection (`client.go`) | `conn`, `closed`/`closeCh` under `mu`; `writeMu`; Run's locals `attempt`, `connectedOnce`, `heartbeatDone` | `Connect`, `Run`, `readLoop`, `heartbeatLoop`, `Send`, `SendCommand`, `Close`, `closeConn`, `shouldRetry`, `waitBackoff` | one goroutine in `Run`, one heartbeat per connection, any number in `Send` and `Close`; gorilla/websocket; user hooks |
| `Client`, registry (`client.go`) | `handlers`, `onAny` under `handlersMu`; `errCh` | `On`, `OnAny`, their cancel functions, `dispatch`, `publishError` | handlers run in the read loop; errors go to `OnError` and a lossy channel |
| `AppClient`, session (`app.go`, `actions.go`) | `authenticated`, `sessionKeyLoaded`, `awaitingKey` under `mu` | `Start`, `handleSessionKeyMessage`, `handleLoginAck`, `handleLoginSuccess`, `Login`, `SetUnauthenticated`, `Request*` | handlers on the Client; the Client's cipher |
| Cipher (`crypto.go`, `internal/mtcrypto`, `internal/mthelpers`) | `DefaultCrypto.block` under its own lock | `SetKey`, `Encrypt`, `Decrypt`, zero padding, `InitKey` | called by every `SendCommand` and by the read loop |
| Account query (`account.go`) | a handler, a channel of one place, a context per call | `GetAccountInfo`, `RequestAccountInfo`, `RegisterAccountInfoHandler` | registry, read loop |
| Codec (`codec.go`, `internal/serl`) | none | `EncodeCommand`, `Pack`, `Unpack`, `ParseMessage` | cipher |
| Field serializer (`internal/ec`, `internal/login`) | none | `Serialize`, `seriesSize`, the login fields | `Login` |
| Decoders (`account.go`, `symbols.go`, `tick.go`) | none | `ParseAccountInfo`, `parseFields`, `DecodeSymbols`, `DecodeTicks` | message bodies, zero padding included |
| `commands.go`, `errors.go`, `doc.go` | none | constants and error types | |

What makes it correct, component by component:

- *Connection.* No socket and no heartbeat goroutine is lost, and no socket closed
  twice, whichever of `Connect`, `Run` and `Close` meets whichever; a closed client stays
  disconnected; a retry limit is a limit; a heartbeat belongs to its connection;
  `Close` ends `Run` although reads, writes and `writeMu` may block for ever.
- *Registry and account query.* A handler is registered exactly as long as its
  call lives and hears every message of that time; a call ends when its context
  does; a call must not block the read loop; a call gets its own answer. A handler
  that fails takes nothing from the others, and no error is lost to `OnError`.
- *Session.* Flags, cipher and the server's decisions agree at every moment,
  through pushes, rejections, disconnects and restarts; on each connection key,
  login and answer follow.
- *Cipher, codec, decoders.* What is written is what is read back; the zero padding of
  AES-CBC is never taken for data; a cursor stays on the layout and in the body.
- *Serializer.* The pass that measures and the pass that writes agree, and no field is
  written over another.

What is hard: `Send`, `closeConn` and `dispatch` each take a snapshot under a
lock and act on it after unlocking; goroutines outlive the connection they were
started for; three paths leave `Connect` after the connection is already
installed; handlers run inside the read loop and may block it; nothing resets the
session when a connection is replaced; padding is never removed, so that every decoder
has to know where its data ends. `PROJECT.json` lists these hazards line by
line with the properties that catch them.

## 2. The modules

| Module | Models | State and actions |
|---|---|---|
| `ClientLifecycle` | what the client promises about being connected | `closed`, `linked`, `run`: run, link, unlink, close, return |
| `Client` | `Run`, `Connect`, `readLoop`, `heartbeatLoop`, `Send`, `SendCommand`, `Close`, `closeConn` | below |
| `Session` | `AppClient` and the cipher over connections that come and go, with an external server | below |
| `Query` | what `GetAccountInfo` promises its caller | `call`, `answer`, `opened`, `news`: open, publish, return |
| `AccountQuery` | `GetAccountInfo` over `On`/cancel and `dispatch`, from goroutines and from handlers | below |
| `Framing` | lengths on the wire: padding, frame, command and message headers, key, tick and symbol sizes | operators |
| `Fields` | `ec.Field`: property types, widths, Go types | operators |
| `AccountDecoder` | `ParseAccountInfo` and `parseFields` | below |
| `FieldSerializer` | `Serialize`, `seriesSize` and the login request | below |
| `ReadPath` | one message through `readLoop`, `dispatch`, the handlers and `publishError`; composes the two modules before it and `Framing` | below |
| `ClientProofs`, `SessionProofs`, `AccountQueryProofs`, `FramingProofs`, `AccountDecoderProofs`, `FieldSerializerProofs`, `ReadPathProofs` | theorems about the module they are named after | section 5 |
| `ReadPathRefinement` | theorems that compose the last three of these | section 5 |
| `MCClient`, `MCSession`, `MCAccountQuery`, `MCAccountDecoder`, `MCFieldSerializer`, `MCReadPath` | definitions and symmetry for TLC | |

`Client`, `Session` and `ReadPath` look at the same read loop from three sides and keep
what the others leave out. In `Client` a message is one step and the point is who holds
which socket; in `Session` it has a key and the point is the order of keys and logins; in
`ReadPath` it has a length, a list of handlers and errors, and the connection is one.

**Client.** A step is one critical section of `mu` or `writeMu`, one channel
operation, one blocking library call, or one user callback. `pc` is where the
goroutine in `Run` is, from `connect` through `dial`, `install`, `keyreq`,
`onconnect` to the read loop (`read`, `load`, `recv`, `handle`), then `drop`,
`closing`, `retry`, `backoff`, and `done`. `Send` and `closeConn` are called by
every goroutine, so they are a small machine of their own: `op[t]` is where
goroutine `t` is in such a call and `held[t]` is the `conn` it has read under `mu`
and uses after unlocking. Callers start it by setting `op` and go on when it says
`ok` or `fail`.

- `sock` is the WebSocket library's side of a connection: `broken` is the
  network's doing, `closed` is `conn.Close()`. A read or write on an open
  connection may block for ever, a read of a dead one may first return frames that
  were buffered, and a write to a broken one may still be accepted by the kernel.
- `redials` is a history variable: calls of `Connect` since the last usable
  connection.
- A heartbeat is named by the connection it was started for: one is started per
  established connection, and a connection is never established twice.
- The context is read only by `Run` and what it calls, so that a dial that
  succeeds as the context is cancelled is the same as a context cancelled right
  after it: `DialOK` requires `~ctxDone`.
- Sends by a handler are one `Send` per message (`ReadAndSend`). A callback that
  calls `Close` is a closer of its own that runs at that moment. `OnDisconnect`
  and `OnError` change nothing in the client and are not steps.

**Session.** The connection is `up` or not; the point of the module is which key
is in force when. `frame[t]` is what goroutine `t` has encrypted and not yet
written, since `SendCommand` encrypts before it takes `writeMu`. A key is the
number of the connection the server issued it on, 0 the default key; `Short` and `Junk`
are bodies that reach `SessionKeyOffset` and hold no key, of a length that `SetKey`
rejects or takes. `Decrypted` turns a message under
another key into noise, which the dispatcher may hand to the key handler (it is
registered with `OnAny`), and which no other handler looks at. The server is
external and does what this code expects: on a new connection it speaks the
default key (`NewApp` starts from it), answers a key request under the key in use
with a key it then changes to or with a short refusal, accepts or rejects a login under either of the
two commands `app.go` handles, pushes messages after accepting one, and cannot
read a frame under another key.

**AccountQuery.** A call is one execution of `GetAccountInfo`. `handlers` is the
slice in the registry, `snapshot` the copy `dispatch` walks, `ch[u]` the channel of
one place. A call registers, looks at `closed` (`Send`), and then is in `"send"`, waiting for
`writeMu` or in `WriteMessage`, where it looks at no context, until the frame is
written (`Request`) or the write fails. The read loop looks at `closeCh` (`ReadTop`) and
then waits for a message (`"recv"`), so that after `Close` it dispatches at most the one it
waits for. `Deliver` is a handler running in the read loop: it is blocked while
`ch[u]` is full, and it runs for a call that has cancelled it since the snapshot.
The n-th request is answered by the n-th message or never; a message that cannot
be decoded takes the same way through `WithErrorHandler`. A call of `HandlerCalls` may
be made by a handler of another command: the read loop is then `reader = "handler"`
until the calls in `inner` are done, and reads no answer meanwhile. It implements `Query`:
a call is open from its registration to the `select` it leaves by, `news` is the last
message dispatched, and a call returns once, with an error or with news from after it was
opened. That the news answers its own request is not promised (`account_own`).

**AccountDecoder.** One step reads one field or one word. `offset` is the cursor and
`len` the length of the body, padding included, as `Framing` computes it from the
`sent` bytes the server wrote; `Core` and `Settings` are the lengths of the two field
lists of `ParseAccountInfo`. All cases of `parseFields` move the cursor alike
(`Advance`); `readUint32` and its like panic on too few bytes (`Panic`). `pos` is a
history variable: where the layout puts what is read next. The server is external: it
answers with a body too short for an account, or with the account and some or all of
the parts the code tests for, and with the nested arrays the code leaves unparsed.
`StartParse` and `TakeAccount` are the call and the return, so that the decoder can run
on its own and inside `ReadPath`.

**FieldSerializer.** One step is one turn of one of the two loops: `SizeField` of
`seriesSize`, `WriteField` of `Serialize`. `size` and `place` are what each has come to,
`starts` remembers where the first pass put each field, and `buf` says for each byte
which field wrote it last, which is all the properties ask of a byte. `Declared`,
`Stored` and `AdvanceBy` are the three lengths the code has for one field: what it sets
aside, what it writes, and how far it moves on; a text is written in full whatever its
`PropLength`. A write past the buffer is a panic, except `copy`, which stops. Texts
are counted in code units and bytes, which differ. `GenerateLoginFields` is the
request of `internal/login` with the application's two texts.

**ReadPath.** `turn` is what the reader is doing: `read`, `dispatch`, in a decoder
(`parse`), making the login request (`login`) or writing it (`send`), `stopped`, or `dead`
of a panic. `Receive`
chooses a frame of the server, applies the length checks of `Unpack`, `Decrypt` and
`ParseMessage`, and puts the handlers of its command and of any in `queue`; each handler
action ends in `Return` or `Raise`, and `Raise` goes to the handler's own callback
(`Own`) or to `publishError`, which is two steps (`Report` calls `OnError`, `Offer` is the
`select` on the channel) that the reader and the heartbeat goroutine run at once. The
handlers are those `NewApp` registers, the three decoders, and one of the application
that may fail. The frames are every kind of message with 0 to `MaxRecords` records, keys
of the lengths AES has, symbol lists that announce one symbol too many, refusals, and
strays that hold no message.

## 3. Runs

| Run | Instance | Shows |
|---|---|---|
| `client_safety` | 2 connections, 2 senders, 1 closer, `ReconnectMaxAttempts` 1, `AutoRequestKey` | the safety properties of `Client`, no socket lost or closed twice among them, that after `Close` every step of `Run` leads towards its return, and that it implements `ClientLifecycle` |
| `client_live` | 1 connection, 1 sender, 1 closer, unlimited attempts | `Close` ends `Run`; a `Run` that ended leaves nothing behind; a broken connection is dropped; a cancelled context ends `Run` if the peer sends and reads |
| `session` | 2 connections, 1 caller, 2 frames in flight each way | keys and verdicts agree; no secret under the built-in key; the negotiation stands still in one situation only; the first connection negotiates to the end |
| `account` | 2 overlapping calls, one of which a handler may make | no handler leaks, none is skipped by a dispatch, that it implements `Query`; a cancelled call returns, and frees the read loop if the peer reads its request |
| `read_path` | the real lengths; 0 to 2 records, keys of 16, 24 and 32 bytes, answers with every number of parts, six login requests, an error channel of 1 | every handler runs, every error is told, nothing in the padding becomes data, cursors stay on their layouts, every step of the reader leads back to its socket, the reader comes back if the peer reads its login |

Seven runs end in a counterexample, each to a sentence of the documentation (section
6): `client_quiet`, `client_reconnect`, `session_again`, `account_stuck`,
`account_own`, `decoder_panic`, `login_overlong`.

Why the bounds are enough. Two connections are what it takes for a goroutine to
hold an old one while a new one is installed, and two senders what it takes for
one to wait on `writeMu` behind another; a second closer finds the client closed
and returns. `attempt` and `redials` saturate at `AttemptBound`, above
`MaxAttempts`; with unlimited attempts nothing reads them and the bound is 0.
In `Session` the second connection is the first on which anything can be stale,
and `QueueBound` 2 lets a frame under an old key overtake or follow one under a
new. In `AccountQuery` two calls are enough for one to leave while a dispatch is
between them, and for a handler to wait in one while a goroutine is in the other.
In `ReadPath` nothing but the cipher's key is carried from one message to the next, so
that one message of each shape is enough; two records make the second loop turn and the
padding after it, `ErrorBuffer` 1 makes the channel full after one error, and one handler
of `Own` takes the other branch of every error. The login requests fit, run over
the next field, over several, and out of the buffer; `MCFieldSerializer` has more of
them. The liveness instances are smaller because TLC's time there grows with the
fairness conditions; the bound on dials makes no `Run` block: a dial may always fail.
`CHECK_DEADLOCK FALSE` is set where the system may really stop: a process that has
panicked does nothing more (`AccountDecoder`, `FieldSerializer`, `ReadPath`), and when
all calls are over and the client is closed nothing is left to do (`AccountQuery`).

Every property of a passing run has a mutant in `PROJECT.json`: a plausible slip
in the code that makes TLC report that property.

## 4. Fairness

- `WF(RunStep)` and `SF` of each goroutine's own steps: the Go scheduler runs what
  can run.
- `SF` where several goroutines compete: `writeMu` (Go's mutex hands over to a
  starving waiter) and the arms of a `select` (picked at random among the ready
  ones, so an arm that is ready again and again is taken).
- `SF(ReadError)`: a dead socket holds finitely many buffered frames, so the error
  comes in the end.
- Nothing of the peer: `ReadMessage`, `WriteOK` and the handlers' sends carry no
  fairness. `CancelStopsServedRun` has it as a hypothesis (`PeerServes`), and the same
  property without it is the finding of `client_quiet`.
- In `Session`: the Runner runs, the server serves what has arrived (external), and
  frames waiting for `writeMu` get it.
- In `AccountQuery`: the read loop, and each call that has begun, but in a write
  (`Runnable`): that may block for ever while the client is open, and fails once it is
  closed, since `Close` shuts the socket whatever is blocked on it (`CloseEndsRun` of
  `Client`). A message need not arrive, and no context need be cancelled.
- In `ReadPath`: the reader goes on with the message it has (`Processing`), which
  includes the handlers of the application, assumed to return, and not the write of the
  login request (`LoginSent`). Nobody need receive from `Errors`, the server need not
  send, and the heartbeat goroutine need not run.
- That writes end is therefore a hypothesis where a property needs it: `PeerServes` of
  `CancelFreesReader` and `PeerReads` of `ReaderComesBack`, both `WF` of the write alone.
  `CancelReturns` is about a call that waits for its answer and does without.

## 5. Proofs

`ClientProofs` proves, for every set of connections, senders and closers and every
`MaxAttempts`, from `ClientAssumption` alone (goroutines and connections are
distinct, `MaxAttempts` is an integer below the counters' bound):

| Theorem | Says |
|---|---|
| `TypeCorrect` | types, and no call is about to use a nil connection |
| `NoSocketLeaks` | an unclosed socket is `conn`, or just dialled, or about to be closed |
| `NoSocketClosedTwice` | of the calls on their way to close a connection none finds it closed |
| `CloseWins` | a closed client has a connection only until its closer reaches `closeConn` |
| `RunnerOwnsConn` | `conn` is that of Run's present iteration |
| `RetriesBounded` | the retry limit holds and Run returns for a reason |
| `HeartbeatsFollow` | a live heartbeat is that of the connection being read |
| `StaleWritesFail` | no successful write to a replaced connection |
| `ClosedRunReturns` | after `Close`, `Run` passes each of its points at most once more (`ClosedRunEnds`) |
| `Implements` | every behaviour is one of `ClientLifecycle` |

None of the invariants is inductive by itself. `IInv` adds five facts to them:
`CallsMatch`, which call of `Send` or `closeConn` the Runner is in at each point of
`Run` (so that `closing` really swaps the connection out, and `recv` has none under
way); `Fresh`, that a dialled socket is in nobody's hands and a connection comes
before its heartbeat (so that installing one cannot disturb a writer);
`ErrorMeans`, what a nil or non-nil `err` says at each point (so that Run's return
value is explained); `Counting`, that `attempt` is `redials`, or one ahead
while backing off; and `OneShutter`, that a goroutine about to close a connection is the
only one to be so and has it no longer in `conn` (so that `ClosedOnce` survives the
swap). `InitInv` and `StepInv` show that `IInv` is inductive, one step
per action; the theorems follow from it.

`ClosedRunReturns` is what can be proved of `CloseEndsRun`: `RunRank` orders the points of
`Run` and `CallRank` those of a call, and `ClosedGoesDown` shows that a closed client's Runner
only goes down. Two of its steps need `closed` to do so, the `select` of the read loop and
`shouldRetry`. What is left to TLC is that a step which can be taken is taken.

`FramingProofs` proves for every length what the padding does. `PadBounds` and
`DeliveredBounds` say that a body arrives with at most fifteen bytes too many; from
them follow `FramesAreRead` (no frame of the server fails a length check of the read
loop), `NoPhantomTick` (of n ticks n are decoded), `SymbolsCounted` (the length check
of symbol lists is exact) and `OnlyLongKeys` (a 32-byte session key survives the
padding, shorter ones are rejected).

`SessionProofs` proves, from `SessionAssumption` (the goroutines are distinct, the bounds
are numbers), every invariant of `Session` for any number of connections, callers and
frames in flight: `TypeCorrect`, `KeysInStep` (`InboxReadable`), `LoginsAreRead` (`LoginReadable`), `ServerDecides`
(`AuthenticatedByServer`) and `SecretsUnderSessionKey` (`SecretsKeyed`). Its core is `Phase`:
a connection is in one of four situations. *Unanswered*: the server speaks the default
key, has said nothing, and will read at most one key request, if the client still
encrypts with the default key. *Issued*: the key message is under way or in the
Runner's hands, and nothing else. *Refused*: only refusals are. *Agreed*: both have this
connection's key, every message and login is under it, and the key handler has nothing
to take. A stale client on a later connection stays in the first one, which is the
finding of `session_again` seen from the proof. `FramesMatch` says whose frames may be
requests for a key or logins, `Linked` that what is sent on no connection is gone,
`Keyed` that nothing after a login precedes the key, `Recorded` that an acceptance under
way is on record.

`NegotiationGoesOn` (`NegotiationHeld`) says that while a connection lasts and the server has not
decided, the next step of the negotiation is the Runner's, or is on the wire where its
reader can read it, or the client has the key of an earlier connection (`KeptOldKey`), which is
the standstill `session_again` finds. So there is no other standstill, on any connection,
however requests, pushes and restarts run beside it. It rests on `Phase` and on two
invariants of its own: `OldKey`, that the client does not have this connection's key before the
server issued it, and `Held`, that when the Runner waits, its frame is on the way. It does not
say that the negotiation ends: that is `FirstNegotiates`.

`AccountQueryProofs` proves `TypeCorrect`, `NoLeaks` (`NoHandlerLeaks`) and `AllHear`
(`EveryWaiterHears`) for any number of calls, from goroutines and handlers. `Hears`
strengthens the last to the middle of a dispatch: who has not heard yet is still ahead
in the snapshot. `RemoveOne` and `AppendOne` say what the deferred cancel and `On` do to a
list without repetition. `ImplementsPromise` proves that every behaviour is one of `Query`,
from `Timely`: what is in a channel, and who is in a snapshot, fit the time of
registration.

`AccountDecoderProofs` proves, from `DecoderAssumption` (its constants are lengths and
numbers of parts), that the cursor never leaves the body (`TypeCorrect`), that no
field is read at another place than the layout's (`CursorOnLayout`), and that a complete
answer with any number of records is read to the end (`CompleteAnswersRead`, of
`CompleteIsRead`). `OnLayout` is inductive together with `TypeOK`, which bounds the field
index, and `Fresh`, by which a parse starts at the start; `LayoutSizes` supplies that each
field has a length. For the last theorem `CoreAddsUp` and `SettingsAddUp` add up the two
lists, which the code has as literals, field by field. `CompleteAnswersRead` has a hypothesis:
an answer shorter than an account stays so with its padding
(`Delivered(s) <= CoreSize`). A refusal that missed the account by less than a block would
be read as one, with zeros for the rest.

`FieldSerializerProofs` proves, for every list of fields (`SerializerAssumption`) and texts
of any length, `SerializerTypes`, `WrittenInPlace` (`InPlace`) and `DataSurvives`
(`NumbersSurvive`). `Measured` says that `starts` are the sums of the sizes before a
field, `Ordered` and `Ends` that the rooms follow one another up to `size`, and `Kept` that a
number written stays: each later write begins behind it. `PassesAgree` and
`DataFillsRoom` compare the three lengths of one field. `LoginIsExact` proves
`FittingRequestIsExact` for the lists the code really builds, `LoginRequests` with any two
texts: its hypothesis is that nothing else is serialized, which is so, since `buildLoginRequest`
is the only caller of `Serialize` in `src/`. Arbitrary lists need not be exact: the two passes have
tables of their own.

`ReadPathProofs` proves, for every number of records, every error buffer and every list of
fields, `ReadTypes`, `NoErrorUnheard` (`ErrorsHeard`), `EveryHandlerRuns`
(`AllHandlersRun`) and `RecordsGiven` (`RecordsAsSent`) without a hypothesis, and
`IssuedKeyInstalled` (`KeyAsIssued`) if the server issues keys of the lengths AES has.
`Walking` says that what has run and what is queued are together the handlers of the
message; `Counted` and `Keyed` that its decoder, or the key handler, is the first of
them. The lengths come from `FramingProofs`.

`ReadPathRefinement` puts the parts together:

| Theorem | Says |
|---|---|
| `DecoderImplemented`, `SerializerImplemented` | every behaviour of `ReadPath` is one of `AccountDecoder` and one of `FieldSerializer`, so that their invariants hold in the read loop (`PartsInReadPath`) |
| `EveryStepAdvances` | each step of the reader lowers `Work`, and away from its socket nobody else's changes it (`ReaderAdvances`) |
| `ReaderSurvives` | with whole answers and fitting texts the read loop never panics |

`PartsStep` is the refinement: the reader gives the decoder only answers of the server
(`AnswerShapes`) and touches neither part otherwise. `Work` is lexicographic: handlers left,
passes left, records, fields, and the way out of `publishError`; `ReaderAdvances` is the part
of `ReaderComesBack` that needs no fairness. `ReaderSurvives` has two hypotheses,
`WholeAnswers` (`Parts` is 4, short bodies stay short) and `FittingLogins`; `decoder_panic` and
`login_overlong` are what happens without one or the other. It follows from
`CompleteAnswersRead`, `LoginIsExact`, the two refinements, and `DiesOfPanic`: the reader dies
of nothing else.

What is only model-checked. Liveness under fairness: `CloseEndsRun`, `RunReleases`,
`BrokenIsDropped`, `CancelStopsServedRun`, `FirstNegotiates`, `CancelReturns`,
`CancelFreesReader` and `ReaderComesBack`, since fairness and `ENABLED` are out of the prover's
reach. Every invariant and every action property the passing runs check is a theorem, three of
them (`CompleteIsRead`, `FittingRequestIsExact`, `KeyAsIssued`) under the hypotheses named above.

## 6. Where the code and its documentation part

- `client_quiet`: with a silent peer, cancelling the context does not end `Run`,
  which is in `ReadMessage` without a deadline; `client.go:300` says it does.
- `client_reconnect`: `OnConnect` can be called for a second connection with
  `reconnect = false`, if it failed on the first; `client.go:30` says otherwise.
- `session_again`: the cipher keeps the old session key on a new connection, whose
  key request the server cannot read, so that it is never authenticated;
  `doc.go:2` promises reconnection and authentication.
- `account_stuck`: a handler of `GetAccountInfo` whose call has stopped listening
  blocks the read loop at the second message, and not even `Close` ends `Run`.
- `account_own`: of two overlapping calls one may return the other's response.
- `decoder_panic`: the tests that let the last values of an account answer be absent
  are defeated by the padding: an answer that stops early has up to fifteen zero bytes
  there, and the last of them are too few for the word that is read from them. The
  panic is in the read loop; `account.go:99` speaks of decode errors that are routed.

- `login_overlong`: a text of the login request that is longer than its field is written
  over the fields behind it; `ec.go:96` says it is padded to `PropLength`. Numbers and raw
  bytes are written over it again (`NumbersSurvive`), the empty texts are not: they are sent
  with the rest of the password. A server name of 217 characters panics.

Four more were seen and are not runs. A `GetAccountInfo` whose request is stuck behind
`writeMu` or in `WriteMessage` does not return when its context is cancelled, although
`account.go:115-117` says it blocks until then: it is the hypothesis of
`CancelFreesReader`. An error of `Connect` that `Run` retries goes neither to `OnError` nor
to the channel (`client.go:307-315`), although `client.go:77` speaks of every error. `Close` on a healthy connection makes the read
loop return an error, hence `OnDisconnect` and a non-nil result of `Run`, although
`client.go:34` ties that hook to a disconnect "due to an error". And nothing resets the
session flags when a connection is lost, as `app_test.go:92` expects of
`handleDisconnect`, which has no caller outside tests.

## 7. Not modelled

- An application that calls the public `Connect` while `Run` runs (it overwrites
  `conn` and leaks a socket): in the model only `Run` connects.
- A manual `Login`, `SetSessionKey` or `SetKeyFromString` by the application, and the
  polling of `WaitUntilAuthenticated`, which reads one flag.
- The cipher, the hash, and the fixed offsets of fields within a tick, a symbol and the
  payloads of the tick subscription and the trade history.
- A server that sends anything else while the key is awaited. `handleSessionKeyMessage`
  would take a long enough message for the key; `Session` has the server answer the key
  request first, and covers what comes after.
- Error paths that call no `publishError` at all: `ErrorsHeard` is about those that do.
- What the hooks do: `OnError`, `OnConnect` and `OnDisconnect` are calls that return.
- The channel of `Messages`, on which nothing is sent.
- `parseH` and `parseUnderscore`, which no code calls.
- `commands.go`, `errors.go`, `doc.go`: constants and types.

## 8. Plan

1. `Client`, `ClientLifecycle`: checked, and proved but for liveness.
2. `Session`: checked, and proved but for `FirstNegotiates`.
3. `AccountQuery`, `Query`: checked, and proved but for its two liveness properties.
4. `Framing`, `AccountDecoder`, `FieldSerializer`, `ReadPath` and their composition: checked,
   and proved but for `ReaderComesBack`.
5. Left: a public `Connect` beside `Run`; a manual key change beside the automatic one,
   which `Phase` would have to follow.
