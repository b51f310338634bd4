------------------------------- MODULE Framing -------------------------------
(***************************************************************************)
(* How long things are on the wire (codec.go, mtcrypto.go, serl.go,        *)
(* tick.go, symbols.go, app.go).  AES-CBC works on whole blocks and        *)
(* Encrypt pads with zeros that nothing takes off again, so a message      *)
(* arrives with up to fifteen bytes its sender did not write; each decoder *)
(* has to live with them.  Bytes are abstracted to their number.           *)
(***************************************************************************)
EXTENDS Integers

BlockSize == 16

\* padZero, hence the length of what Encrypt returns.
padZero(n) == IF n % BlockSize = 0 THEN n ELSE n + (BlockSize - (n % BlockSize))

\* Decrypt wants whole blocks.
Decrypts(n) == n % BlockSize = 0

\* Pack puts a header before the payload; Unpack wants more than the header.
FrameHeader == 8
Pack(n) == FrameHeader + n
Unpacks(n) == n > FrameHeader
Unpack(n) == n - FrameHeader

\* EncodeCommand: two random bytes and the command.
EncodeCommand(n) == 4 + n

\* ParseMessage: two bytes, the command and the code come before the body.
MessageHeader == 5
Parses(n) == n >= MessageHeader
BodyLength(n) == n - MessageHeader

\* The length of Message.Body when the server wrote n bytes of it.
Delivered(n) == BodyLength(padZero(MessageHeader + n))

\* extractSessionKey takes the body to its end.
SessionKeyOffset == 66
ExtractedKey(len) == len - SessionKeyOffset

\* An InitKey that takes all of it.
InitKey_All(k) == k

\* It takes the first 32 bytes, and aes.NewCipher three lengths.
InitKey(k) == IF k > 32 THEN 32 ELSE k

\* An InitKey that checks only what its comment speaks of.
KeyAccepted_LowerBound(k) == k >= 16

KeyAccepted(k) == InitKey(k) \in {16, 24, 32}

TickSize == 50

\* A DecodeTicks that takes a rest for a record.
TickCount_Up(len) == (len + TickSize - 1) \div TickSize

\* DecodeTicks.
TickCount(len) == len \div TickSize

\* DecodeSymbols, its two checks.
SymbolSize == 526
SymbolsFit(count, len) == len >= 4 /\ count * SymbolSize <= len - 4
=============================================================================
