--------------------------- MODULE FramingProofs ---------------------------
(***************************************************************************)
(* What the zero padding does to each kind of message, for every length.   *)
(***************************************************************************)
EXTENDS Framing, TLAPS

\* padZero completes the last block and adds less than one.
LEMMA PadBounds ==
  ASSUME NEW n \in Nat
  PROVE  /\ padZero(n) \in n..(n + BlockSize - 1)
         /\ Decrypts(padZero(n))
<1> DEFINE r == n % BlockSize
<1>1. r \in 0..15 /\ n = BlockSize * (n \div BlockSize) + r
  BY DEF BlockSize
<1>2. CASE r = 0
  BY <1>1, <1>2 DEF padZero, Decrypts, BlockSize
<1>3. CASE r # 0
  <2>1. padZero(n) = n + (BlockSize - r)
    BY <1>3 DEF padZero
  <2>2. padZero(n) = BlockSize * ((n \div BlockSize) + 1)
    BY <1>1, <2>1 DEF BlockSize
  <2>3. (n \div BlockSize) + 1 \in Nat
    BY DEF BlockSize
  <2> QED
    BY <1>1, <1>3, <2>1, <2>2, <2>3 DEF Decrypts, BlockSize
<1> QED
  BY <1>2, <1>3

\* A body arrives with at most fifteen bytes more than the server wrote.
LEMMA DeliveredBounds ==
  ASSUME NEW n \in Nat
  PROVE  Delivered(n) \in n..(n + 15)
BY PadBounds, MessageHeader + n \in Nat DEF Delivered, BodyLength, MessageHeader, BlockSize

\* readLoop skips no frame of the server: Unpack, Decrypt and ParseMessage accept what
\* Encrypt and Pack make of any body (client.go 466-488, codec.go 37-59).
THEOREM FramesAreRead ==
  ASSUME NEW n \in Nat
  PROVE  LET cipher == padZero(MessageHeader + n) IN
           /\ Unpacks(Pack(cipher))
           /\ Unpack(Pack(cipher)) = cipher
           /\ Decrypts(cipher)
           /\ Parses(cipher)
BY PadBounds, MessageHeader + n \in Nat
   DEF Pack, Unpack, Unpacks, Parses, FrameHeader, MessageHeader, BlockSize

\* The padding never becomes a tick and loses none: of n ticks sent n are decoded
\* (tick.go 51-52).
THEOREM NoPhantomTick ==
  ASSUME NEW n \in Nat
  PROVE  TickCount(Delivered(TickSize * n)) = n
<1>1. Delivered(TickSize * n) \in (50 * n)..(50 * n + 15)
  BY DeliveredBounds, TickSize * n \in Nat DEF TickSize
<1> QED
  BY <1>1 DEF TickCount, TickSize

\* A complete symbol list passes the length check of DecodeSymbols, and a list that
\* announces one symbol more than it holds does not, for all its padding
\* (symbols.go 75-92).
THEOREM SymbolsCounted ==
  ASSUME NEW n \in Nat
  PROVE  LET len == Delivered(4 + SymbolSize * n) IN
           /\ SymbolsFit(n, len)
           /\ ~SymbolsFit(n + 1, len)
<1>1. Delivered(4 + SymbolSize * n) \in (4 + 526 * n)..(4 + 526 * n + 15)
  BY DeliveredBounds, 4 + SymbolSize * n \in Nat DEF SymbolSize
<1> QED
  BY <1>1 DEF SymbolsFit, SymbolSize

\* Of the key lengths AES has only the longest survives the padding: a key of 32 bytes
\* is found and cut to its length, one of 16 or 24 arrives as 25 bytes and is rejected
\* (app.go 282-292, mtcrypto.go 17-24).
THEOREM OnlyLongKeys ==
  ASSUME NEW k \in {16, 24, 32}
  PROVE  LET taken == ExtractedKey(Delivered(SessionKeyOffset + k)) IN
           /\ KeyAccepted(taken) <=> k = 32
           /\ k = 32 => InitKey(taken) = k
<1>1. Delivered(82) = 91 /\ Delivered(90) = 91 /\ Delivered(98) = 107
  BY DEF Delivered, BodyLength, padZero, MessageHeader, BlockSize
<1> QED
  BY <1>1 DEF ExtractedKey, SessionKeyOffset, KeyAccepted, InitKey
=============================================================================
