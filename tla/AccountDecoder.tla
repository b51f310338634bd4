--------------------------- MODULE AccountDecoder ---------------------------
(***************************************************************************)
(* ParseAccountInfo and parseFields (account.go): a cursor over the body   *)
(* of an account response.  A field that does not fit moves the cursor to  *)
(* the end and reads as zero, or as what is left; the values between and   *)
(* after the records are read if the cursor is not at the end, whether     *)
(* there is room for them or not.  Values are abstracted to their lengths, *)
(* but for the number of records.                                          *)
(*                                                                         *)
(* The server is external.  From what the decoder tests for, its answer is *)
(* a body too short for the account, or the account and some of the parts  *)
(* that may follow it.                                                     *)
(***************************************************************************)
EXTENDS Framing, Fields

CONSTANTS
  ShortBodies,   (* lengths of answers that hold no account               *)
  Counts,        (* numbers of trade settings                             *)
  Parts,         (* how many of the parts after the account the server    *)
                 (* sends: the trade settings, ValueO, ValueN, ValueC     *)
  Nested         (* lengths of what it sends after those, H and           *)
                 (* Underscore, which the code does not parse             *)

ASSUME DecoderAssumption ==
  /\ ShortBodies \subseteq Nat /\ Counts \subseteq Nat /\ Nested \subseteq Nat
  /\ Parts \subseteq 0..4

\* vl and accountTradeSettingsFields.
Num(t) == Reads(t, 0)
Text(n) == Reads(UTF16, n)

Core ==
  << Num(4), Num(3), Num(3), Num(8), Num(8), Text(64), Num(6), Num(6), Text(256), Num(5),
     Text(128), Text(256), Num(3), Num(1), Num(6), Num(6), Num(8), Num(8), Num(6), Num(8),
     Num(6), Num(8), Num(8), Num(8), Num(6), Num(6) >>

Settings ==
  << Text(256), Num(3), Num(3), Num(6), Num(3), Num(3), Num(6), Num(6), Num(6), Num(6),
     Num(6), Num(6), Num(6), Num(6), Num(6), Num(6), Num(18), Num(6), Num(6), Num(6),
     Num(18), Num(18), Num(18), Num(18), Num(6), Num(8), Num(8), Reads(Raw, 64),
     Reads(Raw, 64), Num(8), Num(8), Num(8), Num(6), Num(8), Num(8), Num(3), Num(6), Num(6) >>

\* The types that mapToAccountCore and mapToTradeSettings assert of the values.
CoreTypes ==
  << "uint8", "int32", "int32", "float64", "float64", "string", "uint32", "uint32",
     "string", "uint16", "string", "string", "int32", "int8", "uint32", "uint32",
     "float64", "float64", "uint32", "float64", "uint32", "float64", "float64", "float64",
     "uint32", "uint32" >>

SettingsTypes ==
  << "string", "int32", "int32", "uint32", "int32", "int32", "uint32", "uint32", "uint32",
     "uint32", "uint32", "uint32", "uint32", "uint32", "uint32", "uint32", "uint64",
     "uint32", "uint32", "uint32", "uint64", "uint64", "uint64", "uint64", "uint32",
     "float64", "float64", "[]float64", "[]float64", "float64", "float64", "float64",
     "uint32", "float64", "float64", "int32", "uint32", "uint32" >>

\* A failed assertion panics.
Asserted(format, types) ==
  Len(format) = Len(types) /\ \A i \in 1..Len(types) : Produces(format[i].type) = types[i]

VARIABLES
  sent,      (* the bytes the server wrote; those after them are padding *)
  count,     (* the number of records it wrote                           *)
  len,       (* len(respBody)                                            *)
  stage,     (* where ParseAccountInfo is                                *)
  field,     (* the field of the list parseFields is at                  *)
  left,      (* records still to be parsed                               *)
  offset,    (* the cursor                                               *)
  pos        (* history: where the layout puts what is read next         *)

vars == <<sent, count, len, stage, field, left, offset, pos>>

-----------------------------------------------------------------------------
\* A parseFields that leaves the cursor where it is when a field does not fit.
Advance_Stay(n) == IF offset + n > len THEN offset ELSE offset + n

\* A parseFields that counts the bytes it does not find.
Advance_Unclamped(n) == offset + n

\* Every case of parseFields: read n bytes, or what is left of them.
Advance(n) == IF offset + n > len THEN len ELSE offset + n

FieldLength(f) == IF f.type \in Numbers THEN Width(f.type) ELSE f.length

ReadField(f) ==
  /\ offset' = Advance(FieldLength(f))
  /\ pos' = pos + FieldLength(f)

CoreField ==
  /\ stage = "core"
  /\ ReadField(Core[field])
  /\ IF field < Len(Core)
     THEN field' = field + 1 /\ stage' = stage
     ELSE field' = 1 /\ stage' = IF Asserted(Core, CoreTypes) THEN "count" ELSE "panic"
  /\ UNCHANGED <<sent, count, len, left>>

\* A loop that stops after the one record it keeps.
AfterRecord_KeptOne == 0

\* Only the first record is kept; the loop goes through all of them.
AfterRecord == left - 1

SettingsField ==
  /\ stage = "settings"
  /\ ReadField(Settings[field])
  /\ IF field < Len(Settings)
     THEN field' = field + 1 /\ UNCHANGED <<stage, left>>
     ELSE /\ field' = 1
          /\ left' = AfterRecord
          /\ stage' = IF left = count /\ ~Asserted(Settings, SettingsTypes) THEN "panic"
                      ELSE IF AfterRecord > 0 THEN "settings" ELSE "O"
  /\ UNCHANGED <<sent, count, len>>

\* A word that is read without asking whether the body goes on.
Present_Assumed == TRUE

\* if offset < len(respBody)
Present == offset < len

\* readUint32, readInt32, readBigUint64: a slice of fewer than n bytes panics.
ReadWord(n) == Present /\ offset + n <= len /\ offset' = offset + n /\ pos' = pos + n
SkipWord(n) == ~Present /\ offset' = offset /\ pos' = pos + n

Panic(n) ==
  /\ Present /\ offset + n > len
  /\ stage' = "panic"
  /\ UNCHANGED <<sent, count, len, field, left, offset, pos>>

\* Padding reads as zero records.
ReadCount ==
  /\ stage = "count"
  /\ \/ /\ ReadWord(4)
        /\ left' = IF offset < sent THEN count ELSE 0
        /\ stage' = IF left' > 0 THEN "settings" ELSE "O"
        /\ UNCHANGED <<sent, count, len, field>>
     \/ /\ SkipWord(4)
        /\ stage' = "O"
        /\ UNCHANGED <<sent, count, len, field, left>>
     \/ Panic(4)

ReadValue(this, n, then) ==
  /\ stage = this
  /\ \/ /\ ReadWord(n) \/ SkipWord(n)
        /\ stage' = then
        /\ UNCHANGED <<sent, count, len, field, left>>
     \/ Panic(n)

-----------------------------------------------------------------------------
\* What the server writes.
CoreSize == 816
SettingsSize == 572
FullSize(parts, n) ==
  CoreSize + (IF parts >= 1 THEN 4 + SettingsSize * n ELSE 0)
           + (IF parts >= 2 THEN 4 ELSE 0) + (IF parts >= 3 THEN 4 ELSE 0)
           + (IF parts >= 4 THEN 8 ELSE 0)

\* ParseAccountInfo is called with an answer of s bytes and n records.
StartParse(s, n) ==
  /\ stage = "idle" /\ stage' = "core"
  /\ sent' = s /\ count' = n /\ len' = Delivered(s)
  /\ UNCHANGED <<field, left, offset, pos>>

\* It returns what it has read.
TakeAccount ==
  /\ stage = "done" /\ stage' = "idle"
  /\ sent' = 0 /\ count' = 0 /\ len' = 0 /\ offset' = 0 /\ pos' = 0
  /\ UNCHANGED <<field, left>>

\* The answers: a refusal, some of the parts, or all of them and the nested arrays.
Answers ==
  {<<s, 0>> : s \in ShortBodies} \cup
  {<<FullSize(p, n), n>> : p \in Parts, n \in Counts} \cup
  {<<FullSize(4, n) + m, n>> : m \in Nested, n \in Counts}

Init ==
  /\ sent = 0 /\ count = 0 /\ len = 0
  /\ stage = "idle" /\ field = 1 /\ left = 0
  /\ offset = 0 /\ pos = 0

ParseStep ==
  \/ CoreField \/ ReadCount \/ SettingsField
  \/ ReadValue("O", 4, "N") \/ ReadValue("N", 4, "C") \/ ReadValue("C", 8, "done")

Next == (\E a \in Answers : StartParse(a[1], a[2])) \/ ParseStep \/ TakeAccount

Spec == Init /\ [][Next]_vars

-----------------------------------------------------------------------------
(* Properties.                                                             *)

\* Types, and the cursor never leaves the body.
TypeOK ==
  /\ sent \in Nat /\ count \in Nat /\ len \in Nat
  /\ stage \in {"idle", "core", "count", "settings", "O", "N", "C", "done", "panic"}
  /\ field \in 1..Len(Core) \cup 1..Len(Settings)
  /\ stage = "core" => field \in 1..Len(Core)
  /\ stage = "settings" => field \in 1..Len(Settings) /\ left > 0
  /\ left \in Nat /\ offset \in 0..len /\ pos \in Nat

\* Nothing is ever read at another place than the layout's: the cursor is where the
\* layout says, or, once something did not fit, at the end for good, so that no
\* short field is read out of the remains of a long one (account.go 256-368).
OnLayout == offset = IF pos < len THEN pos ELSE len

\* A complete answer, a refusal as well, is decoded without a panic; a complete one is
\* read to the end of ValueC, so that the values after the records come from the bytes
\* meant for them, however many records there are though one is kept (account.go 533-571).
Complete == sent >= FullSize(4, count)

CompleteIsRead ==
  /\ Complete \/ sent \in ShortBodies => stage # "panic"
  /\ Complete /\ stage = "done" => offset = FullSize(4, count)

\* account.go 99-101: what goes wrong in decoding is an error routed to OnError; so no
\* answer makes the read loop panic.
NeverPanics == stage # "panic"
=============================================================================
