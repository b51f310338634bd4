------------------------ MODULE AccountDecoderProofs ------------------------
(***************************************************************************)
(* The cursor of AccountDecoder for every body length, number of records   *)
(* and set of parts.                                                       *)
(***************************************************************************)
EXTENDS AccountDecoder, FramingProofs

\* Every field has a length.
LEMMA LengthInNat == \A f \in FieldRecords : FieldLength(f) \in Nat
  BY DEF FieldLength, FieldRecords, Width

\* The two layouts are lists of fields.
LEMMA LayoutSizes ==
  /\ Len(Core) = 26 /\ \A i \in 1..26 : FieldLength(Core[i]) \in Nat
  /\ Len(Settings) = 38 /\ \A i \in 1..38 : FieldLength(Settings[i]) \in Nat
<1>1. ASSUME NEW t \in PropTypes, NEW n \in Nat PROVE Reads(t, n) \in FieldRecords
  BY DEF Reads, Field, FieldRecords, Kinds
<1>2. /\ \A t \in {1, 3, 4, 5, 6, 8, 18} : Num(t) \in FieldRecords
      /\ \A n \in {64, 128, 256} : Text(n) \in FieldRecords
      /\ Reads(Raw, 64) \in FieldRecords
  BY <1>1 DEF Num, Text, PropTypes, Numbers, UTF16, Raw
<1>3. Len(Core) = 26 /\ \A i \in 1..26 : Core[i] \in FieldRecords
  BY <1>2 DEF Core
<1>4. Len(Settings) = 38 /\ \A i \in 1..38 : Settings[i] \in FieldRecords
  BY <1>2 DEF Settings
<1> QED
  BY <1>3, <1>4, LengthInNat

\* Between two parses the cursor is at the start, and between two lists parseFields
\* is at the first field.
Fresh ==
  /\ stage = "idle" => pos = 0 /\ offset = 0
  /\ stage \notin {"core", "settings", "panic"} => field = 1

DecoderInv == TypeOK /\ OnLayout /\ Fresh

\* An answer has a length.
LEMMA AnswerSizes == \A a \in Answers : a[1] \in Nat /\ a[2] \in Nat
<1> SUFFICES ASSUME NEW a \in Answers PROVE a[1] \in Nat /\ a[2] \in Nat
  OBVIOUS
<1>1. ASSUME NEW s \in ShortBodies, a = <<s, 0>> PROVE a[1] \in Nat /\ a[2] \in Nat
  BY <1>1, DecoderAssumption
<1>2. ASSUME NEW n \in Counts, NEW p \in Parts, a = <<FullSize(p, n), n>>
      PROVE  a[1] \in Nat /\ a[2] \in Nat
  BY <1>2, DecoderAssumption DEF FullSize, CoreSize, SettingsSize
<1>3. ASSUME NEW n \in Counts, NEW m \in Nested, a = <<FullSize(4, n) + m, n>>
      PROVE  a[1] \in Nat /\ a[2] \in Nat
  BY <1>3, DecoderAssumption DEF FullSize, CoreSize, SettingsSize
<1> QED
  BY <1>1, <1>2, <1>3 DEF Answers

\* The decoder starts at the start.
LEMMA DecoderInitInv == Init => DecoderInv
  BY LayoutSizes DEF Init, DecoderInv, TypeOK, OnLayout, Fresh

\* Every step keeps the cursor on the layout or at the end.
LEMMA DecoderStepInv == DecoderInv /\ [Next]_vars => DecoderInv'
<1> SUFFICES ASSUME DecoderInv, [Next]_vars PROVE DecoderInv'
  OBVIOUS
<1> USE DEF DecoderInv, TypeOK, OnLayout, Fresh
<1>1. ASSUME NEW f, FieldLength(f) \in Nat, ReadField(f)
      PROVE  offset' \in 0..len /\ pos' \in Nat /\ offset' = IF pos' < len THEN pos' ELSE len
  BY <1>1 DEF ReadField, Advance
<1>2. ASSUME NEW n \in Nat, ReadWord(n) \/ SkipWord(n)
      PROVE  offset' \in 0..len /\ pos' \in Nat /\ offset' = IF pos' < len THEN pos' ELSE len
  BY <1>2 DEF ReadWord, SkipWord, Present
<1>3. ASSUME NEW n \in Nat, Panic(n) PROVE DecoderInv'
  BY <1>3 DEF Panic
<1>4. CASE CoreField
  <2>1. field \in 1..26 /\ FieldLength(Core[field]) \in Nat
    BY <1>4, LayoutSizes DEF CoreField
  <2>2. offset' \in 0..len /\ pos' \in Nat /\ offset' = IF pos' < len THEN pos' ELSE len
    BY <1>1, <1>4, <2>1 DEF CoreField
  <2> QED
    BY <1>4, <2>1, <2>2, LayoutSizes DEF CoreField
<1>5. CASE SettingsField
  <2>1. field \in 1..38 /\ FieldLength(Settings[field]) \in Nat
    BY <1>5, LayoutSizes DEF SettingsField
  <2>2. offset' \in 0..len /\ pos' \in Nat /\ offset' = IF pos' < len THEN pos' ELSE len
    BY <1>1, <1>5, <2>1 DEF SettingsField
  <2> QED
    BY <1>5, <2>1, <2>2, LayoutSizes DEF SettingsField, AfterRecord
<1>6. CASE ReadCount
  <2>1. ASSUME ReadWord(4) \/ SkipWord(4)
        PROVE  offset' \in 0..len /\ pos' \in Nat /\ offset' = IF pos' < len THEN pos' ELSE len
    BY <1>2, <2>1
  <2> QED
    BY <1>3, <1>6, <2>1, LayoutSizes DEF ReadCount
<1>7. ASSUME NEW s \in {"O", "N", "C"}, NEW n \in Nat, NEW next \in {"N", "C", "done"}, ReadValue(s, n, next)
      PROVE  DecoderInv'
  BY <1>2, <1>3, <1>7, LayoutSizes DEF ReadValue
<1>8. ASSUME NEW a \in Answers, StartParse(a[1], a[2]) PROVE DecoderInv'
  BY <1>8, AnswerSizes, DeliveredBounds, LayoutSizes DEF StartParse
<1>9. CASE TakeAccount
  BY <1>9, LayoutSizes DEF TakeAccount
<1>10. CASE UNCHANGED vars
  BY <1>10 DEF vars
<1> QED
  BY <1>4, <1>5, <1>6, <1>7, <1>8, <1>9, <1>10 DEF Next, ParseStep

-----------------------------------------------------------------------------
(* Complete answers.                                                       *)

\* How long the fields are, and where each one starts.
CoreLengths ==
  << 1, 4, 4, 8, 8, 64, 4, 4, 256, 2, 128, 256, 4, 1, 4, 4, 8, 8, 4, 8, 4, 8, 8, 8, 4, 4 >>
CoreStarts ==
  << 0, 1, 5, 9, 17, 25, 89, 93, 97, 353, 355, 483, 739, 743, 744, 748, 752, 760, 768, 772,
     780, 784, 792, 800, 808, 812 >>
SettingsLengths ==
  << 256, 4, 4, 4, 4, 4, 4, 4, 4, 4, 4, 4, 4, 4, 4, 4, 8, 4, 4, 4, 8, 8, 8, 8, 4, 8, 8, 64,
     64, 8, 8, 8, 4, 8, 8, 4, 4, 4 >>
SettingsStarts ==
  << 0, 256, 260, 264, 268, 272, 276, 280, 284, 288, 292, 296, 300, 304, 308, 312, 316, 324,
     328, 332, 336, 344, 352, 360, 368, 372, 380, 388, 452, 516, 524, 532, 540, 544, 552, 560,
     564, 568 >>

\* The lengths of the account, each where the ones before it end.
LEMMA CoreAddsUp ==
  /\ CoreStarts[1] = 0
  /\ \A i \in 1..26 :
       CoreStarts[i] \in Nat /\ FieldLength(Core[i]) = CoreLengths[i]
  /\ \A i \in 1..25 : CoreStarts[i + 1] = CoreStarts[i] + CoreLengths[i]
  /\ CoreStarts[26] + CoreLengths[26] = CoreSize
<1>1. /\ FieldLength(Num(1)) = 1 /\ FieldLength(Num(4)) = 1 /\ FieldLength(Num(5)) = 2
      /\ FieldLength(Num(3)) = 4 /\ FieldLength(Num(6)) = 4 /\ FieldLength(Num(8)) = 8
      /\ \A n \in {64, 128, 256} : FieldLength(Text(n)) = n
  BY DEF FieldLength, Num, Text, Reads, Field, Width, Numbers, UTF16
<1>2. \A i \in 1..26 : FieldLength(Core[i]) = CoreLengths[i]
  BY <1>1 DEF Core, CoreLengths
<1>3. \A i \in 1..25 : CoreStarts[i + 1] = CoreStarts[i] + CoreLengths[i]
  BY DEF CoreStarts, CoreLengths
<1>4. \A i \in 1..26 : CoreStarts[i] \in Nat
  BY DEF CoreStarts
<1>5. CoreStarts[1] = 0 /\ CoreStarts[26] + CoreLengths[26] = CoreSize
  BY DEF CoreStarts, CoreLengths, CoreSize
<1> QED
  BY <1>2, <1>3, <1>4, <1>5

\* And those of a record of trade settings.
LEMMA SettingsAddUp ==
  /\ SettingsStarts[1] = 0
  /\ \A i \in 1..38 :
       SettingsStarts[i] \in Nat /\ FieldLength(Settings[i]) = SettingsLengths[i]
  /\ \A i \in 1..37 : SettingsStarts[i + 1] = SettingsStarts[i] + SettingsLengths[i]
  /\ SettingsStarts[38] + SettingsLengths[38] = SettingsSize
<1>1. /\ FieldLength(Num(3)) = 4 /\ FieldLength(Num(6)) = 4 /\ FieldLength(Num(8)) = 8
      /\ FieldLength(Num(18)) = 8 /\ FieldLength(Text(256)) = 256
      /\ FieldLength(Reads(Raw, 64)) = 64
  BY DEF FieldLength, Num, Text, Reads, Field, Width, Numbers, UTF16, Raw
<1>2. \A i \in 1..38 : FieldLength(Settings[i]) = SettingsLengths[i]
  BY <1>1 DEF Settings, SettingsLengths
<1>3. \A i \in 1..37 : SettingsStarts[i + 1] = SettingsStarts[i] + SettingsLengths[i]
  BY DEF SettingsStarts, SettingsLengths
<1>4. \A i \in 1..38 : SettingsStarts[i] \in Nat
  BY DEF SettingsStarts
<1>5. SettingsStarts[1] = 0 /\ SettingsStarts[38] + SettingsLengths[38] = SettingsSize
  BY DEF SettingsStarts, SettingsLengths, SettingsSize
<1> QED
  BY <1>2, <1>3, <1>4, <1>5

\* No assertion on the values of the two lists can fail.
LEMMA TypesAsserted == Asserted(Core, CoreTypes) /\ Asserted(Settings, SettingsTypes)
<1>1. /\ Produces(Num(1).type) = "int8" /\ Produces(Num(3).type) = "int32"
      /\ Produces(Num(4).type) = "uint8" /\ Produces(Num(5).type) = "uint16"
      /\ Produces(Num(6).type) = "uint32" /\ Produces(Num(8).type) = "float64"
      /\ Produces(Num(18).type) = "uint64" /\ Produces(Reads(Raw, 64).type) = "[]float64"
      /\ \A n \in {64, 128, 256} : Produces(Text(n).type) = "string"
  BY DEF Produces, Num, Text, Reads, Field, UTF16, Raw
<1>2. \A i \in 1..26 : Produces(Core[i].type) = CoreTypes[i]
  BY <1>1 DEF Core, CoreTypes
<1>3. \A i \in 1..38 : Produces(Settings[i].type) = SettingsTypes[i]
  BY <1>1 DEF Settings, SettingsTypes
<1>4. Len(Core) = 26 /\ Len(CoreTypes) = 26 /\ Len(Settings) = 38 /\ Len(SettingsTypes) = 38
  BY DEF Core, CoreTypes, Settings, SettingsTypes
<1> QED
  BY <1>2, <1>3, <1>4 DEF Asserted


\* What follows the account begins behind it, whether it is there or not.
AccountRead ==
  /\ stage \in {"count", "settings", "O", "N", "C", "done"} => pos >= CoreSize
  /\ stage # "idle" => len = Delivered(sent)

\* Where each thing is in a complete answer.
Placed ==
  /\ stage = "core" => pos = CoreStarts[field]
  /\ Complete =>
       /\ stage = "count" => pos = CoreSize
       /\ stage = "settings" =>
            left <= count /\ pos = CoreSize + 4 + SettingsSize * (count - left) + SettingsStarts[field]
       /\ stage = "O" => pos = CoreSize + 4 + SettingsSize * count
       /\ stage = "N" => pos = CoreSize + 8 + SettingsSize * count
       /\ stage = "C" => pos = CoreSize + 12 + SettingsSize * count
       /\ stage = "done" => pos = FullSize(4, count)
       /\ stage # "panic"

\* A body that ends before the account does is left at its end.
CutShort == len <= CoreSize => stage \notin {"settings", "panic"}

CompleteInv == AccountRead /\ Placed /\ CutShort

\* The size of a complete answer, and that it has its bytes.
LEMMA CompleteSize ==
  /\ \A n \in Nat : FullSize(4, n) = CoreSize + 4 + SettingsSize * n + 4 + 4 + 8
  /\ DecoderInv /\ AccountRead /\ stage # "idle" /\ Complete =>
       len >= CoreSize + 20 + SettingsSize * count
<1>1. ASSUME NEW n \in Nat PROVE FullSize(4, n) = CoreSize + 4 + SettingsSize * n + 4 + 4 + 8
  BY DEF FullSize, CoreSize, SettingsSize
<1>2. ASSUME DecoderInv, AccountRead, stage # "idle", Complete
      PROVE  len >= CoreSize + 20 + SettingsSize * count
  <2>1. sent \in Nat /\ len \in sent..(sent + 15) /\ count \in Nat
    BY <1>2, DeliveredBounds DEF DecoderInv, TypeOK, AccountRead
  <2> QED
    BY <1>1, <1>2, <2>1 DEF Complete, CoreSize, SettingsSize
<1> QED
  BY <1>1, <1>2

\* Every step of the decoder keeps a complete answer in its place, and a short one out of
\* the reach of what would panic.
LEMMA CompleteStep == DecoderInv /\ CompleteInv /\ [Next]_vars => CompleteInv'
<1> SUFFICES ASSUME DecoderInv, CompleteInv, [Next]_vars PROVE CompleteInv'
  OBVIOUS
<1>1. /\ sent \in Nat /\ count \in Nat /\ len \in Nat /\ left \in Nat /\ pos \in Nat
      /\ offset = IF pos < len THEN pos ELSE len
  BY DEF DecoderInv, TypeOK, OnLayout
<1>2. stage # "idle" /\ Complete => len >= 836 + 572 * count
  BY CompleteSize, <1>1 DEF CompleteInv, CoreSize, SettingsSize
<1>3. CASE CoreField
  <2>1. /\ stage = "core" /\ field \in 1..26 /\ pos' = pos + CoreLengths[field]
        /\ UNCHANGED <<sent, count, len, left>> /\ pos = CoreStarts[field]
    BY <1>3, LayoutSizes, CoreAddsUp DEF CoreField, ReadField, DecoderInv, TypeOK, CompleteInv, Placed
  <2>2. CASE field < 26
    <3>1. field' = field + 1 /\ stage' = "core" /\ pos' = CoreStarts[field + 1]
      BY <1>3, <2>1, <2>2, LayoutSizes, CoreAddsUp DEF CoreField
    <3> QED
      BY <2>1, <3>1 DEF CompleteInv, AccountRead, Placed, CutShort
  <2>3. CASE field = 26
    <3>1. stage' = "count" /\ pos' = CoreSize
      BY <1>3, <2>1, <2>3, LayoutSizes, CoreAddsUp, TypesAsserted DEF CoreField
    <3> QED
      BY <2>1, <3>1 DEF CompleteInv, AccountRead, Placed, CutShort, CoreSize
  <2> QED
    BY <2>1, <2>2, <2>3
<1>4. CASE SettingsField
  <2>1. /\ stage = "settings" /\ field \in 1..38 /\ pos' = pos + SettingsLengths[field]
        /\ SettingsLengths[field] \in Nat
        /\ UNCHANGED <<sent, count, len>> /\ left > 0 /\ pos >= CoreSize /\ len > CoreSize
        /\ len = Delivered(sent)
    BY <1>1, <1>4, LayoutSizes, SettingsAddUp
    DEF SettingsField, ReadField, DecoderInv, TypeOK, CompleteInv, AccountRead, CutShort, CoreSize
  <2>2. Complete => left <= count /\ pos = 820 + 572 * (count - left) + SettingsStarts[field]
    BY <2>1 DEF CompleteInv, Placed, CoreSize, SettingsSize
  <2>3. CASE field < 38
    <3>1. /\ field' = field + 1 /\ stage' = "settings" /\ left' = left
          /\ SettingsStarts[field + 1] = SettingsStarts[field] + SettingsLengths[field]
          /\ SettingsStarts[field] \in Nat
      BY <1>4, <2>1, <2>3, LayoutSizes, SettingsAddUp DEF SettingsField
    <3>2. Complete' = Complete /\ pos' >= CoreSize
      BY <1>1, <2>1 DEF Complete, FullSize, CoreSize
    <3>3. Complete => pos' = 820 + 572 * (count - left) + SettingsStarts[field + 1]
      BY <1>1, <2>1, <2>2, <3>1
    <3> QED
      BY <2>1, <2>2, <3>1, <3>2, <3>3
      DEF CompleteInv, AccountRead, Placed, CutShort, CoreSize, SettingsSize
  <2>4. CASE field = 38
    <3>1. /\ field' = 1 /\ left' = left - 1 /\ stage' = IF left - 1 > 0 THEN "settings" ELSE "O"
          /\ SettingsStarts[1] = 0 /\ SettingsStarts[38] + SettingsLengths[38] = 572
          /\ SettingsStarts[38] \in Nat
      BY <1>4, <2>1, <2>4, LayoutSizes, SettingsAddUp, TypesAsserted
      DEF SettingsField, AfterRecord, SettingsSize
    <3>2. Complete' = Complete /\ pos' >= CoreSize
      BY <1>1, <2>1 DEF Complete, FullSize, CoreSize
    <3>3. Complete => left - 1 <= count /\ pos' = 820 + 572 * (count - (left - 1))
      BY <1>1, <2>1, <2>2, <2>4, <3>1
    <3> QED
      BY <1>1, <2>1, <3>1, <3>2, <3>3
      DEF CompleteInv, AccountRead, Placed, CutShort, CoreSize, SettingsSize
  <2> QED
    BY <2>1, <2>3, <2>4
<1>5. CASE ReadCount
  <2>1. /\ stage = "count" /\ field = 1 /\ UNCHANGED <<sent, count, len>> /\ pos >= 816
        /\ len = Delivered(sent) /\ SettingsStarts[1] = 0
    BY <1>5, SettingsAddUp
    DEF ReadCount, Panic, DecoderInv, Fresh, CompleteInv, AccountRead, CoreSize
  <2>2. Complete => pos = 816 /\ offset = 816 /\ offset < sent /\ offset + 4 <= len
    BY <1>1, <1>2, <2>1 DEF CompleteInv, Placed, Complete, FullSize, CoreSize, SettingsSize
  <2>3. Complete' = Complete
    BY <2>1 DEF Complete, FullSize
  <2>4. CASE ReadWord(4)
    <3>1. /\ pos' = pos + 4 /\ len > CoreSize /\ field' = field
          /\ left' = IF offset < sent THEN count ELSE 0
          /\ stage' = IF left' > 0 THEN "settings" ELSE "O"
      BY <1>1, <1>5, <2>1, <2>4 DEF ReadCount, ReadWord, SkipWord, Panic, Present, CoreSize
    <3>2. Complete => left' = count /\ pos' = 820
      BY <2>2, <3>1
    <3> QED
      BY <1>1, <2>1, <2>3, <3>1, <3>2
      DEF CompleteInv, AccountRead, Placed, CutShort, CoreSize, SettingsSize
  <2>5. CASE SkipWord(4)
    <3>1. pos' = pos + 4 /\ stage' = "O" /\ ~Complete
      BY <1>1, <1>5, <2>1, <2>2, <2>5 DEF ReadCount, ReadWord, SkipWord, Panic, Present
    <3> QED
      BY <1>1, <2>1, <2>3, <3>1 DEF CompleteInv, AccountRead, Placed, CutShort, CoreSize
  <2>6. CASE Panic(4)
    <3>1. pos' = pos /\ stage' = "panic" /\ ~Complete /\ len > CoreSize
      BY <1>1, <2>1, <2>2, <2>6 DEF Panic, Present, CoreSize
    <3> QED
      BY <1>1, <2>1, <2>3, <3>1 DEF CompleteInv, AccountRead, Placed, CutShort, CoreSize
  <2> QED
    BY <1>5, <2>4, <2>5, <2>6 DEF ReadCount
<1>6. ASSUME NEW this, NEW n \in {4, 8}, NEW then, ReadValue(this, n, then),
             \/ this = "O" /\ n = 4 /\ then = "N"
             \/ this = "N" /\ n = 4 /\ then = "C"
             \/ this = "C" /\ n = 8 /\ then = "done"
      PROVE  CompleteInv'
  <2>1. /\ stage = this /\ UNCHANGED <<sent, count, len>> /\ pos >= 816 /\ len = Delivered(sent)
    BY <1>6 DEF ReadValue, Panic, CompleteInv, AccountRead, CoreSize
  <2>2. /\ Complete' = Complete
        /\ FullSize(4, count) = 836 + 572 * count
    BY <1>1, <2>1, CompleteSize DEF Complete, FullSize, CoreSize, SettingsSize
  <2>3. Complete => pos + n <= len /\ offset = pos /\ (this = "C" => pos + n = 836 + 572 * count)
    BY <1>1, <1>2, <1>6, <2>1 DEF CompleteInv, Placed, CoreSize, SettingsSize
  <2>4. CASE Panic(n)
    <3>1. pos' = pos /\ stage' = "panic" /\ ~Complete /\ len > CoreSize
      BY <1>1, <2>1, <2>3, <2>4 DEF Panic, Present, CoreSize
    <3> QED
      BY <1>1, <2>1, <2>2, <3>1 DEF CompleteInv, AccountRead, Placed, CutShort, CoreSize
  <2>5. CASE (ReadWord(n) \/ SkipWord(n)) /\ stage' = then
    <3>1. pos' = pos + n
      BY <2>5 DEF ReadWord, SkipWord
    <3>2. Complete =>
            /\ this = "O" => pos' = 824 + 572 * count
            /\ this = "N" => pos' = 828 + 572 * count
            /\ this = "C" => pos' = 836 + 572 * count
      BY <1>1, <1>6, <2>1, <2>3, <3>1 DEF CompleteInv, Placed, CoreSize, SettingsSize
    <3>3. Placed'
      BY <1>6, <2>1, <2>2, <2>5, <3>2 DEF Placed, CoreSize, SettingsSize
    <3> QED
      BY <1>1, <1>6, <2>1, <2>5, <3>1, <3>3 DEF CompleteInv, AccountRead, CutShort, CoreSize
  <2> QED
    BY <1>6, <2>4, <2>5 DEF ReadValue
<1>7. ASSUME NEW a \in Answers, StartParse(a[1], a[2]) PROVE CompleteInv'
  <2>1. stage' = "core" /\ len' = Delivered(sent') /\ field' = 1 /\ pos' = 0
    BY <1>7 DEF StartParse, DecoderInv, Fresh
  <2> QED
    BY <2>1, CoreAddsUp DEF CompleteInv, AccountRead, Placed, CutShort
<1>8. CASE TakeAccount
  BY <1>8 DEF TakeAccount, CompleteInv, AccountRead, Placed, CutShort
<1>9. CASE UNCHANGED vars
  BY <1>9 DEF vars, CompleteInv, AccountRead, Placed, CutShort, Complete, FullSize
<1> QED
  BY <1>3, <1>4, <1>5, <1>6, <1>7, <1>8, <1>9 DEF Next, ParseStep

\* Types, with the cursor inside the body; TypeOK and OnLayout are inductive together.
THEOREM TypeCorrect == Spec => []TypeOK
<1>1. DecoderInv => TypeOK
  BY DEF DecoderInv
<1> QED
  BY DecoderInitInv, DecoderStepInv, <1>1, PTL DEF Spec

\* Whatever the body, no field is read at another place than the layout's.
THEOREM CursorOnLayout == Spec => []OnLayout
<1>1. DecoderInv => OnLayout
  BY DEF DecoderInv
<1> QED
  BY DecoderInitInv, DecoderStepInv, <1>1, PTL DEF Spec

\* A complete answer, however many records it has, is read to the end of ValueC without a
\* panic, and so are refusals that end before an account would (account.go 533-571).
THEOREM CompleteAnswersRead ==
  ASSUME \A s \in ShortBodies : Delivered(s) <= CoreSize
  PROVE  Spec => []CompleteIsRead
<1>1. Init => CompleteInv
  BY DEF Init, CompleteInv, AccountRead, Placed, CutShort
<1>2. DecoderInv /\ CompleteInv => CompleteIsRead
  <2> SUFFICES ASSUME DecoderInv, CompleteInv PROVE CompleteIsRead
    OBVIOUS
  <2>1. stage = "panic" /\ sent \in ShortBodies => FALSE
    BY DEF CompleteInv, AccountRead, CutShort
  <2>2. stage = "panic" /\ Complete => FALSE
    BY DEF CompleteInv, Placed
  <2>3. ASSUME Complete, stage = "done" PROVE offset = FullSize(4, count)
    BY <2>3, CompleteSize DEF DecoderInv, TypeOK, OnLayout, CompleteInv, Placed, CoreSize, SettingsSize
  <2> QED
    BY <2>1, <2>2, <2>3 DEF CompleteIsRead
<1> QED
  BY <1>1, <1>2, DecoderInitInv, DecoderStepInv, CompleteStep, PTL DEF Spec
=============================================================================
