----------------------- MODULE FieldSerializerProofs -----------------------
(***************************************************************************)
(* The two passes of FieldSerializer agree, whatever the list of fields    *)
(* and however long its texts.                                             *)
(***************************************************************************)
EXTENDS FieldSerializer, TLAPS

\* What a field takes is a number of bytes.
LEMMA SizesInNat ==
  ASSUME NEW f \in FieldRecords
  PROVE  Declared(f) \in Nat /\ AdvanceBy(f) \in Nat
<1>1. f.type \in PropTypes /\ f.length \in Nat /\ f.units \in Nat /\ f.bytes \in Nat
  BY DEF FieldRecords
<1>2. Width(f.type) \in Nat
  BY DEF Width
<1>3. Declared(f) \in Nat
  BY <1>1, <1>2 DEF Declared
<1>4. AdvanceBy(f) \in Nat
  BY <1>1, <1>2 DEF AdvanceBy
<1> QED
  BY <1>3, <1>4

\* A well-sized field takes in the second pass what the first pass added.
LEMMA PassesAgree ==
  ASSUME NEW f \in FieldRecords, WellSized(f)
  PROVE  AdvanceBy(f) = Declared(f)
  BY DEF FieldRecords, PropTypes, WellSized, AdvanceBy, Declared, ASCII, UTF16, Raw, Numbers

\* Numbers and raw bytes fill the room they have.
LEMMA DataFillsRoom ==
  ASSUME NEW f \in FieldRecords, WellSized(f), f.type \notin {ASCII, UTF16},
         size \in Nat, place \in Nat, place + Declared(f) <= size
  PROVE  Stored(f) = Declared(f)
<1>1. CASE f.type \in Numbers
  <2>1. Declared(f) = Width(f.type)
    BY <1>1 DEF Declared
  <2>2. Stored(f) = Width(f.type)
    BY <1>1 DEF Stored, Numbers, UTF16
  <2> QED
    BY <2>1, <2>2
<1>2. CASE f.type = Raw /\ f.type \notin Numbers
  <2>1. f.type # UTF16 /\ f.bytes \in Nat /\ f.length \in {0, f.bytes}
    BY <1>2 DEF FieldRecords, WellSized, UTF16, Raw
  <2>2. Declared(f) = f.bytes
    BY <1>2, <2>1 DEF Declared
  <2> QED
    BY <1>2, <2>1, <2>2 DEF Stored
<1> QED
  BY <1>1, <1>2 DEF FieldRecords, PropTypes

-----------------------------------------------------------------------------
(* The inductive invariant.                                                *)

\* What the first pass leaves behind: a start for each field it has measured, one after
\* another, the last one ending at size.
Measured ==
  /\ phase = "size" => Len(starts) = at - 1
  /\ phase \in {"write", "done"} => Len(starts) = Len(fields)
  /\ phase \in {"size", "write", "done"} =>
       /\ Len(starts) <= Len(fields)
       /\ IF Len(starts) = 0 THEN size = 0 ELSE starts[1] = 0
       /\ \A i \in 1..Len(starts) :
            starts[i] + Declared(fields[i]) = IF i < Len(starts) THEN starts[i + 1] ELSE size

\* No field starts before the end of another that comes before it.
Ordered ==
  phase \in {"size", "write", "done"} =>
    \A i \in 1..Len(starts) :
      /\ starts[i] + Declared(fields[i]) <= size
      /\ \A j \in 1..Len(starts) : i < j => starts[i] + Declared(fields[i]) <= starts[j]

\* Where the passes start, and where they end.
Ends ==
  /\ phase = "idle" => at = 1 /\ size = 0 /\ starts = <<>> /\ fields = <<>>
  /\ phase \in {"idle", "size"} => place = 0 /\ buf = NoBytes
  /\ phase \in {"write", "done"} => buf \in [0..(size - 1) -> 0..Len(fields)]
  /\ phase = "done" => at = Len(fields) + 1

\* The numbers and raw bytes written so far are in their room.
Kept ==
  phase \in {"write", "done"} /\ AllWellSized =>
    \A i \in 1..(at - 1) :
      fields[i].type \notin {ASCII, UTF16} => \A b \in Room(i) : buf[b] = i

SerializerInv == SerializerTypeOK /\ Measured /\ Ordered /\ Ends /\ InPlace /\ Kept

\* The serializer starts with nothing.
LEMMA SerializerInitInv == SerializerInit => SerializerInv
  BY DEF SerializerInit, SerializerInv, SerializerTypeOK, Measured, Ordered, Ends, InPlace, Kept, NoBytes

\* The first pass adds a start and a size.
LEMMA MeasureInv == SerializerInv /\ SizeField => SerializerInv'
<1> SUFFICES ASSUME SerializerInv, SizeField PROVE SerializerInv'
  OBVIOUS
<1> USE DEF SerializerInv
<1>1. CASE Unmeasurable(fields[at])
  BY <1>1 DEF SizeField, SerializerTypeOK, Measured, Ordered, Ends, InPlace, Kept
<1>2. CASE ~Unmeasurable(fields[at])
  <2>1. /\ phase = "size" /\ phase' = "size" /\ at \in 1..Len(fields) /\ at' = at + 1
        /\ size' = size + Declared(fields[at]) /\ starts' = Append(starts, size)
        /\ fields' = fields /\ place' = place /\ buf' = buf /\ place = 0 /\ buf = NoBytes
    BY <1>2 DEF SizeField, SerializerTypeOK, Ends
  <2>2. fields[at] \in FieldRecords /\ size \in Nat /\ starts \in Seq(Nat) /\ fields \in Seq(FieldRecords)
    BY <2>1 DEF SerializerTypeOK
  <2>3. Declared(fields[at]) \in Nat
    BY <2>1, <2>2, SizesInNat
  <2>4. /\ Len(starts) = at - 1 /\ starts' \in Seq(Nat) /\ Len(starts') = at /\ starts'[at] = size
        /\ \A i \in 1..Len(starts) : starts'[i] = starts[i]
    BY <2>1, <2>2 DEF Measured
  <2>5. \A f : Declared(f)' = Declared(f)
    BY DEF Declared
  <2>6. \A i \in 1..Len(starts) : starts[i] \in Nat /\ Declared(fields[i]) \in Nat
    <3> SUFFICES ASSUME NEW i \in 1..Len(starts)
                 PROVE  starts[i] \in Nat /\ Declared(fields[i]) \in Nat
      OBVIOUS
    <3>1. i \in 1..Len(fields) /\ fields[i] \in FieldRecords /\ starts[i] \in Nat
      BY <2>1, <2>2, <2>4
    <3> QED
      BY <3>1, SizesInNat
  <2>7. SerializerTypeOK'
    BY <2>1, <2>2, <2>3, <2>4 DEF SerializerTypeOK
  <2>8. Measured'
    <3>1. ASSUME NEW i \in 1..Len(starts')
          PROVE  starts'[i] + Declared(fields[i]) =
                   IF i < Len(starts') THEN starts'[i + 1] ELSE size'
      <4>1. CASE i = at
        BY <2>1, <2>4, <4>1
      <4>2. CASE i = at - 1
        BY <2>1, <2>2, <2>4, <4>2 DEF Measured
      <4>3. CASE i < at - 1
        BY <2>1, <2>2, <2>4, <4>3 DEF Measured
      <4> QED
        BY <2>1, <2>4, <3>1, <4>1, <4>2, <4>3
    <3>2. starts'[1] = 0
      BY <2>1, <2>2, <2>4 DEF Measured
    <3> QED
      BY <2>1, <2>2, <2>4, <3>1, <3>2 DEF Measured
  <2>9. Ordered'
    <3>1. ASSUME NEW i \in 1..at, NEW j \in 1..at, i < j
          PROVE  starts'[i] + Declared(fields[i]) <= starts'[j]
      BY <2>1, <2>2, <2>4, <3>1 DEF Ordered
    <3>2. ASSUME NEW i \in 1..at PROVE starts'[i] + Declared(fields[i]) <= size'
      <4>1. CASE i = at
        BY <2>1, <2>4, <4>1, <2>2, <2>3
      <4>2. CASE i # at
        <5>1. i \in 1..Len(starts)
          BY <2>1, <2>4, <4>2
        <5>2. starts[i] + Declared(fields[i]) <= size /\ starts'[i] = starts[i]
          BY <2>1, <2>4, <5>1 DEF Ordered
        <5>3. starts[i] \in Nat /\ Declared(fields[i]) \in Nat
          BY <2>6, <5>1
        <5> QED
          BY <2>1, <2>2, <2>3, <5>2, <5>3
      <4> QED
        BY <4>1, <4>2
    <3> QED
      BY <2>1, <2>4, <3>1, <3>2 DEF Ordered
  <2>10. Ends' /\ InPlace' /\ Kept'
    BY <2>1 DEF Ends, InPlace, Kept
  <2> QED
    BY <2>7, <2>8, <2>9, <2>10
<1> QED
  BY <1>1, <1>2

\* The second pass writes a field and goes to the next.
LEMMA WriteInv == SerializerInv /\ WriteField => SerializerInv'
<1> SUFFICES ASSUME SerializerInv, WriteField PROVE SerializerInv'
  OBVIOUS
<1> USE DEF SerializerInv
<1> DEFINE f == fields[at]
<1>1. /\ phase = "write" /\ at \in 1..Len(fields) /\ fields' = fields /\ size' = size
      /\ starts' = starts /\ f \in FieldRecords /\ size \in Nat /\ place \in Nat
      /\ fields \in Seq(FieldRecords) /\ starts \in Seq(Nat) /\ Len(starts) = Len(fields)
      /\ buf \in [0..(size - 1) -> 0..Len(fields)]
  BY DEF WriteField, SerializerTypeOK, Measured, Ends
<1>2. CASE Unwritable(f) \/ ~Fits(f)
  BY <1>1, <1>2 DEF WriteField, SerializerTypeOK, Measured, Ordered, Ends, InPlace, Kept
<1>3. CASE ~Unwritable(f) /\ Fits(f)
  <2>1. /\ buf' = [b \in 0..(size - 1) |->
                     IF b \in place..(place + Stored(f) - 1) THEN at ELSE buf[b]]
        /\ place' = place + AdvanceBy(f) /\ at' = at + 1 /\ phase' = "write"
    BY <1>1, <1>3 DEF WriteField
  <2>2. buf' \in [0..(size - 1) -> 0..Len(fields)]
    BY <1>1, <2>1
  <2>3. AdvanceBy(f) \in Nat
    BY <1>1, SizesInNat
  <2>4. SerializerTypeOK'
    BY <1>1, <2>1, <2>2, <2>3 DEF SerializerTypeOK
  <2>5. /\ \A g : Declared(g)' = Declared(g)
        /\ AllWellSized' = AllWellSized
    BY <1>1 DEF Declared, AllWellSized, WellSized
  <2>6. Measured' /\ Ordered' /\ Ends'
    BY <1>1, <2>1, <2>2 DEF Measured, Ordered, Ends, Declared
  <2>7. ASSUME AllWellSized
        PROVE  /\ WellSized(f) /\ place = starts[at] /\ AdvanceBy(f) = Declared(f)
               /\ starts[at] + Declared(f) = IF at < Len(fields) THEN starts[at + 1] ELSE size
    BY <1>1, <2>7, PassesAgree DEF AllWellSized, InPlace, Measured
  <2>8. InPlace'
    BY <1>1, <2>1, <2>5, <2>7 DEF InPlace
  <2>9. ASSUME AllWellSized, NEW i \in 1..at, fields[i].type \notin {ASCII, UTF16},
               NEW b \in starts[i]..(starts[i] + Declared(fields[i]) - 1)
        PROVE  buf'[b] = i
    <3>1. /\ fields[i] \in FieldRecords /\ starts[i] \in Nat
          /\ starts[i] + Declared(fields[i]) <= size
      BY <1>1 DEF Ordered
    <3>2. Declared(fields[i]) \in Nat
      BY <3>1, SizesInNat
    <3>3. b \in 0..(size - 1)
      BY <1>1, <3>1, <3>2
    <3>4. CASE i = at
      <4>1. Stored(f) = Declared(f)
        BY <1>1, <2>7, <2>9, <3>1, <3>4, DataFillsRoom
      <4> QED
        BY <2>1, <2>7, <2>9, <3>3, <3>4, <4>1
    <3>5. CASE i < at
      <4>1. starts[i] + Declared(fields[i]) <= place
        BY <1>1, <2>7, <2>9, <3>5 DEF Ordered
      <4>2. b \notin place..(place + Stored(f) - 1)
        BY <1>1, <3>1, <3>2, <3>3, <4>1
      <4>3. buf[b] = i
        BY <1>1, <2>9, <3>5 DEF Kept, Room
      <4> QED
        BY <2>1, <3>3, <4>2, <4>3
    <3> QED
      BY <1>1, <3>4, <3>5
  <2>10. Kept'
    <3> SUFFICES ASSUME AllWellSized, NEW i \in 1..at, fields[i].type \notin {ASCII, UTF16},
                        NEW b \in starts[i]..(starts[i] + Declared(fields[i]) - 1)
                 PROVE  buf'[b] = i
      <4>1. at' - 1 = at /\ phase' = "write" /\ fields' = fields /\ starts' = starts
        BY <1>1, <2>1
      <4>2. \A i : Room(i)' = starts[i]..(starts[i] + Declared(fields[i]) - 1)
        BY <2>5, <4>1 DEF Room
      <4> QED
        BY <2>5, <4>1, <4>2 DEF Kept
    <3> QED
      BY <2>9
  <2> QED
    BY <2>4, <2>6, <2>8, <2>10
<1> QED
  BY <1>2, <1>3

\* Every step keeps the invariant.
LEMMA SerializerStepInv == SerializerInv /\ [SerializerNext]_serializerVars => SerializerInv'
<1> SUFFICES ASSUME SerializerInv, [SerializerNext]_serializerVars PROVE SerializerInv'
  OBVIOUS
<1>1. ASSUME NEW list \in Lists, StartSerialize(list) PROVE SerializerInv'
  <2>1. list \in Seq(FieldRecords)
    BY SerializerAssumption
  <2> QED
    BY <1>1, <2>1 DEF StartSerialize, SerializerInv, SerializerTypeOK, Measured, Ordered, Ends, InPlace, Kept
<1>2. CASE SizeField
  BY <1>2, MeasureInv
<1>3. CASE Allocate
  <2>1. /\ phase = "size" /\ phase' = "write" /\ at = Len(fields) + 1 /\ at' = 1
        /\ buf' = [b \in 0..(size - 1) |-> 0]
        /\ UNCHANGED <<fields, size, place, starts>>
        /\ place = 0 /\ Len(starts) = Len(fields)
    BY <1>3 DEF Allocate, SerializerInv, SerializerTypeOK, Measured, Ends
  <2>2. fields \in Seq(FieldRecords) /\ buf' \in [0..(size - 1) -> 0..Len(fields)]
    BY <2>1 DEF SerializerInv, SerializerTypeOK
  <2>3. SerializerTypeOK' /\ Ends' /\ Kept'
    BY <2>1, <2>2 DEF SerializerInv, SerializerTypeOK, Ends, Kept
  <2>4. Measured' /\ Ordered'
    BY <2>1 DEF SerializerInv, Measured, Ordered, Declared
  <2>5. InPlace'
    BY <2>1, <2>2 DEF SerializerInv, InPlace, Measured
  <2> QED
    BY <2>3, <2>4, <2>5 DEF SerializerInv
<1>4. CASE WriteField
  BY <1>4, WriteInv
<1>5. CASE Serialized
  <2>1. /\ phase = "write" /\ phase' = "done" /\ at = Len(fields) + 1
        /\ UNCHANGED <<fields, at, size, place, starts, buf>>
    BY <1>5 DEF Serialized, SerializerInv, SerializerTypeOK
  <2> QED
    BY <2>1 DEF SerializerInv, SerializerTypeOK, Measured, Ordered, Ends, InPlace, Kept, Room,
                AllWellSized, WellSized, Declared
<1>6. CASE TakeRequest
  BY <1>6 DEF TakeRequest, SerializerInv, SerializerTypeOK, Measured, Ordered, Ends, InPlace, Kept, NoBytes
<1>7. CASE UNCHANGED serializerVars
  BY <1>7 DEF serializerVars, SerializerInv, SerializerTypeOK, Measured, Ordered, Ends, InPlace, Kept, Room,
              AllWellSized, WellSized, Declared
<1> QED
  BY <1>1, <1>2, <1>3, <1>4, <1>5, <1>6, <1>7 DEF SerializerNext, SerializerStep

-----------------------------------------------------------------------------
\* Types, for every list of fields.
THEOREM SerializerTypes == SerializerSpec => []SerializerTypeOK
<1>1. SerializerInv => SerializerTypeOK
  BY DEF SerializerInv
<1> QED
  BY SerializerInitInv, SerializerStepInv, <1>1, PTL DEF SerializerSpec

\* Each field of a request is written where the first pass made room for it, however
\* long the texts are (ec.go 19-184).
THEOREM WrittenInPlace == SerializerSpec => []InPlace
<1>1. SerializerInv => InPlace
  BY DEF SerializerInv
<1> QED
  BY SerializerInitInv, SerializerStepInv, <1>1, PTL DEF SerializerSpec

\* No text, of whatever length, costs a request a number or raw bytes (ec.go 72-98).
THEOREM DataSurvives == SerializerSpec => []NumbersSurvive
<1>1. SerializerInv => NumbersSurvive
  BY DEF SerializerInv, Kept, Ends, NumbersSurvive
<1> QED
  BY SerializerInitInv, SerializerStepInv, <1>1, PTL DEF SerializerSpec

-----------------------------------------------------------------------------
(* Login requests with texts that fit.                                     *)

\* What the application may give: a text has so many code units and bytes.
Texts == [units : Nat, bytes : Nat]
LoginRequests == {GenerateLoginFields(server, password) : server \in Texts, password \in Texts}

\* What Serialize wants of a field in order to write it.
Proper(f) == f.kind \in Accepts(f.type) /\ f.type \notin {9, ASCII} /\ WellSized(f)

\* No login request has a field that Serialize rejects, whatever the two texts are.
LEMMA LoginProper ==
  ASSUME NEW list \in LoginRequests
  PROVE  list \in Seq(FieldRecords) /\ \A i \in 1..Len(list) : Proper(list[i])
<1>1. PICK server \in Texts, password \in Texts : list = GenerateLoginFields(server, password)
  BY DEF LoginRequests
<1> DEFINE Text(s, length) == Field(UTF16, length, "string", s.units, s.bytes)
           Empty(length) == Field(UTF16, length, "string", 0, 0)
           Bytes(n) == Field(Raw, n, "bytes", 0, n)
           Number(t) == Field(t, 0, "integer", 0, 0)
           Good(f) == f \in FieldRecords /\ Proper(f)
<1>2. ASSUME NEW s \in Texts, NEW n \in {64, 256} PROVE Good(Text(s, n))
  <2>1. Text(s, n) = [type |-> 11, length |-> n, kind |-> "string", units |-> s.units, bytes |-> s.bytes]
    BY DEF Field, UTF16
  <2>2. s.units \in Nat /\ s.bytes \in Nat
    BY DEF Texts
  <2> HIDE DEF Text
  <2>3. Text(s, n) \in FieldRecords
    BY <2>1, <2>2 DEF FieldRecords, PropTypes, UTF16, Kinds
  <2> QED
    BY <2>1, <2>3 DEF Proper, WellSized, Accepts, Numbers, ASCII, UTF16, Raw
<1>3. ASSUME NEW n \in {64, 128} PROVE Good(Empty(n))
  <2>1. Empty(n) = [type |-> 11, length |-> n, kind |-> "string", units |-> 0, bytes |-> 0]
    BY DEF Field, UTF16
  <2> HIDE DEF Empty
  <2>2. Empty(n) \in FieldRecords
    BY <2>1 DEF FieldRecords, PropTypes, UTF16, Kinds
  <2> QED
    BY <2>1, <2>2 DEF Proper, WellSized, Accepts, Numbers, ASCII, UTF16, Raw
<1>4. ASSUME NEW n \in {16, 160} PROVE Good(Bytes(n))
  <2>1. Bytes(n) = [type |-> 12, length |-> n, kind |-> "bytes", units |-> 0, bytes |-> n]
    BY DEF Field, Raw
  <2> HIDE DEF Bytes
  <2>2. Bytes(n) \in FieldRecords
    BY <2>1 DEF FieldRecords, PropTypes, Raw, Kinds
  <2> QED
    BY <2>1, <2>2 DEF Proper, WellSized, Accepts, Numbers, ASCII, UTF16, Raw
<1>5. ASSUME NEW t \in {6, 18} PROVE Good(Number(t))
  <2>1. Number(t) = [type |-> t, length |-> 0, kind |-> "integer", units |-> 0, bytes |-> 0]
    BY DEF Field
  <2> HIDE DEF Number
  <2>2. Number(t) \in FieldRecords
    BY <2>1 DEF FieldRecords, PropTypes, Numbers, Kinds
  <2> QED
    BY <2>1, <2>2 DEF Proper, WellSized, Accepts, Numbers, ASCII, UTF16, Raw
<1>6. list = << Number(6), Text(password, 64), Empty(128), Bytes(16), Empty(64), Empty(64),
                Number(18), Empty(128), Number(6), Text(server, 256), Number(18), Bytes(160),
                Number(18) >>
  BY <1>1 DEF GenerateLoginFields, DeviceIDFromString
<1> HIDE DEF Text, Empty, Bytes, Number
<1>7. Len(list) = 13 /\ \A i \in 1..13 : Good(list[i])
  BY <1>2, <1>3, <1>4, <1>5, <1>6
<1>8. list \in Seq(FieldRecords)
  BY <1>2, <1>3, <1>4, <1>5, <1>6
<1> QED
  BY <1>7, <1>8

\* No text runs over its field.
TextsFit ==
  \A i \in 1..Len(fields) : fields[i].type = UTF16 => 2 * fields[i].units <= fields[i].length

\* Nothing is rejected, and each byte written is in the room of its field.
ExactInv ==
  /\ \A i \in 1..Len(fields) : Proper(fields[i])
  /\ TextsFit =>
       /\ phase \notin {"error", "panic"}
       /\ phase \in {"write", "done"} => Confined

\* The second pass writes a fitting field inside its room, which is nobody else's.
LEMMA ExactWrite ==
  ASSUME SerializerInv, ExactInv, TextsFit, WriteField
  PROVE  phase' = "write" /\ Confined'
<1> DEFINE f == fields[at]
<1>1. /\ phase = "write" /\ at \in 1..Len(fields) /\ fields' = fields /\ size' = size
      /\ starts' = starts /\ f \in FieldRecords /\ size \in Nat /\ place \in Nat
      /\ fields \in Seq(FieldRecords) /\ starts \in Seq(Nat) /\ Len(starts) = Len(fields)
      /\ buf \in [0..(size - 1) -> 0..Len(fields)]
  BY DEF SerializerInv, WriteField, SerializerTypeOK, Measured, Ends
<1>2. /\ Proper(f) /\ ~Unwritable(f) /\ AllWellSized
      /\ f.type \in PropTypes /\ f.units \in Nat /\ f.bytes \in Nat /\ f.length \in Nat
  BY <1>1 DEF ExactInv, Proper, Unwritable, AllWellSized, FieldRecords
<1>3. place = starts[at] /\ place + Declared(f) <= size /\ Declared(f) \in Nat
  <2>1. Declared(f) \in Nat
    BY <1>1, SizesInNat
  <2>2. place = starts[at]
    BY <1>1, <1>2 DEF SerializerInv, InPlace
  <2>3. starts[at] + Declared(f) <= size
    BY <1>1 DEF SerializerInv, Ordered
  <2> QED
    BY <2>1, <2>2, <2>3
<1>4. Stored(f) \in 0..Declared(f)
  <2>1. CASE f.type = UTF16
    <3>1. Declared(f) = f.length /\ Stored(f) = 2 * f.units
      BY <1>2, <2>1 DEF Declared, Stored, Proper, WellSized, Numbers, UTF16
    <3> QED
      BY <1>1, <1>2, <2>1, <3>1 DEF TextsFit
  <2>2. CASE f.type # UTF16
    <3>1. f.type \notin {ASCII, UTF16}
      BY <1>2, <2>2 DEF Proper
    <3> QED
      BY <1>1, <1>2, <1>3, <3>1, DataFillsRoom DEF Proper
  <2> QED
    BY <2>1, <2>2
<1>5. Fits(f)
  BY <1>1, <1>3, <1>4 DEF Fits
<1>6. /\ buf' = [b \in 0..(size - 1) |->
                   IF b \in place..(place + Stored(f) - 1) THEN at ELSE buf[b]]
      /\ phase' = "write"
  BY <1>1, <1>2, <1>5 DEF WriteField
<1>7. ASSUME NEW i \in 1..Len(fields), NEW b \in starts[i]..(starts[i] + Declared(fields[i]) - 1)
      PROVE  buf'[b] \in {0, i}
  <2>1. /\ starts[i] \in Nat /\ Declared(fields[i]) \in Nat
        /\ starts[i] + Declared(fields[i]) <= size
    <3>1. fields[i] \in FieldRecords /\ starts[i] \in Nat
      BY <1>1
    <3>2. starts[i] + Declared(fields[i]) <= size
      BY <1>1 DEF SerializerInv, Ordered
    <3> QED
      BY <3>1, <3>2, SizesInNat
  <2>2. b \in 0..(size - 1) /\ buf[b] \in {0, i}
    BY <1>1, <2>1 DEF ExactInv, Confined, Room
  <2>3. i # at => b \notin place..(place + Stored(f) - 1)
    <3>1. CASE i < at
      <4>1. starts[i] + Declared(fields[i]) <= place
        BY <1>1, <1>3, <3>1 DEF SerializerInv, Ordered
      <4> QED
        BY <1>1, <2>1, <4>1
    <3>2. CASE at < i
      <4>1. place + Declared(f) <= starts[i]
        BY <1>1, <1>3, <3>2 DEF SerializerInv, Ordered
      <4>2. /\ place \in Nat /\ Stored(f) \in Nat /\ Declared(f) \in Nat /\ starts[i] \in Nat
            /\ Stored(f) <= Declared(f) /\ b \in Nat /\ starts[i] <= b
        BY <1>1, <1>3, <1>4, <2>1
      <4> HIDE DEF f
      <4>3. place + Stored(f) <= b
        BY <4>1, <4>2
      <4> QED
        BY <4>2, <4>3
    <3> QED
      BY <1>1, <3>1, <3>2
  <2> QED
    BY <1>6, <2>2, <2>3
<1>8. \A i : Room(i)' = starts[i]..(starts[i] + Declared(fields[i]) - 1)
  BY <1>1 DEF Room, Declared
<1> QED
  BY <1>1, <1>6, <1>7, <1>8 DEF Confined

\* Every step of a proper request keeps it exact.
LEMMA ExactStep ==
  ASSUME Lists \subseteq LoginRequests
  PROVE  SerializerInv /\ ExactInv /\ [SerializerNext]_serializerVars => ExactInv'
<1> SUFFICES ASSUME SerializerInv, ExactInv, [SerializerNext]_serializerVars PROVE ExactInv'
  OBVIOUS
<1>1. ASSUME fields' = fields
      PROVE  /\ TextsFit' = TextsFit
             /\ \A i \in 1..Len(fields') : Proper(fields'[i])
  BY <1>1 DEF TextsFit, ExactInv
<1>2. ASSUME NEW list \in Lists, StartSerialize(list) PROVE ExactInv'
  <2>1. \A i \in 1..Len(list) : Proper(list[i])
    BY LoginProper
  <2> QED
    BY <1>2, <2>1 DEF StartSerialize, ExactInv
<1>3. CASE SizeField
  <2>1. phase = "size" /\ at \in 1..Len(fields) /\ fields' = fields
    BY <1>3 DEF SizeField, SerializerInv, SerializerTypeOK
  <2>2. ~Unmeasurable(fields[at])
    BY <2>1 DEF ExactInv, Proper, Unmeasurable
  <2>3. phase' = "size"
    BY <1>3, <2>1, <2>2 DEF SizeField
  <2> QED
    BY <1>1, <2>1, <2>3 DEF ExactInv
<1>4. CASE Allocate
  <2>1. /\ fields' = fields /\ phase' = "write" /\ buf' = [b \in 0..(size - 1) |-> 0]
        /\ starts' = starts /\ size' = size /\ phase = "size" /\ at = Len(fields) + 1
    BY <1>4 DEF Allocate, SerializerInv, SerializerTypeOK
  <2>2. ASSUME NEW i \in 1..Len(fields), NEW b \in starts[i]..(starts[i] + Declared(fields[i]) - 1)
        PROVE  buf'[b] = 0
    <3>1. fields \in Seq(FieldRecords) /\ starts \in Seq(Nat) /\ Len(starts) = Len(fields) /\ size \in Nat
      BY <2>1 DEF SerializerInv, SerializerTypeOK, Measured
    <3>2. starts[i] \in Nat /\ fields[i] \in FieldRecords
      BY <3>1
    <3>3. starts[i] + Declared(fields[i]) <= size
      BY <2>1, <3>1 DEF SerializerInv, Ordered
    <3>4. b \in 0..(size - 1)
      BY <3>1, <3>2, <3>3, SizesInNat
    <3> QED
      BY <2>1, <3>4
  <2>3. \A i : Room(i)' = starts[i]..(starts[i] + Declared(fields[i]) - 1)
    BY <2>1 DEF Room, Declared
  <2>4. Confined'
    BY <2>1, <2>2, <2>3 DEF Confined
  <2> QED
    BY <1>1, <2>1, <2>4 DEF ExactInv
<1>5. CASE WriteField
  <2>1. fields' = fields
    BY <1>5 DEF WriteField
  <2> QED
    BY <1>1, <1>5, <2>1, ExactWrite DEF ExactInv
<1>6. CASE Serialized
  <2>1. UNCHANGED <<fields, buf, starts, size>> /\ phase = "write" /\ phase' = "done"
    BY <1>6 DEF Serialized
  <2>2. Confined' = Confined
    BY <2>1 DEF Confined, Room, Declared
  <2> QED
    BY <1>1, <2>1, <2>2 DEF ExactInv
<1>7. CASE TakeRequest
  BY <1>7 DEF TakeRequest, ExactInv
<1>8. CASE UNCHANGED serializerVars
  <2>1. UNCHANGED <<fields, buf, starts, size, phase>>
    BY <1>8 DEF serializerVars
  <2>2. Confined' = Confined
    BY <2>1 DEF Confined, Room, Declared
  <2> QED
    BY <1>1, <2>1, <2>2 DEF ExactInv
<1> QED
  BY <1>2, <1>3, <1>4, <1>5, <1>6, <1>7, <1>8 DEF SerializerNext, SerializerStep

\* Any login request whose two texts fit their fields is serialized without an error or a
\* panic, its passes end at the same place, and no field gets into another
\* (ec.go 19-184, login.go 13-31, actions.go 91-98).
THEOREM LoginIsExact ==
  ASSUME Lists \subseteq LoginRequests
  PROVE  SerializerSpec => []FittingRequestIsExact
<1>1. SerializerInit => ExactInv
  BY DEF SerializerInit, ExactInv
<1>2. SerializerInv /\ ExactInv => FittingRequestIsExact
  <2> SUFFICES ASSUME SerializerInv, ExactInv, TextsFit
               PROVE  /\ phase \notin {"error", "panic"}
                      /\ phase = "done" => place = size /\ Confined
    BY DEF FittingRequestIsExact, TextsFit
  <2>1. AllWellSized
    BY DEF ExactInv, Proper, AllWellSized
  <2>2. phase = "done" => place = size
    BY <2>1 DEF SerializerInv, SerializerTypeOK, InPlace, Ends
  <2> QED
    BY <2>2 DEF ExactInv
<1>3. SerializerInv /\ ExactInv /\ [SerializerNext]_serializerVars => ExactInv'
  BY ExactStep
<1> QED
  BY <1>1, <1>2, <1>3, SerializerInitInv, SerializerStepInv, PTL DEF SerializerSpec
=============================================================================
