--------------------------- MODULE FieldSerializer ---------------------------
(***************************************************************************)
(* Serialize and seriesSize (internal/ec/ec.go) on the fields of the login *)
(* request (internal/login): one pass over the fields adds up their sizes, *)
(* a second one writes each value where the last one ended.  A text is     *)
(* written as long as it is, whatever its PropLength.  Bytes are           *)
(* abstracted to the field that wrote them last.                           *)
(***************************************************************************)
EXTENDS Fields

CONSTANT Lists   (* the lists of fields Serialize is given *)

ASSUME SerializerAssumption == Lists \subseteq Seq(FieldRecords)

VARIABLES
  phase,     (* "idle", "size" and "write", the two passes, then "done", "error", "panic" *)
  fields,    (* the list in hand                                   *)
  at,        (* the field a pass is at                             *)
  size,      (* what the first pass has added up                   *)
  place,     (* the offset of the second pass                      *)
  starts,    (* history: what size was before each field           *)
  buf        (* the field that wrote each byte, 0 if none          *)

serializerVars == <<phase, fields, at, size, place, starts, buf>>

NoBytes == [b \in {} |-> 0]

-----------------------------------------------------------------------------
\* The first bytes of a hash.
DeviceIDFromString == 16

\* GenerateLoginFields: the two texts are the application's.
GenerateLoginFields(server, password) ==
  LET Text(s, length) == Field(UTF16, length, "string", s.units, s.bytes)
      Empty(length) == Field(UTF16, length, "string", 0, 0)
      Bytes(n) == Field(Raw, n, "bytes", 0, n)
      Number(t) == Field(t, 0, "integer", 0, 0)
  IN << Number(6), Text(password, 64), Empty(128), Bytes(DeviceIDFromString), Empty(64), Empty(64),
        Number(18), Empty(128), Number(6), Text(server, 256), Number(18), Bytes(160),
        Number(18) >>

\* A seriesSize that adds nothing for raw bytes.
Declared_NoRaw(f) ==
  IF f.type \in Numbers THEN Width(f.type) ELSE IF f.type = Raw THEN 0 ELSE f.length

\* What seriesSize adds for a field: a text without PropLength is measured in bytes.
Declared(f) ==
  IF f.type \in Numbers THEN Width(f.type)
  ELSE IF f.length > 0 THEN f.length
  ELSE IF f.type = UTF16 THEN 2 * f.bytes ELSE f.bytes

\* A PutUint32 where eight bytes are due.
Stored_Word(f) ==
  CASE f.type \in Numbers -> IF Width(f.type) > 4 THEN 4 ELSE Width(f.type)
    [] f.type = UTF16 -> 2 * f.units
    [] OTHER -> IF f.bytes < size - place THEN f.bytes ELSE size - place

\* The bytes Serialize writes: copy stops at the end of the buffer, the loop over the
\* code units of a text does not.
Stored(f) ==
  CASE f.type \in Numbers -> Width(f.type)
    [] f.type = UTF16 -> 2 * f.units
    [] OTHER -> IF f.bytes < size - place THEN f.bytes ELSE size - place

\* A Serialize that goes on where a text ended.
AdvanceBy_Text(f) ==
  CASE f.type \in Numbers -> Width(f.type)
    [] f.type = UTF16 -> 2 * f.units
    [] OTHER -> f.bytes

\* What Serialize adds to offset: a text without PropLength is measured in units, and
\* raw bytes do not look at theirs.
AdvanceBy(f) ==
  IF f.type \in Numbers THEN Width(f.type)
  ELSE IF f.type # Raw /\ f.length > 0 THEN f.length
  ELSE IF f.type = UTF16 THEN 2 * f.units ELSE f.bytes

\* PutUint and the slice expressions panic past the end; an empty text touches nothing.
Fits(f) ==
  \/ f.type = UTF16 /\ f.units = 0
  \/ place + Stored(f) <= size /\ place <= size

-----------------------------------------------------------------------------
StartSerialize(list) ==
  /\ phase = "idle" /\ phase' = "size"
  /\ fields' = list
  /\ UNCHANGED <<at, size, place, starts, buf>>

Unmeasurable(f) == f.type \notin Numbers /\ f.length = 0 /\ f.kind \notin Accepts(f.type)

\* One turn of the loop of seriesSize.
SizeField ==
  /\ phase = "size" /\ at <= Len(fields)
  /\ IF Unmeasurable(fields[at])
     THEN phase' = "error" /\ UNCHANGED <<at, size, starts>>
     ELSE /\ size' = size + Declared(fields[at])
          /\ starts' = Append(starts, size)
          /\ at' = at + 1
          /\ phase' = phase
  /\ UNCHANGED <<fields, place, buf>>

Allocate ==
  /\ phase = "size" /\ at > Len(fields)
  /\ phase' = "write" /\ at' = 1
  /\ buf' = [b \in 0..(size - 1) |-> 0]
  /\ UNCHANGED <<fields, size, place, starts>>

\* Serialize knows no type 9, though seriesSize does.
Unwritable(f) == f.type = 9 \/ f.kind \notin Accepts(f.type)

\* One turn of the loop of Serialize.
WriteField ==
  /\ phase = "write" /\ at <= Len(fields)
  /\ LET f == fields[at] IN
       IF Unwritable(f) \/ ~Fits(f)
       THEN /\ phase' = IF Unwritable(f) THEN "error" ELSE "panic"
            /\ UNCHANGED <<at, place, buf>>
       ELSE /\ buf' = [b \in 0..(size - 1) |->
                         IF b \in place..(place + Stored(f) - 1) THEN at ELSE buf[b]]
            /\ place' = place + AdvanceBy(f)
            /\ at' = at + 1
            /\ phase' = phase
  /\ UNCHANGED <<fields, size, starts>>

Serialized ==
  /\ phase = "write" /\ at > Len(fields)
  /\ phase' = "done"
  /\ UNCHANGED <<fields, at, size, place, starts, buf>>

\* The caller takes the bytes or the error.
TakeRequest ==
  /\ phase \in {"done", "error"}
  /\ phase' = "idle" /\ fields' = <<>> /\ at' = 1
  /\ size' = 0 /\ place' = 0 /\ starts' = <<>> /\ buf' = NoBytes

SerializerInit ==
  /\ phase = "idle" /\ fields = <<>> /\ at = 1
  /\ size = 0 /\ place = 0 /\ starts = <<>> /\ buf = NoBytes

SerializerStep == SizeField \/ Allocate \/ WriteField \/ Serialized

SerializerNext == (\E list \in Lists : StartSerialize(list)) \/ SerializerStep \/ TakeRequest

SerializerSpec == SerializerInit /\ [][SerializerNext]_serializerVars

-----------------------------------------------------------------------------
(* Properties.                                                             *)

SerializerTypeOK ==
  /\ phase \in {"idle", "size", "write", "done", "error", "panic"}
  /\ fields \in Seq(FieldRecords)
  /\ at \in 1..(Len(fields) + 1)
  /\ size \in Nat /\ place \in Nat
  /\ starts \in Seq(Nat)
  /\ buf = NoBytes \/ buf \in [0..(size - 1) -> 0..Len(fields)]

\* The bytes the first pass set aside for the i-th field.
Room(i) == starts[i]..(starts[i] + Declared(fields[i]) - 1)

\* Texts have a PropLength and raw bytes the length they say, as in a login request.
WellSized(f) ==
  /\ f.type \in {ASCII, UTF16} => f.length > 0
  /\ f.type = Raw => f.length \in {0, f.bytes}

AllWellSized == \A i \in 1..Len(fields) : WellSized(fields[i])

\* The two passes agree: each field is written where the first pass made room for it,
\* however long the texts before it were (ec.go 19-137, 139-184).
InPlace ==
  phase \in {"write", "done"} /\ AllWellSized =>
    place = IF at <= Len(fields) THEN starts[at] ELSE size

\* A password or server name too long for its field never costs a number or raw bytes:
\* what it wrote over them they write over again (ec.go 72-98, login.go 13-31).
NumbersSurvive ==
  phase = "done" /\ AllWellSized =>
    \A i \in 1..Len(fields) :
      fields[i].type \notin {ASCII, UTF16} => \A b \in Room(i) : buf[b] = i

\* Every byte of a field is its own or zero.
Confined == \A i \in 1..Len(fields) : \A b \in Room(i) : buf[b] \in {0, i}

\* With texts that fit the request is complete: no panic, no error, the two passes end
\* at the same place, no field is written over another (actions.go 91-98).
FittingRequestIsExact ==
  (\A i \in 1..Len(fields) : fields[i].type = UTF16 => 2 * fields[i].units <= fields[i].length)
  => /\ phase \notin {"error", "panic"}
     /\ phase = "done" => place = size /\ Confined

-----------------------------------------------------------------------------
(* What the documentation says and the code does not do.                   *)

\* ec.go 96: a string is padded to PropLength; so it takes no more room than that.
TextIsPadded == phase = "done" => Confined
=============================================================================
