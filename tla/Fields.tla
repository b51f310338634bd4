------------------------------- MODULE Fields -------------------------------
(***************************************************************************)
(* ec.Field (internal/ec/ec.go), by which the login request is written and *)
(* the account response is read: a property type, a length, and of the     *)
(* value only its size.  A number has the width of its type.               *)
(***************************************************************************)
EXTENDS Integers, Sequences

ASCII == 10
UTF16 == 11
Raw   == 12
Numbers == 1..9 \cup {17, 18}
PropTypes == Numbers \cup {ASCII, UTF16, Raw}

Width(t) ==
  CASE t \in {1, 4} -> 1
    [] t \in {2, 5} -> 2
    [] t \in {3, 6, 7} -> 4
    [] OTHER -> 8

\* The Go type parseFields makes of each property type.
Produces(t) ==
  CASE t = 1 -> "int8"    [] t = 4 -> "uint8"
    [] t = 2 -> "int16"   [] t = 5 -> "uint16"
    [] t = 3 -> "int32"   [] t = 6 -> "uint32"
    [] t = 17 -> "int64"  [] t = 18 -> "uint64"
    [] t = 8 -> "float64" [] t = UTF16 -> "string" [] t = Raw -> "[]float64"

\* What toInt64, toUint64 and toFloat64 convert, and the type assertions let through.
Accepts(t) ==
  CASE t \in {7, 8} -> {"integer", "float"}
    [] t \in Numbers \ {7, 8} -> {"integer"}
    [] t = Raw -> {"bytes"}
    [] OTHER -> {"string"}

\* A field has a PropLength and a value: its kind, the UTF-16 code units it has as a
\* string, and its bytes.
Kinds == {"nil", "integer", "float", "string", "bytes"}
FieldRecords ==
  [type : PropTypes, length : Nat, kind : Kinds, units : Nat, bytes : Nat]

Field(t, length, kind, units, bytes) ==
  [type |-> t, length |-> length, kind |-> kind, units |-> units, bytes |-> bytes]

\* The fields of a format, which say what to read and hold no value.
Reads(t, length) == Field(t, length, "nil", 0, 0)
=============================================================================
