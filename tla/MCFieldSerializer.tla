------------------------- MODULE MCFieldSerializer -------------------------
(* FieldSerializer on login requests: texts that fit their field, fill it, *)
(* run over the next one, over several, and out of the buffer.             *)
EXTENDS FieldSerializer

Ascii(n) == [units |-> n, bytes |-> n]
Cyrillic(n) == [units |-> n, bytes |-> 2 * n]

Passwords == {Ascii(n) : n \in {1, 32, 33, 112, 454, 455}} \cup {Cyrillic(20)}
Servers == {Ascii(n) : n \in {16, 128, 129, 216, 217}} \cup {Cyrillic(20)}
LoginLists == {GenerateLoginFields(s, p) : s \in Servers, p \in Passwords}
=============================================================================
