----------------------------- MODULE MCReadPath -----------------------------
(* ReadPath on the lengths of the real protocol, with some of the login    *)
(* requests of MCFieldSerializer.                                          *)
EXTENDS ReadPath, MCFieldSerializer

\* Texts that fit, that run over the fields after them, and out of the buffer.
SomeLists == {GenerateLoginFields(Ascii(16), Ascii(n)) : n \in {8, 33, 114, 455}} \cup
             {GenerateLoginFields(Ascii(n), Cyrillic(20)) : n \in {129, 217}}
=============================================================================
