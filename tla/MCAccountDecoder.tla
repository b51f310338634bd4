-------------------------- MODULE MCAccountDecoder --------------------------
(* AccountDecoder on the lengths of the real protocol; the cfgs give the   *)
(* parts.                                                                  *)
EXTENDS AccountDecoder

\* Answers well short of an account, whole blocks or not.
Refusals == 0..100
=============================================================================
