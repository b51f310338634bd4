------------------------------ MODULE MCClient ------------------------------
(* Client on small instances; the cfgs give the sizes.                     *)
EXTENDS Client, TLC

\* Any negative ReconnectMaxAttempts.
Unlimited == -1

\* Connections are interchangeable, and so are callers; for safety runs only.
Symmetry == Permutations(Conns) \cup Permutations(Senders) \cup Permutations(Closers)
=============================================================================
