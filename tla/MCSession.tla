----------------------------- MODULE MCSession -----------------------------
(* Session on small instances; the cfgs give the sizes.                    *)
EXTENDS Session
=============================================================================
