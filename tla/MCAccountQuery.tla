--------------------------- MODULE MCAccountQuery ---------------------------
(* AccountQuery on small instances; the cfgs give the sizes.               *)
EXTENDS AccountQuery
=============================================================================
