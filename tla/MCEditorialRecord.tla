-------------------------- MODULE MCEditorialRecord --------------------------
(* Model-checking instance of EditorialRecord; the bounds are in the cfg.  *)
EXTENDS EditorialRecord
=============================================================================
