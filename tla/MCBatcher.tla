----------------------------- MODULE MCBatcher -----------------------------
(***************************************************************************)
(* Batcher for TLC.  Its constants are given in the cfg: the writers are   *)
(* model values, and no symmetry is used because liveness is checked.      *)
(***************************************************************************)
EXTENDS Batcher
=============================================================================
