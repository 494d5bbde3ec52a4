---------------------------- MODULE MCDLQReplay ----------------------------
(***************************************************************************)
(* DLQReplay for TLC: two messages.                                        *)
(***************************************************************************)
EXTENDS DLQReplay

CONSTANTS m1, m2
TwoMessages == {m1, m2}
=============================================================================
