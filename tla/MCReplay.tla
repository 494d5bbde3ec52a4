------------------------------ MODULE MCReplay ------------------------------
(***************************************************************************)
(* Replay for TLC: which faults the runs allow.                            *)
(***************************************************************************)
EXTENDS Replay

AllFaults == {"list", "file", "eof", "encode", "publish", "signal"}
NoFaults == {}
EmptyPrefix == Empty
DefaultPrefix == Default
=============================================================================
