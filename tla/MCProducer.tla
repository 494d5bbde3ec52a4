----------------------------- MODULE MCProducer -----------------------------
(***************************************************************************)
(* Producer for TLC: the second event does not parse, or all do.           *)
(***************************************************************************)
EXTENDS Producer

SecondIsBad == {2}
NoneBad == {}
=============================================================================
