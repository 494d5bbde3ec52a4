----------------------------- MODULE MCConsumer -----------------------------
(***************************************************************************)
(* Consumer for TLC: which messages do not decode, MAX_RETRIES, and which  *)
(* faults the runs allow.                                                  *)
(***************************************************************************)
EXTENDS Consumer

NoPoison == {}
SecondIsPoison == {1}
NoneIsLarge == {}
DefaultRetries == {3}
ZeroRetries == {0}
NoFaults == {}
SignalOnly == {"signal"}
=============================================================================
