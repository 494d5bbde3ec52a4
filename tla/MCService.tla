----------------------------- MODULE MCService ------------------------------
(***************************************************************************)
(* Service for TLC: the second message does not decode, the first is too   *)
(* large for the DLQ, MAX_RETRIES is 0 or 2, and everything fails.         *)
(***************************************************************************)
EXTENDS Service

NoneOf == {}
FirstIsLarge == {0}
SecondIsPoison == {1}
ZeroOrTwo == {0, 2}
ZeroRetries == {0}
AllFaults == {"crash", "signal", "rejoin", "commit", "registry", "sink"}
=============================================================================
