-------------------------- MODULE StartupConstants -------------------------
(***************************************************************************)
(* The parameters of the start, which Startup and Service share.           *)
(***************************************************************************)
EXTENDS Integers

CONSTANTS
  MaxAttempts,      \* STARTUP_MAX_RETRIES is at most this
  Interval,         \* STARTUP_RETRY_INTERVAL
  CheckTime,        \* a CheckAll that the context does not cut takes no longer
  OpenLimit         \* bound of the model: how long NewParquetSink may take

ASSUME StartupAssumption ==
  /\ MaxAttempts \in Nat \ {0}
  /\ Interval \in Nat \ {0}
  /\ CheckTime \in Nat
  /\ OpenLimit \in Nat
=============================================================================
