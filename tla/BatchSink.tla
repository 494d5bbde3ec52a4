----------------------------- MODULE BatchSink -----------------------------
(***************************************************************************)
(* What internal/almanac/sink promises to its caller, with no goroutine,   *)
(* channel or lock in sight.  A row that Write accepted is buffered; a     *)
(* flush takes the WHOLE buffer as one batch; the batch becomes one        *)
(* Parquet object, or is dropped as a whole when the upload fails.  A row  *)
(* is therefore always in exactly one of four places.                      *)
(*                                                                         *)
(* Batcher implements this specification; Consumer uses it as its sink.    *)
(***************************************************************************)
EXTENDS FiniteSets

CONSTANT Rows       \* the rows that may be written to the sink

VARIABLES
  buffered,         \* rows accepted by Write, not yet taken by a flush
  writing,          \* the batches taken by a flush, upload not finished
  stored,           \* rows of the objects that are in the bucket
  lost              \* rows of the batches whose upload failed, or that were
                    \* in memory when the process ended

vars == <<buffered, writing, stored, lost>>

\* Every row the sink has accepted.
Accepted == buffered \cup (UNION writing) \cup stored \cup lost

TypeOK ==
  /\ buffered \subseteq Rows
  /\ writing \subseteq SUBSET Rows
  /\ stored \subseteq Rows
  /\ lost \subseteq Rows

Init ==
  /\ buffered = {}
  /\ writing = {}
  /\ stored = {}
  /\ lost = {}

\* Batcher.Write
Accept(r) ==
  /\ r \in Rows \ Accepted
  /\ buffered' = buffered \cup {r}
  /\ UNCHANGED <<writing, stored, lost>>

\* Batcher.Flush up to the call of WriteFile
Take ==
  /\ buffered # {}
  /\ writing' = writing \cup {buffered}
  /\ buffered' = {}
  /\ UNCHANGED <<stored, lost>>

\* WriteFile returned and the object is in the bucket
Store(b) ==
  /\ b \in writing
  /\ writing' = writing \ {b}
  /\ stored' = stored \cup b
  /\ UNCHANGED <<buffered, lost>>

\* WriteFile failed: Flush has already emptied the buffer and keeps no copy
Drop(b) ==
  /\ b \in writing
  /\ writing' = writing \ {b}
  /\ lost' = lost \cup b
  /\ UNCHANGED <<buffered, stored>>

\* The process ends: what it held in memory is gone.
Abandon ==
  /\ lost' = lost \cup buffered \cup (UNION writing)
  /\ buffered' = {}
  /\ writing' = {}
  /\ UNCHANGED stored

Next ==
  \/ \E r \in Rows : Accept(r)
  \/ Take
  \/ \E b \in writing : Store(b) \/ Drop(b)
  \/ Abandon

Spec == Init /\ [][Next]_vars

(***************************************************************************)
(* A row is in one place only: no flush takes a row twice, no upload keeps *)
(* half of a batch.                                                        *)
(***************************************************************************)
OnePlace ==
  /\ buffered \cap (stored \cup lost) = {}
  /\ stored \cap lost = {}
  /\ \A b \in writing : b \cap (buffered \cup stored \cup lost) = {}
  /\ \A b, c \in writing : b # c => b \cap c = {}

\* Accepted rows never disappear and stored rows stay stored.
Durable == [][Accepted \subseteq Accepted' /\ stored \subseteq stored']_vars

(***************************************************************************)
(* What the background loop adds: a buffered row is eventually taken and   *)
(* its upload eventually ends.                                             *)
(***************************************************************************)
LiveSpec ==
  /\ Spec
  /\ WF_vars(Take)
  /\ WF_vars(\E b \in writing : Store(b) \/ Drop(b))
=============================================================================
