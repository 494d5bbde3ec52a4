------------------------------ MODULE Consumer ------------------------------
(***************************************************************************)
(* services/consumer: one process that reads a topic as a consumer group,  *)
(* decodes each message, writes it to the Parquet sink, and commits.       *)
(*                                                                         *)
(* One partition and one member of the group are modelled.  Offsets are    *)
(* 0, 1, 2 ...; a message is known by its offset.  The sink is BatchSink,  *)
(* which Batcher is proved to implement; a row of it is an offset and the  *)
(* number of the delivery that brought it.                                 *)
(*                                                                         *)
(* kafka-go is external.  Reader.ReadMessage in a consumer group is a      *)
(* fetch followed by a synchronous commit; when the commit fails the       *)
(* message is not returned, although the position has moved past it.       *)
(***************************************************************************)
EXTENDS Integers, FiniteSets

CONSTANTS
  LogLimit,         \* bound of the model: how many messages are produced
  MaxLives,         \* bound of the model: how often the process is started
  MaxRejoins,       \* bound of the model: rebalances
  Poison,           \* the offsets whose message does not decode
  Large,            \* the offsets whose message, with the headers that
                    \* WriteFailed adds, is too large for the DLQ writer
  RetryLimits,      \* what MAX_RETRIES may be
  Faults            \* which of these may happen:
                    \*   "crash"    the process is killed
                    \*   "signal"   SIGINT or SIGTERM
                    \*   "rejoin"   the group rebalances
                    \*   "commit"   a commit is answered with an error
                    \*   "registry" a schema lookup fails
                    \*   "sink"     an upload fails

Offsets == 0..(LogLimit - 1)
None == -1          \* the offset a group has before its first commit

ASSUME ConsumerAssumption ==
  /\ LogLimit \in Nat
  /\ MaxLives \in Nat
  /\ MaxRejoins \in Nat
  /\ Poison \subseteq Offsets
  /\ Large \subseteq Offsets
  /\ RetryLimits \subseteq Nat

Rows == Offsets \X (1..(MaxRejoins + 1))

VARIABLES
  maxRetries,       \* MAX_RETRIES
  logEnd,           \* the next offset the broker will give
  committed,        \* the group's committed offset
  position,         \* the next offset the reader will fetch
  lives,            \* history: how often the process was started
  rejoins,          \* history: how often the group rebalanced
  pc,               \* where main is
  msg,              \* main's local variable msg
  cached,           \* the schema client holds the schema of the messages
  retry,            \* RetryState.data, 0 = no entry
  cancelled,        \* main's context is cancelled
  mine,             \* the batch that batcher.Close took, {} if none
  delivered,        \* history: how often Read has returned each message
  buffered, writing, stored, lost       \* the sink

Sink == INSTANCE BatchSink

sinkVars == <<buffered, writing, stored, lost>>
broker == <<maxRetries, logEnd, committed>>
process == <<pc, msg, cached, retry, cancelled, mine>>
history == <<lives, rejoins, delivered>>
vars == <<broker, position, process, history, sinkVars>>

\* main is between Read and the end of the loop's body, with a message.
Handling == {"decode", "retry", "dlq", "dlqCommit", "write", "commit"}
Labels == Handling \cup {"down", "loop", "read", "fetched",
                         "close", "flush", "exit"}

TypeOK ==
  /\ maxRetries \in RetryLimits
  /\ logEnd \in 0..LogLimit
  /\ committed \in -1..LogLimit
  /\ position \in 0..LogLimit
  /\ lives \in 0..MaxLives
  /\ rejoins \in 0..MaxRejoins
  /\ pc \in Labels
  /\ msg \in Offsets \cup {None}
  /\ cached \in BOOLEAN
  /\ retry \in [Offsets -> Nat]
  /\ cancelled \in BOOLEAN
  /\ mine \subseteq Rows
  /\ delivered \in [Offsets -> Nat]
  /\ Sink!TypeOK

Init ==
  /\ maxRetries \in RetryLimits
  /\ logEnd = 0
  /\ committed = None
  /\ position = 0
  /\ lives = 0
  /\ rejoins = 0
  /\ pc = "down"
  /\ msg = None
  /\ cached = FALSE
  /\ retry = [o \in Offsets |-> 0]
  /\ cancelled = FALSE
  /\ mine = {}
  /\ delivered = [o \in Offsets |-> 0]
  /\ Sink!Init

Alive == pc # "down"
May(fault) == fault \in Faults

-----------------------------------------------------------------------------
\* The producer service appends a message to the topic.
Produce ==
  /\ logEnd < LogLimit
  /\ logEnd' = logEnd + 1
  /\ UNCHANGED <<maxRetries, committed, position, history, process, sinkVars>>

\* The definitions named ...Bug are not part of the specification: each is a
\* slip the next definition could contain, and the README says which property
\* fails with it.
ResumeBug1 == committed
ResumeBug2 == 0

\* Where a reader starts: at the group's offset, or with none at the end of
\* the log (StartOffset: LastOffset), past everything produced before.
Resume == IF committed = None THEN logEnd ELSE committed

\* main up to its loop
Start ==
  /\ pc = "down"
  /\ lives < MaxLives
  /\ lives' = lives + 1
  /\ position' = Resume
  /\ pc' = "loop"
  /\ msg' = None
  /\ cached' = FALSE
  /\ retry' = [o \in Offsets |-> 0]
  /\ cancelled' = FALSE
  /\ mine' = {}
  /\ UNCHANGED <<broker, rejoins, delivered, sinkVars>>

Goto(label) == pc' = label /\ UNCHANGED <<msg, cached, retry, cancelled, mine>>

\* the loop's select on ctx.Done
CheckContext ==
  /\ pc = "loop"
  /\ Goto(IF cancelled THEN "close" ELSE "read")
  /\ UNCHANGED <<broker, position, history, sinkVars>>

ReadSeesCancelBug == FALSE

\* Read is given the context.
ReadSeesCancel == cancelled

\* Read returns because the context is cancelled; so does main.
ReadCancelled ==
  /\ pc = "read"
  /\ ReadSeesCancel
  /\ Goto("close")
  /\ UNCHANGED <<broker, position, history, sinkVars>>

NextPosition == position + 1

\* Read, the fetch
ReadFetch ==
  /\ pc = "read"
  /\ position < logEnd
  /\ msg' = position
  /\ position' = NextPosition
  /\ pc' = "fetched"
  /\ UNCHANGED <<broker, history, cached, retry, cancelled,
                 mine, sinkVars>>

CommitOffsetBug == committed' = msg

CommitOffset == committed' = msg + 1

\* A commit that is answered with an error may have been applied or not.
CommitFails == May("commit") \/ cancelled
CommitError == CommitFails /\ (CommitOffset \/ committed' = committed)

\* Read, the commit that goes with the fetch
ReadCommit == CommitOffset

\* It succeeds and the message is returned ...
ReadReturns ==
  /\ pc = "fetched"
  /\ ReadCommit
  /\ delivered' = [delivered EXCEPT ![msg] = @ + 1]
  /\ Goto("decode")
  /\ UNCHANGED <<maxRetries, logEnd, position, lives, rejoins, sinkVars>>

\* ... or it fails, and only an error is returned.
ReadError ==
  /\ pc = "fetched"
  /\ CommitError
  /\ Goto(IF cancelled THEN "close" ELSE "loop")
  /\ UNCHANGED <<maxRetries, logEnd, position, history, sinkVars>>

-----------------------------------------------------------------------------
\* Codec.Decode: the schema is looked up once, then it is cached.
DecodeOK ==
  /\ pc = "decode"
  /\ msg \notin Poison
  /\ cached' = TRUE
  /\ pc' = "write"
  /\ UNCHANGED <<broker, position, history, msg, retry, cancelled,
                 mine, sinkVars>>

DecodeFails == msg \in Poison \/ (~cached /\ May("registry"))

DecodeError ==
  /\ pc = "decode"
  /\ DecodeFails
  /\ Goto("retry")
  /\ UNCHANGED <<broker, position, history, sinkVars>>

ShouldDLQBug1 == retry[msg] + 1 >= maxRetries
ShouldDLQBug2 == retry[msg] > maxRetries

\* RetryState.Next returns the old count; ShouldDLQ compares it.
ShouldDLQ == retry[msg] >= maxRetries

CountedBug == retry[msg]

Counted == retry[msg] + 1

NextRetry ==
  /\ pc = "retry"
  /\ retry' = [retry EXCEPT ![msg] = Counted]
  /\ pc' = IF ShouldDLQ THEN "dlq" ELSE "loop"
  /\ UNCHANGED <<broker, position, history, msg, cached, cancelled,
                 mine, sinkVars>>

(***************************************************************************)
(* DLQWriter.WriteFailed hands a nil context to kafka-go, which panics as  *)
(* soon as it waits for the broker.  The panic unwinds main: the deferred  *)
(* calls cancel the context and close everything, as when main returns,    *)
(* and then the process ends.                                              *)
(***************************************************************************)
WriteFailedPanics ==
  /\ pc = "dlq"
  /\ msg \notin Large
  /\ cancelled' = TRUE
  /\ pc' = "close"
  /\ UNCHANGED <<broker, position, history, msg, cached, retry, mine,
                 sinkVars>>

\* Only a message that is too large is refused before that, with an error
\* that is logged.
WriteFailedRefuses ==
  /\ pc = "dlq"
  /\ msg \in Large
  /\ Goto("dlqCommit")
  /\ UNCHANGED <<broker, position, history, sinkVars>>

WriteFailed == WriteFailedPanics \/ WriteFailedRefuses

\* batcher.Write
WriteRow ==
  /\ pc = "write"
  /\ Sink!Accept(<<msg, delivered[msg]>>)
  /\ Goto("commit")
  /\ UNCHANGED <<broker, position, history>>

\* consumer.Commit, whose error is only logged, then retryState.Reset
Commit ==
  /\ pc \in {"commit", "dlqCommit"}
  /\ CommitOffset \/ CommitError
  /\ retry' = [retry EXCEPT ![msg] = 0]
  /\ pc' = "loop"
  /\ UNCHANGED <<maxRetries, logEnd, position, history, msg, cached, cancelled,
                 mine, sinkVars>>

-----------------------------------------------------------------------------
\* The batcher's loop has one batch at a time.
LoopReady == writing \subseteq {mine}

\* The batcher's loop takes the buffer.
LoopFlush ==
  /\ Alive
  /\ LoopReady
  /\ Sink!Take
  /\ UNCHANGED <<broker, position, history, process>>

\* An upload ends, the loop's or Close's.  Once main has run ps.Close the
\* local directory is gone and an upload may fail for that.
UploadOK ==
  /\ Alive
  /\ \E b \in writing : Sink!Store(b)
  /\ UNCHANGED <<broker, position, history, process>>

UploadFails ==
  /\ Alive
  /\ May("sink") \/ pc = "exit"
  /\ \E b \in writing : Sink!Drop(b)
  /\ UNCHANGED <<broker, position, history, process>>

\* main returns, or a panic unwinds it: the deferred batcher.Close flushes
\* what the loop left ...
CloseBatcher ==
  /\ pc = "close"
  /\ IF buffered = {} THEN UNCHANGED sinkVars ELSE Sink!Take
  /\ mine' = buffered
  /\ pc' = "flush"
  /\ UNCHANGED <<broker, position, history, msg, cached, retry, cancelled>>

\* ... and waits for that upload, not for the loop's.  The deferred ps.Close
\* and consumer.Close follow.
CloseReturns ==
  /\ pc = "flush"
  /\ mine \notin writing
  /\ Goto("exit")
  /\ UNCHANGED <<broker, position, history, sinkVars>>

\* What dies with the process: the goroutines, the buffer, the retry map.
Die ==
  /\ Sink!Abandon
  /\ Goto("down")
  /\ UNCHANGED <<broker, position, history>>

Exit == pc = "exit" /\ Die

-----------------------------------------------------------------------------
\* The process is killed.
Crash ==
  /\ May("crash")
  /\ Alive
  /\ Die

\* The signal handler cancels the context.
Signal ==
  /\ May("signal")
  /\ Alive
  /\ ~cancelled
  /\ cancelled' = TRUE
  /\ UNCHANGED <<broker, position, history, pc, msg, cached, retry,
                 mine, sinkVars>>

\* A rebalance gives the partition back to the reader, in a goroutine of
\* kafka-go: it fetches from the committed offset again.
Rejoin ==
  /\ May("rejoin")
  /\ Alive
  /\ rejoins < MaxRejoins
  /\ rejoins' = rejoins + 1
  /\ position' = Resume
  /\ UNCHANGED <<broker, process, lives, delivered, sinkVars>>

Main ==
  \/ CheckContext \/ ReadCancelled \/ ReadFetch \/ ReadReturns \/ ReadError
  \/ DecodeOK \/ DecodeError \/ NextRetry \/ WriteFailed \/ WriteRow \/ Commit
  \/ CloseBatcher \/ CloseReturns \/ Exit

Upload == UploadOK \/ UploadFails

Next ==
  \/ Produce \/ Start \/ Main \/ LoopFlush \/ Upload
  \/ Crash \/ Signal \/ Rejoin

Spec == Init /\ [][Next]_vars

(***************************************************************************)
(* Fairness: somebody starts the process, main and the batcher's loop run, *)
(* and an upload ends, well or badly.  A fault that may happen may happen  *)
(* each time, so the liveness properties are checked with the faults that  *)
(* they tolerate.                                                          *)
(***************************************************************************)
Fairness ==
  /\ WF_vars(Start)
  /\ WF_vars(Main)
  /\ WF_vars(LoopFlush)
  /\ WF_vars(Upload)

FairSpec == Spec /\ Fairness

-----------------------------------------------------------------------------
InSink(o) == \E r \in Sink!Accepted : r[1] = o
IsStored(o) == \E r \in stored : r[1] = o
InHand(o) == msg = o /\ pc \in Handling

Copies(o) == {r \in Sink!Accepted : r[1] = o}

(***************************************************************************)
(* How often a message can reach the sink.  ReadMessage commits before it  *)
(* returns, so no restart, retry or failed commit brings a message back:   *)
(* without a rebalance it is there once.  A rebalance between the fetch    *)
(* and the commit moves the reader, or the committed offset, back, and     *)
(* each one can add a copy, never more.                                    *)
(***************************************************************************)
DuplicatesBounded ==
  \A o \in Offsets : Cardinality(Copies(o)) <= 1 + rejoins

\* The group's offset never goes back before a first rebalance, in spite of
\* the second commit that main sends for each message.
CommitMonotone == [][rejoins = 0 => committed' >= committed]_committed

(***************************************************************************)
(* Where the messages that Read returned are: in main's hands, in the      *)
(* sink, or dropped by the error branch at lines 148-165, and then an      *)
(* entry of the retry map is all that remains of them.  Nothing clears     *)
(* that entry while main is in its loop, unless a message is presented     *)
(* more than MAX_RETRIES times.                                            *)
(***************************************************************************)
DroppedLeavesEntry ==
  Alive /\ lives = 1 => \A o \in Offsets :
    delivered[o] \in 1..maxRetries => InHand(o) \/ InSink(o) \/ retry[o] > 0

(***************************************************************************)
(* The retry count is compared with MAX_RETRIES, but only a rebalance ever *)
(* presents a message again: main does not come to its DLQ branch before   *)
(* the group has rebalanced MAX_RETRIES times.                             *)
(***************************************************************************)
DLQNeedsRejoins == pc \in {"dlq", "dlqCommit"} => rejoins >= maxRetries

\* main is in its loop.
InLoop == pc \in Handling \cup {"loop", "read", "fetched"}

Dropped == {o \in Offsets \ Large :
             delivered[o] > 0 /\ ~InHand(o) /\ ~InSink(o)}

(***************************************************************************)
(* With MAX_RETRIES = 0 a message that Read returned is dropped in one     *)
(* place only, in main's hands when the process ends: while main is in its *)
(* loop there is at most one such message for each earlier life, whatever  *)
(* fails.  What ends a life so is a kill, or the panic that a message      *)
(* which does not decode causes in WriteFailed.  (A message too large for  *)
(* the DLQ writer is excepted: it is dropped with a line in the log.)      *)
(***************************************************************************)
DropsEndALife ==
  maxRetries = 0 =>
    Cardinality(Dropped) <= IF InLoop THEN lives - 1 ELSE lives

\* A signal ends the process, whatever it was doing.
SignalEndsProcess == cancelled ~> ~Alive

-----------------------------------------------------------------------------
(***************************************************************************)
(* What the documents say, and the code does not do.                       *)
(***************************************************************************)

(***************************************************************************)
(* architecture.md, line 127: "At-least-once delivery | Consumer commits   *)
(* offset after processing", and line 78: "Routes failed messages to DLQ   *)
(* after max retries".  A committed message that Read returned is stored   *)
(* or still being processed.  (No message ever comes to the DLQ topic, see *)
(* WriteFailed, so the model has none.)                                    *)
(***************************************************************************)
AtLeastOnce ==
  \A o \in Offsets : delivered[o] > 0 /\ o < committed =>
    \/ InHand(o)
    \/ \E r \in buffered \cup (UNION writing) : r[1] = o
    \/ IsStored(o)

(***************************************************************************)
(* sprint-4-reliability.md, line 332: "Graceful shutdown flushes all       *)
(* buffered events before exit".  With uploads that succeed, the process   *)
(* takes no row with it when it exits.                                     *)
(***************************************************************************)
ExitFlushesAll == pc = "down" => lost = {}
=============================================================================
