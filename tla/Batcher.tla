------------------------------ MODULE Batcher ------------------------------
(***************************************************************************)
(* internal/almanac/sink/batch.go: the Batcher that the consumer writes    *)
(* its events to.                                                          *)
(*                                                                         *)
(* Threads.  Any number of writers call Write; the goroutine flushLoop     *)
(* ("loop") and the caller of Close ("close") both run Flush.  A critical  *)
(* section under b.mu is one step, since it cannot block; every channel    *)
(* operation and the upload are steps of their own.                        *)
(*                                                                         *)
(* Rows are numbered 1, 2, 3 ... in the order in which Write appended      *)
(* them; of a row's contents only its size matters here.                   *)
(***************************************************************************)
EXTENDS Integers, Sequences, FiniteSets

CONSTANTS
  Writers,          \* the goroutines that call Write
  MaxRows,          \* BatchConfig.MaxRows
  MaxBytes,         \* BatchConfig.MaxBytes
  MaxPending,       \* BatchConfig.MaxPending, 0 = no back-pressure
  RowSizes,         \* the values estimateSize may return
  RowLimit          \* bound of the model: how many rows are ever written

ASSUME ConfigAssumption ==
  /\ IsFiniteSet(Writers)
  /\ MaxRows \in Nat \ {0}
  /\ MaxBytes \in Nat \ {0}
  /\ MaxPending \in Nat
  /\ RowSizes \subseteq Nat \ {0}
  /\ RowLimit \in Nat

Flushers == {"loop", "close"}

VARIABLES
  buf,              \* Batcher.buf
  byteLen,          \* Batcher.byteLen
  due,              \* FlushInterval has passed since Batcher.lastFlush
  flushCh,          \* number of signals in Batcher.flushCh, of capacity 1
  pending,          \* number of tokens in Batcher.pendingCh
  done,             \* Batcher.done is closed
  wpc,              \* writer -> where it is in Write
  shouldFlush,      \* writer -> Write's local variable shouldFlush
  fpc,              \* flusher -> where it is in flushLoop, Flush or Close
  batch,            \* flusher -> Flush's local variable batch
  rem,              \* flusher -> how many tokens Flush still has to receive
  stored,           \* rows of the objects that are in the bucket
  lost,             \* rows of the batches whose WriteFile failed
  appended          \* how many rows were appended so far

writerVars == <<wpc, shouldFlush>>
flushVars == <<fpc, batch, rem>>
outcome == <<stored, lost>>
vars == <<buf, byteLen, due, flushCh, pending, done,
          writerVars, flushVars, outcome, appended>>

Backpressure == MaxPending > 0

TypeOK ==
  /\ buf \in Seq(1..RowLimit)
  /\ byteLen \in Nat
  /\ due \in BOOLEAN
  /\ flushCh \in 0..1
  /\ pending \in 0..MaxPending
  /\ done \in BOOLEAN
  /\ wpc \in [Writers -> {"idle", "push", "signal"}]
  /\ shouldFlush \in [Writers -> BOOLEAN]
  /\ fpc \in [Flushers -> {"wait", "take", "drain", "write", "stop"}]
  /\ batch \in [Flushers -> Seq(1..RowLimit)]
  /\ rem \in [Flushers -> Nat]
  /\ stored \subseteq 1..RowLimit
  /\ lost \subseteq 1..RowLimit
  /\ appended \in 0..RowLimit

-----------------------------------------------------------------------------
\* NewBatcher
Init ==
  /\ buf = <<>>
  /\ byteLen = 0
  /\ due = FALSE
  /\ flushCh = 0
  /\ pending = 0
  /\ done = FALSE
  /\ wpc = [w \in Writers |-> "idle"]
  /\ shouldFlush = [w \in Writers |-> FALSE]
  /\ fpc = [f \in Flushers |-> "wait"]
  /\ batch = [f \in Flushers |-> <<>>]
  /\ rem = [f \in Flushers |-> 0]
  /\ stored = {}
  /\ lost = {}
  /\ appended = 0

\* The definitions named ...Bug are not part of the specification: each is a
\* slip the next definition could contain, and the README says which property
\* fails with it.
\* Write, line 61
ThresholdReached(rows, bytes) == rows >= MaxRows \/ bytes >= MaxBytes

AfterPushBug(should) == "idle"

\* The send to pendingCh comes first, then the signal, then the return.
AfterPush(should) == IF should THEN "signal" ELSE "idle"

EnqueueBug(row) == <<row>> \o buf

Enqueue(row) == Append(buf, row)

(***************************************************************************)
(* Write, the critical section: the row is in the buffer, and counts       *)
(* towards the thresholds, BEFORE Write asks for room in pendingCh.        *)
(***************************************************************************)
WriteAppend(w, size) ==
  /\ wpc[w] = "idle"
  /\ ~done
  /\ appended < RowLimit
  /\ appended' = appended + 1
  /\ buf' = Enqueue(appended')
  /\ byteLen' = byteLen + size
  /\ LET should == ThresholdReached(Len(buf'), byteLen') IN
       /\ shouldFlush' = [shouldFlush EXCEPT ![w] = should]
       /\ wpc' = [wpc EXCEPT ![w] = IF Backpressure THEN "push"
                                                    ELSE AfterPush(should)]
  /\ UNCHANGED <<due, flushCh, pending, done, flushVars, outcome>>

HasRoomBug == TRUE

\* pendingCh is a channel of capacity MaxPending.
HasRoom == pending < MaxPending

\* Write, the blocking send on pendingCh
WritePush(w) ==
  /\ wpc[w] = "push"
  /\ HasRoom
  /\ pending' = pending + 1
  /\ wpc' = [wpc EXCEPT ![w] = AfterPush(shouldFlush[w])]
  /\ UNCHANGED <<buf, byteLen, due, flushCh, done, shouldFlush, flushVars,
                 outcome, appended>>

\* Write, the select with a default: a second signal is dropped.
WriteSignal(w) ==
  /\ wpc[w] = "signal"
  /\ flushCh' = 1
  /\ wpc' = [wpc EXCEPT ![w] = "idle"]
  /\ UNCHANGED <<buf, byteLen, due, pending, done, shouldFlush, flushVars,
                 outcome, appended>>

-----------------------------------------------------------------------------
ReturnedBug(f) == IF f = "loop" THEN "wait" ELSE "take"

\* Where a flusher goes when Flush returns: flushLoop to its select, Close
\* to its caller.
Returned(f) == IF f = "loop" THEN "wait" ELSE "stop"

NothingToFlushBug == Len(buf) < MaxRows

NothingToFlush == buf = <<>>

\* Flush finds nothing to do
FlushEmpty(f) ==
  /\ fpc[f] = "take"
  /\ NothingToFlush
  /\ fpc' = [fpc EXCEPT ![f] = Returned(f)]
  /\ UNCHANGED <<buf, byteLen, due, flushCh, pending, done, writerVars,
                 batch, rem, outcome, appended>>

\* Flush, line 88: the batch keeps the old array, the buffer gets a new one.
NewBuf == <<>>

TokensBug(rows) == Len(rows) - 1

\* How many tokens Flush receives
Tokens(rows) == Len(rows)

\* Flush, the critical section
FlushTake(f) ==
  /\ fpc[f] = "take"
  /\ ~NothingToFlush
  /\ batch' = [batch EXCEPT ![f] = buf]
  /\ buf' = NewBuf
  /\ byteLen' = 0
  /\ due' = FALSE
  /\ IF Backpressure
       THEN /\ rem' = [rem EXCEPT ![f] = Tokens(buf)]
            /\ fpc' = [fpc EXCEPT ![f] = "drain"]
       ELSE /\ fpc' = [fpc EXCEPT ![f] = "write"]
            /\ UNCHANGED rem
  /\ UNCHANGED <<flushCh, pending, done, writerVars, outcome, appended>>

\* Flush, one receive from pendingCh: it blocks when no token is there.
FlushDrain(f) ==
  /\ fpc[f] = "drain"
  /\ pending > 0
  /\ pending' = pending - 1
  /\ rem' = [rem EXCEPT ![f] = @ - 1]
  /\ fpc' = [fpc EXCEPT ![f] = IF rem[f] = 1 THEN "write" ELSE "drain"]
  /\ UNCHANGED <<buf, byteLen, due, flushCh, done, writerVars, batch,
                 outcome, appended>>

RowsOf(f) == {batch[f][i] : i \in 1..Len(batch[f])}

\* Flush, WriteFile ended: the object is in the bucket, or it is not and
\* the only trace of the rows is a line in the log.  Neither caller looks at
\* the error.
FlushWriteFile(f) ==
  /\ fpc[f] = "write"
  /\ \/ stored' = stored \cup RowsOf(f) /\ UNCHANGED lost
     \/ lost' = lost \cup RowsOf(f) /\ UNCHANGED stored
  /\ batch' = [batch EXCEPT ![f] = <<>>]
  /\ fpc' = [fpc EXCEPT ![f] = Returned(f)]
  /\ UNCHANGED <<buf, byteLen, due, flushCh, pending, done, writerVars, rem,
                 appended>>

Flush(f) == FlushEmpty(f) \/ FlushTake(f) \/ FlushDrain(f) \/ FlushWriteFile(f)

-----------------------------------------------------------------------------
\* flushLoop, <-b.flushCh
LoopWake ==
  /\ fpc["loop"] = "wait"
  /\ flushCh = 1
  /\ flushCh' = 0
  /\ fpc' = [fpc EXCEPT !["loop"] = "take"]
  /\ UNCHANGED <<buf, byteLen, due, pending, done, writerVars, batch, rem,
                 outcome, appended>>

TickDueBug == Len(buf) >= MaxRows /\ due

TickDue == Len(buf) > 0 /\ due

\* flushLoop, a tick that finds the buffer due.  Flush locks again: what it
\* finds then may be something else.
LoopTick ==
  /\ fpc["loop"] = "wait"
  /\ TickDue
  /\ fpc' = [fpc EXCEPT !["loop"] = "take"]
  /\ UNCHANGED <<buf, byteLen, due, flushCh, pending, done, writerVars,
                 batch, rem, outcome, appended>>

\* flushLoop, <-b.done
LoopStop ==
  /\ fpc["loop"] = "wait"
  /\ done
  /\ fpc' = [fpc EXCEPT !["loop"] = "stop"]
  /\ UNCHANGED <<buf, byteLen, due, flushCh, pending, done, writerVars,
                 batch, rem, outcome, appended>>

\* Close, called once, when no Write is running: the consumer calls it from
\* the goroutine that writes, as it returns.
Close ==
  /\ ~done
  /\ \A w \in Writers : wpc[w] = "idle"
  /\ done' = TRUE
  /\ fpc' = [fpc EXCEPT !["close"] = "take"]
  /\ UNCHANGED <<buf, byteLen, due, flushCh, pending, writerVars, batch, rem,
                 outcome, appended>>

\* Time: FlushInterval has passed since lastFlush.
Elapse ==
  /\ ~due
  /\ due' = TRUE
  /\ UNCHANGED <<buf, byteLen, flushCh, pending, done, writerVars,
                 flushVars, outcome, appended>>

\* Everything has stopped; only the clock still runs.
Stopped ==
  /\ fpc = [f \in Flushers |-> "stop"]
  /\ UNCHANGED vars

Next ==
  \/ \E w \in Writers : \/ \E size \in RowSizes : WriteAppend(w, size)
                        \/ WritePush(w)
                        \/ WriteSignal(w)
  \/ \E f \in Flushers : Flush(f)
  \/ LoopWake
  \/ LoopTick
  \/ LoopStop
  \/ Close
  \/ Elapse
  \/ Stopped

Spec == Init /\ [][Next]_vars

(***************************************************************************)
(* Fairness.  The Go scheduler runs every goroutine that can run and the   *)
(* ticker fires for ever.  A writer blocked on pendingCh is served in turn *)
(* (a channel keeps its blocked senders in a queue): strong fairness.      *)
(* WriteFile is assumed to return, which its upload without a timeout      *)
(* does not guarantee by itself (sink/parquet.go, line 159).  Nothing      *)
(* forces anybody to call Write or Close.                                  *)
(***************************************************************************)
Fairness ==
  /\ \A w \in Writers : SF_vars(WritePush(w)) /\ WF_vars(WriteSignal(w))
  /\ \A f \in Flushers : WF_vars(Flush(f))
  /\ WF_vars(LoopWake)
  /\ WF_vars(LoopTick)
  /\ WF_vars(LoopStop)
  /\ WF_vars(Elapse)

FairSpec == Spec /\ Fairness

-----------------------------------------------------------------------------
\* Writers that have appended their row and not yet got its token in.
Pushing == {w \in Writers : wpc[w] = "push"}

(***************************************************************************)
(* Every row in the buffer, or taken and not yet drained, has one token,   *)
(* in pendingCh or about to be sent by the Write that appended it.  So the *)
(* receives of Flush (lines 93-97) are always matched by sends, whatever   *)
(* order writers and flushers run in: neither Flush waits for a token that *)
(* never comes, nor does a token stay behind and shrink the channel.       *)
(***************************************************************************)
TokenConservation ==
  IF Backpressure
    THEN pending + Cardinality(Pushing)
           = Len(buf) + rem["loop"] + rem["close"]
    ELSE pending = 0 /\ Pushing = {} /\ \A f \in Flushers : rem[f] = 0

\* The buffer has passed a threshold.
OverThreshold == Len(buf) >= MaxRows \/ byteLen >= MaxBytes

(***************************************************************************)
(* A buffer over a threshold is being dealt with: the signal is in the     *)
(* channel, or its writer has yet to send it, or the loop is on its way to *)
(* Flush, or Close has been called and its Flush comes.  Lines 68-73 drop  *)
(* a signal when one is there: the one that is there must be enough.       *)
(***************************************************************************)
NoLostWakeup ==
  OverThreshold =>
    \/ flushCh = 1
    \/ \E w \in Writers : wpc[w] \in {"push", "signal"} /\ shouldFlush[w]
    \/ fpc["loop"] = "take"
    \/ done

\* Rows in memory: accepted, with no outcome yet.
Held == Len(buf) + Len(batch["loop"]) + Len(batch["close"])

(***************************************************************************)
(* What back-pressure does bound.  A row is appended before its token is   *)
(* sent, so the buffer passes MaxPending by one row per writer; and tokens *)
(* are received before the upload, so a second buffer fills while the      *)
(* first is being uploaded: the "limit on buffered-but-not-yet-flushed     *)
(* events" of line 12 holds for the buffer, not for what awaits upload.    *)
(***************************************************************************)
HeldBounded ==
  Backpressure =>
    /\ Len(buf) <= MaxPending + Cardinality(Writers)
    /\ Held <= 2 * (MaxPending + Cardinality(Writers))

\* s is a run of rows in the order of their appends, the last of them hi.
RunUpTo(s, hi) == \A i \in 1..Len(s) : s[i] = hi - Len(s) + i

(***************************************************************************)
(* The buffer holds the last rows appended, in order; a batch is a run of  *)
(* consecutive rows, all older than those in the buffer, and the loop's is *)
(* older than Close's.  So two flushers never hold the same row, and every *)
(* object is a contiguous piece of the stream.                             *)
(***************************************************************************)
InOrder ==
  /\ RunUpTo(buf, appended)
  /\ \A f \in Flushers : batch[f] # <<>> =>
       /\ RunUpTo(batch[f], batch[f][Len(batch[f])])
       /\ batch[f][Len(batch[f])] <= appended - Len(buf)
  /\ batch["loop"] # <<>> /\ batch["close"] # <<>> =>
       batch["loop"][Len(batch["loop"])] < batch["close"][1]

\* Rows in the buffer.
Buffered == {buf[i] : i \in 1..Len(buf)}

(***************************************************************************)
(* Once Close has returned AND the loop has stopped, every row written has *)
(* its outcome: none is left in the buffer or in a batch.                  *)
(***************************************************************************)
AllAccounted ==
  (\A f \in Flushers : fpc[f] = "stop") => stored \cup lost = 1..appended

-----------------------------------------------------------------------------
(***************************************************************************)
(* The refinement: what the buffer, the batches and the outcomes say, with *)
(* goroutines, tokens and signals forgotten.                               *)
(***************************************************************************)
Writing == {RowsOf(f) : f \in {g \in Flushers : batch[g] # <<>>}}

Sink == INSTANCE BatchSink WITH
  Rows <- 1..RowLimit, buffered <- Buffered, writing <- Writing

\* The Batcher implements the abstract sink, with its liveness.
RefinesSink == Sink!LiveSpec

\* ... in particular each row written is in exactly one place.
OnePlace == Sink!OnePlace /\ Sink!Accepted = 1..appended

(***************************************************************************)
(* A Write that waits for room returns: a full pendingCh is drained by the *)
(* ticker or by Close even when no threshold was reached (MaxPending below *)
(* MaxRows).                                                               *)
(***************************************************************************)
WriteReturns == \A w \in Writers : wpc[w] = "push" ~> wpc[w] = "idle"

\* Close returns and the background goroutine stops, though neither waits
\* for the other.
ShutdownCompletes == done ~> \A f \in Flushers : fpc[f] = "stop"

=============================================================================
