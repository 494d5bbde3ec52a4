--------------------------- MODULE BatcherProofs ---------------------------
(***************************************************************************)
(* What Batcher guarantees for every configuration: any finite set of      *)
(* writers, any thresholds, any MaxPending and any number of rows.         *)
(***************************************************************************)
EXTENDS Batcher, FiniteSetTheorems, TLAPS

USE DEF Flushers, ThresholdReached, Enqueue, HasRoom, NothingToFlush, NewBuf,
        Tokens, TickDue

(***************************************************************************)
(* Every variable keeps its type: in particular pendingCh never holds more *)
(* than MaxPending tokens, and Flush never counts its tokens below zero.   *)
(***************************************************************************)

\* The link between where a flusher is, the batch it holds and the tokens it
\* still waits for.
FlushShape ==
  \A f \in Flushers :
    /\ fpc[f] = "drain" <=> rem[f] > 0
    /\ fpc[f] \in {"drain", "write"} <=> batch[f] # <<>>
    /\ rem[f] <= Len(batch[f])

\* Close moves its own program counter; when it has called Flush, no writer
\* is active, and after Flush's critical section the buffer stays empty.
CloseShape ==
  /\ fpc["close"] = "wait" <=> ~done
  /\ fpc["loop"] = "stop" => done
  /\ done => \A w \in Writers : wpc[w] = "idle"
  /\ fpc["close"] \in {"drain", "write", "stop"} => buf = <<>>

\* An empty buffer counts no bytes.
EmptyBytes == buf = <<>> => byteLen = 0

Shape == FlushShape /\ CloseShape /\ EmptyBytes

LEMMA TypeInit == Init => TypeOK
<1> SUFFICES ASSUME Init PROVE TypeOK
  OBVIOUS
<1>1. batch \in [Flushers -> Seq(1..RowLimit)]
  <2>1. <<>> \in Seq(1..RowLimit)
    OBVIOUS
  <2>2. QED
    BY <2>1 DEF Init
<1>2. wpc \in [Writers -> {"idle", "push", "signal"}]
  BY DEF Init
<1>3. fpc \in [Flushers -> {"wait", "take", "drain", "write", "stop"}]
  BY DEF Init
<1>4. /\ shouldFlush \in [Writers -> BOOLEAN]
      /\ rem \in [Flushers -> Nat]
      /\ buf \in Seq(1..RowLimit)
  BY DEF Init
<1>5. /\ byteLen \in Nat /\ flushCh \in 0..1 /\ pending \in 0..MaxPending
      /\ appended \in 0..RowLimit
  BY ConfigAssumption DEF Init
<1>6. due \in BOOLEAN /\ done \in BOOLEAN
  BY Zenon DEF Init
<1>7. stored \subseteq 1..RowLimit /\ lost \subseteq 1..RowLimit
  BY DEF Init
<1>8. QED
  BY <1>1, <1>2, <1>3, <1>4, <1>5, <1>6, <1>7 DEF TypeOK

LEMMA TypeStep == TypeOK /\ FlushShape /\ [Next]_vars => TypeOK'
<1> SUFFICES ASSUME TypeOK, FlushShape, [Next]_vars PROVE TypeOK'
  OBVIOUS
<1> USE ConfigAssumption DEF TypeOK
<1>1. ASSUME NEW w \in Writers, NEW size \in RowSizes, WriteAppend(w, size)
      PROVE  TypeOK'
  <2>1. appended' \in 1..RowLimit
    BY <1>1 DEF WriteAppend
  <2>2. buf' \in Seq(1..RowLimit) /\ byteLen' \in Nat
    BY <1>1, <2>1 DEF WriteAppend
  <2>3. wpc' \in [Writers -> {"idle", "push", "signal"}]
    BY <1>1 DEF WriteAppend, AfterPush
  <2>4. shouldFlush' \in [Writers -> BOOLEAN]
    BY <1>1 DEF WriteAppend
  <2>5. QED
    BY <1>1, <2>1, <2>2, <2>3, <2>4
    DEF WriteAppend, flushVars, outcome
<1>2. ASSUME NEW w \in Writers, WritePush(w)
      PROVE  TypeOK'
  BY <1>2 DEF WritePush, AfterPush, flushVars, outcome
<1>3. ASSUME NEW w \in Writers, WriteSignal(w)
      PROVE  TypeOK'
  BY <1>3 DEF WriteSignal, flushVars, outcome
<1>4. ASSUME NEW f \in Flushers, FlushEmpty(f)
      PROVE  TypeOK'
  BY <1>4 DEF FlushEmpty, Returned, writerVars, outcome
<1>5. ASSUME NEW f \in Flushers, FlushTake(f)
      PROVE  TypeOK'
  <2>1. rem' \in [Flushers -> Nat]
    BY <1>5 DEF FlushTake
  <2>2. fpc' \in [Flushers -> {"wait", "take", "drain", "write", "stop"}]
    BY <1>5 DEF FlushTake
  <2>3. batch' \in [Flushers -> Seq(1..RowLimit)]
    BY <1>5 DEF FlushTake
  <2>4. buf' \in Seq(1..RowLimit) /\ byteLen' \in Nat
    BY <1>5 DEF FlushTake
  <2>5. due' \in BOOLEAN
    BY <1>5, Zenon DEF FlushTake
  <2>6. /\ UNCHANGED <<flushCh, pending, done, wpc, shouldFlush>>
        /\ UNCHANGED <<stored, lost, appended>>
    BY <1>5 DEF FlushTake, writerVars, outcome
  <2>7. QED
    BY <2>1, <2>2, <2>3, <2>4, <2>5, <2>6
<1>6. ASSUME NEW f \in Flushers, FlushDrain(f)
      PROVE  TypeOK'
  <2>1. rem' \in [Flushers -> Nat]
    BY <1>6 DEF FlushDrain, FlushShape
  <2>2. fpc' \in [Flushers -> {"wait", "take", "drain", "write", "stop"}]
    BY <1>6 DEF FlushDrain
  <2>3. pending' \in 0..MaxPending
    BY <1>6 DEF FlushDrain
  <2>4. QED
    BY <1>6, <2>1, <2>2, <2>3, Zenon DEF FlushDrain, writerVars, outcome
<1>7. ASSUME NEW f \in Flushers, FlushWriteFile(f)
      PROVE  TypeOK'
  <2>1. RowsOf(f) \subseteq 1..RowLimit
    BY DEF RowsOf
  <2>2. stored' \subseteq 1..RowLimit /\ lost' \subseteq 1..RowLimit
    BY <1>7, <2>1 DEF FlushWriteFile
  <2>3. fpc' \in [Flushers -> {"wait", "take", "drain", "write", "stop"}]
    BY <1>7 DEF FlushWriteFile, Returned
  <2>4. batch' \in [Flushers -> Seq(1..RowLimit)]
    <3>1. <<>> \in Seq(1..RowLimit)
      OBVIOUS
    <3>2. QED
      BY <1>7, <3>1 DEF FlushWriteFile
  <2>5. QED
    BY <1>7, <2>2, <2>3, <2>4 DEF FlushWriteFile, writerVars
<1>8. CASE LoopWake
  BY <1>8 DEF LoopWake, writerVars, outcome
<1>9. CASE LoopTick
  BY <1>9 DEF LoopTick, writerVars, outcome
<1>10. CASE LoopStop
  BY <1>10 DEF LoopStop, writerVars, outcome
<1>11. CASE Close
  BY <1>11 DEF Close, writerVars, outcome
<1>12. CASE Elapse
  BY <1>12 DEF Elapse, writerVars, flushVars, outcome
<1>13. CASE UNCHANGED vars
  BY <1>13 DEF vars, writerVars, flushVars, outcome
<1>14. QED
  BY <1>1, <1>2, <1>3, <1>4, <1>5, <1>6, <1>7, <1>8, <1>9, <1>10, <1>11,
     <1>12, <1>13 DEF Next, Flush, Stopped

LEMMA ShapeInit == Init => Shape
  BY DEF Init, Shape, FlushShape, CloseShape, EmptyBytes

LEMMA ShapeStep == TypeOK /\ Shape /\ [Next]_vars => Shape'
<1> SUFFICES ASSUME TypeOK, Shape, [Next]_vars PROVE Shape'
  OBVIOUS
<1> USE ConfigAssumption DEF TypeOK, Shape
<1>1. ASSUME NEW w \in Writers, NEW size \in RowSizes, WriteAppend(w, size)
      PROVE  Shape'
  <2>1. FlushShape'
    BY <1>1 DEF WriteAppend, flushVars, FlushShape
  <2>2. CloseShape'
    BY <1>1 DEF WriteAppend, flushVars, CloseShape
  <2>3. Len(buf') = Len(buf) + 1
    BY <1>1 DEF WriteAppend
  <2>4. EmptyBytes'
    BY <2>3 DEF EmptyBytes
  <2>5. QED
    BY <2>1, <2>2, <2>4
<1>2. ASSUME NEW w \in Writers, WritePush(w) \/ WriteSignal(w)
      PROVE  Shape'
  BY <1>2 DEF WritePush, WriteSignal, flushVars, FlushShape, CloseShape,
              EmptyBytes
<1>3. ASSUME NEW f \in Flushers, FlushEmpty(f)
      PROVE  Shape'
  BY <1>3 DEF FlushEmpty, Returned, writerVars, FlushShape, CloseShape,
              EmptyBytes
<1>4. ASSUME NEW f \in Flushers, FlushTake(f)
      PROVE  Shape'
  <2>1. FlushShape'
    BY <1>4 DEF FlushTake, Backpressure, FlushShape
  <2>2. CloseShape'
    BY <1>4 DEF FlushTake, writerVars, CloseShape
  <2>3. EmptyBytes'
    BY <1>4 DEF FlushTake, EmptyBytes
  <2>4. QED
    BY <2>1, <2>2, <2>3
<1>5. ASSUME NEW f \in Flushers, FlushDrain(f)
      PROVE  Shape'
  <2>1. FlushShape'
    BY <1>5 DEF FlushDrain, FlushShape
  <2>2. CloseShape'
    BY <1>5 DEF FlushDrain, writerVars, CloseShape
  <2>3. QED
    BY <1>5, <2>1, <2>2 DEF FlushDrain, EmptyBytes
<1>6. ASSUME NEW f \in Flushers, FlushWriteFile(f)
      PROVE  Shape'
  <2>1. FlushShape'
    BY <1>6 DEF FlushWriteFile, Returned, FlushShape
  <2>2. CloseShape'
    BY <1>6 DEF FlushWriteFile, Returned, writerVars, CloseShape
  <2>3. QED
    BY <1>6, <2>1, <2>2 DEF FlushWriteFile, EmptyBytes
<1>7. CASE LoopWake \/ LoopTick \/ LoopStop \/ Close
  <2>1. FlushShape' /\ EmptyBytes'
    <3>1. UNCHANGED <<buf, byteLen, batch, rem>>
      BY <1>7 DEF LoopWake, LoopTick, LoopStop, Close
    <3>2. \A f \in Flushers :
            \/ fpc'[f] = fpc[f]
            \/ fpc[f] = "wait" /\ fpc'[f] \in {"take", "stop"}
      <4>1. CASE LoopWake
        BY <4>1 DEF LoopWake
      <4>2. CASE LoopTick
        BY <4>2 DEF LoopTick
      <4>3. CASE LoopStop
        BY <4>3 DEF LoopStop
      <4>4. CASE Close
        BY <4>4 DEF Close, CloseShape
      <4>5. QED
        BY <1>7, <4>1, <4>2, <4>3, <4>4
    <3>3. QED
      BY <3>1, <3>2 DEF FlushShape, EmptyBytes
  <2>2. CASE LoopWake \/ LoopTick
    BY <2>1, <2>2 DEF LoopWake, LoopTick, writerVars, CloseShape
  <2>3. CASE LoopStop
    BY <2>1, <2>3 DEF LoopStop, writerVars, CloseShape
  <2>4. CASE Close
    BY <2>1, <2>4 DEF Close, writerVars, CloseShape
  <2>5. QED
    BY <1>7, <2>2, <2>3, <2>4
<1>8. ASSUME UNCHANGED <<buf, byteLen, done, wpc, fpc, batch, rem>>
      PROVE  Shape'
  <2>1. FlushShape' /\ EmptyBytes'
    BY <1>8 DEF FlushShape, EmptyBytes
  <2>2. CloseShape'
    BY <1>8 DEF CloseShape
  <2>3. QED
    BY <2>1, <2>2
<1>9. CASE Elapse
  BY <1>8, <1>9 DEF Elapse, writerVars, flushVars
<1>10. CASE UNCHANGED vars
  BY <1>8, <1>10 DEF vars, writerVars, flushVars
<1>11. QED
  BY <1>1, <1>2, <1>3, <1>4, <1>5, <1>6, <1>7, <1>9, <1>10
  DEF Next, Flush, Stopped

(***************************************************************************)
(* Type correctness of every reachable state, for every configuration.     *)
(***************************************************************************)
THEOREM TypeCorrect == Spec => [](TypeOK /\ Shape)
<1>1. Init => TypeOK /\ Shape
  BY TypeInit, ShapeInit
<1>2. TypeOK /\ Shape /\ [Next]_vars => (TypeOK /\ Shape)'
  BY TypeStep, ShapeStep DEF Shape
<1>3. QED
  BY <1>1, <1>2, PTL DEF Spec

-----------------------------------------------------------------------------
(***************************************************************************)
(* Tokens.                                                                 *)
(***************************************************************************)
LEMMA PushingFinite == TypeOK => /\ IsFiniteSet(Pushing)
                                 /\ Cardinality(Pushing) \in Nat
                                 /\ Cardinality(Writers) \in Nat
                                 /\ Cardinality(Pushing) <= Cardinality(Writers)
  BY ConfigAssumption, FS_Subset, FS_CardinalityType DEF Pushing

LEMMA TokensInit == Init => TokenConservation
<1> SUFFICES ASSUME Init PROVE TokenConservation
  OBVIOUS
<1>1. Pushing = {} /\ Cardinality(Pushing) = 0
  BY FS_EmptySet DEF Init, Pushing
<1>2. Len(buf) = 0 /\ pending = 0 /\ \A f \in Flushers : rem[f] = 0
  BY DEF Init
<1>3. QED
  BY <1>1, <1>2 DEF TokenConservation

LEMMA TokensStep ==
  TypeOK /\ Shape /\ TokenConservation /\ [Next]_vars => TokenConservation'
<1> SUFFICES ASSUME TypeOK, Shape, TokenConservation, [Next]_vars
             PROVE  TokenConservation'
  OBVIOUS
<1>0. /\ IsFiniteSet(Pushing) /\ Cardinality(Pushing) \in Nat
      /\ MaxPending \in Nat /\ Len(buf) \in Nat /\ pending \in Nat
      /\ rem \in [Flushers -> Nat]
  BY PushingFinite, ConfigAssumption DEF TypeOK
<1> USE <1>0
<1>1. ASSUME NEW w \in Writers, NEW size \in RowSizes, WriteAppend(w, size)
      PROVE  TokenConservation'
  <2>1. CASE Backpressure
    <3>1. w \notin Pushing /\ Pushing' = Pushing \cup {w}
      BY <1>1, <2>1 DEF WriteAppend, Pushing, TypeOK
    <3>2. Cardinality(Pushing') = Cardinality(Pushing) + 1
      BY <3>1, FS_AddElement
    <3>3. Len(buf') = Len(buf) + 1 /\ UNCHANGED <<pending, rem>>
      BY <1>1 DEF WriteAppend, flushVars, TypeOK
    <3>4. QED
      BY <2>1, <3>2, <3>3 DEF TokenConservation, Backpressure
  <2>2. CASE ~Backpressure
    <3>1. Pushing' = Pushing
      BY <1>1, <2>2 DEF WriteAppend, AfterPush, Pushing, TypeOK
    <3>2. QED
      BY <1>1, <2>2, <3>1
      DEF WriteAppend, flushVars, TokenConservation, Backpressure
  <2>3. QED
    BY <2>1, <2>2
<1>2. ASSUME NEW w \in Writers, WritePush(w)
      PROVE  TokenConservation'
  <2>1. w \in Pushing /\ Pushing' = Pushing \ {w}
    BY <1>2 DEF WritePush, AfterPush, Pushing, TypeOK
  <2>2. Cardinality(Pushing') = Cardinality(Pushing) - 1
    BY <2>1, FS_RemoveElement
  <2>3. pending' = pending + 1 /\ UNCHANGED <<buf, rem>>
    BY <1>2 DEF WritePush, flushVars
  <2>4. QED
    BY <2>1, <2>2, <2>3 DEF TokenConservation, Backpressure
<1>3. ASSUME NEW w \in Writers, WriteSignal(w)
      PROVE  TokenConservation'
  <2>1. Pushing' = Pushing
    BY <1>3 DEF WriteSignal, Pushing, TypeOK
  <2>2. QED
    BY <1>3, <2>1
    DEF WriteSignal, flushVars, TokenConservation, Backpressure
<1>4. ASSUME NEW f \in Flushers, FlushTake(f)
      PROVE  TokenConservation'
  <2>1. Pushing' = Pushing /\ pending' = pending
    BY <1>4 DEF FlushTake, writerVars, Pushing
  <2>2. rem[f] = 0 /\ Len(buf') = 0
    BY <1>4 DEF FlushTake, Shape, FlushShape
  <2>3. CASE Backpressure
    <3>1. rem' = [rem EXCEPT ![f] = Len(buf)]
      BY <1>4, <2>3 DEF FlushTake
    <3>2. Len(buf) + rem["loop"] + rem["close"]
            = Len(buf') + rem'["loop"] + rem'["close"]
      BY <2>2, <3>1
    <3>3. QED
      BY <2>1, <2>3, <3>2 DEF TokenConservation, Backpressure
  <2>4. CASE ~Backpressure
    BY <1>4, <2>1, <2>4 DEF FlushTake, TokenConservation, Backpressure
  <2>5. QED
    BY <2>3, <2>4
<1>5. ASSUME NEW f \in Flushers, FlushDrain(f)
      PROVE  TokenConservation'
  <2>1. Pushing' = Pushing /\ buf' = buf /\ pending' = pending - 1
    BY <1>5 DEF FlushDrain, writerVars, Pushing
  <2>2. rem' = [rem EXCEPT ![f] = rem[f] - 1]
    BY <1>5 DEF FlushDrain
  <2>3. QED
    BY <1>5, <2>1, <2>2 DEF FlushDrain, TokenConservation, Backpressure
<1>6. ASSUME UNCHANGED <<buf, pending, wpc, rem>>
      PROVE  TokenConservation'
  BY <1>6 DEF TokenConservation, Backpressure, Pushing
<1>7. ASSUME NEW f \in Flushers, FlushEmpty(f) \/ FlushWriteFile(f)
      PROVE  TokenConservation'
  BY <1>6, <1>7 DEF FlushEmpty, FlushWriteFile, writerVars
<1>8. CASE LoopWake \/ LoopTick \/ LoopStop \/ Close \/ Elapse
  BY <1>6, <1>8
  DEF LoopWake, LoopTick, LoopStop, Close, Elapse, writerVars, flushVars
<1>9. CASE UNCHANGED vars
  BY <1>6, <1>9 DEF vars, writerVars, flushVars
<1>10. QED
  BY <1>1, <1>2, <1>3, <1>4, <1>5, <1>7, <1>8, <1>9 DEF Next, Flush, Stopped

(***************************************************************************)
(* Every receive of Flush is matched by a send of Write, in every          *)
(* interleaving of any number of writers with both flushers.               *)
(***************************************************************************)
THEOREM TokensConserved == Spec => []TokenConservation
<1>1. Init => TypeOK /\ Shape /\ TokenConservation
  BY TypeInit, ShapeInit, TokensInit
<1>2. TypeOK /\ Shape /\ TokenConservation /\ [Next]_vars
        => (TypeOK /\ Shape /\ TokenConservation)'
  BY TypeStep, ShapeStep, TokensStep DEF Shape
<1>3. QED
  BY <1>1, <1>2, PTL DEF Spec

-----------------------------------------------------------------------------
(***************************************************************************)
(* Signals.                                                                *)
(***************************************************************************)
LEMMA WakeupInit == Init => NoLostWakeup
  BY ConfigAssumption DEF Init, NoLostWakeup, OverThreshold

LEMMA WakeupStep ==
  TypeOK /\ Shape /\ NoLostWakeup /\ [Next]_vars => NoLostWakeup'
<1> SUFFICES ASSUME TypeOK, Shape, NoLostWakeup, [Next]_vars
             PROVE  NoLostWakeup'
  OBVIOUS
<1> USE ConfigAssumption DEF NoLostWakeup
<1>1. ASSUME NEW w \in Writers, NEW size \in RowSizes, WriteAppend(w, size)
      PROVE  NoLostWakeup'
  <2>1. CASE OverThreshold'
    <3>1. shouldFlush'[w] /\ wpc'[w] \in {"push", "signal"}
      BY <1>1, <2>1 DEF WriteAppend, AfterPush, OverThreshold, TypeOK
    <3>2. QED
      BY <3>1
  <2>2. QED
    BY <2>1
<1>2. ASSUME NEW w \in Writers, WritePush(w)
      PROVE  NoLostWakeup'
  <2>1. UNCHANGED <<buf, byteLen, flushCh, done, shouldFlush, fpc>>
    BY <1>2 DEF WritePush, flushVars
  <2>2. \A v \in Writers : wpc[v] \in {"push", "signal"} /\ shouldFlush[v]
                            => wpc'[v] \in {"push", "signal"}
    BY <1>2 DEF WritePush, AfterPush, TypeOK
  <2>3. QED
    BY <2>1, <2>2 DEF OverThreshold
<1>3. ASSUME NEW w \in Writers, WriteSignal(w)
      PROVE  NoLostWakeup'
  BY <1>3 DEF WriteSignal
<1>4. ASSUME NEW f \in Flushers, buf' = <<>>, byteLen' = 0
      PROVE  NoLostWakeup'
  BY <1>4 DEF OverThreshold
<1>5. ASSUME NEW f \in Flushers, FlushEmpty(f)
      PROVE  NoLostWakeup'
  BY <1>4, <1>5 DEF FlushEmpty, Shape, EmptyBytes
<1>6. ASSUME NEW f \in Flushers, FlushTake(f)
      PROVE  NoLostWakeup'
  BY <1>4, <1>6 DEF FlushTake
<1>7. ASSUME UNCHANGED <<buf, byteLen, flushCh, done, wpc, shouldFlush>>,
             fpc["loop"] = "take" => fpc'["loop"] = "take"
      PROVE  NoLostWakeup'
  BY <1>7 DEF OverThreshold
<1>8. ASSUME NEW f \in Flushers, FlushDrain(f) \/ FlushWriteFile(f)
      PROVE  NoLostWakeup'
  BY <1>7, <1>8 DEF FlushDrain, FlushWriteFile, writerVars, TypeOK
<1>9. CASE LoopWake
  BY <1>9 DEF LoopWake, TypeOK
<1>10. CASE Close
  BY <1>10 DEF Close
<1>11. CASE LoopTick \/ LoopStop \/ Elapse
  BY <1>7, <1>11 DEF LoopTick, LoopStop, Elapse, writerVars, flushVars
<1>12. CASE UNCHANGED vars
  BY <1>7, <1>12 DEF vars, writerVars, flushVars
<1>13. QED
  BY <1>1, <1>2, <1>3, <1>5, <1>6, <1>8, <1>9, <1>10, <1>11, <1>12
  DEF Next, Flush, Stopped

(***************************************************************************)
(* A buffer over a threshold is never left to the ticker.                  *)
(***************************************************************************)
THEOREM NoWakeupIsLost == Spec => []NoLostWakeup
<1>1. Init => TypeOK /\ Shape /\ NoLostWakeup
  BY TypeInit, ShapeInit, WakeupInit
<1>2. TypeOK /\ Shape /\ NoLostWakeup /\ [Next]_vars
        => (TypeOK /\ Shape /\ NoLostWakeup)'
  BY TypeStep, ShapeStep, WakeupStep DEF Shape
<1>3. QED
  BY <1>1, <1>2, PTL DEF Spec

-----------------------------------------------------------------------------
(***************************************************************************)
(* Memory.                                                                 *)
(***************************************************************************)
Limit == MaxPending + Cardinality(Writers)

\* A batch in the making is no longer than the buffer it was.
BatchBounded ==
  Backpressure => \A f \in Flushers : Len(batch[f]) <= Limit

LEMMA BufferBound ==
  ASSUME TypeOK, TokenConservation, Backpressure
  PROVE  Len(buf) <= Limit
<1>1. rem["loop"] >= 0 /\ rem["close"] >= 0 /\ pending <= MaxPending
  BY ConfigAssumption DEF TypeOK
<1>2. Cardinality(Pushing) <= Cardinality(Writers)
  BY PushingFinite
<1>3. QED
  BY <1>1, <1>2, PushingFinite, ConfigAssumption
  DEF TypeOK, TokenConservation, Limit

LEMMA BatchBoundedStep ==
  TypeOK /\ TokenConservation /\ BatchBounded /\ [Next]_vars => BatchBounded'
<1> SUFFICES ASSUME TypeOK, TokenConservation, BatchBounded, [Next]_vars,
                    Backpressure
             PROVE  \A f \in Flushers : Len(batch'[f]) <= Limit
  BY DEF BatchBounded, Backpressure, Limit
<1>1. Limit \in Nat /\ Len(buf) <= Limit
  BY BufferBound, PushingFinite, ConfigAssumption DEF Limit
<1>2. \A f \in Flushers : batch'[f] \in {batch[f], buf, <<>>}
  <2>1. ASSUME NEW g \in Flushers, Flush(g)
        PROVE  batch' = batch \/ \E s \in {buf, <<>>} :
                                    batch' = [batch EXCEPT ![g] = s]
    BY <2>1 DEF Flush, FlushEmpty, FlushTake, FlushDrain, FlushWriteFile
  <2>2. ASSUME NEW w \in Writers, NEW size \in RowSizes,
               WriteAppend(w, size)
        PROVE  batch' = batch
    BY <2>2 DEF WriteAppend, flushVars
  <2>3. ASSUME NEW w \in Writers, WritePush(w) \/ WriteSignal(w)
        PROVE  batch' = batch
    BY <2>3 DEF WritePush, WriteSignal, flushVars
  <2>4. CASE LoopWake \/ LoopTick \/ LoopStop \/ Close \/ Elapse
    BY <2>4 DEF LoopWake, LoopTick, LoopStop, Close, Elapse, flushVars
  <2>5. CASE UNCHANGED vars
    BY <2>5 DEF vars, flushVars
  <2>6. QED
    BY <2>1, <2>2, <2>3, <2>4, <2>5 DEF Next, Stopped, TypeOK
<1>3. QED
  BY <1>1, <1>2 DEF BatchBounded

(***************************************************************************)
(* Back-pressure bounds the rows in memory by twice MaxPending and one row *)
(* per writer; MaxPending itself bounds the tokens only.                   *)
(***************************************************************************)
THEOREM MemoryBounded == Spec => []HeldBounded
<1> DEFINE I == TypeOK /\ Shape /\ TokenConservation /\ BatchBounded
<1>1. Init => I
  <2>1. Init => BatchBounded
    BY PushingFinite, TypeInit, ConfigAssumption
    DEF Init, BatchBounded, Limit
  <2>2. QED
    BY <2>1, TypeInit, ShapeInit, TokensInit
<1>2. I /\ [Next]_vars => I'
  BY TypeStep, ShapeStep, TokensStep, BatchBoundedStep DEF Shape
<1>3. I => HeldBounded
  <2> SUFFICES ASSUME I, Backpressure
               PROVE  /\ Len(buf) <= Limit
                      /\ Held <= 2 * Limit
    BY DEF HeldBounded, Limit
  <2>1. Len(buf) <= Limit /\ Limit \in Nat
    BY BufferBound, PushingFinite, ConfigAssumption DEF Limit
  <2>2. Len(batch["loop"]) <= Limit /\ Len(batch["close"]) <= Limit
    BY DEF BatchBounded
  <2>3. batch["close"] = <<>> \/ buf = <<>>
    BY DEF Shape, FlushShape, CloseShape
  <2>4. QED
    BY <2>1, <2>2, <2>3 DEF Held, TypeOK
<1>4. QED
  BY <1>1, <1>2, <1>3, PTL DEF Spec

-----------------------------------------------------------------------------
(***************************************************************************)
(* Order of the rows.                                                      *)
(***************************************************************************)
LEMMA OrderInit == Init => InOrder
  BY DEF Init, InOrder, RunUpTo

LEMMA LastRow ==
  ASSUME TypeOK, NEW f \in Flushers, batch[f] # <<>>
  PROVE  Len(batch[f]) \in Nat \ {0} /\ batch[f][Len(batch[f])] \in 1..RowLimit
  BY ConfigAssumption DEF TypeOK

LEMMA OrderStep == TypeOK /\ Shape /\ InOrder /\ [Next]_vars => InOrder'
<1> SUFFICES ASSUME TypeOK, Shape, InOrder, [Next]_vars PROVE InOrder'
  OBVIOUS
<1> USE DEF InOrder, RunUpTo
<1>1. ASSUME NEW w \in Writers, NEW size \in RowSizes, WriteAppend(w, size)
      PROVE  InOrder'
  <2>1. /\ appended' = appended + 1 /\ batch' = batch
        /\ Len(buf') = Len(buf) + 1
        /\ buf'[Len(buf) + 1] = appended + 1
        /\ \A i \in 1..Len(buf) : buf'[i] = buf[i]
    BY <1>1 DEF WriteAppend, flushVars, TypeOK
  <2>2. \A i \in 1..Len(buf') : buf'[i] = appended' - Len(buf') + i
    <3> TAKE i \in 1..Len(buf')
    <3>1. i \in 1..Len(buf) \/ i = Len(buf) + 1
      BY <2>1 DEF TypeOK
    <3>2. appended' - Len(buf') = appended - Len(buf)
      BY <2>1 DEF TypeOK
    <3>3. QED
      BY <2>1, <3>1, <3>2 DEF TypeOK
  <2>3. QED
    BY <2>1, <2>2 DEF TypeOK
<1>2. ASSUME NEW f \in Flushers, FlushTake(f)
      PROVE  InOrder'
  <2>1. /\ batch' = [batch EXCEPT ![f] = buf] /\ buf' = <<>> /\ buf # <<>>
        /\ appended' = appended
    BY <1>2 DEF FlushTake
  <2>2. /\ Len(buf) \in Nat \ {0} /\ buf[Len(buf)] = appended
        /\ buf[1] = appended - Len(buf) + 1 /\ appended \in Nat
    BY <2>1 DEF TypeOK
  <2>3. f = "loop" => batch["close"] = <<>>
    BY <2>1 DEF Shape, FlushShape, CloseShape
  <2>4. \A g \in Flushers : batch'[g] # <<>> =>
          /\ RunUpTo(batch'[g], batch'[g][Len(batch'[g])])
          /\ batch'[g][Len(batch'[g])] <= appended
    <3>1. ASSUME NEW g \in Flushers, g # f, batch[g] # <<>>
          PROVE  batch'[g] = batch[g] /\ batch[g][Len(batch[g])] <= appended
      <4>1. batch[g][Len(batch[g])] <= appended - Len(buf)
        BY <3>1
      <4>2. QED
        BY <2>1, <2>2, <3>1, <4>1, LastRow DEF TypeOK
    <3>2. batch'[f] = buf
      BY <2>1 DEF TypeOK
    <3>3. QED
      BY <2>1, <2>2, <3>1, <3>2 DEF TypeOK
  <2>5. batch'["loop"] # <<>> /\ batch'["close"] # <<>> =>
          batch'["loop"][Len(batch'["loop"])] < batch'["close"][1]
    <3>1. CASE f = "loop"
      BY <2>1, <2>3, <3>1 DEF TypeOK
    <3>2. CASE f = "close"
      <4>1. batch'["close"] = buf /\ batch'["loop"] = batch["loop"]
        BY <2>1, <3>2 DEF TypeOK
      <4>2. QED
        BY <2>2, <4>1, LastRow
    <3>3. QED
      BY <3>1, <3>2
  <2>6. QED
    BY <2>1, <2>2, <2>4, <2>5
<1>3. ASSUME NEW f \in Flushers, FlushWriteFile(f)
      PROVE  InOrder'
  <2>1. /\ batch' = [batch EXCEPT ![f] = <<>>] /\ buf' = buf
        /\ appended' = appended
    BY <1>3 DEF FlushWriteFile
  <2>2. \A g \in Flushers : batch'[g] = batch[g] \/ batch'[g] = <<>>
    BY <2>1 DEF TypeOK
  <2>3. QED
    BY <2>1, <2>2
<1>4. ASSUME UNCHANGED <<buf, batch, appended>>
      PROVE  InOrder'
  BY <1>4
<1>5. ASSUME NEW w \in Writers, WritePush(w) \/ WriteSignal(w)
      PROVE  InOrder'
  BY <1>4, <1>5 DEF WritePush, WriteSignal, flushVars
<1>6. ASSUME NEW f \in Flushers, FlushEmpty(f) \/ FlushDrain(f)
      PROVE  InOrder'
  BY <1>4, <1>6 DEF FlushEmpty, FlushDrain
<1>7. CASE LoopWake \/ LoopTick \/ LoopStop \/ Close \/ Elapse
  BY <1>4, <1>7 DEF LoopWake, LoopTick, LoopStop, Close, Elapse, flushVars
<1>8. CASE UNCHANGED vars
  BY <1>4, <1>8 DEF vars, flushVars
<1>9. QED
  BY <1>1, <1>2, <1>3, <1>5, <1>6, <1>7, <1>8 DEF Next, Flush, Stopped

(***************************************************************************)
(* Every object is a contiguous piece of the stream, in order.             *)
(***************************************************************************)
THEOREM BatchesInOrder == Spec => []InOrder
<1>1. Init => TypeOK /\ Shape /\ InOrder
  BY TypeInit, ShapeInit, OrderInit
<1>2. TypeOK /\ Shape /\ InOrder /\ [Next]_vars => (TypeOK /\ Shape /\ InOrder)'
  BY TypeStep, ShapeStep, OrderStep DEF Shape
<1>3. QED
  BY <1>1, <1>2, PTL DEF Spec

-----------------------------------------------------------------------------
(***************************************************************************)
(* The refinement of BatchSink.  Three steps of Batcher are steps of the   *)
(* sink: the append of Write, the critical section of Flush and the end of *)
(* WriteFile.  Every other step changes nothing the sink can see.          *)
(***************************************************************************)

\* The rows the sink has accepted are the rows appended.
Covered == Sink!Accepted = 1..appended

LEMMA InAccepted ==
  ASSUME NEW x
  PROVE  x \in Sink!Accepted <=> \/ x \in Buffered \/ x \in stored \/ x \in lost
                                \/ \E b \in Writing : x \in b
  BY DEF Sink!Accepted

LEMMA AppendIsAccept ==
  ASSUME TypeOK, Covered,
         NEW w \in Writers, NEW size \in RowSizes, WriteAppend(w, size)
  PROVE  Sink!Accept(appended + 1) /\ Covered'
<1>1. /\ appended' = appended + 1 /\ appended \in Nat
      /\ appended + 1 \in 1..RowLimit
      /\ UNCHANGED <<batch, stored, lost>>
  BY ConfigAssumption DEF WriteAppend, flushVars, outcome, TypeOK
<1>2. appended + 1 \notin Sink!Accepted
  BY <1>1 DEF Covered
<1>3. Buffered' = Buffered \cup {appended + 1}
  <2>1. /\ Len(buf') = Len(buf) + 1 /\ Len(buf) \in Nat
        /\ buf'[Len(buf) + 1] = appended + 1
        /\ \A i \in 1..Len(buf) : buf'[i] = buf[i]
    BY DEF WriteAppend, TypeOK
  <2>2. 1..Len(buf') = 1..Len(buf) \cup {Len(buf) + 1}
    BY <2>1
  <2>3. QED
    BY <2>1, <2>2 DEF Buffered
<1>4. Writing' = Writing
  BY <1>1 DEF Writing, RowsOf
<1>5. Sink!Accept(appended + 1)
  BY <1>1, <1>2, <1>3, <1>4 DEF Sink!Accept
<1>6. Sink!Accepted' = Sink!Accepted \cup {appended + 1}
  BY <1>1, <1>3, <1>4 DEF Sink!Accepted
<1>7. Covered'
  BY <1>1, <1>6 DEF Covered
<1>8. QED
  BY <1>5, <1>7

LEMMA TakeIsTake ==
  ASSUME TypeOK, Shape, Covered, NEW f \in Flushers, FlushTake(f)
  PROVE  Sink!Take /\ Covered'
<1>1. /\ batch' = [batch EXCEPT ![f] = buf] /\ buf # <<>> /\ buf' = <<>>
      /\ UNCHANGED <<stored, lost, appended>>
  BY DEF FlushTake, outcome
<1>2. batch[f] = <<>>
  BY DEF FlushTake, Shape, FlushShape
<1>3. Buffered # {} /\ Buffered' = {}
  BY <1>1 DEF Buffered, TypeOK
<1>4. Writing' = Writing \cup {Buffered}
  <2>1. RowsOf(f)' = Buffered /\ batch'[f] # <<>>
    BY <1>1 DEF RowsOf, Buffered, TypeOK
  <2>2. \A g \in Flushers \ {f} : batch'[g] = batch[g] /\ RowsOf(g)' = RowsOf(g)
    BY <1>1 DEF RowsOf, TypeOK
  <2>3. QED
    BY <1>2, <2>1, <2>2 DEF Writing
<1>5. Sink!Take
  BY <1>1, <1>3, <1>4 DEF Sink!Take
<1>6. Sink!Accepted' = Sink!Accepted
  BY <1>1, <1>3, <1>4 DEF Sink!Accepted
<1>7. QED
  BY <1>1, <1>5, <1>6 DEF Covered

LEMMA WriteFileIsStoreOrDrop ==
  ASSUME TypeOK, Shape, InOrder, Covered,
         NEW f \in Flushers, FlushWriteFile(f)
  PROVE  /\ RowsOf(f) \in Writing
         /\ Sink!Store(RowsOf(f)) \/ Sink!Drop(RowsOf(f))
         /\ Covered'
<1>1. /\ batch' = [batch EXCEPT ![f] = <<>>]
      /\ UNCHANGED <<buf, appended>>
      /\ \/ stored' = stored \cup RowsOf(f) /\ lost' = lost
         \/ lost' = lost \cup RowsOf(f) /\ stored' = stored
  BY DEF FlushWriteFile
<1>2. batch[f] # <<>>
  BY DEF FlushWriteFile, Shape, FlushShape
<1>3. RowsOf(f) \in Writing
  BY <1>2 DEF Writing
<1>4. ASSUME NEW g \in Flushers, g # f, batch[g] # <<>>
      PROVE  RowsOf(g) # RowsOf(f)
  <2>1. batch["loop"] # <<>> /\ batch["close"] # <<>>
    BY <1>2, <1>4
  <2>2. batch["close"][1] \in RowsOf("close") \ RowsOf("loop")
    <3>1. batch["close"][1] \in RowsOf("close")
      BY <2>1, LastRow DEF RowsOf
    <3>2. \A i \in 1..Len(batch["loop"]) :
            batch["loop"][i] <= batch["loop"][Len(batch["loop"])]
      <4>1. \A i \in 1..Len(batch["loop"]) :
              batch["loop"][i] = batch["loop"][Len(batch["loop"])]
                                   - Len(batch["loop"]) + i
        BY <2>1 DEF InOrder, RunUpTo
      <4>2. QED
        BY <2>1, <4>1, LastRow
    <3>3. batch["loop"][Len(batch["loop"])] < batch["close"][1]
      BY <2>1 DEF InOrder
    <3>4. /\ batch["close"][1] \in Nat
          /\ \A i \in 1..Len(batch["loop"]) : batch["loop"][i] \in Nat
      <4>1. /\ batch["close"] \in Seq(1..RowLimit)
            /\ batch["loop"] \in Seq(1..RowLimit)
        BY DEF TypeOK
      <4>2. 1 \in 1..Len(batch["close"])
        BY <2>1, LastRow
      <4>3. QED
        BY <4>1, <4>2, ConfigAssumption
    <3>5. \A i \in 1..Len(batch["loop"]) : batch["loop"][i] # batch["close"][1]
      BY <2>1, <3>2, <3>3, <3>4, LastRow
    <3>6. QED
      BY <3>1, <3>5 DEF RowsOf
  <2>3. QED
    BY <1>4, <2>2
<1>5. Buffered' = Buffered
  BY <1>1 DEF Buffered
<1>6. Writing' = Writing \ {RowsOf(f)}
  <2>1. batch'[f] = <<>>
    BY <1>1 DEF TypeOK
  <2>2. \A g \in Flushers \ {f} : batch'[g] = batch[g] /\ RowsOf(g)' = RowsOf(g)
    BY <1>1 DEF RowsOf, TypeOK
  <2>3. QED
    BY <1>4, <2>1, <2>2 DEF Writing
<1>7. Sink!Store(RowsOf(f)) \/ Sink!Drop(RowsOf(f))
  BY <1>1, <1>3, <1>5, <1>6 DEF Sink!Store, Sink!Drop
<1>8. \A x : x \in Sink!Accepted' <=> x \in Sink!Accepted
  BY <1>1, <1>3, <1>5, <1>6, InAccepted DEF Sink!Accepted
<1>9. QED
  BY <1>1, <1>3, <1>7, <1>8 DEF Covered

Inv == TypeOK /\ Shape /\ InOrder /\ Covered

LEMMA InvInit == Init => Inv /\ Sink!Init
<1> SUFFICES ASSUME Init PROVE Inv /\ Sink!Init
  OBVIOUS
<1>1. Buffered = {} /\ Writing = {} /\ stored = {} /\ lost = {}
  BY DEF Init, Buffered, Writing
<1>2. Sink!Accepted = {} /\ 1..appended = {}
  BY <1>1 DEF Sink!Accepted, Init
<1>3. QED
  BY <1>1, <1>2, TypeInit, ShapeInit, OrderInit DEF Inv, Covered, Sink!Init

\* A step of the Batcher is a step of the sink or invisible to it.
LEMMA StepMaps == Inv /\ [Next]_vars => [Sink!Next]_(Sink!vars) /\ Covered'
<1> SUFFICES ASSUME Inv, [Next]_vars
             PROVE  [Sink!Next]_(Sink!vars) /\ Covered'
  OBVIOUS
<1> USE DEF Inv
<1>1. ASSUME NEW w \in Writers, NEW size \in RowSizes, WriteAppend(w, size)
      PROVE  Sink!Next /\ Covered'
  <2>1. Sink!Accept(appended + 1) /\ Covered'
    BY <1>1, AppendIsAccept
  <2>2. appended + 1 \in 1..RowLimit
    BY <1>1, ConfigAssumption DEF WriteAppend, TypeOK
  <2>3. QED
    BY <2>1, <2>2 DEF Sink!Next
<1>2. ASSUME NEW f \in Flushers, FlushTake(f)
      PROVE  Sink!Next /\ Covered'
  BY <1>2, TakeIsTake DEF Sink!Next
<1>3. ASSUME NEW f \in Flushers, FlushWriteFile(f)
      PROVE  Sink!Next /\ Covered'
  BY <1>3, WriteFileIsStoreOrDrop DEF Sink!Next
<1>4. ASSUME UNCHANGED <<buf, batch, stored, lost, appended>>
      PROVE  UNCHANGED Sink!vars /\ Covered'
  <2>1. Buffered' = Buffered /\ Writing' = Writing
    BY <1>4 DEF Buffered, Writing, RowsOf
  <2>2. Sink!Accepted' = Sink!Accepted
    BY <1>4, <2>1 DEF Sink!Accepted
  <2>3. QED
    BY <1>4, <2>1, <2>2 DEF Sink!vars, Covered
<1>5. ASSUME NEW w \in Writers, WritePush(w) \/ WriteSignal(w)
      PROVE  UNCHANGED Sink!vars /\ Covered'
  BY <1>4, <1>5 DEF WritePush, WriteSignal, flushVars, outcome
<1>6. ASSUME NEW f \in Flushers, FlushEmpty(f) \/ FlushDrain(f)
      PROVE  UNCHANGED Sink!vars /\ Covered'
  BY <1>4, <1>6 DEF FlushEmpty, FlushDrain, outcome
<1>7. ASSUME LoopWake \/ LoopTick \/ LoopStop \/ Close \/ Elapse
      PROVE  UNCHANGED Sink!vars /\ Covered'
  BY <1>4, <1>7
  DEF LoopWake, LoopTick, LoopStop, Close, Elapse, flushVars, outcome
<1>8. ASSUME UNCHANGED vars
      PROVE  UNCHANGED Sink!vars /\ Covered'
  BY <1>4, <1>8 DEF vars, flushVars, outcome
<1>9. QED
  BY <1>1, <1>2, <1>3, <1>5, <1>6, <1>7, <1>8 DEF Next, Flush, Stopped

LEMMA InvStep == Inv /\ [Next]_vars => Inv'
  BY TypeStep, ShapeStep, OrderStep, StepMaps DEF Inv, Shape

THEOREM InvHolds == Spec => []Inv
  BY InvInit, InvStep, PTL DEF Spec

(***************************************************************************)
(* The Batcher implements the abstract sink (safety): whatever the order   *)
(* of writers, loop and Close, rows only move from the buffer to a batch,  *)
(* and a batch is stored or lost as a whole.                               *)
(***************************************************************************)
THEOREM ImplementsSink == Spec => Sink!Spec
  BY InvInit, InvHolds, StepMaps, PTL DEF Spec, Sink!Spec

\* No step of the sink puts a row into a second place.
LEMMA SinkOnePlaceStep ==
  Sink!OnePlace /\ [Sink!Next]_(Sink!vars) => (Sink!OnePlace)'
<1> SUFFICES ASSUME Sink!OnePlace, [Sink!Next]_(Sink!vars)
             PROVE  (Sink!OnePlace)'
  OBVIOUS
<1>1. ASSUME NEW r \in 1..RowLimit, Sink!Accept(r)
      PROVE  (Sink!OnePlace)'
  <2>1. /\ r \notin Buffered \cup stored \cup lost
        /\ \A b \in Writing : r \notin b
    BY <1>1, InAccepted DEF Sink!Accept
  <2>2. QED
    BY <1>1, <2>1 DEF Sink!Accept, Sink!OnePlace
<1>2. CASE Sink!Take
  <2>1. \A b \in Writing' : b \in Writing \/ b = Buffered
    BY <1>2 DEF Sink!Take
  <2>2. QED
    BY <1>2, <2>1 DEF Sink!Take, Sink!OnePlace
<1>3. ASSUME NEW b \in Writing, Sink!Store(b)
      PROVE  (Sink!OnePlace)'
  <2>1. Writing' = Writing \ {b} /\ stored' = stored \cup b
    BY <1>3 DEF Sink!Store
  <2>2. \A c \in Writing' : c \in Writing /\ c \cap b = {}
    BY <2>1 DEF Sink!OnePlace
  <2>3. QED
    BY <1>3, <2>1, <2>2 DEF Sink!Store, Sink!OnePlace
<1>4. ASSUME NEW b \in Writing, Sink!Drop(b)
      PROVE  (Sink!OnePlace)'
  <2>1. Writing' = Writing \ {b} /\ lost' = lost \cup b
    BY <1>4 DEF Sink!Drop
  <2>2. \A c \in Writing' : c \in Writing /\ c \cap b = {}
    BY <2>1 DEF Sink!OnePlace
  <2>3. QED
    BY <1>4, <2>1, <2>2 DEF Sink!Drop, Sink!OnePlace
<1>5. CASE Sink!Abandon
  <2>1. stored \cap lost' = {}
    BY <1>5 DEF Sink!Abandon, Sink!OnePlace
  <2>2. QED
    BY <1>5, <2>1 DEF Sink!Abandon, Sink!OnePlace
<1>6. CASE UNCHANGED Sink!vars
  BY <1>6 DEF Sink!vars, Sink!OnePlace
<1>7. QED
  BY <1>1, <1>2, <1>3, <1>4, <1>5, <1>6 DEF Sink!Next

(***************************************************************************)
(* Every row written is in exactly one place: buffer, batch, bucket, lost. *)
(***************************************************************************)
THEOREM RowsInOnePlace == Spec => []OnePlace
<1>1. Sink!OnePlace /\ [Sink!Next]_(Sink!vars) => (Sink!OnePlace)'
  BY SinkOnePlaceStep
<1>2. Sink!Init => Sink!OnePlace
  BY DEF Sink!Init, Sink!OnePlace
<1>3. Inv /\ Sink!OnePlace => OnePlace
  BY DEF Inv, Covered, OnePlace
<1>4. QED
  BY <1>1, <1>2, <1>3, InvInit, InvHolds, StepMaps, PTL DEF Spec

\* No step of the sink forgets a row.
LEMMA SinkKeepsRows ==
  ASSUME Sink!Next
  PROVE  Sink!Accepted \subseteq Sink!Accepted' /\ stored \subseteq stored'
<1>1. ASSUME NEW b \in Writing, Sink!Store(b) \/ Sink!Drop(b)
      PROVE  Sink!Accepted \subseteq Sink!Accepted' /\ stored \subseteq stored'
  <2>1. Writing' = Writing \ {b}
    BY <1>1 DEF Sink!Store, Sink!Drop
  <2>2. UNION Writing \subseteq b \cup UNION Writing'
    BY <2>1
  <2>3. QED
    BY <1>1, <2>2 DEF Sink!Store, Sink!Drop, Sink!Accepted
<1>2. CASE Sink!Take
  <2>1. UNION Writing' = Buffered \cup UNION Writing
    BY <1>2 DEF Sink!Take
  <2>2. QED
    BY <1>2, <2>1 DEF Sink!Take, Sink!Accepted
<1>3. ASSUME NEW r \in 1..RowLimit, Sink!Accept(r)
      PROVE  Sink!Accepted \subseteq Sink!Accepted' /\ stored \subseteq stored'
  BY <1>3 DEF Sink!Accept, Sink!Accepted
<1>4. CASE Sink!Abandon
  BY <1>4 DEF Sink!Abandon, Sink!Accepted
<1>5. QED
  BY <1>1, <1>2, <1>3, <1>4 DEF Sink!Next

(***************************************************************************)
(* A row that Write accepted never disappears without a trace, and a row   *)
(* in the bucket stays there.                                              *)
(***************************************************************************)
THEOREM RowsAreDurable == Spec => Sink!Durable
<1>1. [Sink!Next]_(Sink!vars) =>
        [Sink!Accepted \subseteq Sink!Accepted'
           /\ stored \subseteq stored']_(Sink!vars)
  BY SinkKeepsRows
<1>2. QED
  BY <1>1, ImplementsSink, PTL DEF Sink!Spec, Sink!Durable

(***************************************************************************)
(* After Close and the loop have both ended, every row has its outcome.    *)
(***************************************************************************)
THEOREM ShutdownAccounts == Spec => []AllAccounted
<1>1. Inv => AllAccounted
  <2> SUFFICES ASSUME Inv, \A f \in Flushers : fpc[f] = "stop"
               PROVE  stored \cup lost = 1..appended
    BY DEF AllAccounted
  <2>1. Buffered = {} /\ Writing = {}
    BY DEF Inv, Shape, FlushShape, CloseShape, Buffered, Writing
  <2>2. QED
    BY <2>1 DEF Inv, Covered, Sink!Accepted
<1>2. QED
  BY <1>1, InvHolds, PTL
=============================================================================
