--------------------------- MODULE ConsumerProofs ---------------------------
(***************************************************************************)
(* What the consumer guarantees whatever the length of the log, the        *)
(* messages that do not decode, MAX_RETRIES, and the faults that happen.   *)
(***************************************************************************)
EXTENDS Consumer, FiniteSetTheorems, TLAPS

USE DEF NextPosition, ReadCommit, Counted

\* Offsets in use are offsets of the log; main has a message while it
\* handles one.
Shape ==
  /\ position <= logEnd
  /\ committed <= logEnd
  /\ pc \in Handling \cup {"fetched"} => msg \in Offsets /\ msg < logEnd

LEMMA SinkTypeStep ==
  Sink!TypeOK /\ (Sink!Next \/ UNCHANGED sinkVars) => Sink!TypeOK'
<1> SUFFICES ASSUME Sink!TypeOK, Sink!Next \/ UNCHANGED sinkVars
             PROVE  Sink!TypeOK'
  OBVIOUS
<1> USE DEF Sink!TypeOK
<1>1. ASSUME NEW r \in Rows, Sink!Accept(r) PROVE Sink!TypeOK'
  BY <1>1 DEF Sink!Accept
<1>2. CASE Sink!Take
  BY <1>2 DEF Sink!Take
<1>3. ASSUME NEW b \in writing, Sink!Store(b) \/ Sink!Drop(b)
      PROVE  Sink!TypeOK'
  BY <1>3 DEF Sink!Store, Sink!Drop
<1>4. CASE Sink!Abandon
  <2>1. UNION writing \subseteq Rows
    OBVIOUS
  <2>2. QED
    BY <1>4, <2>1 DEF Sink!Abandon
<1>5. CASE UNCHANGED sinkVars
  BY <1>5 DEF sinkVars
<1>6. QED
  BY <1>1, <1>2, <1>3, <1>4, <1>5 DEF Sink!Next

\* What a step does to the sink is a step of the sink.
LEMMA SinkStep == [Next]_vars => Sink!Next \/ UNCHANGED sinkVars
<1> SUFFICES ASSUME [Next]_vars PROVE Sink!Next \/ UNCHANGED sinkVars
  OBVIOUS
<1>1. CASE WriteRow
  <2>1. <<msg, delivered[msg]>> \in Rows
    BY <1>1 DEF WriteRow, Sink!Accept
  <2>2. QED
    BY <1>1, <2>1 DEF WriteRow, Sink!Next
<1>2. CASE LoopFlush \/ Upload
  BY <1>2 DEF LoopFlush, Upload, UploadOK, UploadFails, Sink!Next
<1>3. CASE CloseBatcher
  BY <1>3 DEF CloseBatcher, Sink!Next
<1>4. CASE Crash \/ Exit
  BY <1>4 DEF Crash, Exit, Die, Sink!Next
<1>5. CASE Produce \/ Start \/ Signal \/ Rejoin
  BY <1>5 DEF Produce, Start, Signal, Rejoin
<1>6. CASE \/ CheckContext \/ ReadCancelled \/ ReadFetch \/ ReadReturns
           \/ ReadError \/ DecodeOK \/ DecodeError \/ NextRetry
           \/ WriteFailed \/ Commit \/ CloseReturns
  BY <1>6 DEF CheckContext, ReadCancelled, ReadFetch, ReadReturns, ReadError,
     DecodeOK, DecodeError, NextRetry,
     WriteFailed, WriteFailedPanics, WriteFailedRefuses, Commit, CloseReturns
<1>7. CASE UNCHANGED vars
  BY <1>7 DEF vars
<1>8. QED
  BY <1>1, <1>2, <1>3, <1>4, <1>5, <1>6, <1>7 DEF Next, Main

LEMMA TypeInit == Init => TypeOK /\ Shape
<1> SUFFICES ASSUME Init PROVE TypeOK /\ Shape
  OBVIOUS
<1> USE ConsumerAssumption DEF Init
<1>1. /\ logEnd \in 0..LogLimit /\ committed \in -1..LogLimit
      /\ position \in 0..LogLimit
      /\ lives \in 0..MaxLives /\ rejoins \in 0..MaxRejoins
      /\ msg \in Offsets \cup {None} /\ pc \in Labels
  BY DEF None, Labels
<1>2. cached \in BOOLEAN /\ cancelled \in BOOLEAN
  BY Zenon
<1>3. retry \in [Offsets -> Nat] /\ delivered \in [Offsets -> Nat]
  OBVIOUS
<1>4. mine \subseteq Rows /\ maxRetries \in RetryLimits /\ Sink!TypeOK
  BY DEF Sink!Init, Sink!TypeOK
<1>5. Shape
  BY DEF Shape, Handling, None
<1>6. QED
  BY <1>1, <1>2, <1>3, <1>4, <1>5 DEF TypeOK

\* The part of the state that the broker and the reader keep.
LogType ==
  /\ maxRetries \in RetryLimits
  /\ logEnd \in 0..LogLimit
  /\ committed \in -1..LogLimit
  /\ position \in 0..LogLimit
  /\ lives \in 0..MaxLives
  /\ rejoins \in 0..MaxRejoins

LEMMA LogTypeStep ==
  TypeOK /\ Shape /\ [Next]_vars => LogType' /\ Shape'
<1> SUFFICES ASSUME TypeOK, Shape, [Next]_vars PROVE LogType' /\ Shape'
  OBVIOUS
<1>0. LogType /\ LogLimit \in Nat /\ MaxLives \in Nat /\ MaxRejoins \in Nat
  BY ConsumerAssumption DEF TypeOK, LogType
<1> USE <1>0 DEF LogType, Shape, history
<1>1. CASE Produce
  BY <1>1 DEF Produce, process, Offsets
<1>2. Resume \in 0..LogLimit /\ Resume <= logEnd
  BY SMT DEF Resume, None, TypeOK
<1>3. CASE Start
  BY <1>2, <1>3 DEF Start, broker, Handling
<1>4. CASE Rejoin
  BY <1>2, <1>4 DEF Rejoin, broker, process
<1>5. CASE ReadFetch
  BY <1>5 DEF ReadFetch, broker, Offsets
<1>6. ASSUME ReadReturns \/ ReadError \/ Commit
      PROVE  LogType' /\ Shape'
  <2>1. msg \in Offsets /\ msg < logEnd
    BY <1>6 DEF ReadReturns, ReadError, Commit, Handling
  <2>2. committed' = committed \/ committed' = msg + 1
    BY <1>6 DEF ReadReturns, ReadError, Commit, CommitOffset, CommitError
  <2>3. UNCHANGED <<maxRetries, logEnd, position, lives, rejoins, msg>>
    BY <1>6 DEF ReadReturns, ReadError, Commit, Goto
  <2>4. QED
    BY <2>1, <2>2, <2>3 DEF Offsets
<1>7. CASE DecodeOK \/ DecodeError \/ NextRetry \/ WriteFailed \/ WriteRow
  BY <1>7 DEF DecodeOK, DecodeError, NextRetry,
      WriteFailed, WriteFailedPanics, WriteFailedRefuses, WriteRow, Goto,
              broker, Handling
<1>8. CASE CheckContext \/ ReadCancelled \/ CloseBatcher \/ CloseReturns
  BY <1>8 DEF CheckContext, ReadCancelled, CloseBatcher, CloseReturns, Goto,
              broker, Handling
<1>9. CASE Exit \/ Crash
  BY <1>9 DEF Exit, Crash, Die, Goto, broker, Handling
<1>10. CASE LoopFlush \/ Upload \/ Signal
  BY <1>10 DEF LoopFlush, Upload, UploadOK, UploadFails, Signal, broker,
               process
<1>11. CASE UNCHANGED vars
  BY <1>11 DEF vars, broker, process
<1>12. QED
  BY <1>1, <1>3, <1>4, <1>5, <1>6, <1>7, <1>8, <1>9, <1>10, <1>11
  DEF Next, Main

LEMMA ProcessTypeStep ==
  TypeOK /\ Shape /\ [Next]_vars
    => /\ pc' \in Labels /\ msg' \in Offsets \cup {None}
       /\ retry' \in [Offsets -> Nat] /\ delivered' \in [Offsets -> Nat]
       /\ mine' \subseteq Rows
<1> SUFFICES ASSUME TypeOK, Shape, [Next]_vars
             PROVE  /\ pc' \in Labels /\ msg' \in Offsets \cup {None}
                    /\ retry' \in [Offsets -> Nat]
                    /\ delivered' \in [Offsets -> Nat]
                    /\ mine' \subseteq Rows
  OBVIOUS
<1>0. /\ pc \in Labels /\ msg \in Offsets \cup {None}
      /\ retry \in [Offsets -> Nat] /\ delivered \in [Offsets -> Nat]
      /\ mine \subseteq Rows
      /\ buffered \subseteq Rows
      /\ pc \in Handling \cup {"fetched"} => msg \in Offsets
      /\ position \in Nat /\ logEnd \in 0..LogLimit /\ LogLimit \in Nat
  BY ConsumerAssumption DEF TypeOK, Sink!TypeOK, Shape
<1> USE <1>0 DEF history
<1>1. CASE Produce \/ Rejoin \/ LoopFlush \/ Upload \/ Signal
  BY <1>1 DEF Produce, Rejoin, LoopFlush, Upload, UploadOK, UploadFails,
              Signal, broker, process
<1>2. CASE Start
  BY <1>2 DEF Start, broker, Labels
<1>3. CASE ReadFetch
  BY <1>3 DEF ReadFetch, broker, Labels, Offsets
<1>4. CASE ReadReturns
  BY <1>4 DEF ReadReturns, Goto, Labels, Handling
<1>5. CASE ReadError
  BY <1>5 DEF ReadError, Goto, Labels
<1>6. CASE DecodeOK \/ DecodeError \/ WriteRow
  BY <1>6 DEF DecodeOK, DecodeError, WriteRow, Goto, broker, Labels, Handling
<1>7. CASE NextRetry
  BY <1>7 DEF NextRetry, broker, Labels, Handling
<1>8. CASE WriteFailed
  BY <1>8 DEF WriteFailed, WriteFailedPanics, WriteFailedRefuses,
      Goto, Labels, Handling
<1>9. CASE Commit
  BY <1>9 DEF Commit, Labels, Handling
<1>10. CASE CheckContext \/ ReadCancelled \/ CloseReturns
  BY <1>10 DEF CheckContext, ReadCancelled, CloseReturns, Goto, broker, Labels
<1>11. CASE CloseBatcher
  BY <1>11 DEF CloseBatcher, broker, Labels
<1>12. CASE Exit \/ Crash
  BY <1>12 DEF Exit, Crash, Die, Goto, broker, Labels
<1>13. CASE UNCHANGED vars
  BY <1>13 DEF vars, broker, process
<1>14. QED
  BY <1>1, <1>2, <1>3, <1>4, <1>5, <1>6, <1>7, <1>8, <1>9, <1>10, <1>11,
     <1>12, <1>13 DEF Next, Main

LEMMA FlagTypeStep ==
  cached \in BOOLEAN /\ cancelled \in BOOLEAN /\ [Next]_vars
    => cached' \in BOOLEAN /\ cancelled' \in BOOLEAN
<1> SUFFICES ASSUME cached \in BOOLEAN, cancelled \in BOOLEAN, [Next]_vars
             PROVE  cached' \in BOOLEAN /\ cancelled' \in BOOLEAN
  OBVIOUS
<1>1. CASE Start
  BY <1>1, Zenon DEF Start
<1>2. CASE DecodeOK
  BY <1>2, Zenon DEF DecodeOK
<1>3. CASE Signal
  BY <1>3, Zenon DEF Signal
<1>4. ASSUME UNCHANGED <<cached, cancelled>>
      PROVE  cached' \in BOOLEAN /\ cancelled' \in BOOLEAN
  BY <1>4, Zenon
<1>5. CASE Produce \/ Rejoin \/ LoopFlush \/ Upload
  BY <1>4, <1>5
  DEF Produce, Rejoin, LoopFlush, Upload, UploadOK, UploadFails, process
<1>6. CASE ReadFetch \/ NextRetry \/ Commit \/ CloseBatcher
  BY <1>4, <1>6 DEF ReadFetch, NextRetry, Commit, CloseBatcher
<1>7. CASE \/ CheckContext \/ ReadCancelled \/ ReadReturns \/ ReadError
           \/ DecodeError \/ WriteFailedRefuses \/ WriteRow \/ CloseReturns
  BY <1>4, <1>7 DEF CheckContext, ReadCancelled, ReadReturns, ReadError,
     DecodeError, WriteFailedRefuses, WriteRow, CloseReturns, Goto
<1>8. CASE Exit \/ Crash
  BY <1>4, <1>8 DEF Exit, Crash, Die, Goto
<1>9. CASE UNCHANGED vars
  BY <1>4, <1>9 DEF vars, process
<1>10. CASE WriteFailedPanics
  BY <1>10, Zenon DEF WriteFailedPanics
<1>11. QED
  BY <1>1, <1>2, <1>3, <1>5, <1>6, <1>7, <1>8, <1>9, <1>10
  DEF Next, Main, WriteFailed

LEMMA TypeStep == TypeOK /\ Shape /\ [Next]_vars => (TypeOK /\ Shape)'
  BY LogTypeStep, ProcessTypeStep, FlagTypeStep, SinkStep, SinkTypeStep
  DEF TypeOK, LogType

(***************************************************************************)
(* Every variable keeps its type, and main has a message of the log while  *)
(* it handles one.                                                         *)
(***************************************************************************)
THEOREM TypeCorrect == Spec => [](TypeOK /\ Shape)
  BY TypeInit, TypeStep, PTL DEF Spec

-----------------------------------------------------------------------------
(***************************************************************************)
(* Redelivery.  Base is where the next fetch will be, by this reader or,   *)
(* when the process is down, by the next one.  A message may be delivered  *)
(* once more for being ahead of Base, and once for being fetched already;  *)
(* after a rebalance it may be both.                                       *)
(***************************************************************************)
Base == IF pc = "down" THEN Resume ELSE position
Ahead(o) == IF o >= Base THEN 1 ELSE 0
Fetched(o) == IF pc = "fetched" /\ msg = o THEN 1 ELSE 0

\* main has a message whose offset it may still commit.
Busy == pc \in Handling \cup {"fetched"}

(***************************************************************************)
(* The inductive invariant.  The first conjunct is the bound; the others   *)
(* say that it survives what moves Base back: a restart, which goes to the *)
(* committed offset, and a commit of the message in hand, which moves that *)
(* offset to just past the message.                                        *)
(***************************************************************************)
Deliverable ==
  \A o \in Offsets :
    /\ delivered[o] + Fetched(o) + Ahead(o) <= 1 + rejoins
    /\ committed <= o => delivered[o] <= rejoins
    /\ Busy /\ msg < o => delivered[o] <= rejoins

\* What the steps below have in common.
LogFacts ==
  /\ rejoins \in Nat /\ position \in Nat /\ logEnd \in Nat
  /\ committed \in Int /\ Resume \in Nat
  /\ (committed >= 0 => Resume = committed)
  /\ delivered \in [Offsets -> Nat]
  /\ Offsets \subseteq Nat
  /\ Busy => msg \in Offsets

LEMMA LogFactsHold == TypeOK /\ Shape => LogFacts
<1> SUFFICES ASSUME TypeOK, Shape PROVE LogFacts
  OBVIOUS
<1>1. /\ rejoins \in Nat /\ position \in Nat /\ logEnd \in Nat
      /\ committed \in Int /\ committed >= -1
      /\ delivered \in [Offsets -> Nat]
      /\ Busy => msg \in Offsets
  BY ConsumerAssumption, SMT DEF TypeOK, Shape, Busy
<1>2. Resume \in Nat /\ (committed >= 0 => Resume = committed)
  BY <1>1 DEF Resume, None
<1>3. Offsets \subseteq Nat
  BY ConsumerAssumption DEF Offsets
<1>4. QED
  BY <1>1, <1>2, <1>3 DEF LogFacts

LEMMA DeliverableStep ==
  TypeOK /\ Shape /\ Deliverable /\ [Next]_vars => Deliverable'
<1> SUFFICES ASSUME TypeOK, Shape, Deliverable, [Next]_vars
             PROVE  Deliverable'
  OBVIOUS
<1>0. LogFacts
  BY LogFactsHold
<1> USE <1>0 DEF LogFacts, Deliverable, Ahead, Fetched, Base, Busy, Handling
<1>1. CASE Start
  BY <1>1 DEF Start, broker
<1>2. CASE Rejoin
  <2>1. /\ UNCHANGED <<committed, delivered, pc, msg>>
        /\ rejoins' = rejoins + 1
    BY <1>2 DEF Rejoin, broker, process
  <2>2. \A o \in Offsets : delivered[o] + Fetched(o) <= 1 + rejoins
    OBVIOUS
  <2>3. QED
    BY <2>1, <2>2
<1>3. CASE ReadFetch
  BY <1>3 DEF ReadFetch, broker, history
<1>4. CASE ReadReturns
  <2>1. /\ committed' = msg + 1 /\ UNCHANGED <<position, msg, rejoins>>
        /\ delivered' = [delivered EXCEPT ![msg] = delivered[msg] + 1]
        /\ pc = "fetched" /\ pc' = "decode" /\ msg \in Offsets
    BY <1>4 DEF ReadReturns, CommitOffset, Goto
  <2>2. QED
    BY <2>1
<1>5. ASSUME ReadError \/ Commit
      PROVE  Deliverable'
  <2>1. /\ committed' = committed \/ committed' = msg + 1
        /\ UNCHANGED <<position, msg, rejoins, delivered>>
        /\ Busy /\ msg \in Offsets /\ pc' \in {"loop", "close"}
    BY <1>5 DEF ReadError, Commit, CommitError, CommitOffset, Goto, history
  <2>2. pc # "down"
    BY <2>1
  <2>3. QED
    BY <2>1, <2>2
<1>6. ASSUME UNCHANGED <<committed, position, rejoins, delivered, msg, pc>>,
             Resume' \in Nat, Resume' >= Resume
      PROVE  Deliverable'
  <2>1. \A o \in Offsets : Ahead(o)' <= Ahead(o)
    <3>1. Base' >= Base /\ Base \in Nat
      BY <1>6
    <3>2. Base' \in Nat
      BY <1>6
    <3> HIDE DEF Base
    <3>3. QED
      BY <3>1, <3>2
  <2>2. \A o \in Offsets : Ahead(o)' \in Nat /\ Ahead(o) \in Nat
    OBVIOUS
  <2> HIDE DEF Ahead
  <2>3. QED
    BY <1>6, <2>1, <2>2
<1>7. CASE Produce
  <2>1. UNCHANGED <<committed, position, rejoins, delivered, msg, pc>>
        /\ logEnd' = logEnd + 1
    BY <1>7 DEF Produce, process, history
  <2>2. Resume' \in Nat /\ Resume' >= Resume
    BY <2>1 DEF Resume
  <2>3. QED
    BY <1>6, <2>1, <2>2
<1>8. ASSUME UNCHANGED <<committed, position, rejoins, delivered, msg>>,
             pc # "down", pc' # "down", pc' # "fetched",
             pc' \in Handling => pc \in Handling
      PROVE  Deliverable'
  BY <1>8
<1>9. CASE DecodeOK \/ DecodeError \/ NextRetry \/ WriteFailed \/ WriteRow
  BY <1>8, <1>9 DEF DecodeOK, DecodeError, NextRetry,
      WriteFailed, WriteFailedPanics, WriteFailedRefuses, WriteRow,
                    Goto, broker, history
<1>10. CASE CheckContext \/ ReadCancelled \/ CloseBatcher \/ CloseReturns
  BY <1>8, <1>10 DEF CheckContext, ReadCancelled, CloseBatcher, CloseReturns,
                     Goto, broker, history
<1>11. CASE Exit \/ Crash
  <2>1. /\ UNCHANGED <<logEnd, committed, position, rejoins, delivered, msg>>
        /\ pc' = "down"
    BY <1>11 DEF Exit, Crash, Die, Goto, broker, history
  <2>2. Resume' = Resume
    BY <2>1 DEF Resume
  <2>3. \A o \in Offsets : o >= Resume => committed <= o
    OBVIOUS
  <2>4. QED
    BY <2>1, <2>2, <2>3
<1>12. ASSUME UNCHANGED <<logEnd, committed, position, rejoins, delivered,
                          msg, pc>>
       PROVE  Deliverable'
  BY <1>12 DEF Resume
<1>13. CASE LoopFlush \/ Upload \/ Signal
  BY <1>12, <1>13 DEF LoopFlush, Upload, UploadOK, UploadFails, Signal,
                      broker, process, history
<1>14. CASE UNCHANGED vars
  BY <1>12, <1>14 DEF vars, broker, process, history
<1>15. QED
  BY <1>1, <1>2, <1>3, <1>4, <1>5, <1>7, <1>9, <1>10, <1>11, <1>13, <1>14
  DEF Next, Main

\* A step of the sink adds at most the row that main is writing.
LEMMA AcceptedStep ==
  [Next]_vars => \/ Sink!Accepted' \subseteq Sink!Accepted
                 \/ /\ WriteRow
                    /\ Sink!Accepted' \subseteq
                         Sink!Accepted \cup {<<msg, delivered[msg]>>}
<1> SUFFICES ASSUME [Next]_vars
             PROVE  \/ Sink!Accepted' \subseteq Sink!Accepted
                    \/ /\ WriteRow
                       /\ Sink!Accepted' \subseteq
                            Sink!Accepted \cup {<<msg, delivered[msg]>>}
  OBVIOUS
<1>1. CASE WriteRow
  BY <1>1 DEF WriteRow, Sink!Accept, Sink!Accepted
<1>2. CASE Sink!Take
  BY <1>2 DEF Sink!Take, Sink!Accepted
<1>3. ASSUME NEW b \in writing, Sink!Store(b) \/ Sink!Drop(b)
      PROVE  Sink!Accepted' \subseteq Sink!Accepted
  BY <1>3 DEF Sink!Store, Sink!Drop, Sink!Accepted
<1>4. CASE Sink!Abandon
  BY <1>4 DEF Sink!Abandon, Sink!Accepted
<1>5. ASSUME UNCHANGED sinkVars
      PROVE  Sink!Accepted' \subseteq Sink!Accepted
  BY <1>5 DEF sinkVars, Sink!Accepted
<1>6. CASE LoopFlush \/ Upload \/ CloseBatcher \/ Crash \/ Exit
  BY <1>2, <1>3, <1>4, <1>5, <1>6
  DEF LoopFlush, Upload, UploadOK, UploadFails, CloseBatcher, Crash, Exit, Die
<1>7. CASE Produce \/ Start \/ Signal \/ Rejoin
  BY <1>5, <1>7 DEF Produce, Start, Signal, Rejoin
<1>8. CASE \/ CheckContext \/ ReadCancelled \/ ReadFetch \/ ReadReturns
           \/ ReadError \/ DecodeOK \/ DecodeError \/ NextRetry
           \/ WriteFailed \/ Commit \/ CloseReturns
  BY <1>5, <1>8 DEF CheckContext, ReadCancelled, ReadFetch, ReadReturns,
     ReadError, DecodeOK, DecodeError, NextRetry,
     WriteFailed, WriteFailedPanics, WriteFailedRefuses, Commit,
     CloseReturns
<1>9. CASE UNCHANGED vars
  BY <1>5, <1>9 DEF vars
<1>10. QED
  BY <1>1, <1>6, <1>7, <1>8, <1>9 DEF Next, Main

-----------------------------------------------------------------------------
(***************************************************************************)
(* What main knows of the message in its hands and of the retry map: each  *)
(* failure that is counted was a delivery.                                 *)
(***************************************************************************)
Counting ==
  /\ pc \in Handling => delivered[msg] > 0
  /\ \A o \in Offsets : retry[o] <= delivered[o]
  /\ pc \in {"decode", "retry"} => retry[msg] < delivered[msg]
  /\ pc \in {"dlq", "dlqCommit"} => maxRetries < delivered[msg]

\* The copies of a message in the sink are numbered by its deliveries.
Numbered == \A r \in Sink!Accepted : r[2] <= delivered[r[1]]

LEMMA CountingStep ==
  TypeOK /\ Shape /\ Deliverable /\ Counting /\ [Next]_vars => Counting'
<1> SUFFICES ASSUME TypeOK, Shape, Deliverable, Counting, [Next]_vars
             PROVE  Counting'
  OBVIOUS
<1>0. /\ rejoins \in Nat /\ maxRetries \in Nat
      /\ delivered \in [Offsets -> Nat] /\ retry \in [Offsets -> Nat]
      /\ pc \in Handling \cup {"fetched"} => msg \in Offsets
      /\ \A o \in Offsets : delivered[o] <= 1 + rejoins
  BY ConsumerAssumption, LogFactsHold, SMT
  DEF TypeOK, LogFacts, Busy, Deliverable, Ahead, Fetched
<1> USE <1>0 DEF Counting, Handling
<1>1. CASE Start
  BY <1>1 DEF Start, broker
<1>2. CASE Rejoin
  BY <1>2 DEF Rejoin, broker, process
<1>3. CASE ReadFetch
  BY <1>3 DEF ReadFetch, broker, history
<1>4. CASE ReadReturns
  BY <1>4 DEF ReadReturns, Goto
<1>5. CASE ReadError
  BY <1>5 DEF ReadError, Goto, history
<1>6. CASE NextRetry
  BY <1>6 DEF NextRetry, ShouldDLQ, broker, history
<1>7. CASE Commit
  BY <1>7 DEF Commit, history
<1>8. CASE WriteFailed
  BY <1>8
  DEF WriteFailed, WriteFailedPanics, WriteFailedRefuses, Goto, broker, history
<1>9. CASE DecodeOK \/ DecodeError \/ WriteRow
  BY <1>9 DEF DecodeOK, DecodeError, WriteRow, Goto, broker, history
<1>10. CASE CheckContext \/ ReadCancelled \/ CloseBatcher \/ CloseReturns
  BY <1>10 DEF CheckContext, ReadCancelled, CloseBatcher, CloseReturns, Goto,
               broker, history
<1>11. CASE Exit \/ Crash
  BY <1>11 DEF Exit, Crash, Die, Goto, broker, history
<1>12. CASE Produce \/ LoopFlush \/ Upload \/ Signal
  BY <1>12 DEF Produce, LoopFlush, Upload, UploadOK, UploadFails, Signal,
               broker, process, history
<1>13. CASE UNCHANGED vars
  BY <1>13 DEF vars, broker, process, history
<1>14. QED
  BY <1>1, <1>2, <1>3, <1>4, <1>5, <1>6, <1>7, <1>8, <1>9, <1>10, <1>11,
     <1>12, <1>13 DEF Next, Main

\* Deliveries are only ever counted up.
LEMMA DeliveredStep ==
  TypeOK /\ Shape /\ [Next]_vars
    => \A o \in Offsets : delivered'[o] >= delivered[o]
<1> SUFFICES ASSUME TypeOK, Shape, [Next]_vars
             PROVE  \A o \in Offsets : delivered'[o] >= delivered[o]
  OBVIOUS
<1>0. delivered \in [Offsets -> Nat]
  BY DEF TypeOK
<1>1. ASSUME UNCHANGED delivered
      PROVE  \A o \in Offsets : delivered'[o] >= delivered[o]
  BY <1>0, <1>1
<1>2. CASE ReadReturns
  BY <1>0, <1>2 DEF ReadReturns
<1>3. CASE Produce \/ Start \/ LoopFlush \/ Upload \/ Crash \/ Signal \/ Rejoin
  BY <1>1, <1>3 DEF Produce, Start, LoopFlush, Upload, UploadOK, UploadFails,
                    Crash, Die, Signal, Rejoin, history
<1>4. CASE \/ CheckContext \/ ReadCancelled \/ ReadFetch \/ ReadError
           \/ DecodeOK \/ DecodeError \/ NextRetry \/ WriteFailed \/ WriteRow
           \/ Commit \/ CloseBatcher \/ CloseReturns \/ Exit
  BY <1>1, <1>4 DEF CheckContext, ReadCancelled, ReadFetch, ReadError,
     DecodeOK, DecodeError, NextRetry,
     WriteFailed, WriteFailedPanics, WriteFailedRefuses, WriteRow, Commit,
     CloseBatcher, CloseReturns, Exit, Die, history
<1>5. CASE UNCHANGED vars
  BY <1>1, <1>5 DEF vars, history
<1>6. QED
  BY <1>2, <1>3, <1>4, <1>5 DEF Next, Main

Inv == TypeOK /\ Shape /\ Deliverable /\ Counting /\ Numbered

LEMMA InvInit == Init => Inv
<1> SUFFICES ASSUME Init PROVE Inv
  OBVIOUS
<1>1. TypeOK /\ Shape
  BY TypeInit
<1>2. Deliverable
  BY ConsumerAssumption
  DEF Init, Deliverable, Ahead, Fetched, Base, Busy, Handling, Resume, None,
      Offsets
<1>3. Counting
  BY DEF Init, Counting, Handling
<1>4. Numbered
  BY DEF Init, Numbered, Sink!Init, Sink!Accepted
<1>5. QED
  BY <1>1, <1>2, <1>3, <1>4 DEF Inv

LEMMA InvStep == Inv /\ [Next]_vars => Inv'
<1> SUFFICES ASSUME Inv, [Next]_vars PROVE Inv'
  OBVIOUS
<1>1. (TypeOK /\ Shape)' /\ Deliverable' /\ Counting'
  BY TypeStep, DeliverableStep, CountingStep DEF Inv
<1>2. Numbered'
  <2> SUFFICES ASSUME NEW r \in Sink!Accepted'
               PROVE  r[2] <= delivered'[r[1]]
    BY DEF Numbered
  <2>1. Sink!Accepted' \subseteq Rows
    BY <1>1 DEF TypeOK, Sink!TypeOK, Sink!Accepted
  <2>2. r[1] \in Offsets /\ r[2] \in Nat
    BY <2>1 DEF Rows
  <2>3. delivered \in [Offsets -> Nat] /\ delivered' \in [Offsets -> Nat]
    BY <1>1 DEF Inv, TypeOK
  <2>4. delivered'[r[1]] >= delivered[r[1]]
    BY <2>2, DeliveredStep DEF Inv
  <2>5. r[2] <= delivered[r[1]]
    BY AcceptedStep, <2>2, <2>3 DEF Inv, Numbered
  <2>6. QED
    BY <2>2, <2>3, <2>4, <2>5
<1>3. QED
  BY <1>1, <1>2 DEF Inv

(***************************************************************************)
(* A message is in the sink at most once more than the group rebalanced,   *)
(* whatever else fails: the copies are numbered 1, 2, ... by deliveries,   *)
(* which Deliverable bounds.                                               *)
(***************************************************************************)
THEOREM SinkDuplicates == Spec => []DuplicatesBounded
<1>1. Inv => DuplicatesBounded
  <2> SUFFICES ASSUME Inv, NEW o \in Offsets
               PROVE  Cardinality(Copies(o)) <= 1 + rejoins
    BY DEF DuplicatesBounded
  <2> DEFINE Numbers == 1..(1 + rejoins)
  <2>1. /\ rejoins \in Nat /\ delivered[o] \in Nat
        /\ delivered[o] <= 1 + rejoins
    BY LogFactsHold DEF Inv, LogFacts, Deliverable, Ahead, Fetched
  <2>2. Copies(o) \in SUBSET ({o} \X Numbers)
    <3> SUFFICES ASSUME NEW r \in Sink!Accepted, r[1] = o
                 PROVE  r \in {o} \X Numbers
      BY DEF Copies
    <3>1. Sink!Accepted \subseteq Rows
      BY DEF Inv, TypeOK, Sink!TypeOK, Sink!Accepted
    <3>2. r \in Rows
      BY <3>1
    <3>3. r = <<o, r[2]>> /\ r[2] \in Nat /\ r[2] >= 1
      BY <3>2 DEF Rows
    <3>4. r[2] <= 1 + rejoins
      BY <2>1, <3>3 DEF Inv, Numbered
    <3>5. QED
      BY <2>1, <3>3, <3>4
  <2>3. IsFiniteSet(Numbers) /\ Cardinality(Numbers) = 1 + rejoins
    <3>1. 1 \in Int /\ 1 + rejoins \in Int /\ ~(1 > 1 + rejoins)
      BY <2>1
    <3>2. QED
      BY <2>1, <3>1, FS_Interval
  <2>4. IsFiniteSet({o}) /\ Cardinality({o}) = 1
    BY FS_Singleton
  <2> HIDE DEF Numbers
  <2>5. /\ IsFiniteSet({o} \X Numbers)
        /\ Cardinality({o} \X Numbers) = Cardinality({o}) * Cardinality(Numbers)
    BY <2>3, <2>4, FS_Product
  <2>6. Cardinality(Copies(o)) <= Cardinality({o} \X Numbers)
    BY <2>2, <2>5, FS_Subset
  <2>7. QED
    BY <2>1, <2>3, <2>4, <2>5, <2>6
<1>2. QED
  BY <1>1, InvInit, InvStep, PTL DEF Spec

(***************************************************************************)
(* main does not come to its DLQ branch before the group has rebalanced    *)
(* MAX_RETRIES times: each count of a message was a delivery of it.        *)
(***************************************************************************)
THEOREM DLQAfterRejoins == Spec => []DLQNeedsRejoins
<1>1. Inv => DLQNeedsRejoins
  <2> SUFFICES ASSUME Inv, pc \in {"dlq", "dlqCommit"}
               PROVE  rejoins >= maxRetries
    BY DEF DLQNeedsRejoins
  <2>1. msg \in Offsets /\ maxRetries < delivered[msg]
    BY DEF Inv, Shape, Counting, Handling
  <2>2. rejoins \in Nat /\ maxRetries \in Nat /\ delivered[msg] \in Nat
    BY <2>1, ConsumerAssumption DEF Inv, TypeOK
  <2>3. delivered[msg] <= 1 + rejoins
    BY <2>1, LogFactsHold DEF Inv, LogFacts, Deliverable, Ahead, Fetched
  <2> QED BY <2>1, <2>2, <2>3
<1>2. QED
  BY <1>1, InvInit, InvStep, PTL DEF Spec

-----------------------------------------------------------------------------
\* Before a first rebalance the reader is never behind the commit, and main
\* handles a message only when the commit has just passed it.
Eager ==
  rejoins = 0 =>
    /\ committed <= position
    /\ pc = "fetched" => position = msg + 1 /\ committed <= msg
    /\ pc \in Handling => committed = msg + 1

LEMMA EagerStep ==
  TypeOK /\ Shape /\ Eager /\ [Next]_vars
    => Eager' /\ (rejoins = 0 => committed' >= committed)
<1> SUFFICES ASSUME TypeOK, Shape, Eager, [Next]_vars
             PROVE  Eager' /\ (rejoins = 0 => committed' >= committed)
  OBVIOUS
<1>0. /\ committed \in Int /\ position \in Nat /\ logEnd \in Nat
      /\ rejoins \in Nat /\ committed <= logEnd
      /\ pc \in Handling \cup {"fetched"} => msg \in Nat
  BY ConsumerAssumption, SMT DEF TypeOK, Shape, Offsets
<1> USE <1>0 DEF Eager, Handling, history
<1>1. CASE Start
  BY <1>1 DEF Start, broker, Resume, None
<1>2. CASE ReadFetch
  BY <1>2 DEF ReadFetch, broker
<1>3. CASE ReadReturns
  BY <1>3 DEF ReadReturns, CommitOffset, Goto
<1>4. CASE ReadError
  BY <1>4 DEF ReadError, CommitError, CommitOffset, Goto
<1>5. CASE Commit
  BY <1>5 DEF Commit, CommitError, CommitOffset
<1>6. CASE DecodeOK \/ DecodeError \/ NextRetry \/ WriteFailed \/ WriteRow
  BY <1>6 DEF DecodeOK, DecodeError, NextRetry,
      WriteFailed, WriteFailedPanics, WriteFailedRefuses, WriteRow, Goto,
              broker
<1>7. CASE CheckContext \/ ReadCancelled \/ CloseBatcher \/ CloseReturns
  BY <1>7 DEF CheckContext, ReadCancelled, CloseBatcher, CloseReturns, Goto,
              broker
<1>8. CASE Exit \/ Crash
  BY <1>8 DEF Exit, Crash, Die, Goto, broker
<1>9. CASE Produce \/ LoopFlush \/ Upload \/ Signal
  BY <1>9 DEF Produce, LoopFlush, Upload, UploadOK, UploadFails, Signal,
              broker, process
<1>10. CASE Rejoin
  BY <1>10 DEF Rejoin, broker
<1>11. CASE UNCHANGED vars
  BY <1>11 DEF vars, broker, process
<1>12. QED
  BY <1>1, <1>2, <1>3, <1>4, <1>5, <1>6, <1>7, <1>8, <1>9, <1>10, <1>11
  DEF Next, Main

(***************************************************************************)
(* The committed offset never goes back before a first rebalance.          *)
(***************************************************************************)
THEOREM CommitsMonotone == Spec => CommitMonotone
<1>1. Init => Eager
  BY DEF Init, Eager, Handling, None
<1>2. TypeOK /\ Shape /\ Eager /\ [Next]_vars
        => [rejoins = 0 => committed' >= committed]_committed
  BY EagerStep
<1>3. QED
  BY <1>1, <1>2, EagerStep, TypeInit, TypeStep, PTL DEF Spec, CommitMonotone

-----------------------------------------------------------------------------
\* No step of the sink forgets a row it has accepted.
LEMMA AcceptedGrows == [Next]_vars => Sink!Accepted \subseteq Sink!Accepted'
<1> SUFFICES ASSUME [Next]_vars, NEW r, r \in Sink!Accepted
             PROVE  r \in Sink!Accepted'
  OBVIOUS
<1>1. Sink!Next \/ UNCHANGED sinkVars
  BY SinkStep
<1>2. ASSUME NEW b \in writing, Sink!Store(b) \/ Sink!Drop(b)
      PROVE  r \in Sink!Accepted'
  <2>1. writing' = writing \ {b}
    BY <1>2 DEF Sink!Store, Sink!Drop
  <2>2. UNION writing \subseteq b \cup UNION writing'
    BY <2>1
  <2>3. QED
    BY <1>2, <2>2 DEF Sink!Store, Sink!Drop, Sink!Accepted
<1>3. CASE Sink!Take
  <2>1. UNION writing' = buffered \cup UNION writing
    BY <1>3 DEF Sink!Take
  <2>2. QED
    BY <1>3, <2>1 DEF Sink!Take, Sink!Accepted
<1>4. ASSUME NEW row \in Rows, Sink!Accept(row)
      PROVE  r \in Sink!Accepted'
  BY <1>4 DEF Sink!Accept, Sink!Accepted
<1>5. CASE Sink!Abandon
  BY <1>5 DEF Sink!Abandon, Sink!Accepted
<1>6. CASE UNCHANGED sinkVars
  BY <1>6 DEF sinkVars, Sink!Accepted
<1>7. QED
  BY <1>1, <1>2, <1>3, <1>4, <1>5, <1>6 DEF Sink!Next

LEMMA InSinkGrows ==
  ASSUME [Next]_vars, NEW o, InSink(o)
  PROVE  InSink(o)'
  BY AcceptedGrows DEF InSink

\* After WriteRow the message is in the sink.
LEMMA WriteRowStores ==
  ASSUME WriteRow
  PROVE  InSink(msg)'
<1>1. <<msg, delivered[msg]>> \in Sink!Accepted' /\ msg' = msg
  BY DEF WriteRow, Goto, Sink!Accept, Sink!Accepted
<1>2. QED
  BY <1>1 DEF InSink

(***************************************************************************)
(* What a first life remembers of the messages it was given.  The entry of *)
(* the retry map is cleared at a commit: the message is then in the sink,  *)
(* or its deliveries were more than MAX_RETRIES.                           *)
(***************************************************************************)
Remembered ==
  /\ lives = 0 => pc = "down" /\ \A o \in Offsets : delivered[o] = 0
  /\ pc = "commit" => InSink(msg)
  /\ DroppedLeavesEntry

LEMMA RememberedStep == Inv /\ Remembered /\ [Next]_vars => Remembered'
<1> SUFFICES ASSUME Inv, Remembered, [Next]_vars PROVE Remembered'
  OBVIOUS
<1>0. /\ lives \in Nat /\ maxRetries \in Nat
      /\ delivered \in [Offsets -> Nat] /\ retry \in [Offsets -> Nat]
      /\ pc \in Handling \cup {"fetched"} => msg \in Offsets
      /\ pc \in {"dlq", "dlqCommit"} => maxRetries < delivered[msg]
  BY ConsumerAssumption DEF Inv, TypeOK, Shape, Counting
<1> USE <1>0
    DEF Remembered, DroppedLeavesEntry, InHand, Handling, Alive, broker
<1>1. CASE Start
  BY <1>1 DEF Start
<1>2. CASE ReadFetch
  BY <1>2, InSinkGrows DEF ReadFetch, history
<1>3. CASE ReadReturns
  BY <1>3, InSinkGrows DEF ReadReturns, Goto
<1>4. CASE NextRetry
  BY <1>4, InSinkGrows DEF NextRetry, history
<1>5. CASE WriteRow
  BY <1>5, InSinkGrows, WriteRowStores DEF WriteRow, Goto, history
<1>6. CASE Commit
  BY <1>6, InSinkGrows DEF Commit, history
<1>7. CASE DecodeOK \/ DecodeError \/ WriteFailed
  BY <1>7, InSinkGrows DEF DecodeOK, DecodeError,
      WriteFailed, WriteFailedPanics, WriteFailedRefuses, Goto, history
<1>8. CASE \/ CheckContext \/ ReadCancelled \/ ReadError \/ CloseBatcher
           \/ CloseReturns
  BY <1>8, InSinkGrows
  DEF CheckContext, ReadCancelled, ReadError, CloseBatcher, CloseReturns,
      Goto, history
<1>9. CASE Exit \/ Crash
  BY <1>9 DEF Exit, Crash, Die, Goto, history
<1>10. CASE Produce \/ LoopFlush \/ Upload \/ Signal \/ Rejoin
  BY <1>10, InSinkGrows
  DEF Produce, LoopFlush, Upload, UploadOK, UploadFails, Signal, Rejoin,
      process, history
<1>11. CASE UNCHANGED vars
  BY <1>11, InSinkGrows DEF vars, process, history
<1>12. QED
  BY <1>1, <1>2, <1>3, <1>4, <1>5, <1>6, <1>7, <1>8, <1>9, <1>10, <1>11
  DEF Next, Main

(***************************************************************************)
(* A message that Read returned and that is neither in main's hands nor in *)
(* the sink was dropped by the error branch, and an entry of the retry map *)
(* is what is left of it, whichever errors, rebalances and signals come.   *)
(***************************************************************************)
THEOREM DroppedRemembered == Spec => []DroppedLeavesEntry
<1>1. Init => Remembered
  BY DEF Init, Remembered, DroppedLeavesEntry, Alive
<1>2. Remembered => DroppedLeavesEntry
  BY DEF Remembered
<1>3. QED
  BY <1>1, <1>2, RememberedStep, InvInit, InvStep, PTL DEF Spec

-----------------------------------------------------------------------------
\* How many messages may have been dropped when MAX_RETRIES is 0
Allowed == IF InLoop THEN lives - 1 ELSE lives

(***************************************************************************)
(* Why nothing else is dropped: a message leaves main's hands at a commit, *)
(* when it is in the sink or was too large for the DLQ, or with the life.  *)
(***************************************************************************)
Settled ==
  /\ pc = "commit" => InSink(msg)
  /\ pc = "dlqCommit" => msg \in Large

DropsInv ==
  /\ Settled
  /\ maxRetries = 0 => Cardinality(Dropped) <= Allowed

LEMMA SettledStep ==
  ASSUME Inv, Settled, [Next]_vars
  PROVE  Settled'
<1> USE DEF Settled
<1>1. CASE WriteRow
  BY <1>1, WriteRowStores DEF WriteRow, Goto
<1>2. CASE WriteFailed
  BY <1>2 DEF WriteFailed, WriteFailedPanics, WriteFailedRefuses, Goto
<1>3. CASE ~WriteRow /\ ~WriteFailed
  <2> SUFFICES ASSUME pc' \in {"commit", "dlqCommit"}
               PROVE  pc' = pc /\ msg' = msg
    BY InSinkGrows
  <2> QED
    BY <1>3
    DEF Next, Main, Produce, Start, CheckContext, ReadCancelled, ReadFetch,
        ReadReturns, ReadError, DecodeOK, DecodeError, NextRetry, Commit,
        LoopFlush, Upload, UploadOK, UploadFails, CloseBatcher, CloseReturns,
        Exit, Crash, Die, Signal, Rejoin, Goto, vars, process
<1> QED
  BY <1>1, <1>2, <1>3

\* A step drops no message and leaves as many allowed, or it drops the one in
\* main's hands and ends the loop.
DropsNone == Dropped' \subseteq Dropped /\ Allowed' >= Allowed
DropsOne == Dropped' \subseteq Dropped \cup {msg} /\ Allowed' = Allowed + 1

LEMMA DropsStep ==
  ASSUME Inv, Settled, maxRetries = 0, [Next]_vars
  PROVE  DropsNone \/ DropsOne
<1>0. /\ lives \in Nat
      /\ delivered \in [Offsets -> Nat] /\ retry \in [Offsets -> Nat]
      /\ pc \in Handling \cup {"fetched"} => msg \in Offsets
      /\ Labels = Handling \cup {"down", "loop", "read", "fetched",
                                 "close", "flush", "exit"}
  BY ConsumerAssumption DEF Inv, TypeOK, Shape, Labels
<1> USE <1>0, InSinkGrows
    DEF DropsNone, DropsOne, Dropped, Allowed, InLoop, InHand, Handling, history
<1>1. CASE Start
  BY <1>1 DEF Start
<1>2. CASE ReadFetch
  BY <1>2 DEF ReadFetch
<1>3. CASE ReadReturns
  BY <1>3 DEF ReadReturns, Goto
<1>4. CASE NextRetry
  BY <1>4 DEF NextRetry, ShouldDLQ
<1>5. CASE WriteRow
  BY <1>5 DEF WriteRow, Goto
<1>6. CASE Commit
  BY <1>6 DEF Commit, Settled
<1>7. CASE DecodeOK \/ DecodeError \/ WriteFailedRefuses
  BY <1>7 DEF DecodeOK, DecodeError, WriteFailedRefuses, Goto
<1>8. CASE WriteFailedPanics
  BY <1>8 DEF WriteFailedPanics
<1>9. CASE \/ CheckContext \/ ReadCancelled \/ ReadError \/ CloseBatcher
           \/ CloseReturns
  BY <1>9
  DEF CheckContext, ReadCancelled, ReadError, CloseBatcher, CloseReturns, Goto
<1>10. CASE Exit
  BY <1>10 DEF Exit, Die, Goto
<1>11. CASE Crash
  BY <1>11 DEF Crash, Die, Goto, Alive
<1>12. CASE \/ Produce \/ LoopFlush \/ Upload \/ Signal \/ Rejoin
            \/ UNCHANGED vars
  <2>1. UNCHANGED <<pc, msg, delivered, lives>>
    BY <1>12
    DEF Produce, LoopFlush, Upload, UploadOK, UploadFails, Signal, Rejoin,
        process, vars
  <2> QED
    BY <2>1
<1> QED
  BY <1>1, <1>2, <1>3, <1>4, <1>5, <1>6, <1>7, <1>8, <1>9, <1>10, <1>11,
     <1>12 DEF Next, Main, WriteFailed

LEMMA DroppedIsFinite ==
  IsFiniteSet(Dropped) /\ Cardinality(Dropped) \in Nat
<1>1. 0 \in Int /\ LogLimit - 1 \in Int
  BY ConsumerAssumption
<1>2. IsFiniteSet(Offsets)
  BY <1>1, FS_Interval DEF Offsets
<1>3. Dropped \subseteq Offsets
  BY DEF Dropped
<1> QED
  BY <1>2, <1>3, FS_Subset, FS_CardinalityType

LEMMA DropsInvStep ==
  ASSUME Inv, DropsInv, [Next]_vars
  PROVE  DropsInv'
<1>1. Settled'
  BY SettledStep DEF DropsInv
<1>2. maxRetries' = maxRetries
  BY DEF Next, Main, Produce, Start, CheckContext, ReadCancelled, ReadFetch,
     ReadReturns, ReadError, DecodeOK, DecodeError, NextRetry, WriteFailed,
     WriteFailedPanics, WriteFailedRefuses, WriteRow, Commit, LoopFlush, Upload,
     UploadOK, UploadFails, CloseBatcher, CloseReturns, Exit, Crash, Die,
     Signal, Rejoin, vars, broker
<1>3. ASSUME maxRetries = 0 PROVE Cardinality(Dropped') <= Allowed'
  <2>1. Cardinality(Dropped) <= Allowed /\ Cardinality(Dropped) \in Nat
    BY <1>3, DroppedIsFinite DEF DropsInv
  <2>2. Allowed \in Int /\ Allowed' \in Int
    <3>1. lives \in Nat /\ lives' \in Nat
      BY InvStep, ConsumerAssumption DEF Inv, TypeOK
    <3> QED
      BY <3>1 DEF Allowed
  <2>3. CASE DropsNone
    <3>1. Cardinality(Dropped') <= Cardinality(Dropped)
      BY <2>3, DroppedIsFinite, FS_Subset DEF DropsNone
    <3>2. Cardinality(Dropped') \in Nat
      BY <2>3, DroppedIsFinite, FS_Subset, FS_CardinalityType DEF DropsNone
    <3> QED
      BY <2>1, <2>2, <2>3, <3>1, <3>2 DEF DropsNone
  <2>4. CASE DropsOne
    <3>1. /\ IsFiniteSet(Dropped \cup {msg})
          /\ Cardinality(Dropped \cup {msg}) <= Cardinality(Dropped) + 1
      <4>1. /\ IsFiniteSet(Dropped \cup {msg})
            /\ \/ Cardinality(Dropped \cup {msg}) = Cardinality(Dropped)
               \/ Cardinality(Dropped \cup {msg}) = Cardinality(Dropped) + 1
        BY DroppedIsFinite, FS_AddElement
      <4> QED
        BY <2>1, <4>1
    <3>2. /\ Cardinality(Dropped') <= Cardinality(Dropped \cup {msg})
          /\ IsFiniteSet(Dropped')
      BY <2>4, <3>1, FS_Subset DEF DropsOne
    <3>3. Cardinality(Dropped') \in Nat /\ Cardinality(Dropped \cup {msg}) \in Nat
      BY <3>1, <3>2, FS_CardinalityType
    <3> QED
      BY <2>1, <2>2, <2>4, <3>1, <3>2, <3>3 DEF DropsOne
  <2> QED
    BY <1>3, <2>3, <2>4, DropsStep DEF DropsInv
<1> QED
  BY <1>1, <1>2, <1>3 DEF DropsInv

(***************************************************************************)
(* With MAX_RETRIES = 0 the only message that a life of the process drops, *)
(* but for those too large for the DLQ, is the one in main's hands when it *)
(* ends: whatever does not decode, and whichever errors, signals, kills    *)
(* and rebalances come.                                                    *)
(***************************************************************************)
THEOREM DropsEnd == Spec => []DropsEndALife
<1>1. Init => DropsInv
  <2> SUFFICES ASSUME Init PROVE DropsInv
    OBVIOUS
  <2>1. Dropped = {} /\ Allowed = 0
    BY DEF Init, Dropped, Allowed, InLoop, Handling
  <2>2. Cardinality(Dropped) = 0
    BY <2>1, FS_EmptySet
  <2> QED
    BY <2>1, <2>2 DEF Init, DropsInv, Settled
<1>2. DropsInv => DropsEndALife
  BY DEF DropsInv, DropsEndALife, Allowed
<1>3. QED
  BY <1>1, <1>2, DropsInvStep, InvInit, InvStep, PTL DEF Spec

-----------------------------------------------------------------------------
\* The row that main is about to write is not in the sink yet.
Fresh ==
  pc \in {"decode", "write"} => <<msg, delivered[msg]>> \notin Sink!Accepted

LEMMA FreshStep == Inv /\ Fresh /\ [Next]_vars => Fresh'
<1> SUFFICES ASSUME Inv, Fresh, [Next]_vars, pc' \in {"decode", "write"}
             PROVE  <<msg', delivered'[msg']>> \notin Sink!Accepted'
  BY DEF Fresh
<1>1. ~WriteRow
  BY DEF WriteRow, Goto
<1>2. Sink!Accepted' \subseteq Sink!Accepted
  BY <1>1, AcceptedStep
<1>3. CASE ReadReturns
  <2>1. msg \in Offsets /\ delivered \in [Offsets -> Nat]
    BY <1>3 DEF ReadReturns, Inv, TypeOK, Shape
  <2>2. msg' = msg /\ delivered'[msg] = delivered[msg] + 1
    BY <1>3, <2>1 DEF ReadReturns, Goto
  <2>3. \A r \in Sink!Accepted : r[2] <= delivered[r[1]]
    BY DEF Inv, Numbered
  <2>4. delivered[msg] \in Nat /\ ~(delivered[msg] + 1 <= delivered[msg])
    BY <2>1
  <2>5. <<msg, delivered[msg] + 1>> \notin Sink!Accepted
    BY <2>3, <2>4
  <2> QED
    BY <1>2, <2>2, <2>5
<1>4. CASE ~ReadReturns
  <2>1. pc \in {"decode", "write"} /\ UNCHANGED <<msg, delivered>>
    BY <1>1, <1>4
    DEF Next, Main, Produce, Start, CheckContext, ReadCancelled, ReadFetch,
        ReadError, DecodeOK, DecodeError, NextRetry,
        WriteFailed, WriteFailedPanics, WriteFailedRefuses, Commit,
        LoopFlush, Upload, UploadOK, UploadFails, CloseBatcher, CloseReturns,
        Exit, Crash, Die, Signal, Rejoin, Goto, vars, process, history
  <2> QED
    BY <1>2, <2>1 DEF Fresh
<1> QED
  BY <1>3, <1>4

(***************************************************************************)
(* batcher.Write takes every row that main has for it, in every reachable  *)
(* state: the guard of the sink's Accept never holds main back.            *)
(***************************************************************************)
THEOREM WriteIsAccepted ==
  Spec => [](pc = "write" => <<msg, delivered[msg]>> \in Rows \ Sink!Accepted)
<1>1. Init => Fresh
  BY DEF Init, Fresh
<1>2. Inv /\ Fresh =>
        (pc = "write" => <<msg, delivered[msg]>> \in Rows \ Sink!Accepted)
  <2> SUFFICES ASSUME Inv, Fresh, pc = "write"
               PROVE  <<msg, delivered[msg]>> \in Rows
    BY DEF Fresh
  <2>1. msg \in Offsets /\ delivered \in [Offsets -> Nat]
    BY DEF Inv, TypeOK, Shape, Handling
  <2>2. rejoins \in 0..MaxRejoins /\ delivered[msg] > 0
    BY DEF Inv, TypeOK, Counting, Handling
  <2>3. delivered[msg] <= 1 + rejoins
    BY <2>1, <2>2, LogFactsHold
    DEF Inv, LogFacts, Deliverable, Ahead, Fetched
  <2>4. delivered[msg] \in 1..(MaxRejoins + 1)
    BY <2>1, <2>2, <2>3, ConsumerAssumption
  <2> QED
    BY <2>1, <2>4 DEF Rows
<1> QED
  BY <1>1, <1>2, InvInit, InvStep, FreshStep, PTL DEF Spec

(***************************************************************************)
(* To its sink the consumer is a client like any other: every step of it   *)
(* is one of the sink, or none, in all lives of the process.  The Batcher, *)
(* which implements the sink, can therefore stand in its place.            *)
(***************************************************************************)
THEOREM UsesSink == Spec => Sink!Spec
<1>1. Init => Sink!Init
  BY DEF Init
<1>2. [Next]_vars => [Sink!Next]_(Sink!vars)
  BY SinkStep DEF sinkVars, Sink!vars
<1> QED
  BY <1>1, <1>2, PTL DEF Spec, Sink!Spec

-----------------------------------------------------------------------------
(***************************************************************************)
(* What batcher.Close can rely on: the loop has one batch at a time, and   *)
(* nobody writes to the buffer any more.                                   *)
(***************************************************************************)
Closing ==
  /\ pc \notin {"down", "flush", "exit"} => mine = {}
  /\ pc = "down" => writing = {}
  /\ pc \in {"flush", "exit"} => buffered = {}
  /\ pc = "exit" => mine \notin writing
  /\ {} \notin writing /\ \E b \in SUBSET Rows : writing \subseteq {mine, b}

ExitLeavesOneBatch ==
  pc = "exit" =>
    buffered = {} /\ \E b \in SUBSET Rows : writing \subseteq {b}

LEMMA ClosingStep == TypeOK /\ Closing /\ [Next]_vars => Closing'
<1> SUFFICES ASSUME TypeOK, Closing, [Next]_vars PROVE Closing'
  OBVIOUS
<1>1. PICK b \in SUBSET Rows : writing \subseteq {mine, b}
  BY DEF Closing
<1> USE DEF Closing
<1>2. CASE LoopFlush
  <2>1. /\ writing \subseteq {mine} /\ writing' = writing \cup {buffered}
        /\ buffered # {} /\ UNCHANGED <<pc, mine>> /\ pc # "down"
    BY <1>2 DEF LoopFlush, LoopReady, Sink!Take, process, Alive
  <2>2. buffered \in SUBSET Rows
    BY DEF TypeOK, Sink!TypeOK
  <2>3. pc \notin {"flush", "exit"}
    BY <2>1
  <2> QED
    BY <2>1, <2>2, <2>3
<1>3. CASE Upload
  <2>1. /\ writing' \subseteq writing /\ UNCHANGED <<buffered, pc, mine>>
    BY <1>3 DEF Upload, UploadOK, UploadFails, Sink!Store, Sink!Drop, process
  <2> QED
    BY <1>1, <2>1
<1>4. CASE CloseBatcher
  <2>1. /\ mine = {} /\ mine' = buffered /\ pc' = "flush" /\ buffered' = {}
        /\ \/ writing' = writing \cup {buffered} /\ buffered # {}
           \/ writing' = writing /\ buffered = {}
    BY <1>4 DEF CloseBatcher, Sink!Take, sinkVars
  <2>2. writing' \subseteq {mine', b} /\ {} \notin writing'
    BY <1>1, <2>1
  <2> QED
    BY <2>1, <2>2
<1>5. CASE CloseReturns
  <2>1. /\ UNCHANGED <<buffered, writing, mine>> /\ pc = "flush"
        /\ pc' = "exit" /\ mine \notin writing
    BY <1>5 DEF CloseReturns, Goto, sinkVars
  <2> QED
    BY <1>1, <2>1
<1>6. CASE Exit \/ Crash
  <2>1. writing' = {} /\ pc' = "down"
    BY <1>6 DEF Exit, Crash, Die, Sink!Abandon, Goto
  <2> QED
    BY <2>1
<1>7. CASE Start
  <2>1. /\ writing' = {} /\ mine' = {} /\ pc' = "loop"
    BY <1>7 DEF Start, sinkVars
  <2> QED
    BY <2>1
<1>8. CASE WriteRow
  <2>1. /\ UNCHANGED <<writing, mine>>
        /\ pc = "write" /\ pc' = "commit"
    BY <1>8 DEF WriteRow, Sink!Accept, Goto
  <2> QED
    BY <1>1, <2>1
<1>9. ASSUME UNCHANGED <<buffered, writing, mine>>,
             \/ pc' = pc
             \/ {pc, pc'} \cap {"down", "flush", "exit"} = {}
      PROVE  Closing'
  BY <1>1, <1>9
<1>10. CASE \/ Produce \/ Signal \/ Rejoin \/ CheckContext \/ ReadCancelled
            \/ ReadFetch \/ ReadReturns \/ ReadError
  BY <1>9, <1>10
  DEF Produce, Signal, Rejoin, CheckContext, ReadCancelled, ReadFetch,
      ReadReturns, ReadError, Goto, process, sinkVars
<1>11. CASE \/ DecodeOK \/ DecodeError \/ NextRetry \/ WriteFailed \/ Commit
            \/ UNCHANGED vars
  BY <1>9, <1>11
  DEF DecodeOK, DecodeError, NextRetry,
      WriteFailed, WriteFailedPanics, WriteFailedRefuses, Commit, Goto, vars,
      process, sinkVars
<1> QED
  BY <1>2, <1>3, <1>4, <1>5, <1>6, <1>7, <1>8, <1>10, <1>11 DEF Next, Main

(***************************************************************************)
(* What a graceful shutdown does flush: when main is through its deferred  *)
(* calls nothing is left in the buffer and the batch that Close took is    *)
(* uploaded or has failed.  Only the batch that the loop was uploading may *)
(* be lost with the process, which is what run consumer_exit shows.        *)
(***************************************************************************)
THEOREM ExitLosesOneBatch == Spec => []ExitLeavesOneBatch
<1>1. Init => Closing
  BY DEF Init, Closing, Sink!Init
<1>2. Closing => ExitLeavesOneBatch
  BY DEF Closing, ExitLeavesOneBatch
<1> QED
  BY <1>1, <1>2, TypeCorrect, ClosingStep, PTL DEF Spec
=============================================================================
